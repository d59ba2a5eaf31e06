-------------------------- MODULE FindingsReading --------------------------
(***************************************************************************)
(* Reading findings out of what a model wrote: structured.mjs, json-scan,  *)
(* findings-candidate, findings-yaml, findings-empty and review-unparsed.  *)
(* A channel's text is a sequence of blocks, the pieces its readers can    *)
(* tell apart; the characters inside a block are left out.                 *)
(***************************************************************************)
EXTENDS Naturals, Sequences, FiniteSets, SequencesExt

CONSTANTS
  Blocks,       \* the blocks a model writes
  MaxBlocks,    \* bound: blocks in the content channel
  Drafts        \* the texts of the reasoning channel

(* What an element of a findings list is: it names a file and a summary;    *)
(* a file and a message; an object with neither; no object at all; or a     *)
(* whole reply of its own, around one named finding.                        *)
Entries == {"named", "message", "record", "junk", "wrapper"}
Record(entry) == entry # "junk"

(* Blocks.  `stray` holds an odd number of quotes, `code` brackets that are *)
(* no findings list, `empty` is the line `findings: []`.  A json block is a *)
(* list, bare or wrapped in an object, and full when that object has what   *)
(* the schema requires.  A yaml block is a `findings:` key and its items,   *)
(* plain when no value needs a real YAML parser.                            *)
Prose == [kind |-> "prose"]
Stray == [kind |-> "stray"]
Code  == [kind |-> "code"]
EmptyList == [kind |-> "empty"]
Json(wrapped, full, list) == [kind |-> "json", wrapped |-> wrapped, full |-> full, list |-> list]
Yaml(plain, list) == [kind |-> "yaml", plain |-> plain, list |-> list]

ASSUME ReadingAssumption ==
  /\ \A b \in Blocks :
       \/ b \in {Prose, Stray, Code, EmptyList}
       \/ b.kind \in {"json", "yaml"} /\ b.list \in Seq(Entries)
  /\ \A draft \in Drafts : draft \in Seq(Blocks)

VARIABLES
  content, reasoning,   \* the two channels of the reply
  structured,           \* a schema was in force
  cut,                  \* finish_reason is 'length'
  outcome               \* what the reader is given

readVars == <<content, reasoning, structured, cut, outcome>>

-----------------------------------------------------------------------------
(* findings-candidate.mjs: is this list a candidate?  `whole` says that it  *)
(* was the entire reply.                                                    *)
ShapedAlike(list, whole) == \* mutant: holds a scanned list to no more than a whole reply
  \A i \in DOMAIN list : Record(list[i])

FindingsShaped(list, whole) ==
  \/ \E i \in DOMAIN list : list[i] = "named"
  \/ whole /\ \A i \in DOMAIN list : Record(list[i])

(* json-scan.mjs `scanFor`: one unbalanced quote hides every bracket up to  *)
(* the next.                                                                *)
InString(text, i) == Cardinality({k \in 1 .. i - 1 : text[k] = Stray}) % 2 = 1

(* What a scanned block holds: its own list or, when that is no candidate,  *)
(* the wrappers among its elements, which read alike.                       *)
Inner == Json(TRUE, FALSE, <<"named">>)

HasCandidate(b) == FindingsShaped(b.list, FALSE) \/ \E i \in DOMAIN b.list : b.list[i] = "wrapper"
Outermost(b) == IF FindingsShaped(b.list, FALSE) THEN b ELSE Inner

Scanned(text) ==
  {i \in DOMAIN text : text[i].kind = "json" /\ ~InString(text, i) /\ HasCandidate(text[i])}

(* `extractJson`: the whole reply if it is a candidate, else the last       *)
(* outermost one.                                                           *)
NoPayload == [kind |-> "none"]
WholeIsJson(text) == Len(text) = 1 /\ text[1].kind = "json" /\ FindingsShaped(text[1].list, TRUE)

ExtractFirst(text) == \* mutant: the first candidate wins
  IF WholeIsJson(text) THEN text[1]
  ELSE IF Scanned(text) = {} THEN NoPayload ELSE Outermost(text[Min(Scanned(text))])

ExtractJson(text) ==
  IF WholeIsJson(text) THEN text[1]
  ELSE IF Scanned(text) = {} THEN NoPayload ELSE Outermost(text[Max(Scanned(text))])

(* findings-yaml.mjs: the whole document or nothing.                        *)
FindingsInYaml(text) ==
  IF Len(text) = 1 /\ text[1].kind = "yaml" /\ text[1].plain THEN text[1] ELSE NoPayload

(* findings-empty.mjs: opens with `findings: []`, and below it no second    *)
(* key and no bracket.                                                      *)
EmptyByFirstLine(text) == \* mutant: reads `findings: []` whatever follows it
  IF text # <<>> /\ text[1] = EmptyList THEN Json(TRUE, FALSE, <<>>) ELSE NoPayload

EmptyFindingsDocument(text) ==
  IF text # <<>> /\ text[1] = EmptyList /\ \A i \in 2 .. Len(text) : text[i].kind \in {"prose", "stray"}
    THEN Json(TRUE, FALSE, <<>>) ELSE NoPayload

(* The first reader that finds something; a schema leaves only JSON.        *)
Found(text, constrained) ==
  IF ~constrained /\ FindingsInYaml(text) # NoPayload THEN FindingsInYaml(text)
  ELSE IF constrained \/ ExtractJson(text) # NoPayload THEN ExtractJson(text)
  ELSE EmptyFindingsDocument(text)

(* `matchesSchema` of what was read; a bare list and YAML never match.      *)
MatchesSchema(b) == b.kind = "json" /\ b.wrapped /\ b.full /\ \A i \in DOMAIN b.list : b.list[i] = "named"

(* `normalizeFinding`: what can be shown as a finding.                      *)
Usable(list) == Cardinality({i \in DOMAIN list : list[i] \in {"named", "message"}})

Unreadable == [kind |-> "unreadable"]

(* `findingsIn`: one channel.                                               *)
FindingsIn(text, constrained) ==
  LET found == Found(text, constrained)
      list  == found.list
  IN  IF found = NoPayload \/ (constrained /\ ~MatchesSchema(found)) THEN NoPayload
      ELSE IF list # <<>> /\ Usable(list) = 0 THEN Unreadable
      ELSE [kind |-> "findings", kept |-> Usable(list), dropped |-> Len(list) - Usable(list)]

(* `parseFindings`: the first channel that answers decides; `reasoning` is  *)
(* read only under a schema.                                                *)
ParseFindings ==
  LET primary == FindingsIn(content, structured) IN
  IF primary = NoPayload /\ structured
    THEN [reading |-> FindingsIn(reasoning, TRUE), channel |-> "reasoning"]
    ELSE [reading |-> primary, channel |-> "content"]

(* review-unparsed.mjs: a cut reply is a failure; a schema lets both        *)
(* channels be shown; otherwise content is shown, or the run is refused.    *)
UnparsedPreferred == \* mutant: shows the content channel when there is one
  LET shown == IF content # <<>> THEN {"content"}
               ELSE IF structured /\ reasoning # <<>> THEN {"reasoning"} ELSE {}
  IN  IF cut \/ shown = {} THEN [kind |-> "refused"] ELSE [kind |-> "verbatim", shown |-> shown]

UnparsedReply ==
  LET shown == {c \in {"content", "reasoning"} :
                  IF c = "content" THEN content # <<>> ELSE structured /\ reasoning # <<>>}
  IN  IF cut \/ shown = {} THEN [kind |-> "refused"] ELSE [kind |-> "verbatim", shown |-> shown]

-----------------------------------------------------------------------------
Texts == BoundedSeq(Blocks, MaxBlocks)
Pending == [kind |-> "pending"]

ReadInit ==
  /\ content \in Texts
  /\ reasoning \in Drafts
  /\ structured \in BOOLEAN /\ cut \in BOOLEAN
  /\ outcome = Pending

Report ==
  /\ outcome = Pending
  /\ ParseFindings.reading.kind = "findings"
  /\ outcome' = [kind |-> "findings", channel |-> ParseFindings.channel,
                 kept |-> ParseFindings.reading.kept, dropped |-> ParseFindings.reading.dropped]
  /\ UNCHANGED <<content, reasoning, structured, cut>>

ShowVerbatim ==
  /\ outcome = Pending
  /\ ParseFindings.reading.kind # "findings"
  /\ outcome' = UnparsedReply
  /\ UNCHANGED <<content, reasoning, structured, cut>>

ReadNext == Report \/ ShowVerbatim

-----------------------------------------------------------------------------
TextOf(channel) == IF channel = "content" THEN content ELSE reasoning
Offers(b) == b.kind \in {"json", "yaml"} /\ \E i \in DOMAIN b.list : b.list[i] \in {"named", "message", "wrapper"}

(* A review is reported clean only when the text it was read from offers no *)
(* finding in any spelling, wherever it stands: no decoy, quoted example,   *)
(* draft or blinded bracket turns a defect into a clean result.             *)
(* (findings-candidate.mjs findingsShaped, findings-empty.mjs, structured's *)
(* all-dropped rule)                                                        *)
CleanIsTrue ==
  outcome.kind = "findings" /\ outcome.kept = 0
    => \A i \in DOMAIN TextOf(outcome.channel) : ~Offers(TextOf(outcome.channel)[i])

(* The last list that names a finding is the one read, with every finding in *)
(* it kept and the rest counted, whatever drafts, quoted code, empty lists or *)
(* other lists stand before it and whatever prose and code after it, unless  *)
(* an unbalanced quote hides it.                                             *)
(* (json-scan.mjs extractJson, findings-candidate.mjs)                      *)
PayloadWins ==
  \A i \in DOMAIN content :
    /\ outcome # Pending /\ ~structured
    /\ content[i].kind = "json" /\ \E k \in DOMAIN content[i].list : content[i].list[k] = "named"
    /\ ~InString(content, i)
    /\ \A j \in DOMAIN content : j > i => ~Offers(content[j])
    => outcome = [kind |-> "findings", channel |-> "content", kept |-> Usable(content[i].list),
                  dropped |-> Len(content[i].list) - Usable(content[i].list)]

(* What the model wrote instead of findings is not lost either: a run that  *)
(* reports none of the lists it was given shows the text they stand in, or  *)
(* fails.  (review-unparsed.mjs unparsedReply)                              *)
EvidenceIsShown ==
  outcome.kind = "verbatim" =>
    \A c \in {"content", "reasoning"} :
      (c = "content" \/ structured) /\ (\E i \in DOMAIN TextOf(c) : Offers(TextOf(c)[i]))
        => c \in outcome.shown

(* What a review says of a reply is what the reply says: a clean result is   *)
(* clean, the list that was meant is the one read, and what cannot be read   *)
(* is shown.  (structured.mjs, json-scan.mjs, review-unparsed.mjs)           *)
ReadingIsTrue == CleanIsTrue /\ PayloadWins /\ EvidenceIsShown
=============================================================================
