----------------------------- MODULE SseParser -----------------------------
(***************************************************************************)
(* sse.mjs: server-sent events read chunk by chunk.  A text is a sequence  *)
(* of symbols; "data" stands for the field name with its colon, CR and LF  *)
(* for themselves, every other symbol for a character of a value or of a   *)
(* line that is not ours.  Chunks end anywhere, also between CR and LF.    *)
(***************************************************************************)
EXTENDS Naturals, FiniteSets, Sequences, SequencesExt

CONSTANTS
  Letters,      \* the symbols a server may send, "data", CR and LF among them
  MaxLength     \* bound: symbols in one stream

CR == "CR"
LF == "LF"
DONE == "[DONE]"

VARIABLES
  text,         \* everything the server sends before it closes
  sent,         \* how much of it has arrived
  buffer,       \* the unconsumed tail of what has arrived
  data,         \* the data values of the event being assembled
  events,       \* the payloads handed on
  done,         \* [DONE] was dispatched
  ended         \* the reader has stopped

sseVars == <<text, sent, buffer, data, events, done, ended>>

-----------------------------------------------------------------------------
(* What one line means.                                                     *)

(* `dataValue`: a comment or another field carries none.                    *)
IsData(raw) == raw # <<>> /\ raw[1] = "data"
DataValue(raw) == Tail(raw)

(* data.join('\n'): the values of one event, of which there are some.       *)
Joined(values) == FoldLeft(LAMBDA joined, v : joined \o <<LF>> \o v, Head(values), Tail(values))

(* The state of the parser, and the two things a line does to it.           *)
Dispatch(p) ==
  LET payload == Joined(p.data)
      taken   == [p EXCEPT !.data = <<>>]
  IN  IF p.data = <<>> THEN p
      ELSE IF payload = <<DONE>> THEN [taken EXCEPT !.done = TRUE]
      ELSE IF payload = <<>> THEN taken
      ELSE [taken EXCEPT !.events = Append(@, payload)]

Line(p, raw) ==
  IF raw = <<>> THEN Dispatch(p)
  ELSE IF IsData(raw) THEN [p EXCEPT !.data = Append(@, DataValue(raw))]
  ELSE p

(* The end of the first line of a buffer and where the next begins, or 0s.  *)
(* A CR that ends the buffer may be half of a CR LF: it is left for the     *)
(* next chunk.                                                              *)
SeparatorAtOnce(b) == \* mutant: consumes a CR at the end of a buffer at once
  LET ends == {i \in 1 .. Len(b) : b[i] \in {CR, LF}} IN
  IF ends = {} THEN [at |-> 0, next |-> 0]
  ELSE LET i == CHOOSE i \in ends : \A j \in ends : i <= j IN
       [at |-> i, next |-> IF b[i] = CR /\ i < Len(b) /\ b[i + 1] = LF THEN i + 2 ELSE i + 1]

Separator(b) ==
  LET ends == {i \in 1 .. Len(b) : b[i] \in {CR, LF}} IN
  IF ends = {} THEN [at |-> 0, next |-> 0]
  ELSE LET i == CHOOSE i \in ends : \A j \in ends : i <= j IN
       IF b[i] = CR /\ i = Len(b) THEN [at |-> 0, next |-> 0]
       ELSE [at |-> i, next |-> IF b[i] = CR /\ b[i + 1] = LF THEN i + 2 ELSE i + 1]

(* `scanLines`: every complete line of the buffer, until [DONE].  A buffer  *)
(* of n symbols holds at most n lines.                                      *)
Stuck(q) == q.done \/ Separator(q.buffer).at = 0

Consume(q) ==
  LET s == Separator(q.buffer)
      r == Line(q, SubSeq(q.buffer, 1, s.at - 1))
  IN  [r EXCEPT !.buffer = IF r.done THEN <<>> ELSE SubSeq(q.buffer, s.next, Len(q.buffer))]

Scan(p) ==
  LET step[k \in 0 .. Len(p.buffer)] ==
        IF k = 0 THEN p ELSE IF Stuck(step[k - 1]) THEN step[k - 1] ELSE Consume(step[k - 1])
  IN  step[Len(p.buffer)]

Parser == [buffer |-> buffer, data |-> data, events |-> events, done |-> done]
Fed(p, chunk) == [p EXCEPT !.buffer = @ \o chunk]

Becomes(p) ==
  buffer' = p.buffer /\ data' = p.data /\ events' = p.events /\ done' = p.done

-----------------------------------------------------------------------------
SseInit ==
  /\ text \in BoundedSeq(Letters, MaxLength)
  /\ sent = 0 /\ buffer = <<>> /\ data = <<>> /\ events = <<>>
  /\ done = FALSE /\ ended = FALSE

(* `push`, then readSse's loop: after [DONE] it returns without reading on. *)
Push ==
  /\ ~ended /\ sent < Len(text)
  /\ \E n \in 1 .. Len(text) - sent :
       LET p == Scan(Fed(Parser, SubSeq(text, sent + 1, sent + n))) IN
       /\ sent' = sent + n
       /\ Becomes(p)
       /\ ended' = p.done
  /\ UNCHANGED text

(* `end`: the stream closed.  A CR held back ends the last line, and what   *)
(* is left of an event is dispatched.                                       *)
AtEndWithCR(p) == \* mutant: leaves a held-back CR on the last line
  LET q == IF p.buffer = <<>> THEN p ELSE Line(p, p.buffer)
  IN  Dispatch([q EXCEPT !.buffer = <<>>])

AtEnd(p) ==
  LET b == IF p.buffer # <<>> /\ Last(p.buffer) = CR THEN Front(p.buffer) ELSE p.buffer
      q == IF b = <<>> THEN p ELSE Line(p, b)
  IN  Dispatch([q EXCEPT !.buffer = <<>>])

End ==
  /\ ~ended /\ sent = Len(text)
  /\ Becomes(AtEnd(Parser))
  /\ ended' = TRUE
  /\ UNCHANGED <<text, sent>>

SseNext == Push \/ End

-----------------------------------------------------------------------------
(* The reference: the event stream format read off a finished text, by the  *)
(* places where something ends.                                             *)

(* A line ends at an LF or a CR, and a CR LF is one end.                    *)
LineEnds(t) == {i \in 1 .. Len(t) : t[i] = LF \/ (t[i] = CR /\ ~(i < Len(t) /\ t[i + 1] = LF))}

(* The line that ends at i, or that the text ends in if that is behind it.  *)
LineAt(t, i) ==
  LET ends == {0} \cup {j \in LineEnds(t) : j < i}
      from == 1 + CHOOSE j \in ends : \A k \in ends : k <= j
      upto == IF i <= Len(t) /\ t[i] = LF /\ i > from /\ t[i - 1] = CR THEN i - 2 ELSE i - 1
  IN  SubSeq(t, from, upto)

(* An event ends at an empty line, and the last one behind the last line.   *)
EventEnds(t) == {i \in LineEnds(t) : LineAt(t, i) = <<>>} \cup {Len(t) + 2}

(* The data lines of the event that ends at e.                              *)
OwnLines(t, e) ==
  {i \in LineEnds(t) \cup {Len(t) + 1} :
     i < e /\ IsData(LineAt(t, i)) /\ \A b \in EventEnds(t) : ~(i < b /\ b < e)}

Nth(places, n) == CHOOSE i \in places : Cardinality({j \in places : j <= i}) = n

Values(t, places) == [n \in 1 .. Cardinality(places) |-> DataValue(LineAt(t, Nth(places, n)))]
Payload(t, e) == Joined(Values(t, OwnLines(t, e)))
Payloads(t, places) == [n \in 1 .. Cardinality(places) |-> Payload(t, Nth(places, n))]

(* [DONE] is no payload, nor is an event of empty values, and nothing       *)
(* follows [DONE].                                                          *)
Stops(t) == {e \in EventEnds(t) : OwnLines(t, e) # {} /\ Payload(t, e) = <<DONE>>}
Handed(t) ==
  {e \in EventEnds(t) :
     OwnLines(t, e) # {} /\ Payload(t, e) \notin {<<>>, <<DONE>>} /\ \A s \in Stops(t) : e < s}

Reference(t) == Payloads(t, Handed(t))
SawDone(t) == Stops(t) # {}

(* What the reader hands on is what the format says of the whole text, never *)
(* an event early, and it ends knowing whether [DONE] was among them.       *)
(* (sse.mjs createSseParser)                                                *)
StreamIsRead ==
  /\ IsPrefix(events, Reference(text))
  /\ ended => events = Reference(text) /\ done = SawDone(text)

(* However a stream is cut into chunks, also inside a CR LF, the parser is   *)
(* where one chunk of all that has arrived takes it, and the reader ends as *)
(* it does when the whole text comes in one.  (sse.mjs scanLines' held-back *)
(* CR, push, end)                                                           *)
Fresh == [buffer |-> <<>>, data |-> <<>>, events |-> <<>>, done |-> FALSE]

AtOnce(t) ==
  LET p == Scan(Fed(Fresh, t)) IN IF p.done THEN p ELSE AtEnd(p)

CutsDontMatter ==
  /\ ~ended => Parser = Scan(Fed(Fresh, SubSeq(text, 1, sent)))
  /\ ended => Parser = AtOnce(text)

(* The events are those of the whole text and of no cut of it: what one     *)
(* chunk would give, and what the format says.                              *)
ChunksDontMatter == CutsDontMatter /\ StreamIsRead
=============================================================================
