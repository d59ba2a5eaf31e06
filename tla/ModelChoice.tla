---------------------------- MODULE ModelChoice ----------------------------
(***************************************************************************)
(* Which model a run asks, and how large its window is: model-info.mjs     *)
(* reads what the server says of its models, model-selection.mjs chooses.  *)
(* The server may load or unload a model between any two requests.  A      *)
(* window is named after the model, or the server, that stated it.         *)
(***************************************************************************)
EXTENDS Naturals, Sequences, SequencesExt

CONSTANTS
  Ids,          \* what models are called
  Servers,      \* the servers a run may meet
  Asks,         \* what the user names and configures
  KeyOf,        \* an id without its quantization suffix and case
  MaxChanges    \* bound: models loaded or unloaded during a run

(* A server is one of these kinds; it lists `listed` at /v1/models and      *)
(* `catalogue` at its own endpoint, holds `loaded` in memory, and the       *)
(* models of the keys `embeds` are embedding models.                        *)
Kinds == {"plain", "vllm", "lmstudio", "llamacpp", "omlx", "mtplx", "unsloth", "engine", "gateway"}

ASSUME ServersAssumption ==
  Servers \subseteq [kind: Kinds, listed: Seq(Ids), catalogue: Seq(Ids), loaded: SUBSET Ids, embeds: SUBSET Ids]

No == "(none)"
Model(id, type, state, window) == [id |-> id, type |-> type, state |-> state, window |-> window]
Described(models, source, catalogue, loadedOnly) ==
  [models |-> models, source |-> source, catalogue |-> catalogue, loadedOnly |-> loadedOnly]

VARIABLES
  server, changes,  \* the server, and how often it has changed
  ask,              \* [named, preset, configured, query]
  step,             \* this run's next step
  query,            \* the profile's: "none", "kept", "dropped" for vMLX, "restored"
  reading,          \* what /health said
  listing,          \* the ids of /v1/models
  found,            \* what discovery found out
  choice,           \* the model and its window, or why there is none
  woken             \* the routed requests a sleeping gateway was sent

choiceVars == <<server, changes, ask, step, query, reading, listing, found, choice, woken>>

Key(id) == IF id \in DOMAIN KeyOf THEN KeyOf[id] ELSE id

-----------------------------------------------------------------------------
(* `merge`: the listing's ids are what can be asked for; a dialect adds to  *)
(* them what it says under the same spelling, or else the same key.         *)
Join(id, models, serverWide) ==
  LET exact == {i \in DOMAIN models : models[i].id = id}
      near  == {i \in DOMAIN models : Key(models[i].id) = Key(id)}
      from  == IF exact # {} THEN models[Max(exact)]
               ELSE IF near # {} THEN models[Max(near)] ELSE Model(id, No, No, No)
  IN  [id |-> id, type |-> from.type, state |-> from.state, exact |-> exact # {},
       window |-> IF serverWide THEN "server" ELSE from.window]

Merge(ids, models, source, serverWide, loadedOnly) ==
  LET offered == IF ids # <<>> THEN ids ELSE [i \in DOMAIN models |-> models[i].id]
  IN  Described([i \in DOMAIN offered |-> Join(offered[i], models, serverWide)], source,
                {models[i].id : i \in DOMAIN models}, loadedOnly)

Unrecognised(ids) ==
  Described([i \in DOMAIN ids |-> Join(ids[i], <<>>, FALSE)], No, {}, FALSE)
NoProvider == Unrecognised(<<>>)

(* The dialects.                                                            *)
Loaded(s, id) == id \in s.loaded
Held(ids, s) == {i \in DOMAIN ids : Loaded(s, ids[i])}
Windowed(ids, S) == [i \in S |-> Model(ids[i], No, No, ids[i])]

ReadLmStudio(s) ==
  [i \in DOMAIN s.catalogue |->
    LET id == s.catalogue[i] IN
    Model(id, IF Key(id) \in s.embeds THEN "embeddings" ELSE "llm",
          IF Loaded(s, id) THEN "loaded" ELSE "not-loaded", IF Loaded(s, id) THEN id ELSE No)]

ReadUnsloth(s) ==
  [i \in DOMAIN s.listed |->
    LET id == s.listed[i] IN
    Model(id, No, IF Loaded(s, id) THEN "loaded" ELSE "not-loaded", IF Loaded(s, id) THEN id ELSE No)]

(* `readVmlxHealth` and `vmlxKind`: an engine says what it holds; a gateway *)
(* lists sessions, of which it answers for one when all of them run.        *)
FirstHeld(s) ==
  LET held == Held(s.catalogue, s) IN IF held = {} THEN No ELSE s.catalogue[Min(held)]
Sleeps(s) == s.kind = "gateway" /\ ToSet(s.catalogue) \ s.loaded # {}
Health(s) ==
  CASE s.kind = "engine"  -> [kind |-> "engine", holds |-> FirstHeld(s)]
    [] s.kind = "gateway" -> [kind |-> "gateway", holds |-> IF Sleeps(s) THEN No ELSE FirstHeld(s)]
    [] OTHER              -> [kind |-> "other", holds |-> No]
Unread == [kind |-> "unread", holds |-> No]
Inconclusive == [kind |-> "inconclusive", holds |-> No]
IsVmlx(r) == r.kind \in {"engine", "gateway"}

(* A request the gateway routes to a session wakes one that sleeps.         *)
Routed(what) == woken' = IF Sleeps(server) THEN woken \cup {what} ELSE woken

-----------------------------------------------------------------------------
(* `planSelection`: what was named, then what was configured, then the one  *)
(* model there is evidence for.                                             *)
Problem(why) == [kind |-> "problem", model |-> No, because |-> why]
Chosen(id, because) == [kind |-> "chosen", model |-> id, because |-> because]

UnservedByListing(id, d) == \* mutant: an id the listing omits is refused
  d.models # <<>> /\ id \notin {d.models[i].id : i \in DOMAIN d.models}
Unserved(id, d) ==
  /\ d.models # <<>> /\ d.catalogue # {}
  /\ id \notin d.catalogue \cup {d.models[i].id : i \in DOMAIN d.models}

StatesStated(ms) == \A m \in ms : m.state # No \* mutant: a state joined by key is believed
StatesUsable(ms) == \A m \in ms : m.state # No /\ m.exact

AutoSelect(d) ==
  LET candidates == {i \in DOMAIN d.models : d.models[i].type # "embeddings"}
      loaded == {i \in candidates : d.models[i].state = "loaded"}
      Sole(S) == \E i \in S : S = {i}
      TheOne(S) == d.models[CHOOSE i \in S : TRUE]
      sole == TheOne(candidates)
  IN  IF candidates = {} THEN Problem("no chat model")
      ELSE IF Sole(candidates) /\ (d.loadedOnly => sole.state = "loaded")
        THEN Chosen(sole.id, IF ~(d.loadedOnly \/ StatesUsable({sole})) THEN "sole"
                             ELSE IF sole.state = "loaded" THEN "loaded" ELSE "sole-not-loaded")
      ELSE IF ~StatesUsable({d.models[i] : i \in candidates}) THEN Problem("states unknown")
      ELSE IF Sole(loaded) THEN Chosen(TheOne(loaded).id, "loaded")
      ELSE Problem(IF loaded = {} THEN "none loaded" ELSE "several loaded")

PlanSelection(a, d) ==
  LET embeds(id) == \E i \in DOMAIN d.models : d.models[i].id = id /\ d.models[i].type = "embeddings"
      named == IF a.named # No THEN a.named ELSE a.preset
  IN  IF named = No THEN AutoSelect(d)
      ELSE IF Unserved(named, d) THEN Problem("unserved")
      ELSE IF a.named = No /\ embeds(named) THEN Problem("embeds")
      ELSE Chosen(named, "named")

(* `effectiveWindow`: a configured window is used; a detected one is told.  *)
EffectiveWindow(a, d) ==
  LET plan == PlanSelection(a, d)
      own  == {i \in DOMAIN d.models : d.models[i].id = plan.model}
      detected == IF own = {} THEN No ELSE d.models[Min(own)].window
  IN  [kind |-> plan.kind, model |-> plan.model, because |-> plan.because, detected |-> detected,
       window |-> IF a.configured THEN "config" ELSE detected]
Undecided == [kind |-> "undecided"]
Unreachable == [kind |-> "unreachable"]

-----------------------------------------------------------------------------
NoServer == [listed |-> <<>>, catalogue |-> <<>>]
NoAsk == [named |-> No, preset |-> No]

ChoiceIdle ==
  /\ server = NoServer /\ changes = 0 /\ ask = NoAsk
  /\ step = "chosen" /\ query = "none"
  /\ reading = Unread /\ listing = <<>> /\ found = NoProvider
  /\ choice = Undecided /\ woken = {}

BeginChoice ==
  /\ server' \in Servers /\ ask' \in Asks
  /\ step' = IF ask'.query THEN "health" ELSE "listing"
  /\ query' = IF ask'.query THEN "kept" ELSE "none"
  /\ UNCHANGED <<changes, reading, listing, found, choice, woken>>

EndChoice ==
  /\ server' = NoServer /\ changes' = 0 /\ ask' = NoAsk
  /\ step' = "chosen" /\ query' = "none"
  /\ reading' = Unread /\ listing' = <<>> /\ found' = NoProvider
  /\ choice' = Undecided /\ woken' = {}

Finds(d) == found' = d /\ step' = "choose"

(* `discoverModels`: with a query, vMLX is recognised first, and the query  *)
(* is dropped for it.  Any probe may fail or run out of time.               *)
HealthFirst ==
  /\ step = "health"
  /\ reading' \in {Health(server), Inconclusive}
  /\ query' = IF IsVmlx(reading') THEN "dropped" ELSE "kept"
  /\ step' = "listing"
  /\ UNCHANGED <<server, changes, ask, listing, found, choice, woken>>

(* `describeModels`, on the listing alone where that says whose it is.      *)
ReadListing ==
  /\ step = "listing"
  /\ listing' = server.listed
  /\ CASE server.kind = "mtplx" /\ listing' # <<>>   -> step' = "mtplx" /\ UNCHANGED found
       [] server.kind = "unsloth" /\ listing' # <<>> ->
            /\ found' = Merge(listing', ReadUnsloth(server), "unsloth", FALSE, TRUE)
            /\ step' = "checks"
       [] server.kind = "vllm" /\ Held(listing', server) # {} ->
            Finds(Merge(listing', Windowed(listing', Held(listing', server)), "vllm", FALSE, FALSE))
       [] OTHER -> step' = "vmlx" /\ UNCHANGED found
  /\ IF query \in {"kept", "restored"} THEN Routed("listing") ELSE UNCHANGED woken
  /\ UNCHANGED <<server, changes, ask, query, reading, choice>>

(* A refused query-free listing brings the query back; otherwise the run    *)
(* goes on without knowing anything, if a model was named.                  *)
ListingFails ==
  /\ step = "listing"
  /\ \E auth \in BOOLEAN :
       IF auth /\ query = "dropped"
         THEN query' = "restored" /\ UNCHANGED <<step, choice>>
         ELSE /\ choice' = IF ask.named = No /\ ask.preset = No THEN Unreachable
                           ELSE EffectiveWindow(ask, NoProvider)
              /\ step' = "chosen" /\ UNCHANGED query
  /\ IF query \in {"kept", "restored"} THEN Routed("listing") ELSE UNCHANGED woken
  /\ UNCHANGED <<server, changes, ask, reading, listing, found>>

(* One window for the whole listing.                                        *)
ReadMtplx ==
  /\ step = "mtplx"
  /\ Finds(Merge(listing, Windowed(listing, DOMAIN listing), "mtplx", TRUE, FALSE))
  /\ UNCHANGED <<server, changes, ask, query, reading, listing, choice, woken>>

MtplxFails ==
  /\ step = "mtplx"
  /\ Finds([Unrecognised(listing) EXCEPT !.catalogue = ToSet(listing)])
  /\ UNCHANGED <<server, changes, ask, query, reading, listing, choice, woken>>

(* `probeUnsloth`: every model said to be loaded is asked about, and one    *)
(* that does not answer has no known state.                                 *)
CheckEmbeddings ==
  /\ step = "checks"
  /\ \E answered \in SUBSET {i \in DOMAIN listing : found.models[i].state = "loaded"} :
       Finds([found EXCEPT !.models = [i \in DOMAIN listing |->
         IF found.models[i].state # "loaded" THEN found.models[i]
         ELSE IF i \notin answered THEN [found.models[i] EXCEPT !.state = No]
         ELSE IF Key(listing[i]) \in server.embeds THEN [found.models[i] EXCEPT !.type = "embeddings"]
         ELSE found.models[i]]])
  /\ UNCHANGED <<server, changes, ask, query, reading, listing, choice, woken>>

(* `probeVmlx`: what /health cannot say is left unknown, and no request     *)
(* that would wake a sleeper is sent to find out.                           *)
ProbesOn(r) == \* mutant: an unread /health is taken for another server's
  r.kind \in {"other", "inconclusive"}
ProbesNative(r) == r.kind = "other"

ReadVmlx(id) ==
  [Merge(listing, <<Model(id, No, No, id)>>, "vmlx", FALSE, FALSE) EXCEPT !.catalogue = {}]

ProbeVmlx ==
  /\ step = "vmlx"
  /\ reading' \in IF reading = Unread THEN {Health(server), Inconclusive} ELSE {reading}
  /\ CASE ProbesNative(reading') -> step' = "native" /\ UNCHANGED found
       [] reading'.kind = "engine" /\ reading'.holds # No -> Finds(ReadVmlx(reading'.holds))
       [] reading'.kind = "gateway" /\ reading'.holds # No -> step' = "capabilities" /\ UNCHANGED found
       [] OTHER -> Finds(Unrecognised(listing))
  /\ UNCHANGED <<server, changes, ask, query, listing, choice, woken>>

AskCapabilities ==
  /\ step = "capabilities"
  /\ Routed("capabilities")
  /\ \/ Finds(Unrecognised(listing))
     \/ FirstHeld(server) # No /\ Finds(ReadVmlx(FirstHeld(server)))
  /\ UNCHANGED <<server, changes, ask, query, reading, listing, choice>>

(* The native probes, in their order; each but a server's own finds no one. *)
ProbeNative ==
  /\ step = "native"
  /\ Routed("native")
  /\ \/ Finds(Unrecognised(listing))
     \/ /\ server.kind = "lmstudio" /\ server.catalogue # <<>>
        /\ Finds(Merge(listing, ReadLmStudio(server), "lmstudio", FALSE, FALSE))
     \/ /\ server.kind = "llamacpp"
        /\ Finds(Merge(listing, <<>>, "llamacpp", TRUE, FALSE))
     \/ /\ server.kind = "omlx" /\ server.catalogue # <<>>
        /\ Finds(Merge(listing, Windowed(server.catalogue, DOMAIN server.catalogue), "omlx", FALSE, FALSE))
  /\ UNCHANGED <<server, changes, ask, query, reading, listing, choice>>

(* `resolveTarget`.                                                         *)
Choose ==
  /\ step = "choose"
  /\ choice' = EffectiveWindow(ask, found)
  /\ step' = "chosen"
  /\ UNCHANGED <<server, changes, ask, query, reading, listing, found, woken>>

(* A model is loaded or unloaded by somebody else.                          *)
ServerChanges ==
  /\ changes < MaxChanges /\ step # "chosen"
  /\ \E id \in ToSet(server.listed) \cup ToSet(server.catalogue) :
       server' = [server EXCEPT !.loaded = (@ \cup {id}) \ (@ \cap {id})]
  /\ changes' = changes + 1
  /\ UNCHANGED <<ask, step, query, reading, listing, found, choice, woken>>

ChoiceNext ==
  \/ HealthFirst \/ ReadListing \/ ListingFails \/ ReadMtplx \/ MtplxFails \/ CheckEmbeddings
  \/ ProbeVmlx \/ AskCapabilities \/ ProbeNative \/ Choose \/ ServerChanges

-----------------------------------------------------------------------------
(* On a server that holds still, the model nobody named is one it offers;   *)
(* it is no embedding model, where the server says which those are; beside  *)
(* other chat models it is the only one in memory; "loaded" is said of a    *)
(* loaded one; and the window is one this model, or another spelling of it, *)
(* has.  No record of a sibling quantization decides.  (model-info.mjs      *)
(* merge, model-selection.mjs autoSelect)                                   *)
ChoiceIsTrue ==
  choice.kind = "chosen" /\ changes = 0 =>
    LET auto    == choice.because # "named"
        offered == IF listing # <<>> THEN ToSet(listing) ELSE {m.id : m \in ToSet(found.models)}
        chat    == {id \in offered \ {choice.model} : Key(id) \notin server.embeds}
        tells   == \/ found.source = "unsloth"
                   \/ found.source = "lmstudio" /\ Key(choice.model) \in {Key(id) : id \in found.catalogue}
        stated  == found.source \in {"lmstudio", "unsloth"}
    IN  /\ auto => choice.model \in offered
        /\ auto /\ tells => Key(choice.model) \notin server.embeds
        /\ auto /\ chat # {} => choice.model \in server.loaded /\ chat \cap server.loaded = {}
        /\ choice.because = "loaded" => choice.model \in server.loaded
        /\ choice.detected \notin {No, "server"} =>
             Key(choice.detected) = Key(choice.model) /\ (stated => choice.detected \in server.loaded)

(* A model the user named, or configured, is refused only where the server  *)
(* published a catalogue of its own and neither that nor the listing has    *)
(* it, or where it is an embedding model; a server that cannot be described *)
(* is asked for it all the same.  (model-selection.mjs unservedProblem,     *)
(* delegate.mjs describeProvider)                                           *)
NamedIsKept ==
  LET wanted == IF ask.named # No THEN ask.named ELSE ask.preset
      own    == IF server.kind \in {"lmstudio", "omlx"} THEN ToSet(server.catalogue) ELSE {}
  IN  wanted # No /\ choice.kind \notin {"undecided", "chosen"} =>
        \/ /\ server.kind \in {"vllm", "lmstudio", "omlx", "mtplx", "unsloth"}
           /\ wanted \notin ToSet(server.listed) \cup own
        \/ ask.named = No /\ Key(wanted) \in server.embeds

(* Looking for a window wakes no sleeping vMLX session: once /health has    *)
(* told what it is, or told nothing, only a query-free listing refused for  *)
(* want of its query sends one a request that it would route.               *)
(* (model-info.mjs probeVmlx, discoverModels)                               *)
SleepersAreLeft ==
  changes = 0 =>
    /\ woken \subseteq {"listing"}
    /\ woken # {} => query = "restored" \/ reading = Inconclusive

(* A server is described without waking what sleeps on it; the model that is *)
(* asked is then the user's, or one the description bears out.               *)
(* (model-info.mjs describeModels, model-selection.mjs selectModel)          *)
DiscoveryIsSound == ChoiceIsTrue /\ NamedIsKept /\ SleepersAreLeft
=============================================================================
