---------------------------- MODULE HttpExchange ----------------------------
(***************************************************************************)
(* One HTTP request, from `send` to the answer or the failure its caller   *)
(* is given: the timers that bound it, the socket, and the reader of the   *)
(* body, which is a stream of events, a JSON document or an error body.    *)
(*                                                                         *)
(* An action is one callback of the event loop with the microtasks that    *)
(* follow it.  The loop keeps no promise about the order of callbacks that *)
(* are due together, so here they come in any order.  Time passes only     *)
(* when nothing is due: a timer runs late by less than a tick.             *)
(***************************************************************************)
EXTENDS Integers, Sequences

CONSTANTS
  Requests,   \* the requests considered
  ErrorIdle,  \* ERROR_BODY_IDLE_MS, in ticks
  ErrorChars, \* ERROR_BODY_CHARS, in chunks
  MaxChars,   \* MAX_COMPLETION_CHARS, in chunks
  Frames,     \* bound: the stream frames a server may send, some of AllFrames
  ChunkLen,   \* bound: events that may arrive in one chunk
  MaxText     \* bound: frames carrying text are counted up to here

(* `cap` is what is left of --max-seconds, 0 without one; `cutoff` the       *)
(* reasoning, in frames, a caller with a reserve puts up with, or 0.         *)
ASSUME RequestsAssumption ==
  Requests \subseteq [plane: {"chat", "control"}, firstByte: Nat \ {0}, cap: Nat,
                      idle: Nat \ {0}, cutoff: Nat]
ASSUME LimitsAssumption ==
  /\ ErrorIdle \in Nat \ {0} /\ ErrorChars \in Nat \ {0} /\ MaxChars \in Nat \ {0}
  /\ ChunkLen \in Nat /\ MaxText \in Nat \ {0}
  /\ \A r \in Requests : r.cutoff <= MaxText

VARIABLES
  req,      \* the request
  phase,    \* who is being waited for, and by whom
  left,     \* ticks until each timer fires, or Off
  naming,   \* the budget the reader's own timer stands for
  idleMs,   \* state.idleMs, 0 for null
  received, \* state.received is not 0
  aborted,  \* state.aborted
  expired,  \* collectStream's `expired`
  sock,     \* the connection
  buffer,   \* events parsed from the chunk being read
  answer,   \* what has been folded in
  size,     \* chunks of a document read so far
  result,   \* what the caller is given
  age, heard, cut, lastWord \* history: ticks since `send`, whether headers came, whether
                            \* the peer broke the connection, how generation last stood

readVars == <<buffer, answer, size>>
history == <<heard, cut, lastWord>>
vars == <<req, phase, left, naming, idleMs, received, aborted, expired, sock,
          readVars, result, age, history>>

-----------------------------------------------------------------------------
(* What a server may send. *)

AllFrames ==
  {e \in [kind: {"frame"}, text: {"none", "blank", "think", "say"}, error: BOOLEAN,
          finish: {"none", "stop", "error"}, choices: BOOLEAN] :
     e.text # "none" \/ e.finish # "none" => e.choices}

Other(kind) ==
  [kind |-> kind, text |-> "none", error |-> FALSE, finish |-> "none", choices |-> FALSE]
Events == AllFrames \cup {Other("done"), Other("junk")}

ASSUME FramesAssumption == Frames \subseteq AllFrames

(* What the parser makes of a chunk; none for a comment or half a frame.     *)
Chunks == UNION {[1 .. n -> Frames \cup {Other("done"), Other("junk")}] : n \in 0 .. ChunkLen}

Carries(e) == e.text \in {"think", "say"}

-----------------------------------------------------------------------------
(* completion.mjs: what a reply amounts to. *)

Reasons ==
  {"none", "answer", "first-byte-timeout", "total-timeout", "deadline-timeout",
   "first-token-timeout", "idle-timeout", "transport", "non-retryable-transport",
   "protocol", "bad-json", "http-status", "token-reserve-cutoff", "stream-error-frame",
   "stream-unfinished", "empty-completion", "blank-completion"}

Failure(reason, responded) == [reason |-> reason, responded |-> responded]
NoError == Failure("none", FALSE)

EmptyAnswer ==
  [think |-> 0, say |-> 0, saw |-> FALSE, stated |-> FALSE, finish |-> "none", done |-> FALSE]

FinishStays(a, e) == IF e.finish # "none" THEN e.finish ELSE a.finish \* mutant: an error stated later reopens nothing

FinishAfter(a, e) ==
  IF e.finish # "none" THEN e.finish
  ELSE IF e.error /\ a.finish # "error" THEN "none" ELSE a.finish

OneMore(n) == IF n < MaxText THEN n + 1 ELSE n

ApplyFrame(a, e) ==
  [think |-> IF e.text = "think" THEN OneMore(a.think) ELSE a.think,
   say |-> IF e.text = "say" THEN OneMore(a.say) ELSE a.say,
   saw |-> a.saw \/ e.text # "none",
   stated |-> a.stated \/ e.error,
   finish |-> FinishAfter(a, e),
   done |-> a.done]

HasText(a) == a.think > 0 \/ a.say > 0
EndsGeneration(e) == e.error /\ (e.finish = "error" \/ ~e.choices)
IsRefusal(a) == ~HasText(a) /\ (a.stated \/ a.finish = "error")

(* refuseUnusable, and what finishAnswer returns when it refuses nothing.    *)
Verdict(a) ==
  CASE IsRefusal(a) -> Failure("stream-error-frame", TRUE)
    [] ~IsRefusal(a) /\ (a.finish = "error" \/ (a.finish = "none" /\ a.stated)) ->
         Failure("stream-unfinished", TRUE)
    [] OTHER ->
         CASE ~a.saw -> Failure("empty-completion", FALSE)
           [] a.saw /\ ~a.done /\ a.finish = "none" -> Failure("stream-unfinished", FALSE)
           [] OTHER -> IF HasText(a) THEN Failure("answer", TRUE)
                       ELSE Failure("blank-completion", FALSE)

WordOf(word, e) ==
  IF e.finish # "none" THEN e.finish ELSE IF e.error THEN "error" ELSE word

-----------------------------------------------------------------------------
(* http-budgets.mjs: the timers. *)

Timers == {"firstByte", "total", "idle", "semantic"}
Off == -1
AllOff == [t \in Timers |-> Off]

CapSubsumesFirstByte(r) == r.plane = "chat" /\ r.cap > 0 /\ r.cap <= r.firstByte
TotalMs(r) == IF r.plane = "control" THEN r.firstByte ELSE r.cap

(* armBudgets *)
ArmBudgets(r) ==
  [AllOff EXCEPT !["firstByte"] = IF CapSubsumesFirstByte(r) THEN Off ELSE r.firstByte,
                 !["total"] = IF TotalMs(r) > 0 THEN TotalMs(r) ELSE Off]

ReleaseFirstByte(l) == [l EXCEPT !["firstByte"] = Off, !["idle"] = Off] \* mutant: the cap stays armed
Release(l) == [l EXCEPT !["firstByte"] = Off, !["total"] = Off, !["idle"] = Off]

TotalReason(r, got) ==
  IF r.plane = "control" THEN IF got THEN "total-timeout" ELSE "first-byte-timeout"
  ELSE "deadline-timeout"

FreshFirstToken(r, t) == r.firstByte \* mutant: the whole budget again after headers
Remaining(r, t) == IF r.firstByte > t THEN r.firstByte - t ELSE 1

-----------------------------------------------------------------------------
Reading == {"stream", "document", "refused"}

Init ==
  /\ req \in Requests
  /\ phase = "sent" /\ sock = "open"
  /\ left = ArmBudgets(req)
  /\ naming = "first-token-timeout" /\ idleMs = 0
  /\ received = FALSE
  /\ aborted = NoError /\ expired = NoError /\ result = NoError
  /\ buffer = <<>> /\ answer = EmptyAnswer /\ size = 0
  /\ age = 0 /\ heard = FALSE /\ cut = FALSE /\ lastWord = "none"

NotDestroyed(s) == s \* mutant: an abandoned body keeps its socket
Destroyed(s) == IF s = "complete" THEN s ELSE "destroyed"

(* The reader is done, by return or by throw: bodyStream's finally, then     *)
(* collectStream's.                                                          *)
Finish(e) ==
  /\ phase' = "over" /\ result' = e
  /\ left' = [Release(left) EXCEPT !["semantic"] = Off]
  /\ sock' = Destroyed(sock)
  /\ buffer' = <<>>

(* What the caller is given when reading the body throws `e`: nothing of an  *)
(* error body is needed, and a stream's own claim outranks the socket's.     *)
ThrownFirst(e) == IF phase = "refused" THEN Failure("http-status", TRUE) ELSE e \* mutant: expired is not consulted
Reported(e) ==
  CASE phase = "refused" -> Failure("http-status", TRUE)
    [] phase = "stream" /\ expired # NoError -> expired
    [] OTHER -> e

-----------------------------------------------------------------------------
(* Time and timers. *)

Due == {t \in Timers : left[t] = 0}
AgeBound == req.firstByte + req.cap + 2 \* bound: the age stops counting here

Tick ==
  /\ phase \in Reading \cup {"sent"}
  /\ sock = "open" /\ buffer = <<>> /\ Due = {}
  /\ left' = [t \in Timers |-> IF left[t] > 0 THEN left[t] - 1 ELSE left[t]]
  /\ age' = IF age < AgeBound THEN age + 1 ELSE age
  /\ UNCHANGED <<req, phase, naming, idleMs, received, aborted, expired, sock, readVars,
                 result, history>>

TimerRuns(t) ==
  /\ phase # "over" /\ sock \in {"open", "destroyed"} /\ buffer = <<>>
  /\ left[t] = 0

(* `fire`: the abort is recorded, the request destroyed, and `fail` settles  *)
(* it unless headers have come.                                              *)
Abort(t, e) ==
  /\ aborted' = e
  /\ IF phase = "sent" THEN Finish(e)
     ELSE /\ left' = [left EXCEPT ![t] = Off] /\ sock' = Destroyed(sock)
          /\ UNCHANGED <<phase, result, buffer>>
  /\ UNCHANGED <<req, naming, idleMs, received, expired, answer, size, age, history>>

SettledWhenArmed == FALSE \* mutant: read when the timer is armed

(* `state.settled`: by headers, when nothing has failed.                     *)
Settled == phase # "sent"

FireFirstByte ==
  /\ TimerRuns("firstByte")
  /\ Abort("firstByte", Failure("first-byte-timeout", Settled))

FireTotal ==
  /\ TimerRuns("total")
  /\ Abort("total", Failure(TotalReason(req, received), Settled))

(* The idle timer of `setIdle` and of every chunk after it.                  *)
FireIdle ==
  /\ TimerRuns("idle")
  /\ aborted' = Failure("idle-timeout", TRUE)
  /\ left' = [left EXCEPT !["idle"] = Off]
  /\ sock' = Destroyed(sock)
  /\ UNCHANGED <<req, phase, naming, idleMs, received, expired, readVars, result, age, history>>

(* createDeadline's onExpire.                                                *)
FireSemantic ==
  /\ TimerRuns("semantic")
  /\ IF expired = NoError
     THEN /\ expired' = Failure(naming, TRUE)
          /\ left' = [Release(left) EXCEPT !["semantic"] = Off]
          /\ sock' = Destroyed(sock)
     ELSE /\ left' = [left EXCEPT !["semantic"] = Off]
          /\ UNCHANGED <<expired, sock>>
  /\ UNCHANGED <<req, phase, naming, idleMs, received, aborted, readVars, result, age, history>>

Fire == FireFirstByte \/ FireTotal \/ FireIdle \/ FireSemantic

-----------------------------------------------------------------------------
(* Before headers. *)

(* requestErrorHandler with nothing settled: refused, unresolved or reset,   *)
(* for a cause that may pass or not.                                         *)
ConnectionFails(transient) ==
  /\ phase = "sent" /\ sock = "open"
  /\ aborted' = Failure(IF transient THEN "transport" ELSE "non-retryable-transport", FALSE)
  /\ Finish(aborted')
  /\ cut' = TRUE
  /\ UNCHANGED <<req, naming, idleMs, received, expired, answer, size, age, heard, lastWord>>

(* onResponse refuses what it cannot decode; a redirect and a probe's        *)
(* non-2xx are disposed of unread.                                           *)
Undecodable ==
  /\ phase = "sent" /\ sock = "open"
  /\ Finish(Failure("protocol", TRUE))
  /\ heard' = TRUE
  /\ UNCHANGED <<req, naming, idleMs, received, aborted, expired, answer, size, age, cut, lastWord>>

Redirected ==
  /\ phase = "sent" /\ sock = "open"
  /\ Finish(Failure("http-status", TRUE))
  /\ heard' = TRUE
  /\ UNCHANGED <<req, naming, idleMs, received, aborted, expired, answer, size, age, cut, lastWord>>

SetIdle(ms) ==
  /\ idleMs' = ms
  /\ left' = [left EXCEPT !["idle"] = ms]

(* A reply whose body is going to be read: an error status by assertOk, a    *)
(* stream by collectStream, whose first-token budget is what is left of the  *)
(* request's own, and any other by readJson, on the control plane with no    *)
(* idle budget.                                                              *)
Headers(kind) ==
  /\ phase = "sent" /\ sock = "open"
  /\ phase' = kind /\ heard' = TRUE
  /\ CASE kind = "refused" -> SetIdle(ErrorIdle)
       [] kind = "document" ->
            IF req.plane = "chat" THEN SetIdle(req.idle) ELSE UNCHANGED <<idleMs, left>>
       [] kind = "stream" ->
            /\ req.plane = "chat"
            /\ left' = [left EXCEPT !["semantic"] = Remaining(req, age)]
            /\ UNCHANGED idleMs
  /\ UNCHANGED <<req, naming, received, aborted, expired, sock, readVars, result, age, cut, lastWord>>

-----------------------------------------------------------------------------
(* The body. *)

StoredOver(e) == e \* mutant: the handler assigns without asking

(* `state.aborted ??=`                                                       *)
Stored(e) == IF aborted = NoError THEN e ELSE aborted

(* The body breaks off: the peer cut it, or our own destroy comes back as a  *)
(* reset.  Whether the request's error handler runs as well, or the iterator *)
(* ends without an error and `!response.complete` is what is seen, differs   *)
(* between Node lines and makes no difference here.                          *)
Lost(handlerRuns) ==
  /\ phase \in Reading /\ buffer = <<>>
  /\ sock \in {"open", "destroyed"}
  /\ aborted' = IF handlerRuns THEN Stored(Failure("transport", Settled)) ELSE aborted
  /\ Finish(Reported(IF aborted' # NoError THEN aborted' ELSE Failure("transport", TRUE)))
  /\ cut' = (cut \/ sock = "open")
  /\ UNCHANGED <<req, naming, idleMs, received, expired, answer, size, age, heard, lastWord>>

(* bodyStream's part in every chunk: the first retires the first-byte        *)
(* budget, each renews the idle budget of a finite document.                 *)
AfterChunk(l) ==
  [l EXCEPT !["firstByte"] = Off, !["idle"] = IF idleMs > 0 THEN idleMs ELSE l["idle"]]

StreamChunk(c) ==
  /\ phase = "stream" /\ sock = "open" /\ buffer = <<>>
  /\ buffer' = c
  /\ left' = AfterChunk(left)
  /\ received' = TRUE
  /\ UNCHANGED <<req, phase, naming, idleMs, aborted, expired, sock, answer, size, result,
                 age, history>>

(* readText, with its limit: 0 for none, as the control plane has it.        *)
LimitOf == IF phase = "refused" THEN ErrorChars ELSE IF req.plane = "chat" THEN MaxChars ELSE 0

DocumentChunk ==
  /\ phase \in {"document", "refused"} /\ sock = "open"
  /\ received' = TRUE
  /\ size' = IF LimitOf > 0 THEN size + 1 ELSE size
  /\ IF LimitOf > 0 /\ size + 1 >= LimitOf
     THEN Finish(Reported(Failure("protocol", TRUE)))
     ELSE left' = AfterChunk(left) /\ UNCHANGED <<phase, sock, result, buffer>>
  /\ UNCHANGED <<req, naming, idleMs, aborted, expired, answer, age, history>>

(* A completion that came as one document: a message, or no JSON.            *)
CompletionRead(e) ==
  /\ phase = "document" /\ req.plane = "chat" /\ sock = "open"
  /\ answer' = [ApplyFrame(answer, e) EXCEPT !.done = TRUE]
  /\ lastWord' = WordOf(lastWord, e)
  /\ Finish(IF e.kind = "junk" THEN Failure("bad-json", TRUE) ELSE Verdict(answer'))
  /\ UNCHANGED <<req, naming, idleMs, received, aborted, expired, size, age, heard, cut>>

(* An error body, or a document of the control plane, whose content is its   *)
(* caller's business.                                                        *)
BodyRead(json) ==
  /\ sock = "open"
  /\ phase = "refused" \/ (phase = "document" /\ req.plane = "control")
  /\ Finish(Reported(Failure(IF json THEN "answer" ELSE "bad-json", TRUE)))
  /\ UNCHANGED <<req, naming, idleMs, received, aborted, expired, answer, size, age, history>>

(* The stream is complete; the parser may still hold an unterminated event.  *)
StreamComplete(c) ==
  /\ phase = "stream" /\ sock = "open" /\ buffer = <<>>
  /\ Len(c) <= 1
  /\ sock' = "complete" /\ buffer' = c
  /\ UNCHANGED <<req, phase, left, naming, idleMs, received, aborted, expired, answer, size,
                 result, age, history>>

StreamEnds ==
  /\ phase = "stream" /\ sock = "complete" /\ buffer = <<>>
  /\ Finish(Reported(Verdict(answer)))
  /\ UNCHANGED <<req, naming, idleMs, received, aborted, expired, answer, size, age, history>>

-----------------------------------------------------------------------------
(* collectStream's loop, an event at a time; nothing else runs in between.   *)

Done ==
  /\ phase = "stream" /\ buffer # <<>> /\ Head(buffer).kind = "done"
  /\ answer' = [answer EXCEPT !.done = TRUE]
  /\ Finish(Reported(Verdict(answer')))
  /\ UNCHANGED <<req, naming, idleMs, received, aborted, expired, size, age, history>>

Junk ==
  /\ phase = "stream" /\ buffer # <<>> /\ Head(buffer).kind = "junk"
  /\ Finish(Reported(Failure("protocol", TRUE)))
  /\ UNCHANGED <<req, naming, idleMs, received, aborted, expired, answer, size, age, history>>

ProgressOfBytes(e) == TRUE \* mutant: any event is progress
Progress(e) == Carries(e)

(* A stated refusal, or reasoning that reached the reserve with no content.  *)
ClaimOf(e, a) ==
  CASE EndsGeneration(e) /\ IsRefusal(a) -> Failure("stream-error-frame", TRUE)
    [] /\ ~(EndsGeneration(e) /\ IsRefusal(a))
       /\ req.cutoff > 0 /\ a.say = 0 /\ a.think > answer.think /\ a.think >= req.cutoff ->
         Failure("token-reserve-cutoff", TRUE)
    [] OTHER -> NoError

(* The claim is made, the timers cleared, the request destroyed, and the     *)
(* throw leaves the loop with what the chunk still held.                     *)
Claim(claim) ==
  /\ expired' = claim
  /\ left' = [Release(left) EXCEPT !["semantic"] = Off]
  /\ sock' = Destroyed(sock)
  /\ buffer' = <<>>
  /\ phase' = "closing"

Frame ==
  /\ phase = "stream" /\ buffer # <<>> /\ Head(buffer).kind = "frame"
  /\ LET e == Head(buffer)
         a == ApplyFrame(answer, e)
     IN
     /\ answer' = a
     /\ lastWord' = WordOf(lastWord, e)
     /\ IF Progress(e) THEN naming' = "idle-timeout" ELSE UNCHANGED naming
     /\ IF expired = NoError /\ ClaimOf(e, a) # NoError
        THEN Claim(ClaimOf(e, a))
        ELSE /\ left' = IF Progress(e) THEN [left EXCEPT !["semantic"] = req.idle] ELSE left
             /\ buffer' = Tail(buffer)
             /\ UNCHANGED <<expired, sock, phase>>
  /\ UNCHANGED <<req, idleMs, received, aborted, size, result, age, heard, cut>>

(* The generators are returned from before collectStream's catch runs; a     *)
(* timer can run while that is awaited.                                      *)
Close ==
  /\ phase = "closing"
  /\ Finish(expired)
  /\ UNCHANGED <<req, naming, idleMs, received, aborted, expired, answer, size, age, history>>

-----------------------------------------------------------------------------
Server ==
  \/ \E transient \in BOOLEAN : ConnectionFails(transient)
  \/ Undecodable \/ Redirected
  \/ \E kind \in Reading : Headers(kind)
  \/ \E c \in Chunks : StreamChunk(c) \/ StreamComplete(c)
  \/ DocumentChunk
  \/ \E e \in Frames \cup {Other("junk")} : CompletionRead(e)
  \/ \E json \in BOOLEAN : BodyRead(json)

Client == Done \/ Junk \/ Frame \/ StreamEnds \/ Close

Next == Tick \/ Fire \/ Server \/ Client \/ \E handlerRuns \in BOOLEAN : Lost(handlerRuns)

Spec == Init /\ [][Next]_vars

(* The server is owed nothing.  Time passes and the loop runs its timers     *)
(* however busy the socket is, microtasks run to their end, and a destroyed  *)
(* socket closes.                                                            *)
Fairness ==
  /\ SF_vars(Tick) /\ WF_vars(Client)
  /\ SF_vars(FireFirstByte) /\ SF_vars(FireTotal) /\ SF_vars(FireIdle) /\ SF_vars(FireSemantic)
  /\ WF_vars(sock = "destroyed" /\ \E handlerRuns \in BOOLEAN : Lost(handlerRuns))

FairSpec == Spec /\ Fairness

-----------------------------------------------------------------------------
Error == [reason: Reasons, responded: BOOLEAN]
Answers ==
  [think: Nat, say: Nat, saw: BOOLEAN, stated: BOOLEAN, finish: {"none", "stop", "error"},
   done: BOOLEAN]

TypeOK ==
  /\ req \in Requests
  /\ phase \in {"sent", "closing", "over"} \cup Reading
  /\ left \in [Timers -> Nat \cup {Off}]
  /\ naming \in {"first-token-timeout", "idle-timeout"}
  /\ idleMs \in Nat /\ received \in BOOLEAN
  /\ aborted \in Error /\ expired \in Error /\ result \in Error
  /\ sock \in {"open", "destroyed", "complete"}
  /\ buffer \in Seq(Events)
  /\ answer \in Answers
  /\ size \in Nat /\ age \in Nat
  /\ heard \in BOOLEAN /\ cut \in BOOLEAN /\ lastWord \in {"none", "stop", "error"}

Timeouts ==
  {"first-byte-timeout", "total-timeout", "deadline-timeout", "first-token-timeout", "idle-timeout"}

(* What every timer still has to run, and since when.                        *)
TimerInv ==
  /\ phase \in {"sent"} \cup Reading /\ sock = "open" =>
       /\ TotalMs(req) > 0 => left["total"] >= 0 /\ left["total"] + age = TotalMs(req)
       /\ phase = "sent" /\ ~CapSubsumesFirstByte(req) =>
            left["firstByte"] >= 0 /\ left["firstByte"] + age = req.firstByte
       /\ phase = "stream" /\ ~HasText(answer) =>
            left["semantic"] >= 0 /\ left["semantic"] + age <= req.firstByte + 1
  /\ CapSubsumesFirstByte(req) => left["firstByte"] = Off
  /\ TotalMs(req) = 0 => left["total"] = Off
  /\ phase # "stream" => left["semantic"] = Off
  /\ phase = "refused" /\ sock = "open" => idleMs = ErrorIdle /\ left["idle"] \in 0 .. ErrorIdle
  /\ phase = "sent" => left["idle"] = Off

(* Who has ended the request so far, and what that says of the server.       *)
CauseInv ==
  /\ phase = "sent" =>
       /\ aborted = NoError /\ expired = NoError /\ sock = "open" /\ buffer = <<>>
       /\ ~heard /\ ~received /\ answer = EmptyAnswer
  /\ phase \in Reading /\ sock \in {"open", "complete"} => aborted = NoError /\ expired = NoError
  /\ phase \in Reading /\ sock = "destroyed" =>
       buffer = <<>> /\ (aborted # NoError \/ expired # NoError)
  /\ phase \in Reading \cup {"closing"} => heard
  /\ phase = "closing" => expired # NoError
  /\ sock = "complete" => phase \in {"stream", "closing", "over"}
  /\ phase \in Reading /\ aborted # NoError =>
       aborted.responded /\ aborted.reason \in Timeouts
  /\ expired # NoError =>
       /\ heard /\ expired.responded /\ phase \in {"stream", "closing", "over"}
       /\ expired.reason \in {"first-token-timeout", "idle-timeout", "stream-error-frame",
                              "token-reserve-cutoff"}

(* The accumulator agrees with the order in which the server spoke.          *)
WordInv ==
  /\ answer.finish # "none" => lastWord = answer.finish
  /\ answer.finish = "none" /\ lastWord # "none" => lastWord = "error" /\ answer.stated

(* A settled request holds nothing: no timer is armed and the socket is at   *)
(* its end.  (http.mjs fail, bodyStream; stream-collect.mjs)                 *)
NothingLeft == phase = "over" => left = AllOff /\ sock # "open"

(* A failure is blamed on the connection only when the peer broke it, never  *)
(* on the reset our own destroy provokes; what the reader claimed first is   *)
(* what its caller hears; and an elapsed transport budget is not lost,       *)
(* unless the server had refused the request anyway.                         *)
(* (http.mjs bodyStream, requestErrorHandler; stream-collect.mjs)            *)
CauseIsTrue ==
  phase = "over" =>
    /\ result.reason \in {"transport", "non-retryable-transport"} => cut
    /\ expired # NoError => result = expired
    /\ aborted # NoError /\ expired = NoError =>
         result = aborted \/ result.reason = "http-status"

(* Whether the server is said to have answered is true: claimed only after   *)
(* headers, and always when a budget or the connection ends a request that   *)
(* had them.  (http-budgets.mjs, http-errors.mjs serverResponded)            *)
HeardIsTrue ==
  phase = "over" =>
    /\ result.responded => heard
    /\ heard /\ result.reason \in Timeouts \cup {"transport"} => result.responded

(* A request under --max-seconds is over when it ends, a control-plane       *)
(* request at its fixed budget, and a stream without text at the budget for  *)
(* the first token, counted from the request and not from the headers.       *)
(* (http-budgets.mjs armBudgets; chat.mjs postChat)                          *)
BoundedSilence ==
  phase # "over" =>
    /\ TotalMs(req) > 0 => age <= TotalMs(req)
    /\ phase \in {"sent", "stream"} /\ ~HasText(answer) => age <= req.firstByte + 1

(* A reply is given as an answer only when the server finished it: it ended  *)
(* generation or the document, its last word was not an error, and it holds  *)
(* text.  (completion.mjs finishAnswer; sse.mjs; stream-collect.mjs)         *)
NoHalfAnswer ==
  phase = "over" /\ req.plane = "chat" /\ result.reason = "answer" =>
    /\ answer.done \/ lastWord = "stop"
    /\ lastWord # "error"
    /\ HasText(answer)
    /\ expired = NoError

(* When two budgets are due together before headers, which one is named does *)
(* not depend on the order the loop runs them in.  (http-budgets.mjs)        *)
TieIsDecided ==
  phase = "over" /\ ~heard /\ result.reason \in Timeouts =>
    result.reason = IF CapSubsumesFirstByte(req) THEN "deadline-timeout" ELSE "first-byte-timeout"

IInv ==
  /\ TypeOK /\ TimerInv /\ CauseInv /\ WordInv
  /\ NothingLeft /\ CauseIsTrue /\ HeardIsTrue /\ BoundedSilence /\ NoHalfAnswer /\ TieIsDecided

TextArrives == Frame /\ Carries(Head(buffer))

(* A request with a ceiling on all of it ends whatever the server does or    *)
(* fails to do, and one without a ceiling unless text of the model keeps     *)
(* coming for ever: no comment, blank delta, half a frame or trickle of      *)
(* bytes keeps it open.  (http.mjs; chat.mjs postChat)                       *)
ExchangeEnds ==
  \/ <>(phase = "over")
  \/ TotalMs(req) = 0 /\ []<><<TextArrives>>_vars

(* "A caller-set cap due no later than the first-byte budget subsumes it":   *)
(* with --max-seconds no longer than --timeout it is the cap that explains   *)
(* the failure.  (http-budgets.mjs armBudgets)                               *)
CapExplains ==
  phase = "over" /\ CapSubsumesFirstByte(req) =>
    result.reason \notin {"first-byte-timeout", "first-token-timeout"}
=============================================================================
