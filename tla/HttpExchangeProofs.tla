------------------------- MODULE HttpExchangeProofs -------------------------
(***************************************************************************)
(* That the invariant of HttpExchange is one, that it implements OneReply, *)
(* and what follows, for all requests, budgets, limits and frames.         *)
(***************************************************************************)
EXTENDS HttpExchangeReply, TLAPS

Requests0 ==
  [plane: {"chat", "control"}, firstByte: Nat \ {0}, cap: Nat, idle: Nat \ {0}, cutoff: Nat]

(* Reasons a reader gives, which are neither budgets nor the connection's.   *)
Verdicts == {"answer", "stream-error-frame", "stream-unfinished", "empty-completion",
             "blank-completion"}

-----------------------------------------------------------------------------
(* What the operators return. *)

(* A failure is an error record. *)
LEMMA FailureFacts ==
  ASSUME NEW r \in Reasons, NEW b \in BOOLEAN
  PROVE  Failure(r, b) \in Error /\ Failure(r, b).reason = r /\ Failure(r, b).responded = b
  BY DEF Failure, Error

LEMMA NoErrorFacts == NoError \in Error /\ NoError.reason = "none" /\ NoError.responded = FALSE
  BY DEF NoError, Failure, Error, Reasons

(* A request that was sent has budgets a timer can run. *)
LEMMA RequestFacts ==
  ASSUME req \in Requests
  PROVE  /\ req \in Requests0
         /\ req.firstByte \in Nat /\ req.firstByte > 0 /\ req.cap \in Nat
         /\ req.idle \in Nat /\ req.idle > 0
         /\ TotalMs(req) \in Nat
         /\ CapSubsumesFirstByte(req) => TotalMs(req) > 0 /\ TotalMs(req) <= req.firstByte
         /\ req.plane \in {"chat", "control"}
  <1>1. req \in Requests0
    BY RequestsAssumption DEF Requests0
  <1>2. QED
    BY <1>1 DEF Requests0, TotalMs, CapSubsumesFirstByte

(* A reply is called an answer only if it was finished, holds text and no    *)
(* stated error outweighs it; otherwise its verdict is one of its own kind.  *)
LEMMA VerdictFacts ==
  ASSUME NEW a \in Answers
  PROVE  /\ Verdict(a) \in Error
         /\ Verdict(a).reason \in Verdicts
         /\ Verdict(a).reason = "answer" =>
              /\ HasText(a) /\ a.finish # "error"
              /\ a.finish = "none" => a.done /\ ~a.stated
  <1>1. CASE IsRefusal(a)
    BY <1>1 DEF Verdict, Failure, Error, Reasons, Verdicts
  <1>2. CASE ~IsRefusal(a) /\ (a.finish = "error" \/ (a.finish = "none" /\ a.stated))
    BY <1>2 DEF Verdict, Failure, Error, Reasons, Verdicts
  <1>3. CASE ~IsRefusal(a) /\ ~(a.finish = "error" \/ (a.finish = "none" /\ a.stated))
    <2> DEFINE rest == CASE ~a.saw -> Failure("empty-completion", FALSE)
                         [] a.saw /\ ~a.done /\ a.finish = "none" ->
                              Failure("stream-unfinished", FALSE)
                         [] OTHER -> IF HasText(a) THEN Failure("answer", TRUE)
                                     ELSE Failure("blank-completion", FALSE)
    <2>1. Verdict(a) = rest
      BY <1>3 DEF Verdict
    <2>2. CASE ~a.saw
      BY <2>1, <2>2 DEF Failure, Error, Reasons, Verdicts
    <2>3. CASE a.saw /\ ~a.done /\ a.finish = "none"
      BY <2>1, <2>3 DEF Failure, Error, Reasons, Verdicts
    <2>4. CASE a.saw /\ ~(~a.done /\ a.finish = "none")
      <3>1. rest = IF HasText(a) THEN Failure("answer", TRUE) ELSE Failure("blank-completion", FALSE)
        BY <2>4
      <3>2. CASE HasText(a)
        BY <1>3, <2>1, <2>4, <3>1, <3>2 DEF Failure, Error, Reasons, Verdicts, Answers
      <3>3. CASE ~HasText(a)
        BY <2>1, <3>1, <3>3 DEF Failure, Error, Reasons, Verdicts
      <3>4. QED BY <3>2, <3>3
    <2>5. QED BY <2>2, <2>3, <2>4
  <1>4. QED BY <1>1, <1>2, <1>3

(* The fields of an event. *)
LEMMA EventFacts ==
  ASSUME NEW e \in Events
  PROVE  e.finish \in {"none", "stop", "error"} /\ e.error \in BOOLEAN
  <1>1. CASE e \in AllFrames
    <2>1. e \in [kind: {"frame"}, text: {"none", "blank", "think", "say"}, error: BOOLEAN,
                 finish: {"none", "stop", "error"}, choices: BOOLEAN]
      BY <1>1, Zenon DEF AllFrames
    <2>2. QED BY <2>1
  <1>2. CASE e = Other("done") \/ e = Other("junk")
    <2>1. \A k : Other(k).finish = "none" /\ Other(k).error \in BOOLEAN
      BY DEF Other
    <2>2. QED BY <1>2, <2>1
  <1>3. QED BY <1>1, <1>2 DEF Events

(* A count that stops at its bound stays a number, and is not 0 again. *)
LEMMA OneMoreFacts ==
  ASSUME NEW n \in Nat
  PROVE  OneMore(n) \in Nat /\ OneMore(n) > 0
  BY LimitsAssumption DEF OneMore

(* Folding a frame in keeps the accumulator what it is. *)
LEMMA FrameFacts ==
  ASSUME NEW a \in Answers, NEW e \in Events
  PROVE  /\ ApplyFrame(a, e) \in Answers
         /\ HasText(a) => HasText(ApplyFrame(a, e))
         /\ Carries(e) => HasText(ApplyFrame(a, e))
         /\ ApplyFrame(a, e).finish = FinishAfter(a, e)
         /\ ApplyFrame(a, e).stated = (a.stated \/ e.error)
         /\ ApplyFrame(a, e).done = a.done
  <1>1. /\ e.finish \in {"none", "stop", "error"} /\ e.error \in BOOLEAN
    BY EventFacts
  <1>2. FinishAfter(a, e) \in {"none", "stop", "error"}
    BY <1>1 DEF FinishAfter, Answers
  <1> DEFINE b == ApplyFrame(a, e)
             t == IF e.text = "think" THEN OneMore(a.think) ELSE a.think
             s == IF e.text = "say" THEN OneMore(a.say) ELSE a.say
  <1>3. /\ b = [think |-> t, say |-> s, saw |-> a.saw \/ e.text # "none",
               stated |-> a.stated \/ e.error, finish |-> FinishAfter(a, e), done |-> a.done]
        /\ a.think \in Nat /\ a.say \in Nat
    BY DEF ApplyFrame, Answers
  <1>10. /\ t \in Nat /\ s \in Nat
         /\ a.think > 0 => t > 0
         /\ a.say > 0 => s > 0
         /\ e.text = "think" => t > 0
         /\ e.text = "say" => s > 0
    BY <1>3, OneMoreFacts
  <1>4. (a.saw \/ e.text # "none") \in BOOLEAN /\ (a.stated \/ e.error) \in BOOLEAN
        /\ a.done \in BOOLEAN
    BY <1>1 DEF Answers
  <1> HIDE DEF b, t, s
  <1>5. b \in Answers
    BY <1>2, <1>3, <1>4, <1>10 DEF Answers
  <1>6. b.think = t /\ b.say = s /\ b.finish = FinishAfter(a, e)
        /\ b.done = a.done /\ b.stated = (a.stated \/ e.error)
    BY <1>3
  <1>7. HasText(a) => HasText(b)
    BY <1>6, <1>10 DEF HasText
  <1>8. Carries(e) => HasText(b)
    BY <1>6, <1>10 DEF HasText, Carries
  <1>9. QED
    BY <1>5, <1>6, <1>7, <1>8 DEF b

(* The history of the server's words and the accumulator move together. *)
LEMMA WordFacts ==
  ASSUME NEW a \in Answers, NEW e \in Events, NEW w \in {"none", "stop", "error"},
         a.finish # "none" => w = a.finish,
         a.finish = "none" /\ w # "none" => w = "error" /\ a.stated
  PROVE  /\ WordOf(w, e) \in {"none", "stop", "error"}
         /\ FinishAfter(a, e) # "none" => WordOf(w, e) = FinishAfter(a, e)
         /\ FinishAfter(a, e) = "none" /\ WordOf(w, e) # "none" =>
              WordOf(w, e) = "error" /\ (a.stated \/ e.error)
  <1>1. /\ e.finish \in {"none", "stop", "error"} /\ e.error \in BOOLEAN
        /\ a.finish \in {"none", "stop", "error"}
    BY EventFacts DEF Answers
  <1>2. QED
    BY <1>1 DEF FinishAfter, WordOf

(* A timer is off or has a natural number of ticks left. *)
LEMMA TimerFacts ==
  ASSUME left \in [Timers -> Nat \cup {Off}]
  PROVE  /\ left["firstByte"] \in Int /\ left["total"] \in Int
         /\ left["idle"] \in Int /\ left["semantic"] \in Int
         /\ AllOff \in [Timers -> Nat \cup {Off}]
         /\ Release(left) \in [Timers -> Nat \cup {Off}]
  BY DEF Timers, Off, AllOff, Release

(* Nothing survives the end of the reader. *)
LEMMA FinishFacts ==
  ASSUME TypeOK, NEW e, Finish(e)
  PROVE  /\ phase' = "over" /\ result' = e /\ buffer' = <<>>
         /\ left' = AllOff
         /\ sock' \in {"destroyed", "complete"}
  <1>1. left' = [Release(left) EXCEPT !["semantic"] = Off]
    BY DEF Finish
  <1>2. left' = AllOff
    BY <1>1 DEF Release, AllOff, TypeOK, Timers
  <1>3. sock' \in {"destroyed", "complete"}
    BY DEF Finish, Destroyed
  <1>4. QED
    BY <1>2, <1>3 DEF Finish

-----------------------------------------------------------------------------
(* The two ways a step can leave the invariant standing. *)

Transports == {"transport", "non-retryable-transport"}

(* The caller is given `e`, and `e` is true of what happened. *)
Truthful(e) ==
  /\ e \in Error
  /\ e.reason \in Transports => cut'
  /\ expired # NoError => e = expired
  /\ aborted' # NoError /\ expired = NoError => e = aborted' \/ e.reason = "http-status"
  /\ e.responded => heard'
  /\ heard' /\ e.reason \in Timeouts \cup {"transport"} => e.responded
  /\ req.plane = "chat" /\ e.reason = "answer" =>
       /\ answer'.done \/ lastWord' = "stop"
       /\ lastWord' # "error" /\ HasText(answer') /\ expired = NoError
  /\ ~heard' /\ e.reason \in Timeouts =>
       e.reason = IF CapSubsumesFirstByte(req) THEN "deadline-timeout" ELSE "first-byte-timeout"

(* What no ending touches, and the types of the rest. *)
Kept ==
  /\ req' = req /\ naming' = naming /\ idleMs' = idleMs /\ expired' = expired /\ age' = age
  /\ received' \in BOOLEAN /\ aborted' \in Error /\ answer' \in Answers /\ size' \in Nat
  /\ heard' \in BOOLEAN /\ cut' \in BOOLEAN /\ lastWord' \in {"none", "stop", "error"}
  /\ heard => heard'

LEMMA Ends ==
  ASSUME IInv, NEW e, Finish(e), Kept, WordInv', Truthful(e)
  PROVE  IInv'
  <1>1. TypeOK
    BY DEF IInv
  <1>2. /\ phase' = "over" /\ result' = e /\ buffer' = <<>> /\ left' = AllOff
        /\ sock' \in {"destroyed", "complete"}
    BY <1>1, FinishFacts
  <1>3. TypeOK'
    <2>1. left' \in [Timers -> Nat \cup {Off}]
      BY <1>1, <1>2, TimerFacts DEF TypeOK
    <2>2. buffer' \in Seq(Events)
      BY <1>2
    <2>3. QED
      BY <1>1, <1>2, <2>1, <2>2 DEF TypeOK, Kept, Truthful
  <1>4. TimerInv'
    BY <1>2 DEF TimerInv, Reading, AllOff, Timers
  <1>5. CauseInv'
    <2>1. expired' # NoError =>
            /\ heard' /\ expired'.responded
            /\ expired'.reason \in {"first-token-timeout", "idle-timeout", "stream-error-frame",
                                    "token-reserve-cutoff"}
      BY DEF IInv, CauseInv, Kept
    <2>2. QED
      BY <1>2, <2>1 DEF CauseInv, Reading
  <1>6. NothingLeft' /\ BoundedSilence'
    BY <1>2 DEF NothingLeft, BoundedSilence
  <1>7. CauseIsTrue'
    BY <1>2 DEF CauseIsTrue, Transports, Kept, Truthful
  <1>8. HeardIsTrue'
    BY <1>2 DEF HeardIsTrue, Kept, Truthful
  <1>9. NoHalfAnswer'
    BY <1>2 DEF NoHalfAnswer, Kept, Truthful
  <1>10. TieIsDecided'
    BY <1>2 DEF TieIsDecided, Kept, Truthful
  <1>11. QED
    BY <1>3, <1>4, <1>5, <1>6, <1>7, <1>8, <1>9, <1>10 DEF IInv

(* The request goes on: what is said of an outcome asks nothing yet. *)
LEMMA GoesOn ==
  ASSUME phase' # "over", TypeOK', TimerInv', CauseInv', WordInv', BoundedSilence'
  PROVE  IInv'
  <1>1. NothingLeft' /\ CauseIsTrue' /\ HeardIsTrue' /\ NoHalfAnswer' /\ TieIsDecided'
    BY DEF NothingLeft, CauseIsTrue, HeardIsTrue, NoHalfAnswer, TieIsDecided
  <1>2. QED
    BY <1>1 DEF IInv

(* A step that takes no time makes no silence longer. *)
LEMMA SilenceKept ==
  ASSUME BoundedSilence, phase # "over", req' = req, age' = age,
         phase' \in {"sent", "stream"} => phase \in {"sent", "stream"},
         HasText(answer) => HasText(answer')
  PROVE  BoundedSilence'
  BY DEF BoundedSilence

(* The accumulator and the words it is held against stay together. *)
LEMMA WordKept ==
  ASSUME WordInv, answer' = answer, lastWord' = lastWord
  PROVE  WordInv'
  BY DEF WordInv

-----------------------------------------------------------------------------
(* Before headers. *)

LEMMA ConnectionFailsInv ==
  ASSUME IInv, NEW transient \in BOOLEAN, ConnectionFails(transient)
  PROVE  IInv'
  <1> DEFINE r == IF transient THEN "transport" ELSE "non-retryable-transport"
             e == Failure(r, FALSE)
  <1>1. /\ TypeOK /\ WordInv /\ ~heard /\ expired = NoError
    BY DEF IInv, CauseInv, ConnectionFails
  <1>2. /\ e \in Error /\ e.reason \in Transports /\ e.responded = FALSE
        /\ e.reason \notin Timeouts /\ e.reason # "answer"
    BY DEF Failure, Error, Reasons, Transports, Timeouts
  <1>3. /\ aborted' = e /\ Finish(e) /\ cut' = TRUE
        /\ UNCHANGED <<req, naming, idleMs, received, expired, answer, size, age, heard, lastWord>>
    BY DEF ConnectionFails
  <1> HIDE DEF e
  <1>4. Kept
    BY <1>1, <1>2, <1>3 DEF Kept, TypeOK
  <1>5. WordInv'
    BY <1>1, <1>3, WordKept
  <1>6. Truthful(e)
    BY <1>1, <1>2, <1>3 DEF Truthful
  <1>7. QED
    BY <1>3, <1>4, <1>5, <1>6, Ends

LEMMA TurnedAwayInv ==
  ASSUME IInv, Undecodable \/ Redirected
  PROVE  IInv'
  <1>1. /\ TypeOK /\ WordInv /\ expired = NoError /\ aborted = NoError
    BY DEF IInv, CauseInv, Undecodable, Redirected
  <1>2. PICK e \in {Failure("protocol", TRUE), Failure("http-status", TRUE)} :
          /\ Finish(e) /\ heard' = TRUE
          /\ UNCHANGED <<req, naming, idleMs, received, aborted, expired, answer, size, age,
                         cut, lastWord>>
    BY DEF Undecodable, Redirected
  <1>3. /\ e \in Error /\ e.reason \notin Transports /\ e.responded = TRUE
        /\ e.reason # "answer"
    <2>1. "protocol" \in Reasons /\ "http-status" \in Reasons
      BY DEF Reasons
    <2>2. QED
      BY <1>2, <2>1, FailureFacts DEF Transports
  <1>4. Kept
    BY <1>1, <1>2 DEF Kept, TypeOK
  <1>5. WordInv'
    BY <1>1, <1>2, WordKept
  <1>6. Truthful(e)
    BY <1>1, <1>2, <1>3 DEF Truthful
  <1>7. QED
    BY <1>2, <1>4, <1>5, <1>6, Ends

-----------------------------------------------------------------------------
(* The endings of a body. *)

(* An error of the body, as its caller is given it: the reader's own claim,  *)
(* a refusal, or the error itself.                                           *)
LEMMA ReportedFacts ==
  ASSUME IInv, phase \in Reading, NEW e \in Error
  PROVE  /\ Reported(e) \in Error
         /\ expired # NoError => Reported(e) = expired
         /\ expired = NoError => Reported(e) \in {Failure("http-status", TRUE), e}
         /\ phase # "refused" /\ expired = NoError => Reported(e) = e
         /\ phase = "refused" => Reported(e) = Failure("http-status", TRUE)
  <1>1. /\ TypeOK
        /\ expired # NoError => phase \in {"stream", "closing", "over"}
    BY DEF IInv, CauseInv
  <1>2. Failure("http-status", TRUE) \in Error
    BY FailureFacts DEF Reasons
  <1>3. CASE phase = "refused"
    BY <1>1, <1>2, <1>3 DEF Reported
  <1>4. CASE phase = "stream" /\ expired # NoError
    BY <1>1, <1>4 DEF Reported, TypeOK
  <1>5. CASE phase # "refused" /\ ~(phase = "stream" /\ expired # NoError)
    <2>1. expired = NoError
      BY <1>1, <1>5 DEF Reading
    <2>2. Reported(e) = e
      BY <1>5 DEF Reported
    <2>3. QED BY <1>5, <2>1, <2>2
  <1>6. QED BY <1>3, <1>4, <1>5

(* A verdict that calls the reply an answer has the server's last word. *)
LEMMA AnswerFacts ==
  ASSUME WordInv', answer' \in Answers, lastWord' \in {"none", "stop", "error"},
         Verdict(answer').reason = "answer"
  PROVE  /\ answer'.done \/ lastWord' = "stop"
         /\ lastWord' # "error" /\ HasText(answer')
  <1>1. /\ HasText(answer') /\ answer'.finish # "error"
        /\ answer'.finish = "none" => answer'.done /\ ~answer'.stated
    BY VerdictFacts
  <1>2. answer'.finish \in {"none", "stop", "error"}
    BY DEF Answers
  <1>3. QED
    BY <1>1, <1>2 DEF WordInv

(* A body that nothing has broken yet ends in `e`, which blames neither a    *)
(* budget nor the connection.                                                *)
LEMMA BodyEnds ==
  ASSUME IInv, phase \in Reading, sock \in {"open", "complete"},
         NEW e \in Error, Finish(Reported(e)), Kept, aborted' = aborted, WordInv',
         e.reason \notin Transports \cup Timeouts,
         phase # "refused" /\ req.plane = "chat" /\ e.reason = "answer" =>
           (answer'.done \/ lastWord' = "stop") /\ lastWord' # "error" /\ HasText(answer')
  PROVE  IInv'
  <1>1. aborted = NoError /\ expired = NoError /\ heard
    BY DEF IInv, CauseInv
  <1>2. /\ Reported(e) \in Error
        /\ phase # "refused" => Reported(e) = e
        /\ phase = "refused" => Reported(e) = Failure("http-status", TRUE)
    BY <1>1, ReportedFacts
  <1>3. Failure("http-status", TRUE).reason = "http-status"
    BY DEF Failure
  <1>4. Reported(e).reason \notin Transports \cup Timeouts
    BY <1>2, <1>3 DEF Transports, Timeouts
  <1>5. Reported(e).reason = "answer" => phase # "refused" /\ Reported(e) = e
    BY <1>2, <1>3
  <1>6. heard' = TRUE
    BY <1>1 DEF Kept
  <1>7. Truthful(Reported(e))
    BY <1>1, <1>2, <1>4, <1>5, <1>6 DEF Truthful, Transports
  <1>8. QED
    BY <1>7, Ends

(* The reasons that are neither. *)
LEMMA PlainReasons ==
  /\ \A r \in {"protocol", "bad-json", "answer"} :
       r \in Reasons /\ r \notin Transports \cup Timeouts
  /\ \A r \in Verdicts : r \notin Transports \cup Timeouts
  BY DEF Reasons, Transports, Timeouts, Verdicts

LEMMA BodyReadInv ==
  ASSUME IInv, NEW json \in BOOLEAN, BodyRead(json)
  PROVE  IInv'
  <1> DEFINE e == Failure(IF json THEN "answer" ELSE "bad-json", TRUE)
  <1>1. TypeOK /\ WordInv
    BY DEF IInv
  <1>2. e \in Error /\ e.reason \notin Transports \cup Timeouts
    BY PlainReasons, FailureFacts
  <1>3. /\ phase \in Reading /\ sock = "open" /\ Finish(Reported(e))
        /\ phase # "refused" => req.plane = "control"
        /\ UNCHANGED <<req, naming, idleMs, received, aborted, expired, answer, size, age, history>>
    BY DEF BodyRead, Reading
  <1> HIDE DEF e
  <1>4. Kept
    BY <1>1, <1>3 DEF Kept, TypeOK, history
  <1>5. WordInv'
    BY <1>1, <1>3, WordKept DEF history
  <1>6. QED
    BY <1>2, <1>3, <1>4, <1>5, BodyEnds

LEMMA JunkInv ==
  ASSUME IInv, Junk
  PROVE  IInv'
  <1> DEFINE e == Failure("protocol", TRUE)
  <1>1. /\ TypeOK /\ WordInv /\ phase \in Reading
        /\ sock \in {"open", "complete"}
    BY DEF IInv, CauseInv, Junk, Reading, TypeOK
  <1>2. e \in Error /\ e.reason \notin Transports \cup Timeouts /\ e.reason # "answer"
    BY PlainReasons, FailureFacts
  <1>3. /\ Finish(Reported(e))
        /\ UNCHANGED <<req, naming, idleMs, received, aborted, expired, answer, size, age, history>>
    BY DEF Junk
  <1> HIDE DEF e
  <1>4. Kept
    BY <1>1, <1>3 DEF Kept, TypeOK, history
  <1>5. WordInv'
    BY <1>1, <1>3, WordKept DEF history
  <1>6. QED
    BY <1>1, <1>2, <1>3, <1>4, <1>5, BodyEnds

LEMMA StreamEndsInv ==
  ASSUME IInv, StreamEnds
  PROVE  IInv'
  <1> DEFINE e == Verdict(answer)
  <1>1. /\ TypeOK /\ WordInv /\ phase \in Reading /\ sock \in {"open", "complete"}
        /\ answer \in Answers
    BY DEF IInv, StreamEnds, Reading, TypeOK
  <1>2. e \in Error /\ e.reason \notin Transports \cup Timeouts
    BY <1>1, VerdictFacts, PlainReasons
  <1>3. /\ Finish(Reported(e)) /\ answer' = answer
        /\ UNCHANGED <<req, naming, idleMs, received, aborted, expired, answer, size, age, history>>
    BY DEF StreamEnds
  <1>4. Kept
    BY <1>1, <1>3 DEF Kept, TypeOK, history
  <1>5. WordInv'
    BY <1>1, <1>3, WordKept DEF history
  <1>6. e.reason = "answer" =>
          (answer'.done \/ lastWord' = "stop") /\ lastWord' # "error" /\ HasText(answer')
    BY <1>3, <1>4, <1>5, AnswerFacts DEF Kept
  <1> HIDE DEF e
  <1>7. QED
    BY <1>1, <1>2, <1>3, <1>4, <1>5, <1>6, BodyEnds

LEMMA DoneInv ==
  ASSUME IInv, Done
  PROVE  IInv'
  <1> DEFINE e == Verdict(answer')
  <1>1. /\ TypeOK /\ WordInv /\ phase \in Reading /\ sock \in {"open", "complete"}
        /\ answer \in Answers
    BY DEF IInv, CauseInv, Done, Reading, TypeOK
  <1>2. /\ Finish(Reported(e)) /\ answer' = [answer EXCEPT !.done = TRUE]
        /\ UNCHANGED <<req, naming, idleMs, received, aborted, expired, size, age, history>>
    BY DEF Done
  <1>3. /\ answer' \in Answers /\ answer'.finish = answer.finish
        /\ answer'.stated = answer.stated
    BY <1>1, <1>2 DEF Answers
  <1>4. Kept
    BY <1>1, <1>2, <1>3 DEF Kept, TypeOK, history
  <1>5. WordInv'
    BY <1>1, <1>2, <1>3 DEF WordInv, history
  <1>6. e \in Error /\ e.reason \notin Transports \cup Timeouts
    BY <1>3, VerdictFacts, PlainReasons
  <1>7. e.reason = "answer" =>
          (answer'.done \/ lastWord' = "stop") /\ lastWord' # "error" /\ HasText(answer')
    BY <1>3, <1>4, <1>5, AnswerFacts DEF Kept
  <1> HIDE DEF e
  <1>8. QED
    BY <1>1, <1>2, <1>4, <1>5, <1>6, <1>7, BodyEnds

LEMMA CompletionReadInv ==
  ASSUME IInv, NEW m \in Frames \cup {Other("junk")}, CompletionRead(m)
  PROVE  IInv'
  <1> DEFINE e == IF m.kind = "junk" THEN Failure("bad-json", TRUE) ELSE Verdict(answer')
  <1>1. /\ TypeOK /\ WordInv /\ phase \in Reading /\ sock \in {"open", "complete"}
        /\ answer \in Answers /\ phase # "refused" /\ expired = NoError
        /\ lastWord \in {"none", "stop", "error"}
    BY DEF IInv, CauseInv, CompletionRead, Reading, TypeOK
  <1>2. m \in Events
    BY FramesAssumption DEF Events
  <1>3. /\ Finish(e) /\ answer' = [ApplyFrame(answer, m) EXCEPT !.done = TRUE]
        /\ lastWord' = WordOf(lastWord, m)
        /\ UNCHANGED <<req, naming, idleMs, received, aborted, expired, size, age, heard, cut>>
    BY DEF CompletionRead
  <1>4. /\ ApplyFrame(answer, m) \in Answers
        /\ ApplyFrame(answer, m).finish = FinishAfter(answer, m)
        /\ ApplyFrame(answer, m).stated = (answer.stated \/ m.error)
    BY <1>1, <1>2, FrameFacts
  <1>5. /\ answer' \in Answers /\ answer'.finish = FinishAfter(answer, m)
        /\ answer'.stated = (answer.stated \/ m.error)
    BY <1>3, <1>4 DEF Answers
  <1>6. /\ lastWord' \in {"none", "stop", "error"} /\ WordInv'
    <2>1. /\ WordOf(lastWord, m) \in {"none", "stop", "error"}
          /\ FinishAfter(answer, m) # "none" => WordOf(lastWord, m) = FinishAfter(answer, m)
          /\ FinishAfter(answer, m) = "none" /\ WordOf(lastWord, m) # "none" =>
               WordOf(lastWord, m) = "error" /\ (answer.stated \/ m.error)
      BY <1>1, <1>2, WordFacts DEF WordInv
    <2>2. QED
      BY <1>3, <1>5, <2>1 DEF WordInv
  <1>7. Kept
    BY <1>1, <1>3, <1>5, <1>6 DEF Kept, TypeOK
  <1>8. e \in Error /\ e.reason \notin Transports \cup Timeouts
    <2>1. CASE m.kind = "junk"
      BY <2>1, PlainReasons, FailureFacts
    <2>2. CASE m.kind # "junk"
      BY <1>5, <2>2, VerdictFacts, PlainReasons
    <2>3. QED BY <2>1, <2>2
  <1>9. e.reason = "answer" =>
          (answer'.done \/ lastWord' = "stop") /\ lastWord' # "error" /\ HasText(answer')
    <2>1. CASE m.kind = "junk"
      BY <2>1, PlainReasons, FailureFacts
    <2>2. CASE m.kind # "junk"
      BY <1>5, <1>6, <2>2, AnswerFacts
    <2>3. QED BY <2>1, <2>2
  <1> HIDE DEF e
  <1>10. Reported(e) = e
    BY <1>1, <1>8, ReportedFacts
  <1>11. QED
    BY <1>1, <1>3, <1>6, <1>7, <1>8, <1>9, <1>10, BodyEnds

(* The body breaks off: by the peer, or by a budget or a claim before it. *)
LEMMA LostInv ==
  ASSUME IInv, NEW handlerRuns \in BOOLEAN, Lost(handlerRuns)
  PROVE  IInv'
  <1> DEFINE broke == Failure("transport", TRUE)
             x == IF aborted' # NoError THEN aborted' ELSE broke
  <1>1. /\ TypeOK /\ WordInv /\ phase \in Reading /\ sock \in {"open", "destroyed"}
        /\ heard = TRUE /\ Settled /\ aborted \in Error /\ cut \in BOOLEAN
    BY DEF IInv, CauseInv, Lost, Reading, TypeOK, Settled
  <1>2. /\ broke \in Error /\ broke.reason = "transport" /\ broke.responded = TRUE
        /\ broke # NoError
    <2>1. broke \in Error /\ broke.reason = "transport" /\ broke.responded = TRUE
      BY FailureFacts DEF Reasons
    <2>2. QED BY <2>1, NoErrorFacts
  <1>3. /\ aborted' = IF handlerRuns THEN Stored(Failure("transport", Settled)) ELSE aborted
        /\ Finish(Reported(IF aborted' # NoError THEN aborted' ELSE Failure("transport", TRUE)))
        /\ cut' = (cut \/ sock = "open")
        /\ UNCHANGED <<req, naming, idleMs, received, expired, answer, size, age, heard, lastWord>>
    BY DEF Lost
  <1>4. Failure("transport", Settled) = broke
    BY <1>1 DEF Failure
  <1> HIDE DEF broke
  <1>5. aborted' \in Error
    BY <1>1, <1>2, <1>3, <1>4 DEF Stored
  <1>6. Finish(Reported(x)) /\ x \in Error
    BY <1>2, <1>3, <1>5 DEF broke
  <1>7. Kept
    BY <1>1, <1>3, <1>5 DEF Kept, TypeOK
  <1>8. WordInv'
    BY <1>1, <1>3, WordKept
  <1>9. CASE expired # NoError
    <2>1. /\ Reported(x) = expired /\ expired \in Error
      BY <1>1, <1>6, <1>9, ReportedFacts DEF TypeOK
    <2>2. /\ expired.responded
          /\ expired.reason \in {"first-token-timeout", "idle-timeout", "stream-error-frame",
                                 "token-reserve-cutoff"}
      BY <1>9 DEF IInv, CauseInv
    <2>3. Truthful(expired)
      BY <1>1, <1>3, <1>9, <2>1, <2>2 DEF Truthful, Transports
    <2>4. QED
      BY <1>6, <1>7, <1>8, <2>1, <2>3, Ends
  <1>10. CASE expired = NoError
    <2>1. Reported(x) \in {Failure("http-status", TRUE), x}
      BY <1>1, <1>6, <1>10, ReportedFacts
    <2>2. /\ x.responded = TRUE
          /\ aborted' # NoError => x = aborted'
          /\ x.reason \in Timeouts \cup {"transport"}
          /\ x.reason = "transport" => cut'
      <3>1. CASE sock = "open"
        <4>1. aborted = NoError
          BY <1>1, <3>1 DEF IInv, CauseInv
        <4>2. x = broke
          BY <1>3, <1>4, <4>1 DEF Stored
        <4>3. QED
          BY <1>2, <1>3, <3>1, <4>2
      <3>2. CASE sock = "destroyed"
        <4>1. /\ aborted # NoError /\ aborted.responded /\ aborted.reason \in Timeouts
          BY <1>1, <1>10, <3>2 DEF IInv, CauseInv
        <4>2. x = aborted
          BY <1>3, <4>1 DEF Stored
        <4>3. aborted.responded \in BOOLEAN
          BY <1>1 DEF Error
        <4>4. "transport" \notin Timeouts
          BY DEF Timeouts
        <4>5. QED
          BY <4>1, <4>2, <4>3, <4>4
      <3>3. QED BY <1>1, <3>1, <3>2
    <2> HIDE DEF x
    <2>3. CASE Reported(x) = x
      <3> DEFINE because == x.reason
      <3>1. /\ because \notin {"answer", "non-retryable-transport"}
            /\ because \in Transports => cut'
        BY <2>2 DEF Transports, Timeouts
      <3>2. heard' = TRUE /\ x.responded
        BY <1>1, <1>3, <2>2
      <3>3. aborted' # NoError /\ expired = NoError => x = aborted'
        BY <2>2
      <3>4. Truthful(x)
        BY <1>6, <1>10, <3>1, <3>2, <3>3 DEF Truthful
      <3>5. QED
        BY <1>6, <1>7, <1>8, <2>3, <3>4, Ends
    <2>4. CASE Reported(x) = Failure("http-status", TRUE)
      <3> DEFINE status == Failure("http-status", TRUE)
      <3>1. /\ status \in Error /\ status.reason = "http-status" /\ status.responded = TRUE
        BY FailureFacts DEF Reasons
      <3> HIDE DEF status
      <3>2. Truthful(status)
        BY <1>1, <1>3, <1>10, <3>1 DEF Truthful, Transports, Timeouts
      <3>3. Finish(status)
        BY <1>6, <2>4 DEF status
      <3>4. QED
        BY <1>7, <1>8, <3>2, <3>3, Ends
    <2>5. QED BY <2>1, <2>3, <2>4
  <1>11. QED BY <1>9, <1>10

(* What the reader claimed is what its caller is told. *)
LEMMA CloseInv ==
  ASSUME IInv, Close
  PROVE  IInv'
  <1>1. /\ TypeOK /\ WordInv /\ expired # NoError /\ heard = TRUE /\ expired \in Error
        /\ expired.responded
        /\ expired.reason \in {"first-token-timeout", "idle-timeout", "stream-error-frame",
                               "token-reserve-cutoff"}
    BY DEF IInv, CauseInv, Close, TypeOK
  <1>2. /\ Finish(expired)
        /\ UNCHANGED <<req, naming, idleMs, received, aborted, expired, answer, size, age, history>>
    BY DEF Close
  <1>3. Kept
    BY <1>1, <1>2 DEF Kept, TypeOK, history
  <1>4. WordInv'
    BY <1>1, <1>2, WordKept DEF history
  <1>5. Truthful(expired)
    BY <1>1, <1>2 DEF Truthful, Transports, history
  <1>6. QED
    BY <1>2, <1>3, <1>4, <1>5, Ends

-----------------------------------------------------------------------------
(* Steps that leave the request under way. *)

(* A chunk renews the idle budget, retires the first-byte one and leaves the *)
(* others running.                                                           *)
LEMMA AfterChunkFacts ==
  ASSUME TypeOK
  PROVE  /\ AfterChunk(left) \in [Timers -> Nat \cup {Off}]
         /\ AfterChunk(left)["firstByte"] = Off
         /\ AfterChunk(left)["total"] = left["total"]
         /\ AfterChunk(left)["semantic"] = left["semantic"]
         /\ AfterChunk(left)["idle"] = IF idleMs > 0 THEN idleMs ELSE left["idle"]
  <1>1. left \in [Timers -> Nat \cup {Off}] /\ idleMs \in Nat
    BY DEF TypeOK
  <1> DEFINE n == IF idleMs > 0 THEN idleMs ELSE left["idle"]
             l == [left EXCEPT !["firstByte"] = Off]
  <1>2. n \in Nat \cup {Off} /\ n = IF idleMs > 0 THEN idleMs ELSE left["idle"]
    BY <1>1 DEF Timers
  <1>3. /\ l \in [Timers -> Nat \cup {Off}] /\ l["idle"] = left["idle"]
        /\ l["firstByte"] = Off /\ l["total"] = left["total"] /\ l["semantic"] = left["semantic"]
    BY <1>1 DEF Timers
  <1>4. AfterChunk(left) = [l EXCEPT !["idle"] = n]
    BY <1>1, <1>3 DEF AfterChunk, Timers
  <1> HIDE DEF n, l
  <1>5. QED
    BY <1>2, <1>3, <1>4 DEF Timers

LEMMA DocumentChunkInv ==
  ASSUME IInv, DocumentChunk
  PROVE  IInv'
  <1>1. /\ TypeOK /\ WordInv /\ TimerInv /\ CauseInv /\ BoundedSilence
        /\ phase \in {"document", "refused"} /\ sock = "open"
    BY DEF IInv, DocumentChunk
  <1>2. /\ received' = TRUE
        /\ UNCHANGED <<req, naming, idleMs, aborted, expired, answer, age, history>>
    BY DEF DocumentChunk
  <1>3. size' \in Nat
    BY <1>1 DEF DocumentChunk, TypeOK
  <1>4. WordInv'
    BY <1>1, <1>2, WordKept DEF history
  <1>5. CASE LimitOf > 0 /\ size + 1 >= LimitOf
    <2> DEFINE e == Failure("protocol", TRUE)
    <2>1. Finish(Reported(e))
      BY <1>5 DEF DocumentChunk
    <2>2. e \in Error /\ e.reason \notin Transports \cup Timeouts /\ e.reason # "answer"
      BY PlainReasons, FailureFacts
    <2> HIDE DEF e
    <2>3. Kept
      BY <1>1, <1>2, <1>3 DEF Kept, TypeOK, history
    <2>4. QED
      BY <1>1, <1>2, <1>4, <2>1, <2>2, <2>3, BodyEnds DEF Reading
  <1>6. CASE ~(LimitOf > 0 /\ size + 1 >= LimitOf)
    <2>1. left' = AfterChunk(left) /\ UNCHANGED <<phase, sock, result, buffer>>
      BY <1>6 DEF DocumentChunk
    <2>2. /\ left' \in [Timers -> Nat \cup {Off}] /\ left'["firstByte"] = Off
          /\ left'["total"] = left["total"] /\ left'["semantic"] = left["semantic"]
      BY <1>1, <2>1, AfterChunkFacts
    <2>3. TypeOK'
      BY <1>1, <1>2, <1>3, <2>1, <2>2 DEF TypeOK, history
    <2>4. TimerInv'
      <3>1. phase = "refused" => idleMs' = ErrorIdle /\ left'["idle"] \in 0 .. ErrorIdle
        BY <1>1, <1>2, <2>1, AfterChunkFacts, LimitsAssumption DEF TimerInv
      <3>2. QED
        BY <1>1, <1>2, <2>1, <2>2, <3>1 DEF TimerInv
    <2>5. CauseInv'
      BY <1>1, <1>2, <2>1 DEF CauseInv, history
    <2>6. BoundedSilence'
      BY <1>1, <1>2, <2>1 DEF BoundedSilence
    <2>7. QED
      BY <1>1, <1>4, <2>1, <2>3, <2>4, <2>5, <2>6, GoesOn
  <1>7. QED BY <1>5, <1>6

LEMMA StreamChunkInv ==
  ASSUME IInv, NEW c \in Chunks, StreamChunk(c)
  PROVE  IInv'
  <1>1. /\ TypeOK /\ WordInv /\ TimerInv /\ CauseInv /\ BoundedSilence
        /\ phase = "stream" /\ sock = "open"
    BY DEF IInv, StreamChunk
  <1>2. /\ received' = TRUE /\ buffer' = c /\ left' = AfterChunk(left)
        /\ UNCHANGED <<req, phase, naming, idleMs, aborted, expired, sock, answer, size, result,
                       age, history>>
    BY DEF StreamChunk
  <1>3. /\ left' \in [Timers -> Nat \cup {Off}] /\ left'["firstByte"] = Off
        /\ left'["total"] = left["total"] /\ left'["semantic"] = left["semantic"]
    BY <1>1, <1>2, AfterChunkFacts
  <1>4. c \in Seq(Events)
    BY FramesAssumption DEF Chunks, Events
  <1>5. TypeOK'
    BY <1>1, <1>2, <1>3, <1>4 DEF TypeOK, history
  <1>6. TimerInv'
    BY <1>1, <1>2, <1>3 DEF TimerInv, HasText
  <1>7. CauseInv'
    BY <1>1, <1>2 DEF CauseInv, history
  <1>8. WordInv' /\ BoundedSilence'
    BY <1>1, <1>2, WordKept, SilenceKept DEF history, HasText
  <1>9. QED
    BY <1>1, <1>2, <1>5, <1>6, <1>7, <1>8, GoesOn

LEMMA StreamCompleteInv ==
  ASSUME IInv, NEW c \in Chunks, StreamComplete(c)
  PROVE  IInv'
  <1>1. /\ TypeOK /\ WordInv /\ TimerInv /\ CauseInv /\ BoundedSilence
        /\ phase = "stream" /\ sock = "open"
    BY DEF IInv, StreamComplete
  <1>2. /\ sock' = "complete" /\ buffer' = c
        /\ UNCHANGED <<req, phase, left, naming, idleMs, received, aborted, expired, answer, size,
                       result, age, history>>
    BY DEF StreamComplete
  <1>3. c \in Seq(Events)
    BY FramesAssumption DEF Chunks, Events
  <1>4. TypeOK'
    BY <1>1, <1>2, <1>3 DEF TypeOK, history
  <1>5. TimerInv'
    BY <1>1, <1>2 DEF TimerInv
  <1>6. CauseInv'
    BY <1>1, <1>2 DEF CauseInv, history, Reading
  <1>7. WordInv' /\ BoundedSilence'
    BY <1>1, <1>2, WordKept, SilenceKept DEF history, HasText
  <1>8. QED
    BY <1>1, <1>2, <1>4, <1>5, <1>6, <1>7, GoesOn

(* A timer that runs while the body is read leaves its reason behind. *)
LEMMA BodyAborted ==
  ASSUME IInv, phase \notin {"sent", "over"}, sock \in {"open", "destroyed"}, buffer = <<>>,
         NEW t \in Timers, NEW r \in Timeouts,
         aborted' = Failure(r, TRUE), left' = [left EXCEPT ![t] = Off],
         sock' = Destroyed(sock),
         UNCHANGED <<req, phase, naming, idleMs, received, expired, readVars, result, age, history>>
  PROVE  IInv'
  <1>1. /\ TypeOK /\ WordInv /\ TimerInv /\ CauseInv /\ BoundedSilence
    BY DEF IInv
  <1>2. /\ aborted' \in Error /\ aborted'.reason = r /\ aborted'.responded = TRUE
        /\ aborted' # NoError
    <2>1. r \in Reasons /\ r # "none"
      BY DEF Reasons, Timeouts
    <2>2. QED
      BY <2>1, FailureFacts, NoErrorFacts
  <1>3. sock' = "destroyed"
    BY DEF Destroyed
  <1>4. /\ left' \in [Timers -> Nat \cup {Off}]
        /\ \A x \in Timers : left'[x] = left[x] \/ left'[x] = Off
    BY <1>1 DEF TypeOK
  <1>5. TypeOK'
    BY <1>1, <1>2, <1>3, <1>4 DEF TypeOK, readVars, history
  <1>6. TimerInv'
    <2>1. /\ left'["firstByte"] = left["firstByte"] \/ left'["firstByte"] = Off
          /\ left'["total"] = left["total"] \/ left'["total"] = Off
          /\ left'["semantic"] = left["semantic"] \/ left'["semantic"] = Off
      BY <1>4 DEF Timers
    <2>2. QED
      BY <1>1, <1>3, <2>1 DEF TimerInv
  <1>7. CauseInv'
    BY <1>1, <1>2, <1>3 DEF CauseInv, readVars, history
  <1>8. WordInv' /\ BoundedSilence'
    BY <1>1, WordKept, SilenceKept DEF readVars, history, HasText
  <1>9. QED
    BY <1>5, <1>6, <1>7, <1>8, GoesOn

(* A timer that runs before headers is what the caller is told. *)
LEMMA RequestAborted ==
  ASSUME IInv, phase = "sent", NEW t, NEW r \in Timeouts, Abort(t, Failure(r, Settled)),
         r = IF CapSubsumesFirstByte(req) THEN "deadline-timeout" ELSE "first-byte-timeout"
  PROVE  IInv'
  <1> DEFINE e == Failure(r, FALSE)
  <1>1. /\ TypeOK /\ WordInv /\ expired = NoError /\ heard = FALSE
    BY DEF IInv, CauseInv, TypeOK
  <1>2. Failure(r, Settled) = e
    BY DEF Settled, Failure
  <1>3. /\ e \in Error /\ e.reason = r /\ e.responded = FALSE
    <2>1. r \in Reasons
      BY DEF Reasons, Timeouts
    <2>2. QED BY <2>1, FailureFacts
  <1> HIDE DEF e
  <1>4. /\ aborted' = e /\ Finish(e)
        /\ UNCHANGED <<req, naming, idleMs, received, expired, answer, size, age, history>>
    BY <1>2 DEF Abort
  <1>5. Kept
    BY <1>1, <1>3, <1>4 DEF Kept, TypeOK, history
  <1>6. WordInv'
    BY <1>1, <1>4, WordKept DEF history
  <1>7. r \notin Transports /\ r # "answer"
    BY DEF Transports, Timeouts
  <1>8. heard' = FALSE
    BY <1>1, <1>4 DEF history
  <1>9. Truthful(e)
    BY <1>3, <1>4, <1>7, <1>8, <1>1 DEF Truthful
  <1>10. QED
    BY <1>4, <1>5, <1>6, <1>9, Ends

(* A timer of the request, before headers or after. *)
LEMMA TimerAborts ==
  ASSUME IInv, NEW t \in Timers, NEW r \in Timeouts, TimerRuns(t), Abort(t, Failure(r, Settled)),
         phase = "sent" =>
           r = IF CapSubsumesFirstByte(req) THEN "deadline-timeout" ELSE "first-byte-timeout"
  PROVE  IInv'
  <1>1. CASE phase = "sent"
    BY <1>1, RequestAborted
  <1>2. CASE phase # "sent"
    <2>1. Failure(r, Settled) = Failure(r, TRUE)
      BY <1>2 DEF Settled, Failure
    <2>2. /\ phase # "over" /\ sock \in {"open", "destroyed"} /\ buffer = <<>>
      BY DEF TimerRuns
    <2>3. /\ aborted' = Failure(r, TRUE) /\ left' = [left EXCEPT ![t] = Off]
          /\ sock' = Destroyed(sock)
          /\ UNCHANGED <<req, phase, naming, idleMs, received, expired, readVars, result, age,
                         history>>
      BY <1>2, <2>1 DEF Abort, readVars
    <2>4. QED
      BY <1>2, <2>2, <2>3, BodyAborted
  <1>3. QED BY <1>1, <1>2

LEMMA FireFirstByteInv ==
  ASSUME IInv, FireFirstByte
  PROVE  IInv'
  <1>1. TimerRuns("firstByte") /\ Abort("firstByte", Failure("first-byte-timeout", Settled))
    BY DEF FireFirstByte
  <1>2. ~CapSubsumesFirstByte(req)
    BY <1>1 DEF IInv, TimerInv, TimerRuns, Off
  <1>3. QED
    BY <1>1, <1>2, TimerAborts DEF Timers, Timeouts

LEMMA FireTotalInv ==
  ASSUME IInv, FireTotal
  PROVE  IInv'
  <1> DEFINE r == TotalReason(req, received)
  <1>1. TimerRuns("total") /\ Abort("total", Failure(r, Settled))
    BY DEF FireTotal
  <1>2. r \in Timeouts
    BY DEF TotalReason, Timeouts
  <1>3. ASSUME phase = "sent"
        PROVE  r = IF CapSubsumesFirstByte(req) THEN "deadline-timeout" ELSE "first-byte-timeout"
    <2>1. /\ TypeOK /\ TimerInv /\ received = FALSE /\ sock = "open" /\ left["total"] = 0
      BY <1>1, <1>3 DEF IInv, CauseInv, TypeOK, TimerRuns
    <2>2. /\ req.firstByte \in Nat /\ req.cap \in Nat /\ TotalMs(req) \in Nat
          /\ req.plane \in {"chat", "control"} /\ age \in Nat
          /\ left["firstByte"] \in Int
      BY <2>1, RequestFacts, TimerFacts DEF TypeOK
    <2>3. TotalMs(req) > 0 /\ age = TotalMs(req)
      BY <1>3, <2>1, <2>2 DEF TimerInv, Off
    <2>4. CASE CapSubsumesFirstByte(req)
      BY <2>1, <2>4 DEF TotalReason, CapSubsumesFirstByte
    <2>5. CASE ~CapSubsumesFirstByte(req)
      <3>1. age <= req.firstByte
        BY <1>3, <2>1, <2>2, <2>5 DEF TimerInv
      <3>2. req.plane = "control"
        BY <2>2, <2>3, <2>5, <3>1 DEF CapSubsumesFirstByte, TotalMs
      <3>3. QED
        BY <2>1, <2>5, <3>2 DEF TotalReason
    <2>6. QED BY <2>4, <2>5
  <1> HIDE DEF r
  <1>4. QED
    BY <1>1, <1>2, <1>3, TimerAborts DEF Timers

LEMMA FireIdleInv ==
  ASSUME IInv, FireIdle
  PROVE  IInv'
  <1>1. phase # "sent"
    BY DEF IInv, TimerInv, FireIdle, TimerRuns, Off
  <1>2. /\ phase # "over" /\ sock \in {"open", "destroyed"} /\ buffer = <<>>
        /\ aborted' = Failure("idle-timeout", TRUE) /\ left' = [left EXCEPT !["idle"] = Off]
        /\ sock' = Destroyed(sock)
        /\ UNCHANGED <<req, phase, naming, idleMs, received, expired, readVars, result, age, history>>
    BY DEF FireIdle, TimerRuns
  <1>3. "idle" \in Timers /\ "idle-timeout" \in Timeouts
    BY DEF Timers, Timeouts
  <1>4. QED
    BY <1>1, <1>2, <1>3, BodyAborted

LEMMA FireSemanticInv ==
  ASSUME IInv, FireSemantic
  PROVE  IInv'
  <1>1. /\ TypeOK /\ WordInv /\ TimerInv /\ CauseInv /\ BoundedSilence
    BY DEF IInv
  <1>2. /\ phase # "over" /\ sock \in {"open", "destroyed"} /\ buffer = <<>>
        /\ left["semantic"] = 0
        /\ UNCHANGED <<req, phase, naming, idleMs, received, aborted, readVars, result, age, history>>
    BY DEF FireSemantic, TimerRuns
  <1>3. phase = "stream"
    BY <1>1, <1>2 DEF TimerInv, Off
  <1>4. /\ sock' = "destroyed" /\ expired' \in Error /\ expired' # NoError
        /\ expired'.responded
        /\ expired'.reason \in {"first-token-timeout", "idle-timeout", "stream-error-frame",
                               "token-reserve-cutoff"}
    <2>1. CASE expired = NoError
      <3>1. expired' = Failure(naming, TRUE) /\ sock' = Destroyed(sock)
        BY <2>1 DEF FireSemantic
      <3>2. naming \in Reasons /\ naming # "none"
            /\ naming \in {"first-token-timeout", "idle-timeout"}
        BY <1>1 DEF TypeOK, Reasons
      <3>3. /\ expired' \in Error /\ expired'.reason = naming /\ expired'.responded = TRUE
        BY <3>1, <3>2, FailureFacts
      <3>4. expired' # NoError
        BY <3>2, <3>3, NoErrorFacts
      <3>5. sock' = "destroyed"
        BY <1>2, <3>1 DEF Destroyed
      <3>6. QED
        BY <3>2, <3>3, <3>4, <3>5
    <2>2. CASE expired # NoError
      <3>1. sock = "destroyed"
        BY <1>1, <1>2, <1>3, <2>2 DEF CauseInv, Reading
      <3>2. expired' = expired /\ sock' = sock
        BY <2>2 DEF FireSemantic
      <3>3. QED
        BY <1>1, <2>2, <3>1, <3>2 DEF CauseInv, TypeOK
    <2>3. QED BY <2>1, <2>2
  <1>5. /\ left' \in [Timers -> Nat \cup {Off}]
        /\ left'["firstByte"] = left["firstByte"] \/ left'["firstByte"] = Off
        /\ left'["total"] = left["total"] \/ left'["total"] = Off
        /\ left'["semantic"] = Off
    BY <1>1 DEF FireSemantic, Release, TypeOK, Timers
  <1>6. TypeOK'
    BY <1>1, <1>2, <1>4, <1>5 DEF TypeOK, readVars, history
  <1>7. TimerInv'
    BY <1>1, <1>2, <1>3, <1>4, <1>5 DEF TimerInv
  <1>8. CauseInv'
    BY <1>1, <1>2, <1>3, <1>4 DEF CauseInv, Reading, readVars, history
  <1>9. WordInv' /\ BoundedSilence'
    BY <1>1, <1>2, WordKept, SilenceKept DEF readVars, history, HasText
  <1>10. QED
    BY <1>2, <1>6, <1>7, <1>8, <1>9, GoesOn

(* The first-token budget is what is left of the request's own. *)
LEMMA HeadersInv ==
  ASSUME IInv, NEW kind \in Reading, Headers(kind)
  PROVE  IInv'
  <1>1. /\ TypeOK /\ WordInv /\ TimerInv /\ CauseInv /\ BoundedSilence
        /\ phase = "sent" /\ sock = "open" /\ age \in Nat
        /\ left \in [Timers -> Nat \cup {Off}]
    BY DEF IInv, Headers, TypeOK
  <1>2. /\ req.firstByte \in Nat /\ req.firstByte > 0 /\ req.idle \in Nat /\ TotalMs(req) \in Nat
        /\ CapSubsumesFirstByte(req) => TotalMs(req) > 0 /\ TotalMs(req) <= req.firstByte
        /\ left["firstByte"] \in Int /\ left["total"] \in Int
    BY <1>1, RequestFacts, TimerFacts DEF TypeOK
  <1>3. age <= req.firstByte
    <2>1. CASE CapSubsumesFirstByte(req)
      BY <1>1, <1>2, <2>1 DEF TimerInv
    <2>2. CASE ~CapSubsumesFirstByte(req)
      BY <1>1, <1>2, <2>2 DEF TimerInv
    <2>3. QED BY <2>1, <2>2
  <1>4. /\ phase' = kind /\ heard' = TRUE
        /\ UNCHANGED <<req, naming, received, aborted, expired, sock, readVars, result, age, cut,
                       lastWord>>
    BY DEF Headers
  <1> DEFINE rem == Remaining(req, age)
  <1>5. rem \in Nat /\ rem + age <= req.firstByte + 1
    BY <1>1, <1>2, <1>3 DEF Remaining
  <1> HIDE DEF rem
  <1>6. /\ idleMs' \in Nat /\ left' \in [Timers -> Nat \cup {Off}]
        /\ left'["firstByte"] = left["firstByte"] /\ left'["total"] = left["total"]
        /\ kind # "stream" => left'["semantic"] = left["semantic"]
        /\ kind = "stream" => left'["semantic"] = rem
        /\ kind = "refused" => idleMs' = ErrorIdle /\ left'["idle"] = ErrorIdle
    <2>1. CASE kind = "refused"
      <3>1. idleMs' = ErrorIdle /\ left' = [left EXCEPT !["idle"] = ErrorIdle]
        BY <2>1 DEF Headers, SetIdle
      <3>2. QED
        BY <1>1, <2>1, <3>1, LimitsAssumption DEF Timers
    <2>2. CASE kind = "document"
      <3>1. \/ idleMs' = req.idle /\ left' = [left EXCEPT !["idle"] = req.idle]
            \/ idleMs' = idleMs /\ left' = left
        BY <2>2 DEF Headers, SetIdle
      <3>2. QED
        BY <1>1, <1>2, <2>2, <3>1 DEF Timers, TypeOK
    <2>3. CASE kind = "stream"
      <3>1. idleMs' = idleMs /\ left' = [left EXCEPT !["semantic"] = rem]
        BY <2>3 DEF Headers, rem
      <3>2. QED
        BY <1>1, <1>5, <2>3, <3>1 DEF Timers, TypeOK
    <2>4. QED BY <2>1, <2>2, <2>3 DEF Reading
  <1>7. TypeOK'
    BY <1>1, <1>4, <1>6 DEF TypeOK, readVars
  <1>8. TimerInv'
    <2>1. req' = req /\ age' = age /\ phase' = kind /\ kind # "sent"
      BY <1>4 DEF Reading
    <2>2. TotalMs(req) > 0 => left'["total"] >= 0 /\ left'["total"] + age = TotalMs(req)
      BY <1>1, <1>6 DEF TimerInv
    <2>3. kind = "stream" => left'["semantic"] >= 0 /\ left'["semantic"] + age <= req.firstByte + 1
      BY <1>5, <1>6
    <2>4. /\ CapSubsumesFirstByte(req) => left'["firstByte"] = Off
          /\ TotalMs(req) = 0 => left'["total"] = Off
          /\ kind # "stream" => left'["semantic"] = Off
      BY <1>1, <1>6 DEF TimerInv
    <2>5. kind = "refused" => idleMs' = ErrorIdle /\ left'["idle"] \in 0 .. ErrorIdle
      BY <1>6, LimitsAssumption
    <2>6. QED
      BY <2>1, <2>2, <2>3, <2>4, <2>5 DEF TimerInv
  <1>9. CauseInv'
    BY <1>1, <1>4 DEF CauseInv, Reading, readVars
  <1>10. WordInv' /\ BoundedSilence'
    BY <1>1, <1>4, WordKept, SilenceKept DEF readVars, HasText
  <1>11. QED
    BY <1>4, <1>7, <1>8, <1>9, <1>10, GoesOn DEF Reading

(* A frame is folded in, and counts as progress exactly when it brings text. *)
LEMMA FrameInv ==
  ASSUME IInv, Frame
  PROVE  IInv'
  <1> DEFINE m == Head(buffer)
             a == ApplyFrame(answer, m)
  <1>1. /\ TypeOK /\ WordInv /\ TimerInv /\ CauseInv /\ BoundedSilence
        /\ phase = "stream" /\ buffer # <<>> /\ answer \in Answers /\ buffer \in Seq(Events)
        /\ lastWord \in {"none", "stop", "error"} /\ heard
        /\ left \in [Timers -> Nat \cup {Off}] /\ sock \in {"open", "complete"}
        /\ aborted = NoError /\ expired = NoError
    BY DEF IInv, Frame, TypeOK, CauseInv, Reading
  <1>2. m \in Events /\ Tail(buffer) \in Seq(Events)
    BY <1>1
  <1>3. /\ a \in Answers
        /\ HasText(answer) => HasText(a)
        /\ Carries(m) => HasText(a)
        /\ a.finish = FinishAfter(answer, m) /\ a.stated = (answer.stated \/ m.error)
    BY <1>1, <1>2, FrameFacts
  <1>4. /\ answer' = a /\ lastWord' = WordOf(lastWord, m)
        /\ naming' = IF Progress(m) THEN "idle-timeout" ELSE naming
        /\ UNCHANGED <<req, idleMs, received, aborted, size, result, age, heard, cut>>
    BY DEF Frame
  <1> DEFINE claim == ClaimOf(m, a)
  <1>5. \/ claim # NoError /\ Claim(claim)
        \/ /\ claim = NoError
           /\ left' = IF Progress(m) THEN [left EXCEPT !["semantic"] = req.idle] ELSE left
           /\ buffer' = Tail(buffer) /\ UNCHANGED <<expired, sock, phase>>
    BY <1>1 DEF Frame
  <1>6. \/ claim = NoError
        \/ claim = Failure("stream-error-frame", TRUE)
        \/ claim = Failure("token-reserve-cutoff", TRUE)
    BY DEF ClaimOf
  <1>7. /\ lastWord' \in {"none", "stop", "error"} /\ WordInv'
    <2>1. /\ WordOf(lastWord, m) \in {"none", "stop", "error"}
          /\ FinishAfter(answer, m) # "none" => WordOf(lastWord, m) = FinishAfter(answer, m)
          /\ FinishAfter(answer, m) = "none" /\ WordOf(lastWord, m) # "none" =>
               WordOf(lastWord, m) = "error" /\ (answer.stated \/ m.error)
      BY <1>1, <1>2, WordFacts DEF WordInv
    <2>2. QED
      BY <1>3, <1>4, <2>1 DEF WordInv
  <1>8. naming' \in {"first-token-timeout", "idle-timeout"}
    BY <1>1, <1>4 DEF TypeOK
  <1> HIDE DEF m, a, claim
  <1>9. CASE claim # NoError
    <2>1. /\ expired' = claim /\ left' = [Release(left) EXCEPT !["semantic"] = Off]
          /\ sock' = Destroyed(sock) /\ buffer' = <<>> /\ phase' = "closing"
      BY <1>5, <1>9 DEF Claim
    <2>2. /\ expired' \in Error /\ expired'.responded = TRUE /\ expired' # NoError
          /\ expired'.reason \in {"stream-error-frame", "token-reserve-cutoff"}
      <3>1. {"stream-error-frame", "token-reserve-cutoff"} \subseteq Reasons
        BY DEF Reasons
      <3>2. QED
        BY <1>6, <1>9, <2>1, <3>1, FailureFacts
    <2>3. left' = AllOff /\ AllOff \in [Timers -> Nat \cup {Off}]
      BY <1>1, <2>1, TimerFacts DEF Release, AllOff, Timers
    <2>4. sock' \in {"destroyed", "complete"}
      BY <2>1 DEF Destroyed
    <2>5. TypeOK'
      <3>1. buffer' \in Seq(Events)
        BY <2>1
      <3>2. left' \in [Timers -> Nat \cup {Off}]
        BY <2>3
      <3>3. QED
        BY <1>1, <1>3, <1>4, <1>7, <1>8, <2>1, <2>2, <2>4, <3>1, <3>2 DEF TypeOK
    <2>6. TimerInv'
      BY <2>1, <2>3 DEF TimerInv, AllOff, Timers, Reading
    <2>7. CauseInv'
      BY <1>1, <1>4, <2>1, <2>2, <2>4 DEF CauseInv, Reading
    <2>8. BoundedSilence'
      BY <1>1, <1>4, <2>1, SilenceKept, <1>3
    <2>9. QED
      BY <1>7, <2>1, <2>5, <2>6, <2>7, <2>8, GoesOn
  <1>10. CASE claim = NoError
    <2>1. /\ left' = IF Progress(m) THEN [left EXCEPT !["semantic"] = req.idle] ELSE left
          /\ buffer' = Tail(buffer) /\ UNCHANGED <<expired, sock, phase>>
      BY <1>5, <1>10
    <2>2. /\ left' \in [Timers -> Nat \cup {Off}]
          /\ left'["firstByte"] = left["firstByte"] /\ left'["total"] = left["total"]
          /\ ~Progress(m) => left' = left
      <3>1. req.idle \in Nat
        BY <1>1, RequestFacts DEF TypeOK
      <3>2. QED
        BY <1>1, <2>1, <3>1 DEF Timers
    <2>3. TypeOK'
      BY <1>1, <1>2, <1>3, <1>4, <1>7, <1>8, <2>1, <2>2 DEF TypeOK
    <2>4. TimerInv'
      <3>1. ~HasText(answer') => ~HasText(answer) /\ left' = left
        BY <1>3, <1>4, <2>2 DEF Progress
      <3>2. QED
        BY <1>1, <1>4, <2>1, <2>2, <3>1 DEF TimerInv
    <2>5. CauseInv'
      BY <1>1, <1>4, <2>1 DEF CauseInv, Reading
    <2>6. BoundedSilence'
      BY <1>1, <1>3, <1>4, <2>1, SilenceKept
    <2>7. QED
      BY <1>1, <1>7, <2>1, <2>3, <2>4, <2>5, <2>6, GoesOn
  <1>11. QED BY <1>9, <1>10

(* Time passes only while no timer is due, so no budget is overrun. *)
LEMMA TickInv ==
  ASSUME IInv, Tick
  PROVE  IInv'
  <1>1. /\ TypeOK /\ WordInv /\ TimerInv /\ CauseInv
        /\ phase \in {"sent"} \cup Reading /\ sock = "open" /\ age \in Nat
        /\ left \in [Timers -> Nat \cup {Off}]
    BY DEF IInv, Tick, TypeOK
  <1>2. /\ UNCHANGED <<req, phase, naming, idleMs, received, aborted, expired, sock, readVars,
                       result, history>>
        /\ left' = [t \in Timers |-> IF left[t] > 0 THEN left[t] - 1 ELSE left[t]]
        /\ age' = IF age < AgeBound THEN age + 1 ELSE age
    BY DEF Tick
  <1>3. \A t \in Timers :
          /\ left[t] \in Nat \cup {Off} /\ left[t] # 0
          /\ left[t] >= 0 => left'[t] \in Nat /\ left'[t] = left[t] - 1
          /\ left[t] = Off => left'[t] = Off
    BY <1>1, <1>2 DEF Tick, Due, Off
  <1>4. left' \in [Timers -> Nat \cup {Off}]
    BY <1>2, <1>3 DEF Off
  <1>5. /\ req.firstByte \in Nat /\ req.cap \in Nat /\ TotalMs(req) \in Nat
        /\ TotalMs(req) <= req.firstByte + req.cap
        /\ CapSubsumesFirstByte(req) => TotalMs(req) > 0 /\ TotalMs(req) <= req.firstByte
    <2>1. /\ req.firstByte \in Nat /\ req.cap \in Nat
      BY <1>1, RequestFacts DEF TypeOK
    <2>2. QED
      BY <1>1, <2>1, RequestFacts DEF TypeOK, TotalMs
  <1>6. age' \in Nat /\ age' <= age + 1 /\ (age < AgeBound => age' = age + 1)
    BY <1>1, <1>2, <1>5 DEF AgeBound
  <1>7. /\ left["firstByte"] \in Int /\ left["total"] \in Int /\ left["semantic"] \in Int
        /\ left["firstByte"] >= 0 => left["firstByte"] > 0 /\ left'["firstByte"] \in Nat
                                    /\ left'["firstByte"] = left["firstByte"] - 1
        /\ left["total"] >= 0 => left["total"] > 0 /\ left'["total"] \in Nat
                                    /\ left'["total"] = left["total"] - 1
        /\ left["semantic"] >= 0 => left["semantic"] > 0 /\ left'["semantic"] \in Nat
                                    /\ left'["semantic"] = left["semantic"] - 1
        /\ left["firstByte"] = Off => left'["firstByte"] = Off
        /\ left["total"] = Off => left'["total"] = Off
        /\ left["semantic"] = Off => left'["semantic"] = Off
        /\ left["idle"] = Off => left'["idle"] = Off
        /\ left["idle"] \in Nat => left'["idle"] \in 0 .. left["idle"]
    BY <1>3 DEF Timers, Off
  <1>8. TypeOK'
    BY <1>1, <1>2, <1>4, <1>6 DEF TypeOK, readVars, history
  <1>9. req' = req /\ phase' = phase /\ sock' = sock /\ answer' = answer
    BY <1>2 DEF readVars
  <1>10. TotalMs(req) > 0 =>
           /\ left'["total"] >= 0 /\ left'["total"] + age' = TotalMs(req) /\ age' <= TotalMs(req)
    <2>1. ASSUME TotalMs(req) > 0
          PROVE  left["total"] >= 0 /\ left["total"] + age = TotalMs(req)
      BY <1>1, <2>1 DEF TimerInv
    <2>2. TotalMs(req) > 0 => age < AgeBound
      BY <1>1, <1>5, <1>7, <2>1 DEF AgeBound
    <2>3. QED
      BY <1>1, <1>5, <1>6, <1>7, <2>1, <2>2
  <1>11. phase = "sent" /\ ~CapSubsumesFirstByte(req) =>
           /\ left'["firstByte"] >= 0 /\ left'["firstByte"] + age' = req.firstByte
           /\ age' <= req.firstByte
    <2>1. ASSUME phase = "sent", ~CapSubsumesFirstByte(req)
          PROVE  left["firstByte"] >= 0 /\ left["firstByte"] + age = req.firstByte
      BY <1>1, <2>1 DEF TimerInv
    <2>2. phase = "sent" /\ ~CapSubsumesFirstByte(req) => age < AgeBound
      BY <1>1, <1>5, <1>7, <2>1 DEF AgeBound
    <2>3. QED
      BY <1>1, <1>5, <1>6, <1>7, <2>1, <2>2
  <1>12. phase = "stream" /\ ~HasText(answer) =>
           /\ left'["semantic"] >= 0 /\ left'["semantic"] + age' <= req.firstByte + 1
    <2>1. ASSUME phase = "stream", ~HasText(answer)
          PROVE  left["semantic"] >= 0 /\ left["semantic"] + age <= req.firstByte + 1
      BY <1>1, <2>1 DEF TimerInv
    <2>2. QED
      BY <1>1, <1>5, <1>6, <1>7, <2>1
  <1>13. TimerInv'
    <2>1. /\ CapSubsumesFirstByte(req) => left'["firstByte"] = Off
          /\ TotalMs(req) = 0 => left'["total"] = Off
          /\ phase # "stream" => left'["semantic"] = Off
          /\ phase = "sent" => left'["idle"] = Off
      BY <1>1, <1>7 DEF TimerInv
    <2>2. HasText(answer') = HasText(answer)
      BY <1>9
    <2>3. phase = "refused" /\ sock = "open" =>
            idleMs' = ErrorIdle /\ left'["idle"] \in 0 .. ErrorIdle
      <3>1. phase = "refused" /\ sock = "open" =>
              idleMs = ErrorIdle /\ left["idle"] \in 0 .. ErrorIdle
        BY <1>1 DEF TimerInv
      <3>2. idleMs' = idleMs
        BY <1>2
      <3>3. QED
        BY <1>7, <3>1, <3>2, LimitsAssumption
    <2>4. QED
      BY <1>9, <1>10, <1>11, <1>12, <2>1, <2>2, <2>3 DEF TimerInv
  <1>14. CauseInv'
    BY <1>1, <1>2 DEF CauseInv, readVars, history
  <1>15. WordInv'
    BY <1>1, <1>2, WordKept DEF readVars, history
  <1>16. BoundedSilence'
    <2>1. phase = "sent" => age' <= req.firstByte
      BY <1>5, <1>6, <1>10, <1>11
    <2>2. phase = "stream" /\ ~HasText(answer) => age' <= req.firstByte + 1
      <3>1. left'["semantic"] \in Int
        BY <1>4 DEF Timers, Off
      <3>2. QED
        BY <1>5, <1>6, <1>12, <3>1
    <2>3. HasText(answer') = HasText(answer)
      BY <1>9
    <2>4. QED
      BY <1>5, <1>6, <1>9, <1>10, <2>1, <2>2, <2>3 DEF BoundedSilence
  <1>17. QED
    BY <1>1, <1>9, <1>8, <1>13, <1>14, <1>15, <1>16, GoesOn DEF Reading

-----------------------------------------------------------------------------
(* The invariant. *)

LEMMA InitInv == Init => IInv
  <1> SUFFICES ASSUME Init PROVE IInv
    OBVIOUS
  <1>1. /\ req.firstByte \in Nat /\ req.firstByte > 0 /\ TotalMs(req) \in Nat
        /\ req \in Requests
    BY RequestFacts DEF Init
  <1> DEFINE first == IF CapSubsumesFirstByte(req) THEN Off ELSE req.firstByte
             whole == IF TotalMs(req) > 0 THEN TotalMs(req) ELSE Off
  <1>2. first \in Nat \cup {Off} /\ whole \in Nat \cup {Off}
    BY <1>1
  <1>3. left = [AllOff EXCEPT !["firstByte"] = first, !["total"] = whole]
    BY DEF Init, ArmBudgets
  <1>4. /\ left \in [Timers -> Nat \cup {Off}]
        /\ left["firstByte"] = first /\ left["total"] = whole
        /\ left["idle"] = Off /\ left["semantic"] = Off
    BY <1>2, <1>3 DEF AllOff, Timers
  <1>5. /\ EmptyAnswer \in Answers /\ ~HasText(EmptyAnswer) /\ EmptyAnswer.finish = "none"
    BY DEF EmptyAnswer, Answers, HasText
  <1>6. TypeOK
    <2>1. buffer \in Seq(Events)
      BY DEF Init
    <2>2. NoError \in Error
      BY NoErrorFacts
    <2>3. QED
      BY <1>1, <1>4, <1>5, <2>1, <2>2 DEF Init, TypeOK
  <1>7. TimerInv
    BY <1>1, <1>4 DEF Init, TimerInv
  <1>8. CauseInv /\ WordInv
    BY <1>5 DEF Init, CauseInv, WordInv, Reading
  <1>9. BoundedSilence
    BY <1>1 DEF Init, BoundedSilence
  <1>10. NothingLeft /\ CauseIsTrue /\ HeardIsTrue /\ NoHalfAnswer /\ TieIsDecided
    BY DEF Init, NothingLeft, CauseIsTrue, HeardIsTrue, NoHalfAnswer, TieIsDecided
  <1>11. QED
    BY <1>6, <1>7, <1>8, <1>9, <1>10 DEF IInv

LEMMA StutterInv ==
  ASSUME IInv, UNCHANGED vars
  PROVE  IInv'
  BY DEF vars, readVars, history, IInv, TypeOK, TimerInv, CauseInv, WordInv, NothingLeft,
         CauseIsTrue, HeardIsTrue, BoundedSilence, NoHalfAnswer, TieIsDecided, HasText

LEMMA NextInv ==
  ASSUME IInv, [Next]_vars
  PROVE  IInv'
  <1>1. CASE Tick
    BY <1>1, TickInv
  <1>2. CASE Fire
    BY <1>2, FireFirstByteInv, FireTotalInv, FireIdleInv, FireSemanticInv DEF Fire
  <1>3. CASE Server
    <2>1. ASSUME NEW transient \in BOOLEAN, ConnectionFails(transient)
          PROVE  IInv'
      BY <2>1, ConnectionFailsInv
    <2>2. CASE Undecodable \/ Redirected
      BY <2>2, TurnedAwayInv
    <2>3. ASSUME NEW kind \in Reading, Headers(kind)
          PROVE  IInv'
      BY <2>3, HeadersInv
    <2>4. ASSUME NEW c \in Chunks, StreamChunk(c) \/ StreamComplete(c)
          PROVE  IInv'
      BY <2>4, StreamChunkInv, StreamCompleteInv
    <2>5. CASE DocumentChunk
      BY <2>5, DocumentChunkInv
    <2>6. ASSUME NEW m \in Frames \cup {Other("junk")}, CompletionRead(m)
          PROVE  IInv'
      BY <2>6, CompletionReadInv
    <2>7. ASSUME NEW json \in BOOLEAN, BodyRead(json)
          PROVE  IInv'
      BY <2>7, BodyReadInv
    <2>8. QED
      BY <1>3, <2>1, <2>2, <2>3, <2>4, <2>5, <2>6, <2>7 DEF Server
  <1>4. CASE Client
    BY <1>4, DoneInv, JunkInv, FrameInv, StreamEndsInv, CloseInv DEF Client
  <1>5. ASSUME NEW handlerRuns \in BOOLEAN, Lost(handlerRuns)
        PROVE  IInv'
    BY <1>5, LostInv
  <1>6. CASE UNCHANGED vars
    BY <1>6, StutterInv
  <1>7. QED
    BY <1>1, <1>2, <1>3, <1>4, <1>5, <1>6 DEF Next

(* Whatever the server, the network and the timers do, in whatever order,    *)
(* and for every request, limit and set of frames, the invariant holds.      *)
(* (http.mjs, http-budgets.mjs, stream-collect.mjs, completion.mjs)          *)
THEOREM ExchangeInvariant == Spec => []IInv
  <1>1. IInv /\ [Next]_vars => IInv'
    BY NextInv
  <1>2. QED
    BY InitInv, <1>1, PTL DEF Spec

(* A request that is over has disarmed every timer and let go of its socket. *)
(* (http.mjs fail, bodyStream)                                               *)
THEOREM NothingIsLeft == Spec => []NothingLeft
  <1>1. IInv => NothingLeft
    BY DEF IInv
  <1>2. QED
    BY ExchangeInvariant, <1>1, PTL

(* The cause a caller is given is the cause there was: no failure of ours is *)
(* blamed on the connection, no claim and no elapsed budget is lost.         *)
(* (http.mjs bodyStream, requestErrorHandler; stream-collect.mjs)            *)
THEOREM CauseIsAlwaysTrue == Spec => [](CauseIsTrue /\ HeardIsTrue)
  <1>1. IInv => CauseIsTrue /\ HeardIsTrue
    BY DEF IInv
  <1>2. QED
    BY ExchangeInvariant, <1>1, PTL

(* Silence is bounded by the budgets, whatever the server trickles.          *)
(* (http-budgets.mjs armBudgets; chat.mjs postChat)                          *)
THEOREM SilenceIsBounded == Spec => []BoundedSilence
  <1>1. IInv => BoundedSilence
    BY DEF IInv
  <1>2. QED
    BY ExchangeInvariant, <1>1, PTL

(* No reply the server did not finish is handed over as an answer.           *)
(* (completion.mjs finishAnswer; stream-collect.mjs)                         *)
THEOREM NoAnswerIsHalf == Spec => []NoHalfAnswer
  <1>1. IInv => NoHalfAnswer
    BY DEF IInv
  <1>2. QED
    BY ExchangeInvariant, <1>1, PTL

(* Of two budgets due together before headers, the configuration decides and *)
(* not the event loop. (http-budgets.mjs armBudgets)                         *)
THEOREM TiesAreDecided == Spec => []TieIsDecided
  <1>1. IInv => TieIsDecided
    BY DEF IInv
  <1>2. QED
    BY ExchangeInvariant, <1>1, PTL

-----------------------------------------------------------------------------
(* When the reader counts text as come. *)

(* Text that was folded in was seen, and an ending called a refusal or an    *)
(* empty reply had none.                                                     *)
LEMMA SawFacts ==
  ASSUME NEW a \in Answers, HasText(a) => a.saw, NEW e \in Events
  PROVE  /\ HasText(ApplyFrame(a, e)) => ApplyFrame(a, e).saw
         /\ HasText(ApplyFrame(a, e)) => HasText(a) \/ Carries(e)
  <1>1. /\ e.text # "think" => ApplyFrame(a, e).think = a.think
        /\ e.text # "say" => ApplyFrame(a, e).say = a.say
        /\ ApplyFrame(a, e).saw = (a.saw \/ e.text # "none")
    BY DEF ApplyFrame
  <1>2. a.think \in Nat /\ a.say \in Nat
    BY DEF Answers
  <1>3. HasText(ApplyFrame(a, e)) => HasText(a) \/ Carries(e)
    BY <1>1, <1>2 DEF HasText, Carries
  <1>4. Carries(e) => e.text # "none"
    BY DEF Carries
  <1>5. QED
    BY <1>1, <1>3, <1>4

LEMMA VerdictText ==
  ASSUME NEW a \in Answers, HasText(a) => a.saw
  PROVE  /\ Verdict(a).reason \in {"stream-error-frame", "empty-completion",
                                   "blank-completion"} => ~HasText(a)
         /\ Verdict(a).responded \/ Verdict(a).reason \in Reply!Shapes
  <1>1. CASE IsRefusal(a)
    BY <1>1 DEF Verdict, Failure, IsRefusal
  <1>2. CASE ~IsRefusal(a) /\ (a.finish = "error" \/ (a.finish = "none" /\ a.stated))
    BY <1>2 DEF Verdict, Failure
  <1>3. CASE ~IsRefusal(a) /\ ~(a.finish = "error" \/ (a.finish = "none" /\ a.stated))
    <2>1. Verdict(a) = CASE ~a.saw -> Failure("empty-completion", FALSE)
                         [] a.saw /\ ~a.done /\ a.finish = "none" ->
                              Failure("stream-unfinished", FALSE)
                         [] OTHER -> IF HasText(a) THEN Failure("answer", TRUE)
                                     ELSE Failure("blank-completion", FALSE)
      BY <1>3 DEF Verdict
    <2>2. CASE ~a.saw
      BY <2>1, <2>2 DEF Failure, Reply!Shapes
    <2>3. CASE a.saw /\ ~a.done /\ a.finish = "none"
      BY <2>1, <2>3 DEF Failure, Reply!Shapes
    <2>4. CASE a.saw /\ ~(~a.done /\ a.finish = "none")
      BY <2>1, <2>4 DEF Failure, Reply!Shapes
    <2>5. QED BY <2>2, <2>3, <2>4
  <1>4. QED BY <1>1, <1>2, <1>3

(* An ending asks only what was seen. *)
LEMMA TextEnds ==
  ASSUME TypeOK, NEW e, Finish(e), HasText(answer') => answer'.saw
  PROVE  TextInv'
  <1>1. phase' = "over"
    BY FinishFacts
  <1>2. QED
    BY <1>1 DEF TextInv

(* A step that folds nothing in, reads nothing and arms no first-byte timer. *)
LEMMA TextGoesOn ==
  ASSUME TextInv, UNCHANGED <<req, phase, naming, answer, buffer, cut>>,
         phase # "closing",
         left'["firstByte"] = left["firstByte"] \/ left'["firstByte"] = Off,
         sock' # "complete" => sock # "complete"
  PROVE  TextInv'
  BY DEF TextInv, HasText

LEMMA InitText == Init => TextInv
  BY DEF Init, TextInv, EmptyAnswer, HasText

LEMMA FireText ==
  ASSUME IInv, TextInv, Fire
  PROVE  TextInv'
  <1>1. /\ TypeOK /\ (HasText(answer) => answer.saw)
        /\ left \in [Timers -> Nat \cup {Off}]
    BY DEF IInv, TextInv, TypeOK
  <1>2. phase # "closing"
    <2>1. \E t \in Timers : left[t] = 0
      BY DEF Fire, FireFirstByte, FireTotal, FireIdle, FireSemantic, TimerRuns, Timers
    <2>2. QED
      BY <2>1 DEF TextInv, AllOff, Off
  <1>3. ASSUME NEW t \in Timers, NEW e, TimerRuns(t), Abort(t, e)
        PROVE  TextInv'
    <2>1. CASE phase = "sent"
      <3>1. Finish(e) /\ answer' = answer
        BY <1>3, <2>1 DEF Abort
      <3>2. QED
        BY <1>1, <3>1, TextEnds
    <2>2. CASE phase # "sent"
      <3>1. /\ left' = [left EXCEPT ![t] = Off] /\ sock' = Destroyed(sock)
            /\ UNCHANGED <<req, phase, naming, answer, buffer, cut>>
        BY <1>3, <2>2 DEF Abort, history
      <3>2. left'["firstByte"] = left["firstByte"] \/ left'["firstByte"] = Off
        BY <1>1, <3>1 DEF Timers
      <3>3. sock' # "complete" => sock # "complete"
        BY <3>1 DEF Destroyed
      <3>4. QED
        BY <1>2, <3>1, <3>2, <3>3, TextGoesOn
    <2>3. QED BY <2>1, <2>2
  <1>4. CASE FireFirstByte \/ FireTotal
    BY <1>3, <1>4 DEF FireFirstByte, FireTotal, Timers
  <1>5. CASE FireIdle \/ FireSemantic
    <2>1. /\ UNCHANGED <<req, phase, naming, answer, buffer, cut>>
          /\ sock' \in {sock, Destroyed(sock)}
      BY <1>5 DEF FireIdle, FireSemantic, readVars, history
    <2>2. left'["firstByte"] = left["firstByte"] \/ left'["firstByte"] = Off
      BY <1>1, <1>5 DEF FireIdle, FireSemantic, Release, Timers
    <2>3. sock' # "complete" => sock # "complete"
      BY <2>1 DEF Destroyed
    <2>4. QED
      BY <1>2, <2>1, <2>2, <2>3, TextGoesOn
  <1>6. QED BY <1>4, <1>5 DEF Fire

(* Headers are before any text, and only a stream's chunks are held back.    *)
LEMMA HeadersText ==
  ASSUME IInv, TextInv, NEW kind \in Reading, Headers(kind)
  PROVE  TextInv'
  <1>1. /\ answer = EmptyAnswer /\ buffer = <<>> /\ phase = "sent" /\ ~cut
        /\ naming = "first-token-timeout"
    BY DEF IInv, CauseInv, TextInv, Headers
  <1>2. /\ phase' \in Reading /\ UNCHANGED <<req, naming, answer, buffer, cut>>
        /\ phase' = "stream" => req.plane = "chat"
    BY DEF Headers, readVars
  <1>3. ~HasText(EmptyAnswer)
    BY DEF HasText, EmptyAnswer
  <1>4. QED
    BY <1>1, <1>2, <1>3 DEF TextInv, Reading

LEMMA FrameText ==
  ASSUME IInv, TextInv, Frame
  PROVE  TextInv'
  <1> DEFINE m == Head(buffer)
             a == ApplyFrame(answer, m)
             claim == ClaimOf(m, a)
  <1>1. /\ TypeOK /\ phase = "stream" /\ buffer # <<>> /\ answer \in Answers
        /\ buffer \in Seq(Events) /\ expired = NoError /\ req.plane = "chat"
        /\ naming = "idle-timeout" <=> HasText(answer)
        /\ HasText(answer) => answer.saw
        /\ sock # "complete" => left["firstByte"] = Off
        /\ left \in [Timers -> Nat \cup {Off}] /\ ~cut
    BY DEF IInv, CauseInv, TextInv, Frame, TypeOK, Reading
  <1>2. m \in Events
    BY <1>1
  <1>3. /\ a \in Answers /\ (HasText(answer) => HasText(a))
        /\ Carries(m) => HasText(a)
        /\ HasText(a) => a.saw
        /\ HasText(a) => HasText(answer) \/ Carries(m)
    BY <1>1, <1>2, FrameFacts, SawFacts
  <1>4. /\ answer' = a /\ naming' = IF Progress(m) THEN "idle-timeout" ELSE naming
        /\ cut' = cut /\ req' = req
        /\ \/ Claim(claim)
           \/ /\ left' = IF Progress(m) THEN [left EXCEPT !["semantic"] = req.idle] ELSE left
              /\ UNCHANGED <<sock, phase>>
    BY <1>1 DEF Frame
  <1> HIDE DEF m, a, claim
  <1>5. naming' = "idle-timeout" <=> HasText(answer')
    BY <1>1, <1>3, <1>4 DEF Progress
  <1>6. \/ phase' = "closing" /\ left' = AllOff
        \/ /\ phase' = "stream" /\ sock' = sock
           /\ left'["firstByte"] = left["firstByte"]
    <2>1. CASE Claim(claim)
      BY <1>1, <2>1 DEF Claim, Release, AllOff, Timers
    <2>2. CASE ~Claim(claim)
      BY <1>1, <1>4, <2>2 DEF Timers
    <2>3. QED BY <2>1, <2>2
  <1>7. QED
    BY <1>1, <1>3, <1>4, <1>5, <1>6 DEF TextInv

LEMMA NextText ==
  ASSUME IInv, TextInv, [Next]_vars
  PROVE  TextInv'
  <1>1. /\ TypeOK /\ answer \in Answers /\ (HasText(answer) => answer.saw)
        /\ left \in [Timers -> Nat \cup {Off}]
    BY DEF IInv, TextInv, TypeOK
  <1>2. CASE Tick
    <2>1. /\ UNCHANGED <<req, phase, naming, answer, buffer, cut, sock>>
          /\ left' = [t \in Timers |-> IF left[t] > 0 THEN left[t] - 1 ELSE left[t]]
          /\ phase # "closing"
      BY <1>2 DEF Tick, readVars, history, Reading
    <2>2. left["firstByte"] = Off => left'["firstByte"] = Off
      BY <1>1, <2>1 DEF Timers, Off
    <2>3. QED
      BY <2>1, <2>2 DEF TextInv, HasText
  <1>3. CASE Fire
    BY <1>3, FireText
  <1>4. ASSUME NEW transient \in BOOLEAN, ConnectionFails(transient)
        PROVE  TextInv'
    BY <1>1, <1>4, TextEnds DEF ConnectionFails
  <1>5. CASE Undecodable \/ Redirected
    BY <1>1, <1>5, TextEnds DEF Undecodable, Redirected
  <1>6. ASSUME NEW kind \in Reading, Headers(kind)
        PROVE  TextInv'
    BY <1>6, HeadersText
  <1>7. ASSUME NEW c \in Chunks, StreamChunk(c) \/ StreamComplete(c)
        PROVE  TextInv'
    <2>1. UNCHANGED <<req, phase, naming, answer, cut>> /\ phase = "stream"
      BY <1>7 DEF StreamChunk, StreamComplete, history
    <2>2. left'["firstByte"] = Off \/ sock' = "complete"
      BY <1>1, <1>7, AfterChunkFacts DEF StreamChunk, StreamComplete
    <2>3. QED
      BY <2>1, <2>2 DEF TextInv, HasText
  <1>8. CASE DocumentChunk
    <2>1. CASE LimitOf > 0 /\ size + 1 >= LimitOf
      BY <1>1, <1>8, <2>1, TextEnds DEF DocumentChunk
    <2>2. CASE ~(LimitOf > 0 /\ size + 1 >= LimitOf)
      <3>1. /\ UNCHANGED <<req, phase, naming, answer, cut>> /\ phase \in {"document", "refused"}
        BY <1>8, <2>2 DEF DocumentChunk, history
      <3>2. QED
        BY <3>1 DEF TextInv, HasText
    <2>3. QED BY <2>1, <2>2
  <1>9. ASSUME NEW m \in Frames \cup {Other("junk")}, CompletionRead(m)
        PROVE  TextInv'
    <2>1. m \in Events
      BY FramesAssumption DEF Events
    <2> DEFINE a == ApplyFrame(answer, m)
               e == IF m.kind = "junk" THEN Failure("bad-json", TRUE) ELSE Verdict(answer')
    <2>2. a \in Answers /\ (HasText(a) => a.saw)
      BY <1>1, <2>1, FrameFacts, SawFacts
    <2>3. answer' = [a EXCEPT !.done = TRUE] /\ Finish(e)
      BY <1>9 DEF CompletionRead
    <2> HIDE DEF a, e
    <2>4. HasText(answer') => answer'.saw
      BY <2>2, <2>3 DEF HasText, Answers
    <2>5. QED
      BY <1>1, <2>3, <2>4, TextEnds
  <1>10. ASSUME NEW json \in BOOLEAN, BodyRead(json)
         PROVE  TextInv'
    BY <1>1, <1>10, TextEnds DEF BodyRead
  <1>11. CASE Done
    <2>1. Finish(Reported(Verdict(answer'))) /\ answer' = [answer EXCEPT !.done = TRUE]
      BY <1>11 DEF Done
    <2>2. HasText(answer') => answer'.saw
      BY <1>1, <2>1 DEF HasText, Answers
    <2>3. QED
      BY <1>1, <2>1, <2>2, TextEnds
  <1>12. CASE Junk \/ StreamEnds \/ Close
    <2>1. /\ answer' = answer
          /\ \E e : Finish(e)
      BY <1>12 DEF Junk, StreamEnds, Close
    <2>2. QED
      BY <1>1, <2>1, TextEnds
  <1>13. CASE Frame
    BY <1>13, FrameText
  <1>14. ASSUME NEW handlerRuns \in BOOLEAN, Lost(handlerRuns)
         PROVE  TextInv'
    BY <1>1, <1>14, TextEnds DEF Lost
  <1>15. CASE UNCHANGED vars
    BY <1>15 DEF TextInv, HasText, vars, readVars, history
  <1>16. QED
    BY <1>2, <1>3, <1>4, <1>5, <1>6, <1>7, <1>8, <1>9, <1>10, <1>11, <1>12, <1>13, <1>14,
       <1>15 DEF Next, Server, Client

-----------------------------------------------------------------------------
(* HttpExchange implements OneReply: which step of it each callback is.      *)

ReplyStep == Reply!ReplyNext \/ UNCHANGED Reply!replyVars

(* What the mapping reads: a callback that changes none of it is a stutter.  *)
LEMMA Unmoved ==
  ASSUME phase # "over", phase' # "over",
         UNCHANGED <<req, naming, aborted, expired, result, heard, cut>>
  PROVE  ReplyStep
  BY DEF ReplyStep, Reply!replyVars

(* The end of the reader lets go of everything, once. *)
LEMMA SettlesMaps ==
  ASSUME IInv, phase # "over", NEW e \in Error, e.reason # "none", Finish(e),
         UNCHANGED <<req, naming, expired>>
  PROVE  Reply!Settles /\ result' = e
  <1>1. phase' = "over" /\ result' = e /\ left' = AllOff /\ sock' # "open"
    BY FinishFacts DEF IInv
  <1>2. e # Reply!Nothing
    BY DEF Reply!Nothing
  <1>3. QED
    BY <1>1, <1>2 DEF Reply!Settles

(* A body that nothing has broken yet ends with what it amounts to.          *)
LEMMA BodyEndsMaps ==
  ASSUME IInv, phase \in Reading, sock \in {"open", "complete"},
         NEW e \in Error, Finish(Reported(e)),
         UNCHANGED <<req, naming, aborted, expired, heard, cut>>,
         e.responded \/ e.reason \in Reply!Shapes,
         \/ e.reason \in {"answer", "protocol", "stream-unfinished"}
         \/ /\ naming # "idle-timeout"
            /\ e.reason \in {"stream-error-frame", "bad-json", "empty-completion",
                             "blank-completion"}
  PROVE  ReplyStep
  <1>1. aborted = NoError /\ expired = NoError /\ heard = TRUE
    BY DEF IInv, CauseInv, TypeOK
  <1>2. /\ Reported(e) \in Error
        /\ Reported(e) \in {Failure("http-status", TRUE), e}
    BY <1>1, ReportedFacts
  <1>3. /\ Failure("http-status", TRUE).reason = "http-status"
        /\ Failure("http-status", TRUE).responded = TRUE
    BY DEF Failure
  <1> DEFINE r == Reported(e)
  <1>4. /\ r.responded \/ r.reason \in Reply!Shapes
        /\ \/ r.reason \in {"answer", "http-status", "protocol", "stream-unfinished"}
           \/ /\ naming # "idle-timeout"
              /\ r.reason \in {"stream-error-frame", "bad-json", "empty-completion",
                               "blank-completion"}
    BY <1>2, <1>3
  <1> HIDE DEF r
  <1>5. Reply!Settles /\ result' = r
    <2>1. phase # "over" /\ r.reason # "none"
      BY <1>4 DEF Reading
    <2>2. QED
      BY <1>2, <2>1, SettlesMaps DEF r
  <1>6. Reply!Ends
    BY <1>1, <1>4, <1>5 DEF Reply!Ends, Reply!Nothing, NoError, Failure, Timeouts
  <1>7. QED
    BY <1>6 DEF ReplyStep, Reply!ReplyNext

LEMMA ConnectionFailsMaps ==
  ASSUME IInv, TextInv, NEW transient \in BOOLEAN, ConnectionFails(transient)
  PROVE  ReplyStep
  <1> DEFINE r == IF transient THEN "transport" ELSE "non-retryable-transport"
             e == Failure(r, FALSE)
  <1>1. /\ e \in Error /\ e.reason = r /\ e.responded = FALSE
        /\ r \in Reply!Failed /\ r # "none" /\ r \notin Timeouts
    BY FailureFacts DEF Reasons, Reply!Failed, Timeouts
  <1>2. /\ aborted' = e /\ Finish(e) /\ cut' = TRUE /\ phase = "sent" /\ ~heard
        /\ aborted = NoError
        /\ UNCHANGED <<req, naming, expired, heard>>
    BY DEF ConnectionFails, IInv, CauseInv
  <1> HIDE DEF e, r
  <1>3. Reply!Settles /\ result' = e
    BY <1>1, <1>2, SettlesMaps
  <1>4. Reply!Unheard
    BY <1>1, <1>2, <1>3 DEF Reply!Unheard, Reply!Nothing, NoError, Failure, Reply!Failed
  <1>5. QED
    BY <1>4 DEF ReplyStep, Reply!ReplyNext

LEMMA TurnedAwayMaps ==
  ASSUME IInv, Undecodable \/ Redirected
  PROVE  ReplyStep
  <1>1. PICK e \in {Failure("protocol", TRUE), Failure("http-status", TRUE)} :
          /\ Finish(e) /\ heard' = TRUE /\ phase = "sent" /\ ~heard
          /\ UNCHANGED <<req, naming, aborted, expired, cut>>
    BY DEF Undecodable, Redirected, IInv, CauseInv
  <1>2. e \in Error /\ e.responded = TRUE /\ e.reason \in {"protocol", "http-status"}
    BY <1>1, FailureFacts DEF Reasons
  <1>3. Reply!Settles /\ result' = e
    BY <1>1, <1>2, SettlesMaps
  <1>4. Reply!TurnedAway
    BY <1>1, <1>2, <1>3 DEF Reply!TurnedAway
  <1>5. QED
    BY <1>4 DEF ReplyStep, Reply!ReplyNext

LEMMA HeadersMaps ==
  ASSUME IInv, NEW kind \in Reading, Headers(kind)
  PROVE  ReplyStep
  <1>1. /\ phase = "sent" /\ phase' = kind /\ kind # "over" /\ ~heard /\ heard' = TRUE
        /\ UNCHANGED <<req, naming, aborted, expired, result, cut>>
    BY DEF Headers, IInv, CauseInv, Reading
  <1>2. Reply!Hear
    BY <1>1 DEF Reply!Hear
  <1>3. QED
    BY <1>2 DEF ReplyStep, Reply!ReplyNext

(* A timer that runs while the body is read: the budget has elapsed, and the *)
(* caller has not heard of it yet.                                           *)
LEMMA ElapseMaps ==
  ASSUME IInv, phase \notin {"sent", "over"}, phase' = phase, heard,
         NEW r \in Reply!Budgets, aborted' = Failure(r, TRUE),
         r = "first-byte-timeout" => naming # "idle-timeout",
         r = "total-timeout" => req.plane = "control",
         UNCHANGED <<req, naming, expired, result, heard, cut>>
  PROVE  ReplyStep
  <1>1. aborted'.reason = r /\ aborted'.responded = TRUE /\ r \in Timeouts
    BY DEF Failure, Reply!Budgets, Reply!Deadline, Timeouts
  <1>2. Reply!Elapse
    BY <1>1 DEF Reply!Elapse
  <1>3. QED
    BY <1>2 DEF ReplyStep, Reply!ReplyNext

(* A timer that runs before headers ends the request. *)
LEMMA UnheardMaps ==
  ASSUME IInv, TextInv, phase = "sent", NEW t,
         NEW r \in {"first-byte-timeout", "deadline-timeout"}, Abort(t, Failure(r, Settled))
  PROVE  ReplyStep
  <1> DEFINE e == Failure(r, FALSE)
  <1>1. Failure(r, Settled) = e
    BY DEF Settled, Failure
  <1>2. /\ e \in Error /\ e.reason = r /\ e.responded = FALSE
    BY FailureFacts DEF Reasons
  <1> HIDE DEF e
  <1>3. /\ aborted' = e /\ Finish(e) /\ ~heard /\ cut' = cut /\ cut = FALSE
        /\ UNCHANGED <<req, naming, expired, heard>>
    BY <1>1 DEF Abort, IInv, CauseInv, TextInv, history, TypeOK
  <1>4. Reply!Settles /\ result' = e
    BY <1>2, <1>3, SettlesMaps
  <1>5. /\ e.reason \in Timeouts /\ e.reason \notin Reply!Failed
        /\ e.reason \in {"first-byte-timeout", Reply!Deadline} \cup Reply!Failed
    BY <1>2 DEF Reply!Failed, Reply!Deadline, Timeouts
  <1>6. cut' = FALSE /\ aborted' = result' /\ aborted'.reason \in Timeouts
    BY <1>3, <1>4, <1>5
  <1>7. Reply!Unheard
    <2>1. cut' <=> result'.reason \in Reply!Failed
      BY <1>4, <1>5, <1>6
    <2>2. (IF aborted'.reason \in Timeouts THEN aborted' ELSE NoError)
            = IF cut' THEN Reply!Nothing ELSE result'
      BY <1>6
    <2>3. ~result'.responded /\ ~heard /\ heard' = heard
      BY <1>2, <1>3, <1>4
    <2>4. QED
      BY <1>4, <1>5, <2>1, <2>2, <2>3 DEF Reply!Unheard
  <1>8. QED
    BY <1>7 DEF ReplyStep, Reply!ReplyNext

(* Whether the reader or a socket's timer comes first, what is recorded is   *)
(* a budget that has elapsed or the claim of a reader that had none.         *)
LEMMA FireMaps ==
  ASSUME IInv, TextInv, Fire
  PROVE  ReplyStep
  <1>1. /\ TypeOK /\ TimerInv /\ CauseInv /\ left \in [Timers -> Nat \cup {Off}]
        /\ req.plane \in {"chat", "control"}
        /\ phase # "sent" /\ phase # "over" => heard
    BY RequestFacts DEF IInv, TypeOK, CauseInv, Reading
  <1>2. ASSUME NEW t \in Timers, TimerRuns(t)
        PROVE  phase # "closing"
    BY <1>2 DEF TextInv, TimerRuns, AllOff, Off
  <1>3. CASE FireFirstByte
    <2>1. /\ TimerRuns("firstByte") /\ left["firstByte"] = 0 /\ phase # "over"
          /\ Abort("firstByte", Failure("first-byte-timeout", Settled))
          /\ sock \in {"open", "destroyed"}
      BY <1>3 DEF FireFirstByte, TimerRuns
    <2>2. CASE phase = "sent"
      BY <2>1, <2>2, UnheardMaps
    <2>3. CASE phase # "sent"
      <3>1. naming # "idle-timeout"
        BY <1>1, <1>2, <2>1, <2>3 DEF TextInv, TypeOK, Timers, Reading, Off
      <3>2. /\ aborted' = Failure("first-byte-timeout", TRUE) /\ phase' = phase
            /\ UNCHANGED <<req, naming, expired, result, heard, cut>>
        BY <2>1, <2>3 DEF Abort, Settled, Failure, history
      <3>3. QED
        BY <1>1, <2>1, <2>3, <3>1, <3>2, ElapseMaps DEF Reply!Budgets
    <2>4. QED BY <2>2, <2>3
  <1>4. CASE FireTotal
    <2> DEFINE r == TotalReason(req, received)
    <2>1. /\ phase # "over" /\ Abort("total", Failure(r, Settled))
      BY <1>4 DEF FireTotal, TimerRuns
    <2>2. CASE phase = "sent"
      <3>1. r \in {"first-byte-timeout", "deadline-timeout"}
        BY <2>2 DEF TotalReason, IInv, CauseInv
      <3>2. QED
        BY <2>1, <2>2, <3>1, UnheardMaps
    <2>3. CASE phase # "sent"
      <3>1. /\ r \in Reply!Budgets
            /\ r \in {"total-timeout", "first-byte-timeout"} => req.plane = "control"
        BY DEF TotalReason, Reply!Budgets, Reply!Deadline
      <3>2. req.plane = "control" => naming # "idle-timeout"
        BY <1>1, <2>1, <2>3 DEF TextInv, TypeOK, Reading
      <3>3. /\ aborted' = Failure(r, TRUE) /\ phase' = phase
            /\ UNCHANGED <<req, naming, expired, result, heard, cut>>
        BY <2>1, <2>3 DEF Abort, Settled, Failure, history
      <3>4. QED
        BY <1>1, <2>1, <2>3, <3>1, <3>2, <3>3, ElapseMaps
    <2>4. QED BY <2>2, <2>3
  <1>5. CASE FireIdle
    <2>1. phase # "sent" /\ phase # "over"
      BY <1>1, <1>5 DEF TimerInv, FireIdle, TimerRuns, Off
    <2>2. /\ aborted' = Failure("idle-timeout", TRUE) /\ phase' = phase
          /\ UNCHANGED <<req, naming, expired, result, heard, cut>>
      BY <1>5 DEF FireIdle, history
    <2>3. QED
      BY <1>1, <2>1, <2>2, ElapseMaps DEF Reply!Budgets
  <1>6. CASE FireSemantic
    <2>1. /\ phase = "stream" /\ phase' = phase /\ heard
          /\ UNCHANGED <<req, naming, aborted, result, heard, cut>>
      BY <1>1, <1>6 DEF TimerInv, FireSemantic, TimerRuns, Off, history
    <2>2. CASE expired = NoError
      <3>1. expired' = Failure(naming, TRUE)
            /\ naming \in {"first-token-timeout", "idle-timeout"}
        BY <1>1, <1>6, <2>2 DEF FireSemantic, TypeOK
      <3>2. expired'.reason = naming /\ expired'.responded = TRUE
        BY <3>1 DEF Failure
      <3>3. Reply!ClaimIt
        BY <2>1, <2>2, <3>1, <3>2 DEF Reply!ClaimIt, Reply!Claims, Reply!Nothing, NoError, Failure
      <3>4. QED
        BY <3>3 DEF ReplyStep, Reply!ReplyNext
    <2>3. CASE expired # NoError
      BY <1>6, <2>1, <2>3, Unmoved DEF FireSemantic
    <2>4. QED BY <2>2, <2>3
  <1>7. QED BY <1>3, <1>4, <1>5, <1>6 DEF Fire

(* A body breaks off after a claim or a budget, which its caller is told of, *)
(* or because the peer broke it.                                             *)
LEMMA LostMaps ==
  ASSUME IInv, TextInv, NEW handlerRuns \in BOOLEAN, Lost(handlerRuns)
  PROVE  ReplyStep
  <1> DEFINE broke == Failure("transport", TRUE)
             status == Failure("http-status", TRUE)
             x == IF aborted' # NoError THEN aborted' ELSE broke
  <1>1. /\ TypeOK /\ CauseInv /\ phase \in Reading /\ sock \in {"open", "destroyed"}
        /\ heard = TRUE /\ cut = FALSE /\ aborted \in Error /\ expired \in Error
        /\ phase # "over"
    BY DEF IInv, CauseInv, TextInv, Lost, Reading, TypeOK
  <1>2. /\ broke \in Error /\ broke.reason = "transport" /\ broke.responded = TRUE
        /\ status \in Error /\ status.reason = "http-status" /\ status.responded = TRUE
        /\ broke.reason \notin Timeouts /\ NoError.reason \notin Timeouts
        /\ broke # NoError
    BY FailureFacts, NoErrorFacts DEF Reasons, Timeouts
  <1>3. Failure("transport", Settled) = broke
    BY <1>1 DEF Settled, Failure, Reading
  <1>4. /\ aborted' = IF handlerRuns THEN Stored(broke) ELSE aborted
        /\ Finish(Reported(x))
        /\ cut' = (cut \/ sock = "open")
        /\ UNCHANGED <<req, naming, expired, heard>>
    BY <1>3 DEF Lost
  <1> HIDE DEF broke, status
  <1>5. /\ aborted' \in Error /\ x \in Error
        /\ aborted.reason \in Timeouts => aborted' = aborted
        /\ aborted.reason \notin Timeouts => aborted'.reason \notin Timeouts
    BY <1>1, <1>2, <1>4 DEF Stored
  <1> DEFINE budget == IF aborted.reason \in Timeouts THEN aborted ELSE NoError
  <1>6. (IF aborted'.reason \in Timeouts THEN aborted' ELSE NoError) = budget
    BY <1>5
  <1>7. Reply!Nothing = NoError
    BY DEF Reply!Nothing, NoError, Failure
  <1>8. ASSUME NEW e \in Error, e.reason # "none", Finish(e)
        PROVE  Reply!Settles /\ result' = e
    BY <1>1, <1>4, <1>8, SettlesMaps
  <1>9. CASE expired # NoError
    <2>1. /\ Reported(x) = expired /\ sock = "destroyed" /\ expired.responded
          /\ expired.reason \in {"first-token-timeout", "idle-timeout", "stream-error-frame",
                                 "token-reserve-cutoff"}
      BY <1>1, <1>5, <1>9, ReportedFacts DEF CauseInv
    <2>2. Reply!Settles /\ result' = expired /\ cut' = cut
      BY <1>1, <1>4, <1>8, <2>1
    <2>3. Reply!Ends
      BY <1>1, <1>4, <1>6, <1>7, <1>9, <2>1, <2>2 DEF Reply!Ends
    <2>4. QED
      BY <2>3 DEF ReplyStep, Reply!ReplyNext
  <1>10. CASE expired = NoError /\ sock = "destroyed"
    <2>1. /\ aborted # NoError /\ aborted.reason \in Timeouts /\ aborted.responded
      BY <1>1, <1>10 DEF CauseInv
    <2>2. /\ x = aborted /\ aborted.reason \notin {"none", "transport"} /\ cut' = cut
      BY <1>1, <1>4, <1>5, <1>10, <2>1 DEF Timeouts
    <2>3. Reported(x) \in {status, aborted}
      BY <1>1, <1>5, <1>10, <2>2, ReportedFacts DEF status
    <2>4. Reply!Settles /\ result' \in {status, aborted}
      BY <1>1, <1>2, <1>4, <1>8, <2>2, <2>3
    <2>5. /\ result'.responded /\ result'.reason # "transport"
          /\ result' = aborted \/ result'.reason = "http-status"
      BY <1>2, <2>1, <2>2, <2>4
    <2>6. Reply!Ends
      BY <1>1, <1>4, <1>6, <1>7, <1>10, <2>1, <2>2, <2>4, <2>5 DEF Reply!Ends
    <2>7. QED
      BY <2>6 DEF ReplyStep, Reply!ReplyNext
  <1>11. CASE expired = NoError /\ sock = "open"
    <2>1. aborted = NoError /\ x = broke /\ cut' = TRUE
      BY <1>1, <1>4, <1>11 DEF CauseInv, Stored
    <2>2. Reported(x) \in {status, broke}
      BY <1>1, <1>5, <1>11, <2>1, ReportedFacts DEF status
    <2>3. Reply!Settles /\ result' \in {status, broke}
      BY <1>2, <1>4, <1>8, <2>2
    <2>4. result'.responded /\ result'.reason \in {"http-status", "transport"}
      BY <1>2, <2>3
    <2>5. Reply!Ends
      BY <1>1, <1>2, <1>4, <1>6, <1>7, <1>11, <2>1, <2>3, <2>4 DEF Reply!Ends
    <2>6. QED
      BY <2>5 DEF ReplyStep, Reply!ReplyNext
  <1>12. QED BY <1>1, <1>9, <1>10, <1>11

LEMMA CloseMaps ==
  ASSUME IInv, Close
  PROVE  ReplyStep
  <1>1. /\ TypeOK /\ expired # NoError /\ heard = TRUE /\ expired \in Error
        /\ expired.responded
        /\ expired.reason \in {"first-token-timeout", "idle-timeout", "stream-error-frame",
                               "token-reserve-cutoff"}
        /\ Finish(expired) /\ phase # "over"
        /\ UNCHANGED <<req, naming, aborted, expired, heard, cut>>
    BY DEF IInv, CauseInv, Close, TypeOK, history
  <1>2. Reply!Settles /\ result' = expired
    BY <1>1, SettlesMaps
  <1>3. Reply!Ends
    BY <1>1, <1>2 DEF Reply!Ends, Reply!Nothing, NoError, Failure
  <1>4. QED
    BY <1>3 DEF ReplyStep, Reply!ReplyNext

(* A frame without text is no step; one with text is heard, and one that     *)
(* ends the reader's patience is its claim.                                  *)
LEMMA FrameMaps ==
  ASSUME IInv, TextInv, Frame
  PROVE  ReplyStep
  <1> DEFINE m == Head(buffer)
             a == ApplyFrame(answer, m)
             claim == ClaimOf(m, a)
  <1>1. /\ TypeOK /\ phase = "stream" /\ buffer # <<>> /\ heard /\ answer \in Answers
        /\ aborted = NoError /\ expired = NoError /\ req \in Requests
        /\ naming \in {"first-token-timeout", "idle-timeout"}
    BY DEF IInv, CauseInv, Frame, TypeOK, Reading
  <1>2. TextInv'
    BY FrameText
  <1>3. /\ answer' = a /\ naming' = IF Progress(m) THEN "idle-timeout" ELSE naming
        /\ UNCHANGED <<req, aborted, result, heard, cut>>
        /\ \/ claim # NoError /\ Claim(claim)
           \/ claim = NoError /\ UNCHANGED <<expired, phase>>
    BY <1>1 DEF Frame
  <1>4. NoError = Reply!Nothing /\ NoError.reason \notin Timeouts
    BY NoErrorFacts DEF Reply!Nothing, NoError, Failure, Timeouts
  <1>5. phase' \in {"stream", "closing"} /\ phase' # "over"
    BY <1>1, <1>3 DEF Claim
  <1>6. naming' = "idle-timeout" <=> HasText(a)
    BY <1>2, <1>3, <1>5 DEF TextInv
  <1>7. CASE claim # NoError
    <2>1. \/ claim = Failure("stream-error-frame", TRUE) /\ ~HasText(a)
          \/ claim = Failure("token-reserve-cutoff", TRUE) /\ HasText(a)
      <3>1. req.cutoff \in Nat /\ a.think \in Nat
        <4>1. m \in Events
          BY <1>1 DEF TypeOK
        <4>2. a \in Answers
          BY <1>1, <4>1, FrameFacts
        <4>3. QED
          BY <1>1, <4>2, RequestFacts DEF Answers, Requests0
      <3>2. CASE EndsGeneration(m) /\ IsRefusal(a)
        BY <3>2 DEF ClaimOf, IsRefusal
      <3>3. CASE ~(EndsGeneration(m) /\ IsRefusal(a))
        <4>1. /\ req.cutoff > 0 /\ a.think >= req.cutoff
              /\ claim = Failure("token-reserve-cutoff", TRUE)
          BY <1>7, <3>3 DEF ClaimOf
        <4>2. a.think > 0
          BY <3>1, <4>1
        <4>3. QED
          BY <4>1, <4>2 DEF HasText
      <3>4. QED BY <3>2, <3>3
    <2>2. /\ expired' = claim /\ claim.responded
          /\ claim.reason \in {"stream-error-frame", "token-reserve-cutoff"}
          /\ claim.reason = "token-reserve-cutoff" <=> HasText(a)
      BY <1>3, <1>7, <2>1 DEF Claim, Failure
    <2> HIDE DEF m, a, claim
    <2>3. (naming' = "idle-timeout") \in {naming = "idle-timeout", TRUE}
      BY <1>3
    <2>4. Reply!ClaimIt
      BY <1>1, <1>3, <1>4, <1>5, <1>6, <2>2, <2>3 DEF Reply!ClaimIt, Reply!Claims
    <2>5. QED
      BY <2>4 DEF ReplyStep, Reply!ReplyNext
  <1>8. CASE claim = NoError
    <2> HIDE DEF m, a, claim
    <2>1. expired' = expired /\ phase' = phase
      BY <1>3, <1>8
    <2>2. CASE naming' = naming
      BY <1>1, <1>3, <1>5, <2>1, <2>2, Unmoved
    <2>3. CASE naming' # naming
      <3>1. Reply!Speak
        BY <1>1, <1>3, <1>4, <1>5, <2>1, <2>3 DEF Reply!Speak
      <3>2. QED
        BY <3>1 DEF ReplyStep, Reply!ReplyNext
    <2>4. QED BY <2>2, <2>3
  <1>9. QED BY <1>7, <1>8

(* The endings of a body that was read to its end, or given up as unreadable. *)
LEMMA BodyMaps ==
  ASSUME IInv, TextInv,
         \/ \E m \in Frames \cup {Other("junk")} : CompletionRead(m)
         \/ \E json \in BOOLEAN : BodyRead(json)
         \/ StreamEnds \/ Done \/ Junk
  PROVE  ReplyStep
  <1>1. /\ TypeOK /\ CauseInv /\ answer \in Answers /\ (HasText(answer) => answer.saw)
        /\ phase \in {"document", "refused"} => naming # "idle-timeout"
        /\ phase = "stream" => (naming = "idle-timeout" <=> HasText(answer))
    BY DEF IInv, TypeOK, TextInv
  <1> DEFINE Amounts(e) ==
        /\ e.responded \/ e.reason \in Reply!Shapes
        /\ \/ e.reason \in {"answer", "protocol", "stream-unfinished"}
           \/ /\ naming # "idle-timeout"
              /\ e.reason \in {"stream-error-frame", "bad-json", "empty-completion",
                               "blank-completion"}
  <1>2. ASSUME NEW r \in {"answer", "protocol"}
        PROVE  Failure(r, TRUE) \in Error /\ Amounts(Failure(r, TRUE))
    BY FailureFacts DEF Reasons
  <1>3. ASSUME naming # "idle-timeout"
        PROVE  Failure("bad-json", TRUE) \in Error /\ Amounts(Failure("bad-json", TRUE))
    BY <1>3, FailureFacts DEF Reasons
  <1>4. ASSUME NEW a \in Answers, HasText(a) => a.saw, naming = "idle-timeout" => HasText(a)
        PROVE  Verdict(a) \in Error /\ Amounts(Verdict(a))
    BY <1>4, VerdictFacts, VerdictText DEF Verdicts
  <1> HIDE DEF Amounts
  <1>5. ASSUME NEW e \in Error, Amounts(e), Finish(Reported(e)), phase \in Reading,
               sock \in {"open", "complete"},
               UNCHANGED <<req, naming, aborted, expired, heard, cut>>
        PROVE  ReplyStep
    BY <1>5, BodyEndsMaps DEF Amounts
  <1>6. ASSUME NEW m \in Frames \cup {Other("junk")}, CompletionRead(m)
        PROVE  ReplyStep
    <2> DEFINE e == IF m.kind = "junk" THEN Failure("bad-json", TRUE) ELSE Verdict(answer')
               a == ApplyFrame(answer, m)
    <2>1. m \in Events
      BY FramesAssumption DEF Events
    <2>2. /\ phase = "document" /\ sock = "open" /\ Finish(e)
          /\ answer' = [a EXCEPT !.done = TRUE]
          /\ UNCHANGED <<req, naming, aborted, expired, heard, cut>>
      BY <1>6 DEF CompletionRead
    <2>3. a \in Answers /\ (HasText(a) => a.saw)
      BY <1>1, <2>1, FrameFacts, SawFacts
    <2> HIDE DEF a
    <2>4. answer' \in Answers /\ (HasText(answer') => answer'.saw)
      BY <2>2, <2>3 DEF Answers, HasText
    <2>5. naming # "idle-timeout" /\ expired = NoError
      BY <1>1, <2>2 DEF CauseInv, Reading
    <2>6. e \in Error /\ Amounts(e)
      BY <1>3, <1>4, <2>4, <2>5
    <2> HIDE DEF e
    <2>7. Reported(e) = e
      BY <2>2, <2>5, <2>6, ReportedFacts DEF Reading
    <2>8. QED
      BY <1>5, <2>2, <2>6, <2>7 DEF Reading
  <1>7. ASSUME NEW json \in BOOLEAN, BodyRead(json)
        PROVE  ReplyStep
    <2> DEFINE e == Failure(IF json THEN "answer" ELSE "bad-json", TRUE)
    <2>1. /\ phase \in {"document", "refused"} /\ sock = "open" /\ Finish(Reported(e))
          /\ UNCHANGED <<req, naming, aborted, expired, heard, cut>>
      BY <1>7 DEF BodyRead, history
    <2>2. e \in Error /\ Amounts(e)
      BY <1>1, <1>2, <1>3, <2>1
    <2> HIDE DEF e
    <2>3. QED
      BY <1>5, <2>1, <2>2 DEF Reading
  <1>8. CASE StreamEnds
    <2>1. /\ phase = "stream" /\ sock = "complete" /\ Finish(Reported(Verdict(answer)))
          /\ UNCHANGED <<req, naming, aborted, expired, heard, cut>>
      BY <1>8 DEF StreamEnds, history
    <2>2. Verdict(answer) \in Error /\ Amounts(Verdict(answer))
      BY <1>1, <1>4, <2>1
    <2>3. QED
      BY <1>5, <2>1, <2>2 DEF Reading
  <1>9. CASE Done
    <2>1. /\ phase = "stream" /\ buffer # <<>> /\ Finish(Reported(Verdict(answer')))
          /\ answer' = [answer EXCEPT !.done = TRUE]
          /\ UNCHANGED <<req, naming, aborted, expired, heard, cut>>
      BY <1>9 DEF Done, history
    <2>2. sock \in {"open", "complete"}
      BY <1>1, <2>1 DEF CauseInv, TypeOK, Reading
    <2>3. /\ answer' \in Answers /\ (HasText(answer') => answer'.saw)
          /\ HasText(answer') = HasText(answer)
      BY <1>1, <2>1 DEF Answers, HasText
    <2>4. Verdict(answer') \in Error /\ Amounts(Verdict(answer'))
      BY <1>1, <1>4, <2>1, <2>3
    <2>5. QED
      BY <1>5, <2>1, <2>2, <2>4 DEF Reading
  <1>10. CASE Junk
    <2>1. /\ phase = "stream" /\ buffer # <<>> /\ Finish(Reported(Failure("protocol", TRUE)))
          /\ UNCHANGED <<req, naming, aborted, expired, heard, cut>>
      BY <1>10 DEF Junk, history
    <2>2. sock \in {"open", "complete"}
      BY <1>1, <2>1 DEF CauseInv, TypeOK, Reading
    <2>3. QED
      BY <1>2, <1>5, <2>1, <2>2 DEF Reading
  <1>11. QED BY <1>6, <1>7, <1>8, <1>9, <1>10

(* Time, and chunks nobody has read yet, are no step of the abstract reply.  *)
LEMMA PassingMaps ==
  ASSUME Tick \/ \E c \in Chunks : StreamChunk(c) \/ StreamComplete(c)
  PROVE  ReplyStep
  <1>1. /\ phase # "over" /\ phase' = phase
        /\ UNCHANGED <<req, naming, aborted, expired, result, heard, cut>>
    BY DEF Tick, StreamChunk, StreamComplete, history, Reading
  <1>2. QED
    BY <1>1, Unmoved

LEMMA DocumentChunkMaps ==
  ASSUME IInv, DocumentChunk
  PROVE  ReplyStep
  <1>1. /\ phase \in Reading /\ sock = "open" /\ phase # "over"
        /\ UNCHANGED <<req, naming, aborted, expired, heard, cut>>
    BY DEF DocumentChunk, history, Reading
  <1>2. CASE LimitOf > 0 /\ size + 1 >= LimitOf
    <2> DEFINE e == Failure("protocol", TRUE)
    <2>1. Finish(Reported(e))
      BY <1>2 DEF DocumentChunk
    <2>2. e \in Error /\ e.responded = TRUE /\ e.reason = "protocol"
      BY FailureFacts DEF Reasons
    <2> HIDE DEF e
    <2>3. QED
      BY <1>1, <2>1, <2>2, BodyEndsMaps
  <1>3. CASE ~(LimitOf > 0 /\ size + 1 >= LimitOf)
    BY <1>1, <1>3, Unmoved DEF DocumentChunk
  <1>4. QED BY <1>2, <1>3

LEMMA NextMaps ==
  ASSUME IInv, TextInv, [Next]_vars
  PROVE  ReplyStep
  <1>1. CASE Tick
    BY <1>1, PassingMaps
  <1>2. CASE Fire
    BY <1>2, FireMaps
  <1>3. CASE Server
    <2>1. ASSUME NEW transient \in BOOLEAN, ConnectionFails(transient)
          PROVE  ReplyStep
      BY <2>1, ConnectionFailsMaps
    <2>2. ASSUME NEW kind \in Reading, Headers(kind)
          PROVE  ReplyStep
      BY <2>2, HeadersMaps
    <2>3. QED
      BY <1>3, <2>1, <2>2, TurnedAwayMaps, PassingMaps, DocumentChunkMaps, BodyMaps DEF Server
  <1>4. CASE Client
    BY <1>4, BodyMaps, FrameMaps, CloseMaps DEF Client
  <1>5. ASSUME NEW handlerRuns \in BOOLEAN, Lost(handlerRuns)
        PROVE  ReplyStep
    BY <1>5, LostMaps
  <1>6. CASE UNCHANGED vars
    BY <1>6 DEF ReplyStep, Reply!replyVars, vars, readVars, history
  <1>7. QED
    BY <1>1, <1>2, <1>3, <1>4, <1>5, <1>6 DEF Next

(* Whatever order timers, resets, chunks and claims come in, a request does  *)
(* what the abstract reply does: it ends once, with nothing armed or open    *)
(* behind it, and its cause is the first that the order of precedence names. *)
(* (http.mjs, http-budgets.mjs, stream-collect.mjs)                          *)
THEOREM ExchangeImplementsReply == Spec => ImplementsReply
  <1>1. Init => Reply!ReplyInit
    BY RequestFacts DEF Init, Reply!ReplyInit, Reply!Nothing, NoError, Failure, AllOff, Timeouts
  <1>2. IInv /\ TextInv /\ [Next]_vars => TextInv'
    BY NextText
  <1>3. IInv /\ TextInv /\ [Next]_vars => [Reply!ReplyNext]_(Reply!replyVars)
    BY NextMaps DEF ReplyStep
  <1>4. Spec => []TextInv
    BY InitText, <1>2, ExchangeInvariant, PTL DEF Spec
  <1>5. QED
    BY <1>1, <1>3, <1>4, ExchangeInvariant, PTL DEF Spec, ImplementsReply, Reply!ReplySpec

-----------------------------------------------------------------------------
(* What every implementation of OneReply ends with. *)

LEMMA NothingFacts == Reply!Nothing.reason = "none" /\ Reply!Nothing.responded = FALSE
  BY DEF Reply!Nothing

(* The deaths AnswerRetry is prepared for, a request at a time.              *)
LEMMA DeathFacts ==
  ASSUME NEW r \in Reply!AllDeathReasons, NEW h \in BOOLEAN, NEW t \in BOOLEAN,
         t => h,
         r = "non-retryable-transport" => ~h,
         r \in {"first-byte-timeout", "first-token-timeout", "stream-error-frame",
               "empty-completion", "blank-completion", "bad-json"} => ~t,
         r = "token-reserve-cutoff" => t,
         ~h => r \in {"first-byte-timeout", Reply!Deadline} \cup Reply!Failed
  PROVE  [reason |-> r, heard |-> h, text |-> t, read |-> t \/ r \in Reply!Shapes] \in Reply!Deaths
  <1>1. r \in Reply!Shapes => h
    BY DEF Reply!Shapes, Reply!Deadline, Reply!Failed
  <1>2. r \in {"first-token-timeout", "idle-timeout", "stream-error-frame", "token-reserve-cutoff",
              "protocol", "bad-json"} => h
    BY DEF Reply!Deadline, Reply!Failed
  <1>3. QED
    BY <1>1, <1>2 DEF Reply!Deaths

LEMMA ReplyInitInv == Reply!ReplyInit => Reply!ReplyInv
  BY NothingFacts DEF Reply!ReplyInit, Reply!ReplyInv, Reply!EndIsAdmitted

(* A claim is what it says of the text, a budget what it says of the plane,  *)
(* and what the reply amounts to goes by whether there was text.             *)
LEMMA ReplyEndsInv ==
  ASSUME Reply!ReplyInv, Reply!Ends
  PROVE  Reply!ReplyInv'
  <1> DEFINE spoke == naming = "idle-timeout"
             because == result'.reason
  <1>1. /\ heard = TRUE /\ heard' = TRUE /\ spoke' = spoke /\ req'.plane = req.plane
        /\ expired' = expired /\ spoke \in BOOLEAN
    BY DEF Reply!Ends, Reply!Settles, Reply!ReplyInv
  <1>2. /\ because \notin Reply!Shapes => result'.responded
        /\ req.plane = "chat" => because \in Reply!AllDeathReasons \cup {"answer", "http-status"}
        /\ because \in {"first-byte-timeout", "first-token-timeout", "stream-error-frame",
                        "empty-completion", "blank-completion", "bad-json"} => ~spoke
        /\ because = "token-reserve-cutoff" => spoke
        /\ because # "non-retryable-transport"
    <2>1. CASE expired # Reply!Nothing
      <3>1. /\ result' = expired /\ expired.responded /\ expired.reason \in Reply!Claims
            /\ spoke <=> expired.reason \in {"idle-timeout", "token-reserve-cutoff"}
        BY <2>1 DEF Reply!Ends, Reply!ReplyInv
      <3>2. QED
        BY <3>1 DEF Reply!Claims, Reply!AllDeathReasons, Reply!Timeouts
    <2> DEFINE budget == IF aborted.reason \in Timeouts THEN aborted ELSE NoError
    <2>2. CASE expired = Reply!Nothing /\ budget # Reply!Nothing
      <3>1. /\ budget.responded /\ budget.reason \in Reply!Budgets
            /\ budget.reason = "first-byte-timeout" => ~spoke
            /\ budget.reason = "total-timeout" => req.plane = "control"
        BY <2>2 DEF Reply!Ends, Reply!Settles, Reply!ReplyInv
      <3>2. /\ result' = budget \/ because = "http-status"
            /\ result'.responded \/ because \in Reply!Shapes
        BY <2>2 DEF Reply!Ends
      <3> HIDE DEF budget
      <3>3. CASE result' = budget
        BY <3>1, <3>3 DEF Reply!Budgets, Reply!Deadline, Reply!AllDeathReasons, Reply!Timeouts
      <3>4. CASE because = "http-status"
        BY <3>2, <3>4 DEF Reply!Shapes
      <3>5. QED BY <3>2, <3>3, <3>4
    <2>3. CASE expired = Reply!Nothing /\ budget = Reply!Nothing
      <3>1. /\ \/ because \in {"answer", "http-status", "transport", "protocol",
                               "stream-unfinished"}
               \/ /\ ~spoke
                  /\ because \in {"stream-error-frame", "bad-json", "empty-completion",
                                  "blank-completion"}
            /\ result'.responded \/ because \in Reply!Shapes
        BY <2>3 DEF Reply!Ends
      <3>2. QED
        BY <3>1 DEF Reply!AllDeathReasons, Reply!Retryable, Reply!Shapes
    <2>4. QED BY <2>1, <2>2, <2>3
  <1>3. Reply!EndIsAdmitted'
    <2>1. because \in Reply!AllDeathReasons => Reply!Ended' \in Reply!Deaths
      BY <1>1, <1>2, DeathFacts DEF Reply!Ended
    <2>2. QED
      BY <1>1, <1>2, <2>1 DEF Reply!EndIsAdmitted
  <1>4. QED
    BY <1>1, <1>3, NothingFacts DEF Reply!Ends, Reply!Settles, Reply!ReplyInv

LEMMA ReplyNextInv ==
  ASSUME Reply!ReplyInv, [Reply!ReplyNext]_(Reply!replyVars)
  PROVE  Reply!ReplyInv'
  <1>1. CASE Reply!Hear
    BY <1>1, NothingFacts DEF Reply!Hear, Reply!ReplyInv, Reply!EndIsAdmitted
  <1>2. CASE Reply!Speak
    BY <1>2, NothingFacts DEF Reply!Speak, Reply!ReplyInv, Reply!EndIsAdmitted
  <1>3. CASE Reply!Elapse
    BY <1>3, NothingFacts DEF Reply!Elapse, Reply!ReplyInv, Reply!EndIsAdmitted
  <1>4. CASE Reply!ClaimIt
    BY <1>4, NothingFacts DEF Reply!ClaimIt, Reply!ReplyInv, Reply!EndIsAdmitted
  <1>5. CASE Reply!Unheard
    <2>1. /\ result'.reason \in {"first-byte-timeout", Reply!Deadline} \cup Reply!Failed
          /\ result'.reason \notin {"total-timeout"} \cup Reply!Shapes
          /\ result'.reason \in Reply!AllDeathReasons
      BY <1>5 DEF Reply!Unheard, Reply!Deadline, Reply!Failed, Reply!Shapes, Reply!AllDeathReasons,
                  Reply!Retryable, Reply!Timeouts
    <2>2. naming' # "idle-timeout" /\ heard' = FALSE
      BY <1>5 DEF Reply!Unheard, Reply!Settles, Reply!ReplyInv
    <2>3. Reply!Ended' \in Reply!Deaths
      BY <2>1, <2>2, DeathFacts DEF Reply!Ended, Reply!Failed, Reply!Deadline
    <2>4. Reply!EndIsAdmitted'
      BY <1>5, <2>1, <2>2, <2>3 DEF Reply!EndIsAdmitted, Reply!Unheard
    <2>5. QED
      BY <1>5, <2>1, <2>2, <2>4, NothingFacts DEF Reply!Unheard, Reply!Settles, Reply!ReplyInv
  <1>6. CASE Reply!TurnedAway
    <2>1. naming' # "idle-timeout" /\ heard' = TRUE
      BY <1>6 DEF Reply!TurnedAway, Reply!Settles, Reply!ReplyInv
    <2>2. "protocol" \in Reply!AllDeathReasons
      BY DEF Reply!AllDeathReasons
    <2>3. result'.reason = "protocol" => Reply!Ended' \in Reply!Deaths
      BY <2>1, <2>2, DeathFacts DEF Reply!Ended
    <2>4. Reply!EndIsAdmitted'
      BY <1>6, <2>1, <2>3 DEF Reply!EndIsAdmitted, Reply!TurnedAway
    <2>5. QED
      BY <1>6, <2>1, <2>4, NothingFacts DEF Reply!TurnedAway, Reply!Settles, Reply!ReplyInv
  <1>7. CASE Reply!Ends
    BY <1>7, ReplyEndsInv
  <1>8. CASE UNCHANGED Reply!replyVars
    BY <1>8 DEF Reply!replyVars, Reply!ReplyInv, Reply!EndIsAdmitted, Reply!Ended
  <1>9. QED
    BY <1>1, <1>2, <1>3, <1>4, <1>5, <1>6, <1>7, <1>8 DEF Reply!ReplyNext

(* Every end a request to a model comes to is one AnswerRetry is prepared    *)
(* for, and says truly whether the server had answered; every program that   *)
(* does what OneReply does has that property, HttpExchange among them.       *)
(* (attempt-outcome.mjs reachedTheModel, obtainedResponse)                   *)
THEOREM EveryEndIsAdmitted == Spec => []EndIsAdmitted
  <1>1. Reply!ReplySpec => []Reply!ReplyInv
    BY ReplyInitInv, ReplyNextInv, PTL DEF Reply!ReplySpec
  <1>2. Reply!ReplyInv => EndIsAdmitted
    BY DEF Reply!ReplyInv, EndIsAdmitted
  <1>3. QED
    BY <1>1, <1>2, ExchangeImplementsReply, PTL DEF ImplementsReply

(* A request that has ended stays as it ended: whatever timer, reset or      *)
(* claim comes late, nothing of what its caller was told, and nothing it     *)
(* held, is touched again.  (http.mjs fail, release, bodyStream)             *)
THEOREM ReplyEndsOnce == Spec => Reply!EndsOnce
  <1>1. ASSUME Reply!ReplyInv, [Reply!ReplyNext]_(Reply!replyVars)
        PROVE  [result = Reply!Nothing]_(Reply!replyVars)
    <2>1. CASE UNCHANGED Reply!replyVars
      BY <2>1
    <2>2. CASE Reply!ReplyNext
      <3>1. phase # "over" \/ left # AllOff \/ sock = "open"
        BY <2>2 DEF Reply!ReplyNext, Reply!Hear, Reply!Speak, Reply!Elapse, Reply!ClaimIt,
                    Reply!Unheard, Reply!TurnedAway, Reply!Ends, Reply!Settles
      <3>2. QED
        BY <1>1, <3>1 DEF Reply!ReplyInv
    <2>3. QED BY <1>1, <2>1, <2>2
  <1>2. Reply!ReplySpec => []Reply!ReplyInv
    BY ReplyInitInv, ReplyNextInv, PTL DEF Reply!ReplySpec
  <1>3. QED
    BY <1>1, <1>2, ExchangeImplementsReply, PTL
    DEF ImplementsReply, Reply!ReplySpec, Reply!EndsOnce
=============================================================================
