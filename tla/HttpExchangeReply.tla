------------------------- MODULE HttpExchangeReply -------------------------
(* HttpExchange implements OneReply: text has come when the reader's own     *)
(* timer stands for the idle budget, and of what was recorded as an abort    *)
(* the elapsed budgets are told apart from a connection that failed.         *)
EXTENDS HttpExchange

Reply == INSTANCE OneReply WITH
  plane   <- req.plane,
  text    <- naming = "idle-timeout",
  budget  <- IF aborted.reason \in Timeouts THEN aborted ELSE NoError,
  claim   <- expired,
  outcome <- result,
  held    <- phase # "over" \/ left # AllOff \/ sock = "open"

(* However timers, resets and claims fall together, a request ends once,     *)
(* with no timer armed and no connection open behind it, and its cause is    *)
(* the reader's claim before the elapsed budget, the budget before the       *)
(* reset that our own destroy provokes, and the connection only where the    *)
(* peer broke it.  (http.mjs bodyStream, requestErrorHandler;                *)
(* stream-collect.mjs)                                                       *)
ImplementsReply == Reply!ReplySpec

(* Whatever ends a request to a model, AnswerRetry is prepared for it, and   *)
(* knows truly whether the server had answered.  (attempt-outcome.mjs)       *)
EndIsAdmitted == Reply!EndIsAdmitted

(* When the reader counts text as come, and which timers are left by then:   *)
(* what IInv does not say and the mapping needs.                             *)
TextInv ==
  /\ phase \in {"sent", "document", "refused"} => naming = "first-token-timeout"
  /\ phase \in {"stream", "closing"} =>
       req.plane = "chat" /\ (naming = "idle-timeout" <=> HasText(answer))
  /\ phase = "stream" /\ sock # "complete" /\ (buffer # <<>> \/ HasText(answer)) =>
       left["firstByte"] = Off
  /\ phase = "closing" => left = AllOff
  /\ phase # "over" => ~cut
  /\ HasText(answer) => answer.saw
=============================================================================
