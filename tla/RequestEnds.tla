---------------------------- MODULE RequestEnds ----------------------------
(* How one request to a model may end without a reply, in the words its      *)
(* caller hears and with the evidence it has of them.  HttpExchange is held  *)
(* to these endings; AnswerRetry takes any of them.                          *)

(* The failures of delivery that prove a reply was produced, and those that  *)
(* a second attempt may survive.                                             *)
Shapes == {"empty-completion", "blank-completion", "stream-unfinished"}
Retryable == Shapes \cup {"transport"}

Timeouts == {"first-byte-timeout", "first-token-timeout", "idle-timeout"}
Deadline == "deadline-timeout"

AllDeathReasons ==
  Retryable \cup Timeouts
  \cup {Deadline, "token-reserve-cutoff", "non-retryable-transport", "stream-error-frame",
        "protocol", "bad-json"}

(* A request that dies: what the client calls it, whether headers had come, *)
(* whether model text had, and whether the model had read the prompt, which *)
(* is certain only of text and of a reply document.                         *)
Deaths ==
  {d \in [reason: AllDeathReasons, heard: BOOLEAN, text: BOOLEAN, read: BOOLEAN] :
     /\ d.text => d.heard
     /\ d.read = (d.text \/ d.reason \in Shapes)
     /\ d.reason = "non-retryable-transport" => ~d.heard
     /\ d.reason \in {"first-byte-timeout", "first-token-timeout", "stream-error-frame",
                      "empty-completion", "blank-completion", "bad-json"} => ~d.text
     /\ d.reason = "token-reserve-cutoff" => d.text
     /\ d.reason \in Shapes \cup {"first-token-timeout", "idle-timeout", "stream-error-frame",
                                  "protocol", "bad-json"} => d.heard}
=============================================================================
