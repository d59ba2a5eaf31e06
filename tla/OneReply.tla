------------------------------ MODULE OneReply ------------------------------
(***************************************************************************)
(* What a request promises whoever sent it, with no timers, sockets or     *)
(* parsers in it: it ends once, with nothing of it left behind; what it    *)
(* ends with is what the reader claimed, or else the budget that ran out,  *)
(* or else what the server did.  HttpExchange implements it                *)
(* (HttpExchangeReply), and what AnswerRetry is given follows from it.     *)
(***************************************************************************)
EXTENDS RequestEnds

VARIABLES
  plane,   \* chat or control
  heard,   \* headers have come
  text,    \* so has text of the model, in a stream
  cut,     \* the peer broke the connection
  budget,  \* the transport's budget that ran out last, after headers
  claim,   \* what the reader of a stream found first
  outcome, \* what the request ended with
  held     \* something of it is still open: a timer, the connection

replyVars == <<plane, heard, text, cut, budget, claim, outcome, held>>

Nothing == [reason |-> "none", responded |-> FALSE]
Budgets == {"first-byte-timeout", "total-timeout", Deadline, "idle-timeout"}
Claims == {"first-token-timeout", "idle-timeout", "stream-error-frame", "token-reserve-cutoff"}
Failed == {"transport", "non-retryable-transport"}

ReplyInit ==
  /\ plane \in {"chat", "control"}
  /\ heard = FALSE /\ text = FALSE /\ cut = FALSE
  /\ budget = Nothing /\ claim = Nothing /\ outcome = Nothing /\ held = TRUE

Hear ==
  /\ held /\ ~heard
  /\ heard' = TRUE
  /\ UNCHANGED <<plane, text, cut, budget, claim, outcome, held>>

(* Nothing is read once a budget has run out or the reader has its claim.   *)
Speak ==
  /\ held /\ heard /\ budget = Nothing /\ claim = Nothing
  /\ text' = TRUE
  /\ UNCHANGED <<plane, heard, cut, budget, claim, outcome, held>>

(* Its caller learns of it when the reader does; until then another may     *)
(* run out in its place.                                                    *)
Elapse ==
  /\ held /\ heard
  /\ budget'.responded /\ budget'.reason \in Budgets
  /\ budget'.reason = "first-byte-timeout" => ~text
  /\ budget'.reason = "total-timeout" => plane = "control"
  /\ UNCHANGED <<plane, heard, text, cut, claim, outcome, held>>

(* Made once; it may be of the very frame that carried the first text.      *)
ClaimIt ==
  /\ held /\ heard /\ claim = Nothing
  /\ claim'.responded /\ claim'.reason \in Claims
  /\ text' \in {text, TRUE}
  /\ text' <=> claim'.reason \in {"idle-timeout", "token-reserve-cutoff"}
  /\ UNCHANGED <<plane, heard, cut, budget, outcome, held>>

Settles ==
  /\ held /\ held' = FALSE
  /\ outcome' # Nothing
  /\ UNCHANGED <<plane, text, claim>>

(* Nobody answered.                                                         *)
Unheard ==
  /\ ~heard /\ Settles
  /\ ~outcome'.responded /\ outcome'.reason \in {"first-byte-timeout", Deadline} \cup Failed
  /\ cut' <=> outcome'.reason \in Failed
  /\ budget' = IF cut' THEN Nothing ELSE outcome'
  /\ UNCHANGED heard

(* A reply that cannot be decoded, or is not followed.                      *)
TurnedAway ==
  /\ ~heard /\ Settles
  /\ heard' = TRUE
  /\ outcome'.responded /\ outcome'.reason \in {"protocol", "http-status"}
  /\ UNCHANGED <<cut, budget>>

(* A refusal by the server stands whatever became of its body.              *)
Ends ==
  /\ heard /\ Settles
  /\ IF claim # Nothing THEN outcome' = claim
     ELSE IF budget # Nothing THEN outcome' = budget \/ outcome'.reason = "http-status"
     ELSE \/ outcome'.reason \in {"answer", "http-status", "transport", "protocol",
                                 "stream-unfinished"}
          \/ ~text /\ outcome'.reason \in {"stream-error-frame", "bad-json", "empty-completion",
                                           "blank-completion"}
  /\ outcome'.responded \/ outcome'.reason \in Shapes
  /\ cut' \in {cut, TRUE}
  /\ outcome'.reason = "transport" => cut'
  /\ cut' # cut => outcome'.reason \in {"transport", "http-status"}
  /\ UNCHANGED <<heard, budget>>

ReplyNext == Hear \/ Speak \/ Elapse \/ ClaimIt \/ Unheard \/ TurnedAway \/ Ends
ReplySpec == ReplyInit /\ [][ReplyNext]_replyVars

Ended ==
  [reason |-> outcome.reason, heard |-> heard, text |-> text,
   read |-> text \/ outcome.reason \in Shapes]

(* A request to a model ends with a reply, a refusal, or one of the deaths   *)
(* that the retries are prepared for, and where the record takes the error's *)
(* own word for a response having come, one came and only there.             *)
(* (attempt-outcome.mjs reachedTheModel, obtainedResponse; http-errors.mjs)  *)
EndIsAdmitted ==
  outcome # Nothing /\ plane = "chat" =>
    /\ outcome.reason \in {"answer", "http-status"} \/ Ended \in Deaths
    /\ outcome.reason \notin Shapes => (outcome.responded <=> heard)

(* Once it has ended nothing about it changes: no late timer, reset or claim *)
(* ends it again or takes a part of it up.  (http.mjs fail, release)         *)
EndsOnce == [][outcome = Nothing]_replyVars

(* Why: what each record says was true when it was made and stays so.        *)
ReplyInv ==
  /\ heard \in BOOLEAN /\ text \in BOOLEAN
  /\ text => heard
  /\ held => outcome = Nothing
  /\ claim # Nothing =>
       /\ heard /\ claim.responded /\ claim.reason \in Claims
       /\ text <=> claim.reason \in {"idle-timeout", "token-reserve-cutoff"}
  /\ held /\ budget # Nothing => heard /\ budget.responded /\ budget.reason \in Budgets
  /\ held /\ budget.reason = "first-byte-timeout" /\ claim = Nothing => ~text
  /\ budget.reason = "total-timeout" => plane = "control"
  /\ EndIsAdmitted
=============================================================================
