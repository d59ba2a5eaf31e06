---------------------------- MODULE ReviewSizing ----------------------------
(***************************************************************************)
(* How much of its target a review sends and how much room it leaves for   *)
(* the reply: review-ladder.mjs over delegate's prepareRequest, the        *)
(* context-guard, and review-schema's caps.  Tokens and characters are     *)
(* counted as the code counts them; a text is its ASCII characters and its *)
(* other characters, counted conservatively at their bytes.                *)
(***************************************************************************)
EXTENDS Integers, FiniteSets

CONSTANTS
  Windows,      \* context windows, 0 when unknown
  Requested,    \* --max-tokens, 0 when not given
  Wholes, Diffs     \* the texts of the two requests: [ascii, other]

ASSUME SizingAssumption ==
  /\ Windows \subseteq Nat /\ Requested \subseteq Nat
  /\ Wholes \cup Diffs \subseteq [ascii : Nat, other : Nat]

REVIEW_MAX_TOKENS == 32768
REVIEW_UNKNOWN_WINDOW_TOKENS == 16384
REVIEW_MIN_TOKENS == 4096
RESERVED_CHARS == 11300
ANALYSIS_CEILING == 74000
ANALYSIS_FLOOR == 2000
BYTES == 3          \* the bytes of a character that is not ASCII

Least(a, b) == IF a < b THEN a ELSE b
Most(a, b) == IF a > b THEN a ELSE b
CeilDiv(a, b) == (a + b - 1) \div b

(* 3.4 characters a token.                                                  *)
EstimateTokens(text) == CeilDiv(10 * text.ascii + 34 * BYTES * text.other, 34)
TypicalTokens(text) == CeilDiv(10 * text.ascii + 34 * text.other, 34)
MIN_REVIEW_RESERVE_TOKENS == CeilDiv(10 * (ANALYSIS_FLOOR + RESERVED_CHARS), 34)

AnalysisCapFor(reserve) ==
  Least(ANALYSIS_CEILING, Most(ANALYSIS_FLOOR, (reserve * 34) \div 10 - RESERVED_CHARS))

VARIABLES
  job,          \* [window, ceiling, whole, diff, target, structured]; a target is
                \* what there is to send: [changed, claims, hasDiff, deletionsOnly]
  sizing,       \* "idle", "size", "widest", "again", "sized" or "refused"
  capped,       \* the server has stated a lower reply budget
  cap,          \* the analysis cap the request states
  built         \* the request, or the refusal

sizeVars == <<job, sizing, capped, cap, built>>

-----------------------------------------------------------------------------
(* `reserveFor`; 0 is its refusal.                                          *)
ReserveFor(window, requested) ==
  IF requested # 0 THEN IF requested < MIN_REVIEW_RESERVE_TOKENS THEN 0 ELSE requested
  ELSE IF window = 0 THEN REVIEW_UNKNOWN_WINDOW_TOKENS
  ELSE Least(REVIEW_MAX_TOKENS, window \div 2)

(* `reserveAfter`: shrunk to what the window leaves, never below the least. *)
ReserveFloored(maxTokens, window, tokens) == \* mutant: the least a review needs is not kept
  IF window = 0 \/ window - tokens >= maxTokens THEN maxTokens ELSE Most(1, window - tokens)
ReserveAfter(maxTokens, window, tokens) ==
  IF window = 0 \/ window - tokens >= maxTokens THEN maxTokens
  ELSE Most(REVIEW_MIN_TOKENS, window - tokens)

Refusal(reason, conservative) == [kind |-> "refused", reason |-> reason, conservative |-> conservative]

(* `prepareRequest` and `checkContextBudget`.                               *)
PrepareRequest(window, maxTokens, text) ==
  LET reserve == ReserveAfter(maxTokens, window, EstimateTokens(text))
      budget  == window - reserve
      cut     == ReserveAfter(maxTokens, window, TypicalTokens(text)) - reserve
  IN  IF window # 0 /\ reserve >= window THEN Refusal("reply length", FALSE)
      ELSE IF window # 0 /\ EstimateTokens(text) > budget
        THEN Refusal("oversize", TypicalTokens(text) <= budget)
      ELSE [kind |-> "request", reserve |-> reserve, tokens |-> EstimateTokens(text),
            conservativeReserveCut |-> 10 * cut >= reserve, reserveClamped |-> reserve < maxTokens]

(* The decimal digits of the cap an instruction states.                     *)
Digits(n) == IF n < 10000 THEN 4 ELSE 5
Stating(text, n) == IF n = 0 THEN text ELSE [text EXCEPT !.ascii = @ + Digits(n)]

(* `prepareLadder`: whole files if they fit, the diff alone if they do not. *)
NoCause == "null"
TriedOnChange(j) == j.target.changed \* mutant: whole files go into a window nobody knows
Tried(j) == j.window # 0 /\ j.target.changed

PrepareLadder(j, stated) ==
  LET whole == PrepareRequest(j.window, j.ceiling, Stating(j.whole, stated))
      diff  == PrepareRequest(j.window, j.ceiling, Stating(j.diff, stated))
      tried == Tried(j)
      On(request, rung, cause) ==
        [kind |-> "request", reserve |-> request.reserve, tokens |-> request.tokens,
         conservativeReserveCut |-> request.conservativeReserveCut,
         reserveClamped |-> request.reserveClamped, rung |-> rung, skipped |-> cause,
         wholeFiles |-> rung = "whole" /\ j.target.claims,
         hunksOnly |-> rung = "diff" /\ j.target.hasDiff /\ ~j.target.deletionsOnly]
      cause == CASE j.target.changed /\ ~tried -> "unsized-window"
                 [] tried /\ whole.conservative -> "conservative-count"
                 [] OTHER -> NoCause
  IN  IF tried /\ whole.kind = "request" THEN On(whole, "whole", NoCause)
      ELSE IF tried /\ whole.reason # "oversize" THEN whole
      ELSE IF diff.kind # "request" THEN diff
      ELSE On(diff, "diff", cause)

-----------------------------------------------------------------------------
NothingBuilt == [kind |-> "none"]
Unsized == [window |-> 0, ceiling |-> 0]

SizeIdle == job = Unsized /\ sizing = "idle" /\ capped = FALSE /\ cap = 0 /\ built = NothingBuilt

(* `findingsWithin` begins: with a schema enforced, or only described.      *)
BeginSizing(window, target) ==
  /\ \E requested \in Requested, whole \in Wholes, diff \in Diffs, structured \in BOOLEAN :
       /\ diff.ascii <= whole.ascii
       /\ job' = [window |-> window, ceiling |-> ReserveFor(window, requested), whole |-> whole,
                  diff |-> diff, target |-> target, structured |-> structured]
       /\ sizing' = IF job'.ceiling = 0 THEN "refused"
                    ELSE IF structured THEN "size" ELSE "widest"
       /\ built' = IF job'.ceiling = 0 THEN Refusal("max-tokens", FALSE) ELSE NothingBuilt
  /\ cap' = 0 /\ capped' = FALSE

(* The enforced schema's cap comes from the reserve it is sent with.        *)
SizeStructured ==
  /\ sizing = "size"
  /\ built' = PrepareLadder(job, 0)
  /\ sizing' = IF built'.kind = "request" THEN "sized" ELSE "refused"
  /\ cap' = IF built'.kind = "request" THEN AnalysisCapFor(built'.reserve) ELSE cap
  /\ UNCHANGED <<job, capped>>

(* `unconstrainedLadder`: the described schema is sized at its widest, and  *)
(* the request again with the cap that came of it.                          *)
SizeWidest ==
  /\ sizing = "widest"
  /\ LET widest == PrepareLadder(job, ANALYSIS_CEILING) IN
     IF widest.kind = "request"
       THEN cap' = AnalysisCapFor(widest.reserve) /\ sizing' = "again" /\ UNCHANGED built
       ELSE built' = widest /\ sizing' = "refused" /\ UNCHANGED cap
  /\ UNCHANGED <<job, capped>>

SizeAgain ==
  /\ sizing = "again"
  /\ built' = PrepareLadder(job, cap)
  /\ sizing' = IF built'.kind = "request" THEN "sized" ELSE "refused"
  /\ UNCHANGED <<job, capped, cap>>

(* The server refuses the schema: it is described instead.                  *)
FormatRejected ==
  /\ sizing = "sized" /\ job.structured
  /\ job' = [job EXCEPT !.structured = FALSE]
  /\ sizing' = "widest"
  /\ UNCHANGED <<capped, cap, built>>

(* `statedCapRetry`: it states a lower budget, and is asked once more.      *)
ServerCaps ==
  /\ sizing = "sized" /\ ~capped
  /\ REVIEW_MIN_TOKENS < built.reserve
  /\ job' = [job EXCEPT !.ceiling = REVIEW_MIN_TOKENS]
  /\ capped' = TRUE
  /\ sizing' = IF job.structured THEN "size" ELSE "widest"
  /\ UNCHANGED <<cap, built>>

SizeNext == SizeStructured \/ SizeWidest \/ SizeAgain \/ FormatRejected \/ ServerCaps

-----------------------------------------------------------------------------
(* A request the window can be known to hold: its text and the reply it is  *)
(* promised fit together, a reply has at least the least a review needs and *)
(* no more than was asked for or granted, and into an unknown window no     *)
(* whole files go and nothing is said about them.  Whole files are withheld *)
(* only where they do not fit beside the least reply, and the conservative  *)
(* count is blamed exactly when a typical one would have left them          *)
(* REVIEW_MIN_TOKENS, also where fewer were asked for.  (delegate.mjs       *)
(* prepareRequest, context-guard.mjs checkContextBudget, review-ladder.mjs  *)
(* prepareLadder)                                                           *)
RoomIsLeft ==
  sizing = "sized" =>
    LET known == job.window # 0
        least == Least(job.ceiling, REVIEW_MIN_TOKENS)
        whole == Stating(job.whole, IF job.structured THEN 0 ELSE cap)
        leaves(tokens, reply) == tokens + reply <= job.window
    IN  /\ known => built.tokens + built.reserve <= job.window
        /\ built.reserve >= least /\ built.reserve <= job.ceiling
        /\ ~known => built.rung = "diff" /\ ~built.wholeFiles /\ (job.target.changed => built.skipped = "unsized-window")
        /\ known /\ job.target.changed => ((built.rung = "whole") <=> leaves(EstimateTokens(whole), least))
        /\ (built.skipped = "conservative-count")
              <=> (known /\ job.target.changed /\ built.rung = "diff"
                     /\ leaves(TypicalTokens(whole), REVIEW_MIN_TOKENS))

(* Whole changed files if they fit the window, the diff alone if they do    *)
(* not: a review is not refused while its diff would fit.  (What            *)
(* review-ladder.mjs:14 says of prepareLadder.)                             *)
DiffAloneIsTried ==
  sizing = "refused" /\ built.reason # "max-tokens" =>
    LET diff == Stating(job.diff, IF job.structured THEN 0 ELSE ANALYSIS_CEILING)
    IN  PrepareRequest(job.window, job.ceiling, diff).kind # "request"
=============================================================================
