-------------------------- MODULE ReviewRunProofs --------------------------
(***************************************************************************)
(* The size of a review's request, for every window, every --max-tokens    *)
(* and every text; what a run of any number of passes tells of them; what  *)
(* is read of a repository that is being worked in; where what a run is    *)
(* given from the providers file may go; and which model it asks.          *)
(***************************************************************************)
EXTENDS ReviewRun, FiniteSetTheorems, WellFoundedInduction, TLAPS

CountedTexts == [ascii : Nat, other : Nat]

LEMMA CeilDivType ==
  ASSUME NEW a \in Nat
  PROVE  CeilDiv(a, 34) \in Nat
  BY DEF CeilDiv

LEMMA TokensType ==
  ASSUME NEW t \in CountedTexts
  PROVE  EstimateTokens(t) \in Nat /\ TypicalTokens(t) \in Nat
  <1>1. t.ascii \in Nat /\ t.other \in Nat
    BY DEF CountedTexts
  <1>2. 10 * t.ascii + 34 * BYTES * t.other \in Nat /\ 10 * t.ascii + 34 * t.other \in Nat
    BY <1>1 DEF BYTES
  <1>3. QED
    BY <1>2, CeilDivType DEF EstimateTokens, TypicalTokens

LEMMA StatingType ==
  ASSUME NEW t \in CountedTexts, NEW n
  PROVE  Stating(t, n) \in CountedTexts
  BY DEF Stating, CountedTexts, Digits

LEMMA CapType ==
  ASSUME NEW r \in Nat
  PROVE  AnalysisCapFor(r) \in Nat
  <1>1. (r * 34) \div 10 \in Nat
    OBVIOUS
  <1>2. QED
    BY <1>1 DEF AnalysisCapFor, Least, Most, ANALYSIS_CEILING, ANALYSIS_FLOOR, RESERVED_CHARS

LEMMA ReserveType ==
  ASSUME NEW w \in Nat, NEW m \in Nat
  PROVE  ReserveFor(w, m) \in Nat
  BY DEF ReserveFor, Least, REVIEW_MAX_TOKENS, REVIEW_UNKNOWN_WINDOW_TOKENS

-----------------------------------------------------------------------------
LEMMA ReplyTooLong ==
  ASSUME NEW w, NEW m, NEW t, NEW r, r = PrepareRequest(w, m, t),
         w # 0, ReserveAfter(m, w, EstimateTokens(t)) >= w
  PROVE  r.kind = "refused" /\ r.reason = "reply length"
  BY DEF PrepareRequest, Refusal

LEMMA SaysConservative ==
  ASSUME NEW r, NEW n, NEW k, r = Refusal("oversize", n <= k)
  PROVE  r.conservative <=> n <= k
  BY Zenon DEF Refusal

(* One request.  Where it is refused for its size, the reserve it was judged *)
(* by had shrunk to the least, whatever was asked for.                       *)
LEMMA RequestFacts ==
  ASSUME NEW w \in Nat, NEW m \in Nat \ {0}, NEW t \in CountedTexts,
         NEW r, r = PrepareRequest(w, m, t)
  PROVE  /\ r.kind \in {"request", "refused"}
         /\ r.kind = "request" =>
              /\ r.tokens = EstimateTokens(t) /\ r.reserve \in Nat
              /\ r.reserve >= Least(m, REVIEW_MIN_TOKENS) /\ r.reserve <= m
              /\ w # 0 => r.tokens + r.reserve <= w
         /\ r.kind = "refused" /\ r.reason = "oversize" =>
              /\ w # 0
              /\ EstimateTokens(t) + Least(m, REVIEW_MIN_TOKENS) > w
              /\ r.conservative <=> TypicalTokens(t) + REVIEW_MIN_TOKENS <= w
  <1> DEFINE e == EstimateTokens(t)
             y == TypicalTokens(t)
             reserve == ReserveAfter(m, w, e)
             clipped == ReserveAfter(m, w, y) - reserve
  <1>1. e \in Nat /\ y \in Nat
    BY TokensType
  <1> HIDE DEF e, y
  <1>2. /\ reserve \in Nat
        /\ \/ (w = 0 \/ w - e >= m) /\ reserve = m
           \/ w # 0 /\ w - e < m /\ reserve = Most(REVIEW_MIN_TOKENS, w - e)
    BY <1>1 DEF ReserveAfter, Most, REVIEW_MIN_TOKENS
  <1> HIDE DEF reserve, clipped
  <1>3. CASE w # 0 /\ reserve >= w
    <2>1. r.kind = "refused" /\ r.reason = "reply length"
      BY <1>3, ReplyTooLong DEF e, reserve
    <2>2. QED
      BY <2>1
  <1>4. CASE w # 0 /\ ~(reserve >= w) /\ e > w - reserve
    <2>1. r = Refusal("oversize", y <= w - reserve)
      BY <1>4, Zenon DEF PrepareRequest, e, y, reserve
    <2>2. r.kind = "refused" /\ r.reason = "oversize"
      BY <2>1 DEF Refusal
    <2>3. r.conservative <=> y <= w - reserve
      BY <2>1, SaysConservative, Zenon
    <2>4. reserve = REVIEW_MIN_TOKENS /\ w - e < REVIEW_MIN_TOKENS /\ w - e < m
      BY <1>1, <1>2, <1>4 DEF Most, REVIEW_MIN_TOKENS
    <2>5. y <= w - reserve <=> y + REVIEW_MIN_TOKENS <= w
      BY <1>1, <2>4 DEF REVIEW_MIN_TOKENS
    <2>6. e + Least(m, REVIEW_MIN_TOKENS) > w
      BY <1>1, <2>4 DEF Least, REVIEW_MIN_TOKENS
    <2>7. QED
      BY <1>4, <2>2, <2>3, <2>5, <2>6 DEF e, y
  <1>5. CASE w = 0 \/ (~(reserve >= w) /\ ~(e > w - reserve))
    <2>1. r.kind = "request" /\ r.reserve = reserve /\ r.tokens = e
      BY <1>5 DEF PrepareRequest, e, reserve
    <2>2. reserve >= Least(m, REVIEW_MIN_TOKENS) /\ reserve <= m
      BY <1>1, <1>2, <1>5 DEF Least, Most, REVIEW_MIN_TOKENS
    <2>3. w # 0 => e + reserve <= w
      BY <1>1, <1>2, <1>5
    <2>4. QED
      BY <1>2, <2>1, <2>2, <2>3 DEF e
  <1>6. QED
    BY <1>3, <1>4, <1>5

(* The two rungs.                                                            *)
LEMMA LadderFacts ==
  ASSUME NEW j, NEW stated, NEW b, b = PrepareLadder(j, stated), b.kind = "request",
         NEW whole, whole = PrepareRequest(j.window, j.ceiling, Stating(j.whole, stated)),
         NEW alone, alone = PrepareRequest(j.window, j.ceiling, Stating(j.diff, stated)),
         whole.kind \in {"request", "refused"}
  PROVE  \/ /\ Tried(j) /\ whole.kind = "request"
            /\ b.rung = "whole" /\ b.skipped = NoCause
            /\ b.reserve = whole.reserve /\ b.tokens = whole.tokens
         \/ /\ Tried(j) => whole.kind = "refused" /\ whole.reason = "oversize"
            /\ alone.kind = "request" /\ b.rung = "diff" /\ ~b.wholeFiles
            /\ b.reserve = alone.reserve /\ b.tokens = alone.tokens
            /\ b.skipped = CASE j.target.changed /\ ~Tried(j) -> "unsized-window"
                             [] Tried(j) /\ whole.conservative -> "conservative-count"
                             [] OTHER -> NoCause
  <1>1. CASE Tried(j) /\ whole.kind = "request"
    <2>1. b.rung = "whole" /\ b.skipped = NoCause /\ b.reserve = whole.reserve /\ b.tokens = whole.tokens
      BY <1>1, Zenon DEF PrepareLadder
    <2>2. QED
      BY <1>1, <2>1
  <1>2. CASE Tried(j) /\ whole.kind # "request" /\ whole.reason # "oversize"
    <2>1. b = whole
      BY <1>2 DEF PrepareLadder
    <2>2. QED
      BY <1>2, <2>1
  <1>3. CASE (Tried(j) => whole.kind # "request" /\ whole.reason = "oversize") /\ alone.kind # "request"
    <2>1. b = alone
      BY <1>3 DEF PrepareLadder
    <2>2. QED
      BY <1>3, <2>1
  <1>4. CASE (Tried(j) => whole.kind # "request" /\ whole.reason = "oversize") /\ alone.kind = "request"
    <2>1. /\ b.rung = "diff" /\ b.reserve = alone.reserve /\ b.tokens = alone.tokens
          /\ b.skipped = CASE j.target.changed /\ ~Tried(j) -> "unsized-window"
                           [] Tried(j) /\ whole.conservative -> "conservative-count"
                           [] OTHER -> NoCause
      BY <1>4 DEF PrepareLadder
    <2>2. ~b.wholeFiles
      BY <1>4 DEF PrepareLadder
    <2>3. QED
      BY <1>4, <2>1, <2>2
  <1>5. QED
    BY <1>1, <1>2, <1>3, <1>4

-----------------------------------------------------------------------------
(* The inductive invariant: what is sized is what the two rungs came to.     *)
Stated == IF job.structured THEN 0 ELSE cap

SizeInv ==
  /\ sizing # "idle" =>
       /\ job.window \in Nat /\ job.ceiling \in Nat
       /\ job.whole \in CountedTexts /\ job.diff \in CountedTexts /\ cap \in Nat
  /\ sizing \in {"size", "widest", "again", "sized"} => job.ceiling # 0
  /\ sizing = "size" => job.structured
  /\ sizing \in {"widest", "again"} => ~job.structured
  /\ sizing = "sized" => built.kind = "request" /\ built = PrepareLadder(job, Stated)

LEMMA SizedLeavesRoom == SizeInv => RoomIsLeft
  <1> SUFFICES ASSUME SizeInv, sizing = "sized" PROVE RoomIsLeft
    BY DEF RoomIsLeft
  <1> DEFINE whole == PrepareRequest(job.window, job.ceiling, Stating(job.whole, Stated))
             alone == PrepareRequest(job.window, job.ceiling, Stating(job.diff, Stated))
             least == Least(job.ceiling, REVIEW_MIN_TOKENS)
             text2 == Stating(job.whole, Stated)
  <1>1. /\ job.window \in Nat /\ job.ceiling \in Nat \ {0}
        /\ Stating(job.whole, Stated) \in CountedTexts /\ Stating(job.diff, Stated) \in CountedTexts
        /\ built.kind = "request" /\ built = PrepareLadder(job, Stated)
    BY StatingType DEF SizeInv
  <1>2. EstimateTokens(text2) \in Nat /\ TypicalTokens(text2) \in Nat
    BY <1>1, TokensType
  <1>3. /\ whole.kind \in {"request", "refused"}
        /\ whole.kind = "request" =>
             /\ whole.tokens = EstimateTokens(text2) /\ whole.reserve \in Nat
             /\ whole.reserve >= least /\ whole.reserve <= job.ceiling
             /\ job.window # 0 => whole.tokens + whole.reserve <= job.window
        /\ whole.kind = "refused" /\ whole.reason = "oversize" =>
             /\ job.window # 0 /\ EstimateTokens(text2) + least > job.window
             /\ whole.conservative <=> TypicalTokens(text2) + REVIEW_MIN_TOKENS <= job.window
    BY <1>1, RequestFacts
  <1>4. alone.kind = "request" =>
          /\ alone.reserve >= least /\ alone.reserve <= job.ceiling
          /\ job.window # 0 => alone.tokens + alone.reserve <= job.window
    BY <1>1, RequestFacts
  <1>5. least \in Nat
    BY <1>1 DEF Least, REVIEW_MIN_TOKENS
  <1>6. \/ /\ Tried(job) /\ whole.kind = "request"
           /\ built.rung = "whole" /\ built.skipped = NoCause
           /\ built.reserve = whole.reserve /\ built.tokens = whole.tokens
        \/ /\ Tried(job) => whole.kind = "refused" /\ whole.reason = "oversize"
           /\ alone.kind = "request" /\ built.rung = "diff" /\ ~built.wholeFiles
           /\ built.reserve = alone.reserve /\ built.tokens = alone.tokens
           /\ built.skipped = CASE job.target.changed /\ ~Tried(job) -> "unsized-window"
                                [] Tried(job) /\ whole.conservative -> "conservative-count"
                                [] OTHER -> NoCause
    BY <1>1, <1>3, LadderFacts
  <1>7. Tried(job) <=> job.window # 0 /\ job.target.changed
    BY DEF Tried
  <1> HIDE DEF whole, alone, least, text2
  <1> DEFINE windowed == job.window # 0
             typical == TypicalTokens(text2) + REVIEW_MIN_TOKENS <= job.window
  <1>8. /\ windowed => built.tokens + built.reserve <= job.window
        /\ built.reserve >= least /\ built.reserve <= job.ceiling
    BY <1>3, <1>4, <1>6
  <1>9. ~windowed => built.rung = "diff" /\ ~built.wholeFiles
                  /\ (job.target.changed => built.skipped = "unsized-window")
    BY <1>6, <1>7
  <1>10. windowed /\ job.target.changed =>
           ((built.rung = "whole") <=> EstimateTokens(text2) + least <= job.window)
    <2>1. CASE built.rung = "whole"
      BY <1>1, <1>2, <1>3, <1>5, <1>6, <2>1
    <2>2. CASE built.rung # "whole"
      BY <1>1, <1>2, <1>3, <1>5, <1>6, <1>7, <2>2
    <2>3. QED
      BY <2>1, <2>2
  <1>11. (built.skipped = "conservative-count") <=>
           (windowed /\ job.target.changed /\ built.rung = "diff" /\ typical)
    <2>1. CASE built.rung = "whole"
      BY <1>6, <2>1 DEF NoCause
    <2>2. CASE built.rung = "diff" /\ ~Tried(job)
      BY <1>6, <1>7, <2>2 DEF NoCause
    <2>3. CASE built.rung = "diff" /\ Tried(job)
      <3>1. whole.conservative <=> typical
        BY <1>3, <1>6, <2>3
      <3>2. (built.skipped = "conservative-count") <=> whole.conservative
        BY <1>6, <2>3 DEF NoCause
      <3>3. QED
        BY <1>7, <2>3, <3>1, <3>2
    <2>4. QED
      BY <1>6, <2>1, <2>2, <2>3
  <1>12. QED
    BY <1>8, <1>9, <1>10, <1>11 DEF RoomIsLeft, Stated, least, text2

LEMMA BeginSizes ==
  ASSUME NEW window \in Windows, NEW target, BeginSizing(window, target)
  PROVE  SizeInv'
  <1>1. PICK requested \in Requested, whole \in Wholes, alone \in Diffs, schema \in BOOLEAN :
          /\ job' = [window |-> window, ceiling |-> ReserveFor(window, requested), whole |-> whole,
                     diff |-> alone, target |-> target, structured |-> schema]
          /\ sizing' = IF job'.ceiling = 0 THEN "refused"
                       ELSE IF schema THEN "size" ELSE "widest"
    BY DEF BeginSizing
  <1>2. /\ window \in Nat /\ ReserveFor(window, requested) \in Nat
        /\ whole \in CountedTexts /\ alone \in CountedTexts /\ cap' = 0
    BY SizingAssumption, ReserveType DEF BeginSizing, CountedTexts
  <1>3. /\ job'.window = window /\ job'.ceiling = ReserveFor(window, requested)
        /\ job'.whole = whole /\ job'.diff = alone /\ job'.structured = schema
    BY <1>1
  <1>4. /\ sizing' \in {"refused", "size", "widest"}
        /\ sizing' # "refused" => job'.ceiling # 0
        /\ sizing' = "size" => schema
        /\ sizing' = "widest" => ~schema
    BY <1>1
  <1>5. QED
    BY <1>2, <1>3, <1>4 DEF SizeInv

LEMMA LadderReserve ==
  ASSUME SizeInv, sizing # "idle", job.ceiling # 0, NEW stated,
         PrepareLadder(job, stated).kind = "request"
  PROVE  PrepareLadder(job, stated).reserve \in Nat
  <1> DEFINE whole == PrepareRequest(job.window, job.ceiling, Stating(job.whole, stated))
             alone == PrepareRequest(job.window, job.ceiling, Stating(job.diff, stated))
             b == PrepareLadder(job, stated)
  <1>1. /\ job.window \in Nat /\ job.ceiling \in Nat \ {0}
        /\ Stating(job.whole, stated) \in CountedTexts /\ Stating(job.diff, stated) \in CountedTexts
    BY StatingType DEF SizeInv
  <1>2. /\ whole.kind \in {"request", "refused"}
        /\ whole.kind = "request" => whole.reserve \in Nat
        /\ alone.kind = "request" => alone.reserve \in Nat
    BY <1>1, RequestFacts
  <1>3. \/ whole.kind = "request" /\ b.reserve = whole.reserve
        \/ alone.kind = "request" /\ b.reserve = alone.reserve
    BY <1>2, LadderFacts
  <1>4. QED
    BY <1>2, <1>3

LEMMA SizingKeeps == SizeInv /\ SizeNext => SizeInv'
  <1> SUFFICES ASSUME SizeInv, SizeNext PROVE SizeInv'
    OBVIOUS
  <1>1. CASE SizeStructured
    <2>1. /\ sizing = "size" /\ job.structured /\ job.ceiling # 0 /\ UNCHANGED job
          /\ built' = PrepareLadder(job, 0)
          /\ sizing' = IF built'.kind = "request" THEN "sized" ELSE "refused"
          /\ cap' = IF built'.kind = "request" THEN AnalysisCapFor(built'.reserve) ELSE cap
      BY <1>1 DEF SizeStructured, SizeInv
    <2>2. cap' \in Nat
      BY <2>1, LadderReserve, CapType DEF SizeInv
    <2>3. QED
      BY <2>1, <2>2 DEF SizeInv, Stated
  <1>2. CASE SizeWidest
    <2> DEFINE widest == PrepareLadder(job, ANALYSIS_CEILING)
    <2>1. /\ sizing = "widest" /\ ~job.structured /\ job.ceiling # 0 /\ UNCHANGED job
          /\ \/ widest.kind = "request" /\ cap' = AnalysisCapFor(widest.reserve) /\ sizing' = "again"
             \/ sizing' = "refused" /\ cap' = cap
      BY <1>2 DEF SizeWidest, SizeInv
    <2>2. cap' \in Nat
      BY <2>1, LadderReserve, CapType DEF SizeInv
    <2>3. QED
      BY <2>1, <2>2 DEF SizeInv
  <1>3. CASE SizeAgain
    BY <1>3 DEF SizeAgain, SizeInv, Stated
  <1>4. CASE FormatRejected
    BY <1>4 DEF FormatRejected, SizeInv
  <1>5. CASE ServerCaps
    BY <1>5 DEF ServerCaps, SizeInv, REVIEW_MIN_TOKENS
  <1>6. QED
    BY <1>1, <1>2, <1>3, <1>4, <1>5 DEF SizeNext

LEMMA SizeInvStep == SizeInv /\ [Next]_vars => SizeInv'
  <1> SUFFICES ASSUME SizeInv, [Next]_vars PROVE SizeInv'
    OBVIOUS
  <1>1. CASE Size
    BY <1>1, BeginSizes DEF Size
  <1>2. CASE Fit
    BY <1>2, SizingKeeps DEF Fit
  <1>3. CASE UNCHANGED sizeVars
    BY <1>3 DEF sizeVars, SizeInv, Stated
  <1>4. Size \/ Fit \/ UNCHANGED sizeVars
    BY DEF Next, ReviewNext, Configure, Resolved, Target, Collect, HasTarget, Choice, Describe,
       HasModel, Ask, Review, vars, reviewVars
  <1>5. QED
    BY <1>1, <1>2, <1>3, <1>4

-----------------------------------------------------------------------------
(* For every window, every --max-tokens and every diff: what is sent leaves  *)
(* room for the reply it asks for, asks for no more than was granted, and    *)
(* whole files are withheld, and the count blamed, exactly where they must.  *)
(* (prepareLadder, prepareRequest, checkContextBudget)                       *)
THEOREM RoomIsAlwaysLeft == Spec => []RoomIsLeft
  <1>1. Init => SizeInv
    BY DEF Init, SizeIdle, SizeInv
  <1>2. QED
    BY <1>1, SizeInvStep, SizedLeavesRoom, PTL DEF Spec
(* What an unsized window leaves of a reply is what was asked for.           *)
LEMMA UnsizedCutsNothing ==
  ASSUME NEW m \in Nat \ {0}, NEW t, NEW r, r = PrepareRequest(0, m, t)
  PROVE  r.kind = "request" /\ ~r.conservativeReserveCut
  <1>1. \A tokens : ReserveAfter(m, 0, tokens) = m
    BY DEF ReserveAfter
  <1> DEFINE reserve == ReserveAfter(m, 0, EstimateTokens(t))
             lost == ReserveAfter(m, 0, TypicalTokens(t)) - reserve
             cutting == 10 * lost >= reserve
  <1>2. reserve = m /\ lost = m - m
    BY <1>1
  <1>3. r = [kind |-> "request", reserve |-> reserve, tokens |-> EstimateTokens(t),
             conservativeReserveCut |-> cutting, reserveClamped |-> reserve < m]
    BY Zenon DEF PrepareRequest
  <1> HIDE DEF reserve, lost, cutting
  <1>4. r.kind = "request"
    BY <1>3
  <1>5. r.conservativeReserveCut = cutting
    BY <1>3
  <1>6. ~cutting
    BY <1>2 DEF cutting
  <1>7. QED
    BY <1>4, <1>5, <1>6, Zenon

(* What narrows the request of either rung.                                  *)
LEMMA LadderNarrows ==
  ASSUME NEW j, NEW stated, NEW b, b = PrepareLadder(j, stated), b.kind = "request",
         NEW whole, whole = PrepareRequest(j.window, j.ceiling, Stating(j.whole, stated)),
         NEW alone, alone = PrepareRequest(j.window, j.ceiling, Stating(j.diff, stated)),
         whole.kind \in {"request", "refused"}
  PROVE  \/ Tried(j) /\ b.skipped = NoCause /\ ~b.hunksOnly
         \/ /\ alone.kind = "request" /\ (b.hunksOnly <=> j.target.hasDiff /\ ~j.target.deletionsOnly)
            /\ b.conservativeReserveCut <=> alone.conservativeReserveCut
            /\ b.skipped = CASE j.target.changed /\ ~Tried(j) -> "unsized-window"
                             [] Tried(j) /\ whole.conservative -> "conservative-count"
                             [] OTHER -> NoCause
  <1>1. CASE Tried(j) /\ whole.kind = "request"
    <2>1. b.skipped = NoCause /\ ~b.hunksOnly
      BY <1>1 DEF PrepareLadder
    <2>2. QED
      BY <1>1, <2>1
  <1>2. CASE Tried(j) /\ whole.kind # "request" /\ whole.reason # "oversize"
    <2>1. b = whole
      BY <1>2 DEF PrepareLadder
    <2>2. QED
      BY <1>2, <2>1
  <1>3. CASE (Tried(j) => whole.kind # "request" /\ whole.reason = "oversize") /\ alone.kind # "request"
    <2>1. b = alone
      BY <1>3 DEF PrepareLadder
    <2>2. QED
      BY <1>3, <2>1
  <1>4. CASE (Tried(j) => whole.kind # "request" /\ whole.reason = "oversize") /\ alone.kind = "request"
    <2>1. b.skipped = CASE j.target.changed /\ ~Tried(j) -> "unsized-window"
                        [] Tried(j) /\ whole.conservative -> "conservative-count"
                        [] OTHER -> NoCause
      BY <1>4 DEF PrepareLadder
    <2>2. /\ b.hunksOnly <=> j.target.hasDiff /\ ~j.target.deletionsOnly
          /\ b.conservativeReserveCut <=> alone.conservativeReserveCut
      BY <1>4 DEF PrepareLadder
    <2>3. QED
      BY <1>4, <2>1, <2>2
  <1>5. QED
    BY <1>1, <1>2, <1>3, <1>4

LEMMA SizedIsAdmitted == SizeInv => RequestIsAdmitted
  <1> SUFFICES ASSUME SizeInv, sizing = "sized"
               PROVE  NotesOf(built) \in RequestNotes(job.window # 0, job.target)
    BY DEF RequestIsAdmitted
  <1> DEFINE whole == PrepareRequest(job.window, job.ceiling, Stating(job.whole, Stated))
             alone == PrepareRequest(job.window, job.ceiling, Stating(job.diff, Stated))
             sizable == job.window # 0
             hunks == IF built.hunksOnly THEN {"hunks only"} ELSE {}
             less == IF built.conservativeReserveCut THEN {"conservative cut"} ELSE {}
             skip == CASE built.skipped = "unsized-window"     -> {"unsized window"}
                       [] built.skipped = "conservative-count" -> {"conservative count"}
                       [] OTHER                                -> {}
             unread == IF job.target.hasDiff /\ ~job.target.deletionsOnly THEN {"hunks only"} ELSE {}
             rungs == IF job.target.changed THEN {{}, unread, unread \cup {"conservative count"}} ELSE {unread}
             admitted == RequestNotes(sizable, job.target)
  <1>1. /\ job.window \in Nat /\ job.ceiling \in Nat \ {0}
        /\ Stating(job.whole, Stated) \in CountedTexts /\ Stating(job.diff, Stated) \in CountedTexts
        /\ built.kind = "request" /\ built = PrepareLadder(job, Stated)
    BY StatingType DEF SizeInv
  <1>2. whole.kind \in {"request", "refused"}
    BY <1>1, RequestFacts
  <1>3. \/ Tried(job) /\ built.skipped = NoCause /\ ~built.hunksOnly
        \/ /\ alone.kind = "request" /\ (built.hunksOnly <=> job.target.hasDiff /\ ~job.target.deletionsOnly)
           /\ built.conservativeReserveCut <=> alone.conservativeReserveCut
           /\ built.skipped = CASE job.target.changed /\ ~Tried(job) -> "unsized-window"
                                [] Tried(job) /\ whole.conservative -> "conservative-count"
                                [] OTHER -> NoCause
    BY <1>1, <1>2, LadderNarrows
  <1>4. Tried(job) <=> sizable /\ job.target.changed
    BY DEF Tried
  <1>5. NotesOf(built) = (hunks \cup less) \cup skip
    BY DEF NotesOf
  <1>6. /\ sizable => admitted = rungs \cup {rung \cup {"conservative cut"} : rung \in rungs}
        /\ ~sizable => admitted = {IF job.target.changed THEN unread \cup {"unsized window"} ELSE unread}
    BY Zenon DEF RequestNotes
  <1>7. ~sizable => ~alone.conservativeReserveCut
    BY <1>1, UnsizedCutsNothing
  <1> HIDE DEF whole, alone, admitted
  <1>8. CASE sizable
    <2>1. hunks \cup skip \in rungs
      <3>1. CASE job.target.changed
        BY <1>3, <1>4, <1>8, <3>1 DEF NoCause
      <3>2. CASE ~job.target.changed
        BY <1>3, <1>4, <1>8, <3>2 DEF NoCause
      <3>3. QED
        BY <3>1, <3>2
    <2>2. less = {} \/ less = {"conservative cut"}
      OBVIOUS
    <2>3. NotesOf(built) = (hunks \cup skip) \cup less
      BY <1>5
    <2> HIDE DEF hunks, less, skip, rungs, sizable
    <2>4. NotesOf(built) \in admitted
      BY <1>6, <1>8, <2>1, <2>2, <2>3
    <2>5. QED
      BY <2>4 DEF admitted, sizable
  <1>9. CASE ~sizable
    <2>1. less = {} /\ hunks = unread
      BY <1>3, <1>4, <1>7, <1>9
    <2>2. skip = IF job.target.changed THEN {"unsized window"} ELSE {}
      BY <1>3, <1>4, <1>9 DEF NoCause
    <2> HIDE DEF hunks, less, skip, unread
    <2>3. NotesOf(built) = IF job.target.changed THEN unread \cup {"unsized window"} ELSE unread
      BY <1>5, <2>1, <2>2
    <2> HIDE DEF sizable
    <2>4. NotesOf(built) \in admitted
      BY <1>6, <1>9, <2>3
    <2>5. QED
      BY <2>4 DEF admitted, sizable
  <1>10. QED
    BY <1>8, <1>9

(* For every window, every --max-tokens and every text, through a schema the *)
(* server refuses and a lower budget it states: what narrowed a request is   *)
(* what a request of its target and window may be narrowed by, which is what *)
(* the passes of a run are told apart by.  (prepareLadder, causeFlags)       *)
THEOREM RequestIsAlwaysAdmitted == Spec => []RequestIsAdmitted
  <1>1. Init => SizeInv
    BY DEF Init, SizeIdle, SizeInv
  <1>2. QED
    BY <1>1, SizeInvStep, SizedIsAdmitted, PTL DEF Spec
-----------------------------------------------------------------------------
(* The passes.                                                               *)
PassKinds == {"found", "prose", "cut", "empty", "error", "not sent"}
PassRecords ==
  [kind : PassKinds, findings : Replies \cup {<<>>},
   served : {"requested", "other", "declared", "unnamed"}, notes : SUBSET (WindowNotes \cup ReplyNotes)]

Telling == IF Multi THEN ReportPasses ELSE ReportSingle(passes[1])

(* The requests of a run: of all of them or of none the window was unsized,  *)
(* and where it was, no count was blamed.                                    *)
Alike(requests) ==
  \A a, b \in requests :
    "unsized window" \in a => "unsized window" \in b /\ "conservative count" \notin b

(* What is told is what the passes came to, and comes last; each pass that   *)
(* recorded its causes has those of a request it may have sent.              *)
PassesInv ==
  /\ stage # "passes" => passes = <<>> /\ told = Silent
  /\ stage = "passes" => plan.requests \subseteq SUBSET WindowNotes /\ Alike(plan.requests)
  /\ passes \in Seq(PassRecords)
  /\ \A i \in Recording : passes[i].notes \cap WindowNotes \in plan.requests
  /\ told # Silent => Asked /\ told = Telling

(* The first of some numbers.                                                *)
LEMMA LeastNatural ==
  ASSUME NEW S \in SUBSET Nat, S # {}
  PROVE  \E n \in S : \A m \in S : n <= m
  <1> DEFINE R == {ss \in Nat \X Nat : ss[1] < ss[2]}
  <1>1. OpToRel(<, Nat) = R
    BY Zenon DEF OpToRel
  <1>2. IsWellFoundedOn(R, Nat)
    BY Zenon, <1>1, NatLessThanWellFounded
  <1>3. \A m, n \in Nat : m < n => <<m, n>> \in R
    OBVIOUS
  <1> HIDE DEF R
  <1>4. PICK n \in S : \A m \in S : ~(<<m, n>> \in R)
    BY <1>2, WFMin
  <1>5. \A m \in S : ~(m < n)
    BY <1>3, <1>4
  <1>6. QED
    BY <1>5

LEMMA AdmittedAlike ==
  ASSUME NEW sizable, NEW target
  PROVE  RequestNotes(sizable, target) \subseteq SUBSET WindowNotes /\ Alike(RequestNotes(sizable, target))
  <1> DEFINE alone == IF target.hasDiff /\ ~target.deletionsOnly THEN {"hunks only"} ELSE {}
             rungs == IF target.changed THEN {{}, alone, alone \cup {"conservative count"}} ELSE {alone}
             S == RequestNotes(sizable, target)
  <1>1. /\ WindowNotes = {"unsized window", "conservative count", "conservative cut", "hunks only"}
        /\ alone \subseteq {"hunks only"}
    BY DEF WindowNotes, CauseNotes, SkipNotes
  <1>2. CASE sizable
    <2>1. S = rungs \cup {rung \cup {"conservative cut"} : rung \in rungs}
      BY <1>2, Zenon DEF RequestNotes
    <2>2. rungs \subseteq SUBSET {"hunks only", "conservative count"}
      BY <1>1
    <2> HIDE DEF rungs, S
    <2>3. \A a \in S : a \subseteq {"hunks only", "conservative count", "conservative cut"}
      <3>1. SUFFICES ASSUME NEW a \in S
                     PROVE  a \subseteq {"hunks only", "conservative count", "conservative cut"}
        OBVIOUS
      <3>2. \E rung \in rungs : a = rung \/ a = rung \cup {"conservative cut"}
        BY <2>1
      <3>3. QED
        BY <2>2, <3>2, Zenon
    <2>4. S \subseteq SUBSET WindowNotes /\ \A a \in S : "unsized window" \notin a
      BY <1>1, <2>3
    <2>5. QED
      BY <2>4 DEF Alike, S
  <1>3. CASE ~sizable
    <2> DEFINE only == IF target.changed THEN alone \cup {"unsized window"} ELSE alone
    <2>1. S = {only}
      BY <1>3 DEF RequestNotes
    <2>2. only \subseteq WindowNotes /\ "conservative count" \notin only
      BY <1>1
    <2> HIDE DEF only, S
    <2>3. S \subseteq SUBSET WindowNotes
      BY <2>1, <2>2
    <2>4. Alike(S)
      BY <2>1, <2>2, Zenon DEF Alike
    <2>5. QED
      BY <2>3, <2>4 DEF S
  <1>4. QED
    BY <1>2, <1>3

LEMMA PassType ==
  ASSUME passes \in Seq(PassRecords), NEW kind \in PassKinds, NEW findings \in Replies \cup {<<>>},
         NEW served \in {"requested", "other", "declared", "unnamed"},
         NEW notes \in SUBSET (WindowNotes \cup ReplyNotes)
  PROVE  Append(passes, Pass(kind, findings, served, notes)) \in Seq(PassRecords)
  <1>1. Pass(kind, findings, served, notes) \in PassRecords
    BY DEF Pass, PassRecords
  <1>2. QED
    BY <1>1

(* It depends on the plan and the passes alone.                              *)
LEMMA Frozen ==
  ASSUME UNCHANGED <<plan, passes>>
  PROVE  (Asked' <=> Asked) /\ Telling' = Telling /\ Recording' = Recording
  <1>1. /\ Readable' = Readable /\ (Asked' <=> Asked) /\ (Multi' <=> Multi)
        /\ Recording' = Recording
    BY DEF Readable, Asked, Multi, Recording
  <1>2. RunCauses' = RunCauses /\ UnreadFiles' = UnreadFiles
    <2>1. ASSUME NEW S PROVE SkipOf(S)' = SkipOf(S)
      BY DEF SkipOf
    <2>2. QED
      BY <1>1, <2>1 DEF RunCauses, UnreadFiles
  <1>3. CaveatUnion' = CaveatUnion
    BY <1>1, <1>2 DEF CaveatUnion
  <1>4. /\ \A p : Declared(p)' <=> Declared(p)
        /\ \A p : Substituted(p)' <=> Substituted(p)
        /\ \A p : Measured(p)' = Measured(p)
    BY DEF Declared, Substituted, Measured
  <1>5. ServedModelFailure' = ServedModelFailure
    <2> DEFINE bad == {i \in Readable : passes[i].served = "unnamed" \/ Substituted(passes[i])}
    <2>1. bad' = bad
      BY <1>1, <1>4
    <2>2. {Measured(passes[i]) : i \in Readable}' = {Measured(passes[i]) : i \in Readable}
      BY <1>1, <1>4
    <2>3. QED
      BY <2>1, <2>2 DEF ServedModelFailure
  <1>6. MergePasses' = MergePasses
    <2>1. \A i, l : At(i, l)' = At(i, l)
      BY DEF At
    <2>2. Located' = Located
      BY <1>1 DEF Located
    <2>3. \A l : Merged(l)' = Merged(l)
      BY <1>1, <2>1 DEF Merged
    <2>4. QED
      BY <1>1, <2>1, <2>2, <2>3 DEF MergePasses
  <1>7. \A p : LineOf(p)' = LineOf(p)
    BY <1>4 DEF LineOf
  <1>8. ReportPasses' = ReportPasses
    BY <1>1, <1>2, <1>3, <1>5, <1>6, <1>7 DEF ReportPasses
  <1>9. ASSUME NEW p PROVE ReportSingle(p)' = ReportSingle(p)
    <2>1. Substituted(p)' = Substituted(p)
      BY DEF Substituted, Declared
    <2>2. QED
      BY <1>2, <1>3, <2>1, Zenon DEF ReportSingle
  <1>10. QED
    BY <1>1, <1>8, <1>9 DEF Telling

LEMMA Appended ==
  ASSUME NEW s \in Seq(PassRecords), NEW e \in PassRecords
  PROVE  \A i \in DOMAIN Append(s, e) : Append(s, e)[i] = e \/ (i \in DOMAIN s /\ Append(s, e)[i] = s[i])
  <1> SUFFICES ASSUME NEW i \in DOMAIN Append(s, e), ~(i \in DOMAIN s /\ Append(s, e)[i] = s[i])
               PROVE  Append(s, e)[i] = e
    OBVIOUS
  <1>1. Len(s) \in Nat /\ DOMAIN s = 1 .. Len(s) /\ DOMAIN Append(s, e) = 1 .. (Len(s) + 1)
    OBVIOUS
  <1>2. i = Len(s) + 1
    BY <1>1
  <1>3. QED
    BY <1>1, <1>2

(* One pass more, with what it records of a request it may have sent.        *)
LEMMA PassAdded ==
  ASSUME PassesInv, UNCHANGED runVars, UNCHANGED plan, stage = "passes", told' = Silent,
         NEW kind \in PassKinds, NEW findings \in Replies \cup {<<>>},
         NEW served \in {"requested", "other", "declared", "unnamed"},
         NEW notes \in SUBSET (WindowNotes \cup ReplyNotes),
         passes' = Append(passes, Pass(kind, findings, served, notes)),
         kind # "not sent" => notes \cap WindowNotes \in plan.requests
  PROVE  PassesInv'
  <1> DEFINE pass == Pass(kind, findings, served, notes)
  <1>1. passes \in Seq(PassRecords) /\ passes' \in Seq(PassRecords)
    BY PassType DEF PassesInv
  <1>2. pass.kind = kind /\ pass.notes = notes /\ pass \in PassRecords /\ passes' = Append(passes, pass)
    BY DEF Pass, PassRecords
  <1> HIDE DEF pass
  <1>3. ASSUME NEW i \in Recording' PROVE passes'[i].notes \cap WindowNotes \in plan.requests
    <2>1. i \in DOMAIN passes' /\ Recorded(passes'[i])
      BY DEF Recording, Recorded
    <2>2. passes'[i] = pass \/ (i \in DOMAIN passes /\ passes'[i] = passes[i])
      <3> DEFINE more == Append(passes, pass)
      <3>1. passes \in Seq(PassRecords) /\ pass \in PassRecords
        BY <1>1, <1>2
      <3>2. \A k \in DOMAIN more : more[k] = pass \/ (k \in DOMAIN passes /\ more[k] = passes[k])
        BY <3>1, Appended, Zenon
      <3>3. passes' = more
        BY <1>2
      <3> HIDE DEF more
      <3>4. QED
        BY <2>1, <3>2, <3>3, Zenon
    <2>3. CASE passes'[i] = pass
      BY <1>2, <2>1, <2>3 DEF Recorded
    <2>4. CASE i \in DOMAIN passes /\ passes'[i] = passes[i]
      <3>1. i \in Recording
        BY <2>1, <2>4 DEF Recording
      <3>2. QED
        BY <2>4, <3>1 DEF PassesInv
    <2>5. QED
      BY <2>2, <2>3, <2>4
  <1>4. QED
    BY <1>1, <1>3 DEF PassesInv, runVars

LEMMA PassesBegin == Init => PassesInv
  <1> SUFFICES ASSUME Init PROVE PassesInv
    OBVIOUS
  <1>1. passes = <<>> /\ told = Silent /\ stage # "passes"
    BY DEF Init, PassesIdle
  <1>2. passes \in Seq(PassRecords) /\ Recording = {}
    BY <1>1 DEF Recording
  <1>3. QED
    BY <1>1, <1>2 DEF PassesInv

LEMMA PassesStep == PassesInv /\ [Next]_vars => PassesInv'
  <1> SUFFICES ASSUME PassesInv, [Next]_vars PROVE PassesInv'
    OBVIOUS
  <1>1. CASE Ask
    <2> DEFINE admitted == RequestNotes(known.window, known)
    <2>1. /\ stage = "chosen" /\ stage' = "passes" /\ UNCHANGED <<passes, told>>
          /\ plan'.requests = admitted
      BY <1>1 DEF Ask, BeginPasses
    <2>2. admitted \subseteq SUBSET WindowNotes /\ Alike(admitted)
      BY AdmittedAlike
    <2>3. passes = <<>> /\ told = Silent
      BY <2>1 DEF PassesInv
    <2> HIDE DEF admitted
    <2>4. Recording' = {}
      BY <2>1, <2>3 DEF Recording
    <2>5. QED
      BY <2>1, <2>2, <2>3, <2>4 DEF PassesInv, Alike
  <1>2. CASE Review
    <2>1. /\ stage = "passes" /\ UNCHANGED runVars /\ UNCHANGED plan
          /\ plan.requests \subseteq SUBSET WindowNotes
      BY <1>2 DEF Review, PassesNext, Answered, Errored, Tell, PassesInv
    <2>a. ASSUME NEW sent1 \in plan.requests, NEW own \in SUBSET ReplyNotes
          PROVE  /\ own \cup sent1 \in SUBSET (WindowNotes \cup ReplyNotes)
                 /\ (own \cup sent1) \cap WindowNotes = sent1
      <3>1. ReplyNotes \cap WindowNotes = {}
        BY DEF ReplyNotes, WindowNotes, CauseNotes, SkipNotes
      <3>2. QED
        BY <2>1, <2>a, <3>1
    <2>2. CASE Answered
      <3>1. PICK sent1 \in plan.requests, own \in OwnNotes,
                 served \in {"requested", "other", "declared", "unnamed"} :
              \/ \E findings \in Replies :
                   passes' = Append(passes, Pass("found", findings, served, own \cup sent1))
              \/ \E kind \in {"prose", "cut", "empty"} :
                   passes' = Append(passes, Pass(kind, <<>>, served,
                                                 (own \cap {"salvaged", "degraded"}) \cup sent1))
        BY <2>2 DEF Answered
      <3>2. told' = Silent
        BY <2>2 DEF Answered
      <3>3. own \in SUBSET ReplyNotes
        BY PassesAssumption
      <3>4. ASSUME NEW kind \in PassKinds, NEW findings \in Replies \cup {<<>>}, NEW left \in SUBSET own,
                   passes' = Append(passes, Pass(kind, findings, served, left \cup sent1))
            PROVE  PassesInv'
        <4>1. /\ left \cup sent1 \in SUBSET (WindowNotes \cup ReplyNotes)
              /\ (left \cup sent1) \cap WindowNotes \in plan.requests
          BY <2>a, <3>3
        <4>2. QED
          BY <2>1, <3>2, <3>4, <4>1, PassAdded
      <3>5. CASE \E findings \in Replies :
                   passes' = Append(passes, Pass("found", findings, served, own \cup sent1))
        BY <3>4, <3>5 DEF PassKinds
      <3>6. CASE \E kind \in {"prose", "cut", "empty"} :
                   passes' = Append(passes, Pass(kind, <<>>, served,
                                                 (own \cap {"salvaged", "degraded"}) \cup sent1))
        BY <3>4, <3>6 DEF PassKinds
      <3>7. QED
        BY <3>1, <3>5, <3>6
    <2>3. CASE Errored
      <3>1. \/ \E sent1 \in plan.requests, salvaged \in SUBSET {"salvaged"} :
                 passes' = Append(passes, Pass("error", <<>>, "unnamed", sent1 \cup salvaged))
            \/ passes' = Append(passes, Pass("not sent", <<>>, "unnamed", {}))
        BY <2>3 DEF Errored
      <3>2. told' = Silent
        BY <2>3 DEF Errored
      <3>3. /\ "error" \in PassKinds /\ "not sent" \in PassKinds /\ <<>> \in Replies \cup {<<>>}
            /\ "unnamed" \in {"requested", "other", "declared", "unnamed"}
            /\ {} \in SUBSET (WindowNotes \cup ReplyNotes)
        BY DEF PassKinds
      <3>4. CASE \E sent1 \in plan.requests, salvaged \in SUBSET {"salvaged"} :
                   passes' = Append(passes, Pass("error", <<>>, "unnamed", sent1 \cup salvaged))
        <4>1. PICK sent1 \in plan.requests, salvaged \in SUBSET {"salvaged"} :
                passes' = Append(passes, Pass("error", <<>>, "unnamed", sent1 \cup salvaged))
          BY <3>4
        <4>2. salvaged \in SUBSET ReplyNotes /\ sent1 \cup salvaged = salvaged \cup sent1
          BY DEF ReplyNotes
        <4>3. /\ sent1 \cup salvaged \in SUBSET (WindowNotes \cup ReplyNotes)
              /\ (sent1 \cup salvaged) \cap WindowNotes \in plan.requests
          BY <2>a, <4>2
        <4> DEFINE notes == sent1 \cup salvaged
        <4> HIDE DEF notes
        <4>4. /\ notes \in SUBSET (WindowNotes \cup ReplyNotes) /\ notes \cap WindowNotes \in plan.requests
              /\ passes' = Append(passes, Pass("error", <<>>, "unnamed", notes))
          BY <4>1, <4>3 DEF notes
        <4>5. QED
          BY <2>1, <3>2, <3>3, <4>4, PassAdded, Zenon
      <3>5. CASE passes' = Append(passes, Pass("not sent", <<>>, "unnamed", {}))
        BY <2>1, <3>2, <3>3, <3>5, PassAdded, Zenon
      <3>6. QED
        BY <3>1, <3>4, <3>5
    <2>4. CASE Tell
      <3>1. Asked /\ told' = Telling /\ UNCHANGED passes
        BY <2>4 DEF Tell, Telling
      <3>2. (Asked' <=> Asked) /\ Telling' = Telling /\ Recording' = Recording
        BY <2>1, <3>1, Frozen
      <3>3. QED
        BY <2>1, <3>1, <3>2 DEF PassesInv, runVars
    <2>5. QED
      BY <1>2, <2>2, <2>3, <2>4 DEF Review, PassesNext
  <1>3. CASE UNCHANGED passesVars /\ (UNCHANGED runVars \/ (stage # "passes" /\ stage' # "passes"))
    <2>1. UNCHANGED <<plan, passes, told>>
      BY <1>3 DEF passesVars
    <2>2. (Asked' <=> Asked) /\ Telling' = Telling /\ Recording' = Recording
      BY <2>1, Frozen
    <2>3. QED
      BY <1>3, <2>1, <2>2 DEF PassesInv, runVars
  <1>4. \/ Ask \/ Review
        \/ UNCHANGED passesVars /\ (UNCHANGED runVars \/ (stage # "passes" /\ stage' # "passes"))
    BY DEF Next, ReviewNext, Configure, Resolved, Target, Collect, HasTarget, Choice, Describe,
       HasModel, Size, Fit, vars, reviewVars
  <1>5. QED
    BY <1>1, <1>2, <1>3, <1>4
-----------------------------------------------------------------------------
(* What is told of the passes.                                               *)
LEMMA OfPasses ==
  ASSUME PassesInv, NEW i \in DOMAIN passes
  PROVE  /\ passes[i].kind \in PassKinds /\ passes[i].findings \in Replies \cup {<<>>}
         /\ passes[i].served \in {"requested", "other", "declared", "unnamed"}
         /\ passes[i].notes \subseteq WindowNotes \cup ReplyNotes
  <1>1. passes[i] \in PassRecords
    BY DEF PassesInv
  <1>2. QED
    BY <1>1 DEF PassRecords

LEMMA FailedKind ==
  ASSUME NEW reason, NEW causes, told = FailedRun(reason, causes)
  PROVE  told.kind = "failed"
  BY Zenon DEF FailedRun

LEMMA FailedJson ==
  ASSUME NEW reason, NEW causes, told = FailedRun(reason, causes)
  PROVE  told.json = causes
  BY Zenon DEF FailedRun

LEMMA FailedText ==
  ASSUME NEW reason, NEW causes, told = FailedRun(reason, causes)
  PROVE  told.text = causes \cap {"conservative count", "conservative cut"}
  BY Zenon DEF FailedRun

LEMMA FailedConcealsNothing ==
  ASSUME NEW reason, NEW causes, told = FailedRun(reason, causes),
         (UNION {passes[i].notes : i \in Recording}) \cap WindowNotes \subseteq causes
  PROVE  NothingConcealed
  <1>1. told.kind = "failed"
    BY FailedKind
  <1>2. told.json = causes
    BY FailedJson
  <1>3. told.text = causes \cap {"conservative count", "conservative cut"}
    BY FailedText
  <1>4. {"conservative count", "conservative cut"} \subseteq WindowNotes
    BY DEF WindowNotes, CauseNotes, SkipNotes
  <1>5. told.kind # "findings"
    BY <1>1
  <1> DEFINE narrowed == UNION {passes[i].notes : i \in Recording}
  <1>6. narrowed \cap {"conservative count", "conservative cut"} \subseteq told.text
    BY <1>3, <1>4
  <1>7. narrowed \cap WindowNotes \subseteq told.json
    BY <1>2
  <1>8. QED
    BY <1>5, <1>6, <1>7 DEF NothingConcealed

LEMMA SingleConcealsNothing ==
  ASSUME PassesInv, Asked, ~Multi, told = ReportSingle(passes[1])
  PROVE  NothingConcealed
  <1>1. DOMAIN passes = {1}
    <2>1. Len(passes) \in Nat /\ DOMAIN passes = 1 .. Len(passes)
      BY DEF PassesInv
    <2>2. Len(passes) = plan.passes /\ plan.passes > 0 /\ ~(plan.passes > 1)
      BY DEF Asked, Multi
    <2>3. Len(passes) = 1
      BY <2>1, <2>2
    <2>4. QED
      BY <2>1, <2>3
  <1>2. passes[1].kind \in PassKinds /\ passes[1].notes \subseteq WindowNotes \cup ReplyNotes
    BY <1>1, OfPasses
  <1> DEFINE notes == passes[1].notes
             narrowed == UNION {passes[i].notes : i \in Recording}
             counts == {"conservative count", "conservative cut"}
  <1>3. narrowed = (IF Recorded(passes[1]) THEN notes ELSE {})
    <2>1. Recording = IF Recorded(passes[1]) THEN {1} ELSE {}
      BY <1>1 DEF Recording
    <2>2. QED
      BY <2>1
  <1>4. counts \subseteq WindowNotes
    BY DEF WindowNotes, CauseNotes, SkipNotes
  <1>5. CASE passes[1].kind = "found"
    <2>1. Readable = {1}
      BY <1>1, <1>5 DEF Readable, IsReadable
    <2>2. /\ told.kind = "findings" /\ told.text = Written(CaveatUnion) /\ told.json = CaveatUnion
      BY <1>5 DEF ReportSingle
    <2>3. CaveatUnion = UnreadFiles \cup notes
      BY <2>1 DEF CaveatUnion
    <2>4. QED
      BY <2>1, <2>2, <2>3 DEF NothingConcealed, Written, UnreadFiles
  <1>6. CASE passes[1].kind = "prose"
    <2>1. /\ told.kind = "verbatim" /\ told.text = UnreadFiles \cup Causes(passes[1])
          /\ told.json = UnreadFiles \cup (notes \ {"dropped"})
      BY <1>6 DEF ReportSingle
    <2>2. "dropped" \notin WindowNotes
      BY DEF WindowNotes, CauseNotes, SkipNotes
    <2>3. QED
      BY <1>3, <1>4, <2>1, <2>2 DEF NothingConcealed, Causes
  <1>7. CASE passes[1].kind \notin {"found", "prose"}
    <2>1. told = FailedRun(Reason(passes[1]), IF Recorded(passes[1]) THEN Causes(passes[1]) ELSE {})
      BY <1>7 DEF ReportSingle
    <2> DEFINE causes == IF Recorded(passes[1]) THEN Causes(passes[1]) ELSE {}
    <2>2. narrowed \cap WindowNotes \subseteq causes
      BY <1>3 DEF Causes
    <2>3. QED
      BY <2>1, <2>2, FailedConcealsNothing
  <1>8. QED
    BY <1>2, <1>5, <1>6, <1>7

LEMMA LinesSayWhich ==
  ASSUME PassesInv, NEW i \in DOMAIN passes
  PROVE  IsReadable(passes[i]) <=> LineOf(passes[i]).reason = "none"
  <1>1. passes[i].kind \in PassKinds
    BY OfPasses
  <1>2. CASE IsReadable(passes[i])
    BY <1>2 DEF LineOf
  <1>3. CASE ~IsReadable(passes[i])
    <2>1. LineOf(passes[i]).reason = Reason(passes[i])
      BY <1>3 DEF LineOf
    <2>2. Reason(passes[i]) # "none"
      BY <1>1 DEF Reason, PassKinds
    <2>3. QED
      BY <1>3, <2>1, <2>2
  <1>4. QED
    BY <1>2, <1>3

(* The line of a pass names what a conservative count narrowed.              *)
LEMMA LinesSayCounts ==
  ASSUME PassesInv, NEW i \in Recording,
         NEW note \in passes[i].notes, note \in {"conservative count", "conservative cut"}
  PROVE  note \in LineOf(passes[i]).notes
  <1>1. Recorded(passes[i])
    BY DEF Recording
  <1>2. CASE IsReadable(passes[i])
    BY <1>2 DEF LineOf
  <1>3. CASE ~IsReadable(passes[i])
    <2> DEFINE kept == {"conservative count", "conservative cut"}
                         \cup IF passes[i].kind \in {"prose", "cut", "empty"} THEN {"salvaged"} ELSE {}
    <2>1. LineOf(passes[i]).notes = passes[i].notes \cap kept
      BY <1>1, <1>3 DEF LineOf
    <2>2. QED
      BY <2>1
  <1>4. QED
    BY <1>2, <1>3

(* Passes that had to skip the whole files did so for one reason, and where  *)
(* it was the window, every pass did.                                        *)
LEMMA SameSkip ==
  ASSUME PassesInv, passes # <<>>, NEW i \in Recording, NEW j \in Recording
  PROVE  /\ "unsized window" \in passes[i].notes => passes[j].notes \cap SkipNotes = {"unsized window"}
         /\ passes[i].notes \cap SkipNotes # {} /\ passes[j].notes \cap SkipNotes # {} =>
              passes[i].notes \cap SkipNotes = passes[j].notes \cap SkipNotes
  <1> DEFINE a == passes[i].notes
             b == passes[j].notes
  <1>1. a \cap WindowNotes \in plan.requests /\ b \cap WindowNotes \in plan.requests /\ Alike(plan.requests)
    BY DEF PassesInv
  <1> HIDE DEF a, b
  <1>2. {"unsized window", "conservative count"} \subseteq WindowNotes
    BY DEF WindowNotes, CauseNotes, SkipNotes
  <1>3. /\ "unsized window" \in a => "unsized window" \in b /\ "conservative count" \notin b
        /\ "unsized window" \in b => "unsized window" \in a /\ "conservative count" \notin a
    BY <1>1, <1>2 DEF Alike
  <1>4. CASE "unsized window" \in a
    BY <1>3, <1>4 DEF SkipNotes, a, b
  <1>5. CASE "unsized window" \notin a
    BY <1>3, <1>5 DEF SkipNotes, a, b
  <1>6. QED
    BY <1>4, <1>5

(* The run's causes are those of all its passes, although it names a skip    *)
(* but once.                                                                 *)
LEMMA RunCausesAre ==
  ASSUME PassesInv, passes # <<>>
  PROVE  (UNION {passes[i].notes : i \in Recording}) \cap WindowNotes = RunCauses
  <1> DEFINE narrowed == UNION {passes[i].notes : i \in Recording}
             skipping == {i \in Recording : passes[i].notes \cap SkipNotes # {}}
             first == CHOOSE i \in skipping : \A j \in skipping : i <= j
             theRest == {"conservative cut", "hunks only"}
  <1>1. narrowed \cap SkipNotes = SkipOf(Recording)
    <2>1. CASE skipping = {}
      BY <2>1 DEF SkipOf
    <2>2. CASE skipping # {}
      <3>1. skipping \subseteq Nat
        BY DEF PassesInv, Recording
      <3>2. \E i \in skipping : \A j \in skipping : i <= j
        BY <2>2, <3>1, LeastNatural
      <3>3. first \in skipping
        BY <3>2
      <3>4. SkipOf(Recording) = passes[first].notes \cap SkipNotes
        BY <2>2 DEF SkipOf
      <3> HIDE DEF first
      <3>5. \A i \in skipping : passes[i].notes \cap SkipNotes = passes[first].notes \cap SkipNotes
        BY <3>3, SameSkip
      <3>6. narrowed \cap SkipNotes = UNION {passes[i].notes \cap SkipNotes : i \in skipping}
        OBVIOUS
      <3> HIDE DEF skipping
      <3>7. QED
        BY <3>3, <3>4, <3>5, <3>6
    <2>3. QED
      BY <2>1, <2>2
  <1> HIDE DEF theRest
  <1>2. narrowed \cap theRest = UNION {passes[i].notes \cap theRest : i \in Recording}
    OBVIOUS
  <1>3. WindowNotes = SkipNotes \cup theRest
    BY DEF WindowNotes, CauseNotes, theRest
  <1> HIDE DEF narrowed
  <1>4. narrowed \cap WindowNotes = (narrowed \cap SkipNotes) \cup (narrowed \cap theRest)
    BY <1>3
  <1>5. QED
    BY <1>1, <1>2, <1>4, Zenon DEF RunCauses, narrowed, theRest

LEMMA SeveralConcealNothing ==
  ASSUME PassesInv, Asked, Multi, told = ReportPasses
  PROVE  NothingConcealed
  <1> DEFINE narrowed == UNION {passes[i].notes : i \in Recording}
  <1>1. DOMAIN passes = 1 .. Len(passes) /\ passes # <<>>
    BY DEF PassesInv, Asked
  <1>2. narrowed \cap WindowNotes = RunCauses
    BY <1>1, RunCausesAre
  <1>3. ASSUME NEW reason, NEW causes, told = FailedRun(reason, causes), narrowed \cap WindowNotes \subseteq causes
        PROVE  NothingConcealed
    BY <1>3, FailedConcealsNothing
  <1>4. CASE Readable = {}
    <2> DEFINE causes == IF Recording # {}
                           THEN RunCauses \cup (passes[1].notes \cap {"salvaged"}) ELSE {}
    <2>1. \E reason : told = FailedRun(reason, causes)
      BY <1>4, Zenon DEF ReportPasses
    <2>2. narrowed \cap WindowNotes \subseteq causes
      <3>1. CASE Recording = {}
        BY <3>1
      <3>2. CASE Recording # {}
        BY <1>2, <3>2
      <3>3. QED
        BY <3>1, <3>2
    <2>3. QED
      BY <1>3, <2>1, <2>2
  <1>5. CASE Readable # {} /\ ServedModelFailure # "none"
    <2>1. told = FailedRun(ServedModelFailure, RunCauses)
      BY <1>5 DEF ReportPasses
    <2>2. QED
      BY <1>2, <1>3, <2>1
  <1>6. CASE Readable # {} /\ ServedModelFailure = "none"
    <2>1. /\ told.kind = "findings" /\ told.text = Written(CaveatUnion) /\ told.json = CaveatUnion
          /\ told.lines = [i \in DOMAIN passes |-> LineOf(passes[i])]
      BY <1>6 DEF ReportPasses
    <2>2. \A i \in Readable : passes[i].notes \subseteq CaveatUnion
      BY DEF CaveatUnion
    <2>3. plan.unread => "unread file" \in CaveatUnion
      BY DEF CaveatUnion, UnreadFiles
    <2>4. \A i \in DOMAIN passes : IsReadable(passes[i]) <=> told.lines[i].reason = "none"
      BY <2>1, LinesSayWhich
    <2>5. \A i \in Recording : passes[i].notes \cap CauseNotes \subseteq told.text \cup told.lines[i].notes
      <3>1. SUFFICES ASSUME NEW i \in Recording, NEW note \in passes[i].notes \cap CauseNotes
                     PROVE  note \in told.text \cup told.lines[i].notes
        OBVIOUS
      <3>2. i \in DOMAIN passes /\ Recorded(passes[i]) /\ told.lines[i] = LineOf(passes[i])
        BY <2>1 DEF Recording
      <3>3. CASE note \in {"conservative count", "conservative cut"}
        BY <3>2, <3>3, LinesSayCounts
      <3>4. CASE note = "unsized window"
        <4>1. PICK k \in Readable : TRUE
          BY <1>6
        <4>2. k \in Recording
          BY DEF Readable, Recording, IsReadable, Recorded
        <4>3. "unsized window" \in passes[k].notes
          BY <1>1, <3>4, <4>2, SameSkip DEF SkipNotes
        <4>4. QED
          BY <2>1, <2>2, <3>4, <4>3 DEF Written
      <3>5. QED
        BY <3>3, <3>4 DEF CauseNotes, SkipNotes
    <2>6. QED
      BY <1>6, <2>1, <2>2, <2>3, <2>4, <2>5 DEF NothingConcealed, Written
  <1>7. QED
    BY <1>4, <1>5, <1>6

(* However many passes there are and however each comes out, the reader is   *)
(* told what qualifies each pass that the findings came from, and of a run   *)
(* that shows none, what narrowed it.  (caveatUnion, runCauses, errorReport) *)
THEOREM NothingIsConcealed == Spec => []NothingConcealed
  <1>1. Init => PassesInv
    BY PassesBegin
  <1>2. PassesInv => NothingConcealed
    <2> SUFFICES ASSUME PassesInv PROVE NothingConcealed
      OBVIOUS
    <2>1. CASE told = Silent
      BY <2>1 DEF Silent, NothingConcealed
    <2>2. CASE told # Silent
      BY <2>2, SingleConcealsNothing, SeveralConcealNothing DEF PassesInv, Telling
    <2>3. QED
      BY <2>1, <2>2
  <1>3. QED
    BY <1>1, <1>2, PassesStep, PTL DEF Spec
-----------------------------------------------------------------------------
(* What a merged finding says of the passes it came from.                   *)
LEMMA RanksAre == RankOf("high") = 1 /\ RankOf("medium") = 2 /\ RankOf("low") = 3
  <1>1. DOMAIN Severities = 1..3 /\ Severities[1] = "high" /\ Severities[2] = "medium" /\ Severities[3] = "low"
    BY DEF Severities
  <1>2. \A i \in 1..3 : i = 1 \/ i = 2 \/ i = 3
    OBVIOUS
  <1>3. QED
    BY <1>1, <1>2 DEF RankOf

LEMMA WorstOf ==
  ASSUME NEW S \in SUBSET {"high", "medium", "low"}, S # {}
  PROVE  MostSevere(S) \in S /\ \A t \in S : RankOf(MostSevere(S)) <= RankOf(t)
  <1>1. \E s \in S : \A t \in S : RankOf(s) <= RankOf(t)
    <2>1. CASE "high" \in S
      BY <2>1, RanksAre
    <2>2. CASE "high" \notin S /\ "medium" \in S
      BY <2>2, RanksAre
    <2>3. CASE "high" \notin S /\ "medium" \notin S
      <3>1. S = {"low"}
        BY <2>3
      <3>2. QED
        BY <3>1, RanksAre
    <2>4. QED
      BY <2>1, <2>2, <2>3
  <1>2. QED
    BY <1>1 DEF MostSevere

LEMMA FindingsAre ==
  ASSUME PassesInv, NEW i \in Readable, NEW f \in ToSet(passes[i].findings)
  PROVE  f = [at |-> f.at, severity |-> f.severity] /\ f.severity \in {"high", "medium", "low"}
  <1>1. passes[i].findings \in Replies \cup {<<>>}
    BY OfPasses DEF Readable
  <1>2. ToSet(<<>>) = {}
    BY DEF ToSet
  <1>3. ToSet(Severities) = {"high", "medium", "low"}
    BY DEF Severities, ToSet
  <1>4. QED
    BY <1>1, <1>2, <1>3, PassesAssumption

LEMMA MergedIs ==
  ASSUME PassesInv, NEW l, NEW k \in Readable, At(k, l) # {}
  PROVE  /\ Merged(l).at = l
         /\ Merged(l).by = {i \in Readable : At(i, l) # {}}
         /\ Merged(l).agreement = Cardinality(Merged(l).by)
         /\ \E i \in Merged(l).by : \E f \in At(i, l) : f.severity = Merged(l).severity
         /\ \A i \in Readable : \A f \in At(i, l) : RankOf(Merged(l).severity) <= RankOf(f.severity)
  <1> DEFINE voters == {i \in Readable : At(i, l) # {}}
             Of(i) == {f.severity : f \in At(i, l)}
             worst == {MostSevere(Of(i)) : i \in voters}
  <1>1. /\ Merged(l).at = l /\ Merged(l).by = voters /\ Merged(l).agreement = Cardinality(voters)
        /\ Merged(l).severity = MostSevere(worst)
    BY DEF Merged
  <1>2. ASSUME NEW i \in voters
        PROVE  /\ MostSevere(Of(i)) \in Of(i) /\ MostSevere(Of(i)) \in {"high", "medium", "low"}
               /\ \A t \in Of(i) : RankOf(MostSevere(Of(i))) <= RankOf(t) /\ RankOf(t) \in Nat
    <2>1. Of(i) \in SUBSET {"high", "medium", "low"} /\ Of(i) # {}
      BY FindingsAre DEF At
    <2>2. \A t \in Of(i) : RankOf(t) \in Nat
      BY <2>1, RanksAre
    <2> HIDE DEF Of
    <2>3. QED
      BY <2>1, <2>2, WorstOf
  <1>3. worst \in SUBSET {"high", "medium", "low"} /\ worst # {}
    <2> HIDE DEF Of
    <2>1. k \in voters
      OBVIOUS
    <2>2. QED
      BY <1>2, <2>1
  <1>4. MostSevere(worst) \in worst /\ \A t \in worst : RankOf(MostSevere(worst)) <= RankOf(t) /\ RankOf(t) \in Nat
    <2>1. \A t \in worst : RankOf(t) \in Nat
      <3> HIDE DEF worst
      <3>1. QED
        BY <1>3, RanksAre
    <2> HIDE DEF worst
    <2>2. QED
      BY <1>3, <2>1, WorstOf
  <1>5. \E i \in voters : \E f \in At(i, l) : f.severity = MostSevere(worst)
    <2> HIDE DEF Of, voters
    <2>1. PICK i \in voters : MostSevere(worst) = MostSevere(Of(i))
      BY <1>4
    <2>2. MostSevere(worst) \in Of(i)
      BY <1>2, <2>1
    <2>3. QED
      BY <2>2 DEF Of
  <1>6. ASSUME NEW i \in Readable, NEW f \in At(i, l)
        PROVE  RankOf(MostSevere(worst)) <= RankOf(f.severity)
    <2>1. i \in voters /\ f.severity \in Of(i)
      OBVIOUS
    <2> HIDE DEF Of, voters
    <2>2. MostSevere(Of(i)) \in worst
      BY <2>1
    <2> HIDE DEF worst
    <2>3. RankOf(MostSevere(worst)) <= RankOf(MostSevere(Of(i))) /\ RankOf(MostSevere(Of(i))) <= RankOf(f.severity)
      BY <1>2, <1>4, <2>1, <2>2
    <2>4. RankOf(MostSevere(worst)) \in Nat /\ RankOf(MostSevere(Of(i))) \in Nat /\ RankOf(f.severity) \in Nat
      BY <1>2, <1>4, <2>1, <2>2
    <2>5. QED
      BY <2>3, <2>4
  <1> HIDE DEF worst
  <1>7. QED
    BY <1>1, <1>5, <1>6

LEMMA NothingIsLost ==
  ASSUME PassesInv, NEW i \in Readable, NEW f \in ToSet(passes[i].findings)
  PROVE  \E m \in MergePasses : m.at = f.at /\ i \in m.by /\ RankOf(m.severity) <= RankOf(f.severity)
  <1>1. f \in At(i, f.at)
    BY DEF At
  <1>2. CASE f.at = NoLine
    <2> DEFINE m == [at |-> NoLine, agreement |-> 1, by |-> {i}, severity |-> f.severity]
               Alone(j) == {[at |-> NoLine, agreement |-> 1, by |-> {j}, severity |-> g.severity] : g \in At(j, NoLine)}
    <2>1. m \in MergePasses
      <3>1. m \in Alone(i)
        BY <1>1, <1>2
      <3>2. MergePasses = {Merged(l) : l \in Located} \cup UNION {Alone(j) : j \in Readable}
        BY DEF MergePasses
      <3> HIDE DEF m, Alone
      <3>3. QED
        BY <3>1, <3>2
    <2>2. RankOf(f.severity) \in Nat
      BY FindingsAre, RanksAre
    <2>3. m.at = f.at /\ i \in m.by /\ RankOf(m.severity) <= RankOf(f.severity)
      BY <1>2, <2>2
    <2> HIDE DEF m
    <2>4. QED
      BY <2>1, <2>3
  <1>3. CASE f.at # NoLine
    <2>1. f.at \in Located
      BY <1>3 DEF Located
    <2>2. Merged(f.at) \in MergePasses
      BY <2>1 DEF MergePasses
    <2>3. QED
      BY <1>1, <2>2, MergedIs
  <1>4. QED
    BY <1>2, <1>3

LEMMA NothingIsMadeUp ==
  ASSUME PassesInv, NEW m \in MergePasses
  PROVE  /\ m.agreement = Cardinality(m.by) /\ m.by \subseteq Readable
         /\ \E i \in m.by : [at |-> m.at, severity |-> m.severity] \in ToSet(passes[i].findings)
         /\ m.at # NoLine => \A i \in m.by : \E f \in ToSet(passes[i].findings) : f.at = m.at
  <1>1. CASE \E l \in Located : m = Merged(l)
    <2>1. PICK l \in Located : m = Merged(l)
      BY <1>1
    <2>2. PICK k \in Readable : At(k, l) # {}
      BY DEF Located, At
    <2>3. /\ m.at = l /\ m.by = {i \in Readable : At(i, l) # {}} /\ m.agreement = Cardinality(m.by)
          /\ \E i \in m.by : \E f \in At(i, l) : f.severity = m.severity
      BY <2>1, <2>2, MergedIs
    <2>4. PICK i \in m.by : \E f \in At(i, l) : f.severity = m.severity
      BY <2>3
    <2>5. PICK f \in At(i, l) : f.severity = m.severity
      BY <2>4
    <2>6. i \in Readable /\ f \in ToSet(passes[i].findings) /\ f.at = l
      BY <2>3, <2>5 DEF At
    <2>7. f = [at |-> f.at, severity |-> f.severity]
      BY <2>6, FindingsAre
    <2>8. [at |-> m.at, severity |-> m.severity] \in ToSet(passes[i].findings)
      BY <2>3, <2>5, <2>6, <2>7
    <2>9. \A j \in m.by : \E g \in ToSet(passes[j].findings) : g.at = m.at
      BY <2>3 DEF At
    <2>10. QED
      BY <2>3, <2>5, <2>8, <2>9
  <1>2. CASE \E i \in Readable : \E f \in At(i, NoLine) :
               m = [at |-> NoLine, agreement |-> 1, by |-> {i}, severity |-> f.severity]
    <2>1. PICK i \in Readable : \E f \in At(i, NoLine) :
            m = [at |-> NoLine, agreement |-> 1, by |-> {i}, severity |-> f.severity]
      BY <1>2
    <2>2. PICK f \in At(i, NoLine) :
            m = [at |-> NoLine, agreement |-> 1, by |-> {i}, severity |-> f.severity]
      BY <2>1
    <2>3. f \in ToSet(passes[i].findings) /\ f.at = NoLine
      BY DEF At
    <2>4. f = [at |-> f.at, severity |-> f.severity]
      BY <2>3, FindingsAre
    <2>5. m.at = NoLine /\ m.agreement = 1 /\ m.by = {i} /\ m.severity = f.severity
      BY <2>2
    <2>6. Cardinality({i}) = 1
      BY FS_Singleton
    <2>7. QED
      BY <2>3, <2>4, <2>5, <2>6
  <1>3. QED
    BY <1>1, <1>2 DEF MergePasses

LEMMA OneModelMeasured ==
  ASSUME PassesInv, ServedModelFailure = "none", NEW i \in Readable
  PROVE  passes[i].served = "requested" \/ (passes[i].served = "declared" /\ plan.declares)
  <1> DEFINE bad == {j \in Readable : passes[j].served = "unnamed" \/ Substituted(passes[j])}
  <1>1. bad = {}
    BY DEF ServedModelFailure
  <1>2. passes[i].served # "unnamed" /\ ~Substituted(passes[i])
    BY <1>1
  <1>3. QED
    BY <1>2 DEF Substituted, Declared

(* Of passes merged, the agreement of a finding is the number of passes     *)
(* that reported it, its severity the worst of theirs, none is lost and     *)
(* none is made up, and one model made them all, for any number of passes   *)
(* and any findings.  (review-passes.mjs mergePasses, servedModelFailure)   *)
THEOREM AgreementIsAlwaysTrue == Spec => []AgreementIsTrue
  <1>1. Init => PassesInv
    BY PassesBegin
  <1>2. PassesInv => AgreementIsTrue
    <2> SUFFICES ASSUME PassesInv, told.kind = "findings", Multi PROVE AgreementIsTrue
      BY DEF AgreementIsTrue
    <2>1. told = ReportPasses
      <3>1. told # Silent
        BY DEF Silent
      <3>2. QED
        BY <3>1 DEF PassesInv, Telling
    <2>2. Readable # {} /\ ServedModelFailure = "none"
      <3>1. CASE Readable = {}
        <4>1. \E reason, causes : told = FailedRun(reason, causes)
          BY <2>1, <3>1, Zenon DEF ReportPasses
        <4>2. QED
          BY <4>1, FailedKind
      <3>2. CASE Readable # {} /\ ServedModelFailure # "none"
        <4>1. told = FailedRun(ServedModelFailure, RunCauses)
          BY <2>1, <3>2 DEF ReportPasses
        <4>2. QED
          BY <4>1, FailedKind
      <3>3. QED
        BY <3>1, <3>2
    <2>3. told.findings = MergePasses
      BY <2>1, <2>2 DEF ReportPasses
    <2>4. QED
      BY <2>2, <2>3, OneModelMeasured, NothingIsLost, NothingIsMadeUp DEF AgreementIsTrue
  <1>3. QED
    BY <1>1, <1>2, PassesStep, PTL DEF Spec
-----------------------------------------------------------------------------
(* The target.  What was read is the change under review for as long as      *)
(* nothing it is read from has moved: a commit never does.                   *)
Still == mode = "commit" \/ edits = 0
HoldsStill(r) == r = [trees |-> r.trees, head |-> r.head, index |-> r.index, disk |-> r.disk]
UnderReview == Changes(Against(repo), Side(repo))

NothingRead == pinned = {} /\ tracked = {} /\ unreadable = {}

(* Before the changes are listed, and after.                                 *)
Gathering ==
  /\ phase \in {"idle", "resolve", "diff", "others"} => NothingRead
  /\ phase \in {"pin", "status"} => tracked = {}
  /\ phase \in {"others", "pin"} => mode = "worktree"
  /\ phase = "status" => mode # "worktree"
  /\ mode # "worktree" => pinned = {}
  /\ Still /\ phase = "pin" => toRead \subseteq Untracked(repo)
  /\ Still /\ phase \in {"pin", "read"} => PathsOf(pinned) \subseteq Untracked(repo)

Reading ==
  Still /\ phase = "read" =>
    /\ status = UnderReview
    /\ toRead \subseteq ChangedPaths
    /\ \A b \in tracked : b.path \in ChangedPaths /\ b.content = ContentOf(repo, b.path)
    /\ diffOnly => tracked = {} /\ toRead = {}
    /\ ~diffOnly => \A p \in ChangedPaths :
                      p \in toRead \/ p \in unreadable \/ Block(p, ContentOf(repo, p)) \in tracked

TargetInv ==
  /\ edits \in Nat /\ mode \in Modes
  /\ phase # "idle" => stage = "target" /\ HoldsStill(repo)
  /\ phase = "idle" => edits = 0
  /\ Gathering /\ Reading

LEMMA ReadsStayTrue ==
  ASSUME repo'.trees = repo.trees, UNCHANGED <<mode, base, tip>>, mode = "commit"
  PROVE  UnderReview' = UnderReview /\ \A p : ContentOf(repo, p)' = ContentOf(repo, p)
  <1>1. Side(repo)' = Side(repo) /\ Against(repo)' = Against(repo)
    BY DEF Side, Against, Reviewed
  <1>2. QED
    BY <1>1 DEF UnderReview, Changes, ContentOf

LEMMA EditsLeaveTrees ==
  ASSUME HoldsStill(repo), Commit \/ Edit
  PROVE  HoldsStill(repo') /\ repo'.trees = repo.trees
  <1>1. CASE Commit
    BY <1>1 DEF Commit, HoldsStill
  <1>2. CASE Edit
    <2>1. PICK p \in Paths, with \in Edits :
            \/ repo' = [repo EXCEPT !.disk[p] = with]
            \/ repo' = [repo EXCEPT !.index[p] = with]
      BY <1>2 DEF Edit
    <2>2. \/ \E d : repo' = [repo EXCEPT !.disk = d]
          \/ \E i : repo' = [repo EXCEPT !.index = i]
      BY <2>1
    <2>3. QED
      BY <2>2 DEF HoldsStill
  <1>3. QED
    BY <1>1, <1>2

LEMMA OthersKeep == TargetInv /\ Others /\ UNCHANGED stage => TargetInv'
  <1> SUFFICES ASSUME TargetInv, Others, UNCHANGED stage PROVE TargetInv'
    OBVIOUS
  <1>1. /\ phase # "idle" /\ edits' = edits + 1 /\ (Commit \/ Edit)
        /\ UNCHANGED <<mode, diffOnly, phase, base, tip, diff, pinned, status, tracked, unreadable, toRead>>
    BY DEF Others
  <1>2. HoldsStill(repo') /\ repo'.trees = repo.trees
    BY <1>1, EditsLeaveTrees DEF TargetInv
  <1>3. Still' => mode = "commit"
    BY <1>1 DEF Still, TargetInv
  <1>4. mode = "commit" => pinned = {} /\ phase # "pin"
    BY DEF TargetInv, Gathering
  <1>5. Gathering'
    <2>1. PathsOf({}) = {}
      BY DEF PathsOf
    <2>2. Still' => PathsOf(pinned') = {} /\ phase' # "pin"
      BY <1>1, <1>3, <1>4, <2>1
    <2>3. QED
      BY <1>1, <2>2 DEF TargetInv, Gathering, NothingRead
  <1>6. Reading'
    <2> SUFFICES ASSUME mode = "commit", phase = "read" PROVE Reading'
      BY <1>1, <1>3 DEF Reading
    <2>1. UnderReview' = UnderReview /\ \A p : ContentOf(repo, p)' = ContentOf(repo, p)
      BY <1>1, <1>2, ReadsStayTrue
    <2>2. ChangedPaths' = ChangedPaths
      BY <1>1 DEF ChangedPaths, Removed
    <2>3. /\ status = UnderReview /\ toRead \subseteq ChangedPaths
          /\ \A b \in tracked : b.path \in ChangedPaths /\ b.content = ContentOf(repo, b.path)
          /\ diffOnly => tracked = {} /\ toRead = {}
          /\ ~diffOnly => \A p \in ChangedPaths :
                            p \in toRead \/ p \in unreadable \/ Block(p, ContentOf(repo, p)) \in tracked
      BY DEF TargetInv, Reading, Still
    <2>4. \A p : Block(p, ContentOf(repo, p))' = Block(p, ContentOf(repo, p))
      BY <2>1 DEF Block
    <2>5. QED
      BY <1>1, <2>1, <2>2, <2>3, <2>4 DEF Reading
  <1>7. QED
    BY <1>1, <1>2, <1>5, <1>6 DEF TargetInv

LEMMA GatheringKeeps ==
  ASSUME TargetInv, UNCHANGED stage,
         Resolve \/ ReadDiff \/ ListUntracked \/ ReadUntracked
  PROVE  TargetInv'
  <1> USE DEF TargetInv, Gathering, Reading, NothingRead, Still
  <1>1. CASE Resolve
    BY <1>1 DEF Resolve
  <1>2. CASE ReadDiff
    BY <1>2 DEF ReadDiff
  <1>3. CASE ListUntracked
    <2>1. PathsOf(pinned') = {}
      BY <1>3 DEF ListUntracked, PathsOf
    <2>2. QED
      BY <1>3, <2>1 DEF ListUntracked, Untracked
  <1>4. CASE ReadUntracked
    <2>1. PICK p \in toRead :
            /\ toRead' = toRead \ {p}
            /\ pinned' \in {pinned, pinned \cup {Block(p, repo.disk[p])}}
      BY <1>4 DEF ReadUntracked
    <2>2. phase = "pin" /\ UNCHANGED <<repo, edits, mode, diffOnly, phase, base, tip, status, tracked>>
      BY <1>4 DEF ReadUntracked
    <2>3. PathsOf(pinned') \subseteq PathsOf(pinned) \cup {p}
      BY <2>1 DEF PathsOf, Block
    <2>4. Still => PathsOf(pinned') \subseteq Untracked(repo)
      BY <2>1, <2>2, <2>3
    <2>5. Untracked(repo)' = Untracked(repo)
      BY <2>2 DEF Untracked
    <2>6. QED
      BY <2>1, <2>2, <2>4, <2>5
  <1>5. QED
    BY <1>1, <1>2, <1>3, <1>4

LEMMA ListingKeeps == TargetInv /\ ListChanges /\ UNCHANGED stage => TargetInv'
  <1> SUFFICES ASSUME TargetInv, ListChanges, UNCHANGED stage PROVE TargetInv'
    OBVIOUS
  <1>1. /\ phase \in {"status", "pin"} /\ UNCHANGED <<repo, edits, mode, diffOnly, base, tip, pinned, tracked, unreadable>>
        /\ \/ phase' = "refused"
           \/ phase' = "read" /\ status' = UnderReview /\ toRead' = IF diffOnly THEN {} ELSE ChangedPaths'
    BY DEF ListChanges, UnderReview
  <1>2. tracked = {}
    BY <1>1 DEF TargetInv, Gathering
  <1>3. UnderReview' = UnderReview
    BY <1>1 DEF UnderReview, Changes, Against, Side, Reviewed, Worktree
  <1>4. Untracked(repo)' = Untracked(repo) /\ PathsOf(pinned)' = PathsOf(pinned)
    BY <1>1 DEF Untracked, PathsOf
  <1>5. Gathering'
    <2>1. PathsOf({}) = {}
      BY DEF PathsOf
    <2>2. Still => PathsOf(pinned) \subseteq Untracked(repo)
      BY <1>1, <2>1 DEF TargetInv, Gathering
    <2>3. QED
      BY <1>1, <1>4, <2>2 DEF TargetInv, Gathering, Still
  <1>6. Reading'
    BY <1>1, <1>2, <1>3 DEF Reading, Still
  <1>7. QED
    BY <1>1, <1>5, <1>6 DEF TargetInv

LEMMA ReadingKeeps == TargetInv /\ ReadChanged /\ UNCHANGED stage => TargetInv'
  <1> SUFFICES ASSUME TargetInv, ReadChanged, UNCHANGED stage PROVE TargetInv'
    OBVIOUS
  <1>1. phase = "read" /\ UNCHANGED <<repo, edits, mode, diffOnly, phase, base, tip, pinned, status>>
    BY DEF ReadChanged
  <1>2. PICK p \in toRead :
          /\ toRead' = toRead \ {p}
          /\ \/ tracked' = tracked \cup {Block(p, ContentOf(repo, p))} /\ unreadable' = unreadable
             \/ unreadable' = unreadable \cup {p} /\ tracked' = tracked
    BY DEF ReadChanged
  <1>3. UnderReview' = UnderReview /\ (\A q : ContentOf(repo, q)' = ContentOf(repo, q))
    <2>1. Side(repo)' = Side(repo) /\ Against(repo)' = Against(repo)
      BY <1>1 DEF Side, Against, Reviewed, Worktree
    <2>2. QED
      BY <1>1, <2>1 DEF UnderReview, Changes, ContentOf
  <1>4. ChangedPaths' = ChangedPaths
    BY <1>1 DEF ChangedPaths, Removed
  <1>5. Untracked(repo)' = Untracked(repo) /\ PathsOf(pinned)' = PathsOf(pinned)
    BY <1>1 DEF Untracked, PathsOf
  <1>6. Gathering'
    BY <1>1, <1>5 DEF TargetInv, Gathering, Still
  <1>7. Reading'
    <2> SUFFICES ASSUME Still PROVE Reading'
      BY <1>1 DEF Reading, Still
    <2>1. ~diffOnly /\ p \in ChangedPaths
      BY <1>1 DEF TargetInv, Reading
    <2>2. Block(p, ContentOf(repo, p)).path = p /\ Block(p, ContentOf(repo, p)).content = ContentOf(repo, p)
      BY DEF Block
    <2>3. \A b \in tracked' : b.path \in ChangedPaths /\ b.content = ContentOf(repo, b.path)
      BY <1>1, <1>2, <2>1, <2>2 DEF TargetInv, Reading
    <2>4. \A q \in ChangedPaths :
            q \in toRead' \/ q \in unreadable' \/ Block(q, ContentOf(repo, q)) \in tracked'
      BY <1>1, <1>2, <2>1 DEF TargetInv, Reading
    <2>5. QED
      BY <1>1, <1>2, <1>3, <1>4, <2>1, <2>3, <2>4 DEF TargetInv, Reading
  <1>8. QED
    BY <1>1, <1>6, <1>7 DEF TargetInv

LEMMA TargetInvStep == TargetInv /\ [Next]_vars => TargetInv'
  <1> SUFFICES ASSUME TargetInv, [Next]_vars PROVE TargetInv'
    OBVIOUS
  <1>1. CASE Target
    <2>1. /\ stage = "resolved" /\ stage' = "target" /\ phase' = "resolve" /\ mode' \in Modes /\ repo' \in Repositories
          /\ UNCHANGED <<edits, pinned, tracked, unreadable, toRead>>
      BY <1>1 DEF Target, BeginTarget
    <2>2. phase = "idle" /\ HoldsStill(repo')
      BY <2>1, RepositoriesAssumption DEF TargetInv, HoldsStill
    <2>3. QED
      BY <2>1, <2>2 DEF TargetInv, Gathering, Reading, NothingRead
  <1>2. CASE Collect
    BY <1>2, OthersKeep, GatheringKeeps, ListingKeeps, ReadingKeeps DEF Collect, TargetNext, runVars
  <1>3. CASE HasTarget
    <2>1. /\ edits' = 0 /\ mode' = "worktree" /\ phase' = "idle"
          /\ pinned' = {} /\ tracked' = {} /\ unreadable' = {}
      BY <1>3 DEF HasTarget, EndTarget
    <2>2. QED
      BY <2>1 DEF TargetInv, Gathering, Reading, NothingRead, Modes
  <1>4. CASE UNCHANGED targetVars /\ (stage = "target" => stage' = "target")
    <2>1. /\ Still' = Still /\ UnderReview' = UnderReview /\ ChangedPaths' = ChangedPaths
          /\ Untracked(repo)' = Untracked(repo) /\ PathsOf(pinned)' = PathsOf(pinned)
      BY <1>4 DEF targetVars, Still, UnderReview, Changes, Against, Side, Reviewed, Worktree, ChangedPaths, Removed, Untracked, PathsOf
    <2>2. \A q : ContentOf(repo, q)' = ContentOf(repo, q)
      BY <1>4 DEF targetVars, ContentOf, Side, Reviewed, Worktree
    <2>3. Gathering'
      BY <1>4, <2>1 DEF targetVars, TargetInv, Gathering, NothingRead
    <2>4. Reading'
      BY <1>4, <2>1, <2>2 DEF targetVars, TargetInv, Reading
    <2>5. QED
      BY <1>4, <2>3, <2>4 DEF targetVars, TargetInv, HoldsStill
  <1>5. \/ Target \/ Collect \/ HasTarget
        \/ UNCHANGED targetVars /\ (stage = "target" => stage' = "target")
    BY DEF Next, ReviewNext, Configure, Resolved, Choice, Describe, HasModel, Size, Fit,
       Ask, Review, vars, reviewVars, runVars
  <1>6. QED
    BY <1>1, <1>2, <1>3, <1>4, <1>5

(* A change to a path leaves it as its side has it.                          *)
LEMMA ChangeIs ==
  ASSUME TargetInv, NEW c \in UnderReview
  PROVE  c.path \in Paths /\ c.to = Side(repo)[c.path]
  BY DEF UnderReview, Changes

(* A path that is only untracked has no file on the side under review, and   *)
(* one that has a file there has the content that is read.                   *)
LEMMA SideOfWorktree ==
  ASSUME mode = "worktree", NEW p \in Paths
  PROVE  /\ p \in Untracked(repo) => Side(repo)[p] = Gone
         /\ Side(repo)[p] # Gone => Side(repo)[p] = ContentOf(repo, p)
  BY DEF Untracked, Side, Worktree, ContentOf, Gone

LEMMA PromiseHolds == TargetInv => PromiseIsKept
  <1> SUFFICES ASSUME TargetInv, Collected, ClaimsWhole, Still PROVE PromiseIsKept
    BY DEF PromiseIsKept, Still
  <1> DEFINE change == IF mode = "commit" THEN Changes(repo.trees[ParentOf[tip]], repo.trees[tip])
                       ELSE Changes(Against(repo), Side(repo))
  <1>1. change = UnderReview
    BY DEF UnderReview, Against, Side, Reviewed
  <1>2. phase = "read" /\ toRead = {} /\ unreadable = {} /\ tracked # {} /\ Removed \cap PathsOf(pinned) = {}
    BY DEF Collected, ClaimsWhole, Changed, PinnedRemoved
  <1>3. status = UnderReview /\ ~diffOnly
    BY <1>2 DEF TargetInv, Reading
  <1>4. /\ \A b \in tracked : b.path \in ChangedPaths /\ b.content = ContentOf(repo, b.path)
        /\ \A p \in ChangedPaths : Block(p, ContentOf(repo, p)) \in tracked
        /\ PathsOf(pinned) \subseteq Untracked(repo)
        /\ mode # "worktree" => pinned = {}
    BY <1>2, <1>3 DEF TargetInv, Reading, Gathering
  <1>5. ASSUME NEW c \in UnderReview, c.to # Gone
        PROVE  /\ Block(c.path, c.to) \in pinned \cup Changed
               /\ \A b \in pinned \cup Changed : b.path = c.path => b.content = c.to
    <2>1. c.path \in Paths /\ c.to = Side(repo)[c.path]
      BY ChangeIs
    <2>2. c.path \notin Removed
      BY <1>3, <1>5, <2>1, ChangeIs DEF Removed
    <2>3. c.path \in ChangedPaths
      BY <1>3, <2>2 DEF ChangedPaths
    <2>4. ContentOf(repo, c.path) = c.to
      BY <1>5, <2>1, SideOfWorktree DEF ContentOf
    <2>5. c.path \notin PathsOf(pinned)
      <3>1. CASE mode = "worktree"
        BY <1>4, <1>5, <2>1, <3>1, SideOfWorktree
      <3>2. CASE mode # "worktree"
        BY <1>4, <3>2 DEF PathsOf
      <3>3. QED
        BY <3>1, <3>2
    <2>6. Block(c.path, c.to) \in Changed
      <3>1. Block(c.path, c.to) \in tracked
        BY <1>4, <2>3, <2>4
      <3>2. Block(c.path, c.to).path = c.path
        BY DEF Block
      <3>3. QED
        BY <2>5, <3>1, <3>2 DEF Changed
    <2>7. \A b \in pinned : b.path # c.path
      BY <2>5 DEF PathsOf
    <2>8. \A b \in Changed : b.path = c.path => b.content = c.to
      BY <1>4, <2>4 DEF Changed
    <2>9. QED
      BY <2>6, <2>7, <2>8
  <1>6. ASSUME NEW c \in UnderReview, c.to = Gone, NEW b \in pinned \cup Changed
        PROVE  b.path # c.path
    <2>1. c.path \in Removed
      BY <1>3, <1>6 DEF Removed
    <2>2. CASE b \in pinned
      BY <1>2, <2>1, <2>2 DEF PathsOf
    <2>3. CASE b \in Changed
      BY <1>4, <2>1, <2>3 DEF Changed, ChangedPaths
    <2>4. QED
      BY <2>2, <2>3
  <1> HIDE DEF change
  <1>7. \A c \in change :
          /\ c.to # Gone => Block(c.path, c.to) \in pinned \cup Changed
          /\ \A b \in pinned \cup Changed : b.path = c.path => b.content = c.to
    BY <1>1, <1>5, <1>6
  <1>8. QED
    BY <1>7 DEF PromiseIsKept, change

(* Whatever is committed, staged or edited between any two reads, and for    *)
(* any number of paths: a request claims to hold every changed file whole    *)
(* only when it does, of a commit always, of the rest unless they moved.     *)
(* (git-diff.mjs collectTarget, review-ladder.mjs build)                     *)
THEOREM PromiseIsAlwaysKept == Spec => []PromiseIsKept
  <1>1. Init => TargetInv
    BY DEF Init, TargetIdle, TargetInv, Gathering, Reading, NothingRead, Modes
  <1>2. QED
    BY <1>1, TargetInvStep, PromiseHolds, PTL DEF Spec

-----------------------------------------------------------------------------
LEMMA ContentsAreFiles == Absent \notin Contents /\ Dangling \notin Contents
  BY ContentsAssumption DEF Absent, Dangling

(* What is sent with a request, and what is declared of its answers, is what *)
(* some provider of the endpoint has in the file.                            *)
Belongs(p, config) ==
  /\ p.declares = FALSE \/ \E n \in DOMAIN config.providers :
       config.providers[n].endpoint = p.endpoint /\ config.providers[n].declares = p.declares
  /\ p.credential = "none" \/ \E n \in DOMAIN config.providers :
       config.providers[n].endpoint = p.endpoint /\ config.providers[n].credential = p.credential
  /\ p.withheld = FALSE \/ p.credential = "none"

LEMMA ResolvedBelongs ==
  ASSUME NEW c, NEW r, NEW p
  PROVE  p = ResolveProfile(c, r) /\ p.kind = "profile" => Belongs(p, c)
  <1> DEFINE name == IF r.provider # None THEN r.provider ELSE c.default
             named == RequireProvider(c, name)
             own == IF r.provider = None THEN Nobody ELSE named
             elsewhere == own # Nobody /\ own.endpoint # r.baseUrl /\ own.credential # "none"
  <1>0. SUFFICES ASSUME p = ResolveProfile(c, r) PROVE p.kind = "profile" => Belongs(p, c)
    OBVIOUS
  <1>1. SUFFICES ASSUME p.kind = "profile" PROVE Belongs(p, c)
    OBVIOUS
  <1>2. Nobody.credential = "none" /\ Nobody.declares = FALSE
    BY DEF Nobody, Provider
  <1>3. named # Nobody => name \in DOMAIN c.providers /\ named = c.providers[name]
    BY DEF RequireProvider
  <1> HIDE DEF named, name
  <1>4. CASE r.baseUrl # None
    <2> DEFINE what == IF own = Nobody THEN AD_HOC_PROFILE_NAME ELSE r.provider
               of == Override(own, r.baseUrl)
    <2>1. p = BuildProfile(what, of, elsewhere, TRUE)
      BY <1>0, <1>1, <1>4, Zenon DEF ResolveProfile, Failed, name, named
    <2>2. elsewhere \in BOOLEAN
      OBVIOUS
    <2> HIDE DEF of, what, elsewhere
    <2>3. /\ p.endpoint = of.endpoint /\ p.credential = of.credential
          /\ p.declares = of.declares /\ p.withheld = elsewhere
      BY <1>1, <2>1, <2>2 DEF BuildProfile, Failed
    <2>4. CASE own # Nobody /\ own.endpoint = r.baseUrl
      <3>1. of = own /\ own = named
        BY <2>4 DEF Override, of
      <3>2. QED
        BY <1>3, <2>3, <2>4, <3>1 DEF elsewhere, Belongs
    <2>5. CASE ~(own # Nobody /\ own.endpoint = r.baseUrl)
      <3>1. of.credential = "none" /\ of.declares = FALSE
        BY <2>5 DEF Override, Provider, of
      <3>2. QED
        BY <2>3, <3>1 DEF Belongs
    <2>6. QED
      BY <2>4, <2>5
  <1>5. CASE r.baseUrl = None
    <2>1. named # Nobody /\ p = BuildProfile(name, named, FALSE, FALSE)
      BY <1>0, <1>1, <1>5 DEF ResolveProfile, Failed, name, named
    <2>2. p.endpoint = named.endpoint /\ p.credential = named.credential /\ p.declares = named.declares /\ p.withheld = FALSE
      BY <1>1, <2>1 DEF BuildProfile, Failed
    <2>3. QED
      BY <1>3, <2>1, <2>2 DEF Belongs
  <1>6. QED
    BY <1>4, <1>5

(* What a run was given came from the file as it still is, if nobody has     *)
(* touched it.                                                               *)
ConfigInv ==
  /\ others \in Nat
  /\ written \in BOOLEAN /\ ConfigIsKept
  /\ at # "done" => profile = NoProfile
  /\ profile.kind = "profile" /\ others = 0 => profile = ResolveProfile(file, request)

LEMMA MembershipIsKnown ==
  ASSUME NEW w, NEW x, NEW S, w = (x \in S)
  PROVE  w \in BOOLEAN /\ (w => x \in S)
  <1>1. w \in BOOLEAN
    OBVIOUS
  <1>2. w => x \in S
    OBVIOUS
  <1>3. QED
    BY <1>1, <1>2

LEMMA NothingYet == NoProfile.kind # "profile" /\ \A why : Failed(why).kind # "profile"
  BY DEF NoProfile, Failed

LEMMA ReadKeeps == ConfigInv /\ ReadConfig => ConfigInv'
  <1> SUFFICES ASSUME ConfigInv, ReadConfig PROVE ConfigInv'
    OBVIOUS
  <1>1. UNCHANGED <<file, others, written, request>> /\ at # "done"
    BY DEF ReadConfig
  <1>2. \/ at' = "done" /\ \E why : profile' = Failed(why)
        \/ at' = "done" /\ profile' = ResolveProfile(file, request)
        \/ profile' = profile
    BY DEF ReadConfig, Settle
  <1>3. (at' # "done" => profile' = NoProfile) /\
        (profile'.kind = "profile" => profile' = ResolveProfile(file, request))
    BY <1>1, <1>2, NothingYet DEF ConfigInv, NoProfile
  <1>4. QED
    BY <1>1, <1>3 DEF ConfigInv, ConfigIsKept

LEMMA CreateKeeps == ConfigInv /\ CreateConfig => ConfigInv'
  <1> SUFFICES ASSUME ConfigInv, CreateConfig PROVE ConfigInv'
    OBVIOUS
  <1>1. CASE file = Absent
    <2>1. ~written
      BY <1>1, ContentsAreFiles DEF ConfigInv, ConfigIsKept
    <2>2. QED
      BY <1>1, <2>1 DEF ConfigInv, CreateConfig, Settle, ConfigIsKept
  <1>2. CASE file # Absent
    BY <1>2, NothingYet DEF ConfigInv, CreateConfig, ConfigIsKept
  <1>3. QED
    BY <1>1, <1>2

LEMMA OthersWriteKeeps == ConfigInv /\ OthersWrite => ConfigInv'
  <1> SUFFICES ASSUME ConfigInv, OthersWrite PROVE ConfigInv'
    OBVIOUS
  <1>1. /\ at # "done" /\ others' = others + 1 /\ UNCHANGED <<at, profile>>
        /\ written' = (file' \in Contents)
    BY DEF OthersWrite
  <1>2. profile'.kind # "profile"
    BY <1>1, NothingYet DEF ConfigInv
  <1>3. ConfigIsKept' /\ written' \in BOOLEAN
    BY <1>1, MembershipIsKnown, Zenon DEF ConfigIsKept
  <1>4. QED
    BY <1>1, <1>2, <1>3 DEF ConfigInv

LEMMA ConfigInvStep == ConfigInv /\ [Next]_vars => ConfigInv'
  <1> SUFFICES ASSUME ConfigInv, [Next]_vars PROVE ConfigInv'
    OBVIOUS
  <1>1. CASE ReadConfig \/ CreateConfig \/ OthersWrite
    BY <1>1, ReadKeeps, CreateKeeps, OthersWriteKeeps
  <1>2. CASE EndConfig
    BY <1>2, NothingYet DEF EndConfig, ConfigInv, ConfigIsKept
  <1>3. CASE UNCHANGED configVars
    BY <1>3 DEF configVars, ConfigInv, ConfigIsKept
  <1>4. ReadConfig \/ CreateConfig \/ OthersWrite \/ EndConfig \/ UNCHANGED configVars
    <2>1. CASE ReviewNext
      BY <2>1, Zenon DEF ReviewNext, Configure, ConfigNext, Resolved, Target, Collect, HasTarget, Choice, Describe,
            HasModel, Size, Fit, Ask, Review
    <2>2. CASE UNCHANGED reviewVars \/ UNCHANGED vars
      BY <2>2, Zenon DEF reviewVars, vars
    <2>3. QED
      BY <2>1, <2>2, Zenon DEF Next
  <1>5. QED
    BY <1>1, <1>2, <1>3, <1>4

LEMMA Honours == ConfigInv => ConfigIsHonoured
  <1> SUFFICES ASSUME ConfigInv, profile.kind = "profile", others = 0 PROVE BelongsToEndpoint
    BY DEF ConfigInv, ConfigIsHonoured, BelongsToEndpoint
  <1>1. profile = ResolveProfile(file, request)
    BY DEF ConfigInv
  <1>2. Belongs(profile, file)
    BY <1>1, ResolvedBelongs
  <1>3. QED
    BY <1>2, Zenon DEF Belongs, BelongsToEndpoint

(* Whatever providers file there is, whoever replaces it meanwhile and       *)
(* whatever a run is asked for: the run leaves other people's file alone,    *)
(* and what it sends was configured for the endpoint it asks.  (config.mjs   *)
(* loadConfig, resolveProfile)                                               *)
THEOREM ConfigIsAlwaysHonoured == Spec => []ConfigIsHonoured
  <1>1. Init => ConfigInv
    <2>1. ConfigInit => others = 0 /\ profile = NoProfile /\ written \in BOOLEAN /\ ConfigIsKept
      BY MembershipIsKnown, Zenon DEF ConfigInit, ConfigIsKept
    <2>2. ConfigIdle => others = 0 /\ profile = NoProfile /\ written \in BOOLEAN /\ ConfigIsKept
      BY DEF ConfigIdle, ConfigIsKept
    <2>3. QED
      BY <2>1, <2>2, NothingYet DEF Init, ConfigInv
  <1>2. ConfigInv /\ [Next]_vars => ConfigInv'
    BY ConfigInvStep
  <1>3. ConfigInv => ConfigIsHonoured
    BY Honours
  <1>4. QED
    BY <1>1, <1>2, <1>3, PTL DEF Spec

-----------------------------------------------------------------------------
(* A server, as its listings and what it holds describe it.                  *)
Server == [kind: Kinds, listed: Seq(Ids), catalogue: Seq(Ids), loaded: SUBSET Ids, embeds: SUBSET Ids]
Own(s) == IF s.kind \in {"lmstudio", "omlx"} THEN ToSet(s.catalogue) ELSE {}
Publishing == {"vllm", "lmstudio", "omlx", "mtplx", "unsloth"}
StateTellers == {"lmstudio", "unsloth"}

Named(models) == {models[i].id : i \in DOMAIN models}
Indexed(f) == \E n \in Nat : DOMAIN f \subseteq 1..n

IsRecord(m) == m = [id |-> m.id, type |-> m.type, state |-> m.state, exact |-> m.exact, window |-> m.window]
IsDescribed(d) == d = Described(d.models, d.source, d.catalogue, d.loadedOnly)

(* What a description says of a server whatever was loaded meanwhile: its    *)
(* records are of what can be asked for; it calls embedding models those     *)
(* that are, and calls all of them so where it types them; and each window   *)
(* is of the model, or of another spelling of it.                            *)
Describes(d, l, s) ==
  /\ Indexed(d.models) /\ d.loadedOnly \in BOOLEAN /\ (d.loadedOnly <=> d.source = "unsloth")
  /\ l # <<>> => Named(d.models) = ToSet(l)
  /\ \A i \in DOMAIN d.models :
       LET m == d.models[i] IN
       /\ m.exact \in BOOLEAN
       /\ m.type = "embeddings" => Key(m.id) \in s.embeds
       /\ m.state # No => d.source \in StateTellers
       /\ m.window \notin {No, "server"} => Key(m.window) = Key(m.id)
       /\ d.source = "unsloth" => m.exact
       /\ d.source = "lmstudio" /\ Key(m.id) \in {Key(id) : id \in d.catalogue} /\ m.type # "embeddings" =>
            Key(m.id) \notin s.embeds

(* What it publishes as a catalogue has all that the server lists.           *)
Publishes(d, s) ==
  d.catalogue # {} =>
    s.kind \in Publishing /\ ToSet(s.listed) \cup Own(s) \subseteq d.catalogue \cup Named(d.models)

(* A model in memory whose kind no listing types has been asked for it.      *)
Confirms(d, s) ==
  d.source = "unsloth" =>
    \A i \in DOMAIN d.models :
      d.models[i].state = "loaded" /\ d.models[i].type # "embeddings" => Key(d.models[i].id) \notin s.embeds

(* What it says of the memory of a server that has held still.               *)
Holds(d, s) ==
  \A i \in DOMAIN d.models :
    LET m == d.models[i] IN
    /\ m.exact /\ m.state = "loaded" => m.id \in s.loaded
    /\ m.exact /\ m.state \notin {No, "loaded"} => m.id \notin s.loaded
    /\ m.window \notin {No, "server"} /\ d.source \in StateTellers => m.window \in s.loaded

(* How far the run has come.                                                 *)
Opening == {"health", "listing"}
Probing == {"mtplx", "checks", "vmlx", "capabilities", "native"}

(* /health is believed of a server that has held still, and the query of the *)
(* listing is what it made it.                                               *)
HealthInv ==
  /\ step = "health" => reading = Unread /\ query = "kept"
  /\ query = "none" /\ step = "listing" => reading = Unread
  /\ query \in {"none", "kept", "dropped", "restored"}
  /\ changes = 0 =>
     /\ reading \in {Unread, Inconclusive, Health(server)}
     /\ query = "kept" /\ step # "health" => reading = Inconclusive \/ ~Sleeps(server)
     /\ step = "capabilities" => reading = Health(server) /\ reading.kind = "gateway" /\ reading.holds # No
     /\ step = "native" => reading = Health(server) /\ reading.kind = "other"

FoundInv ==
  /\ step \in Opening => listing = <<>> /\ found = NoProvider
  /\ step \in Probing \cup {"choose"} => listing = server.listed
  /\ step = "mtplx" => server.kind = "mtplx" /\ listing # <<>>
  /\ step = "checks" => server.kind = "unsloth" /\ listing # <<>> /\ found.source = "unsloth"
                          /\ DOMAIN found.models = DOMAIN listing
                          /\ IsDescribed(found)
                          /\ \A i \in DOMAIN listing : IsRecord(found.models[i]) /\ found.models[i].id = listing[i]
  /\ step \in Opening \cup {"checks", "choose", "chosen"} => Describes(found, listing, server) /\ Publishes(found, server)
  /\ step \in Opening \cup {"choose", "chosen"} => Confirms(found, server)
  /\ step \in Opening \cup {"checks", "choose", "chosen"} /\ changes = 0 => Holds(found, server)

DecidedInv ==
  IF step # "chosen" THEN choice = Undecided
  ELSE \/ choice = EffectiveWindow(ask, found)
       \/ choice = Unreachable /\ ask.named = No /\ ask.preset = No

ChoiceInv ==
  IF stage # "choice" THEN ChoiceIdle
  ELSE /\ server \in Server /\ changes \in Nat
       /\ step \in Opening \cup Probing \cup {"choose", "chosen"}
       /\ HealthInv /\ FoundInv /\ DecidedInv /\ SleepersAreLeft

-----------------------------------------------------------------------------
(* The first and the last of some places, and joining by them.               *)
LEMMA FirstIsOne ==
  ASSUME NEW S \in SUBSET Nat, S # {}
  PROVE  Min(S) \in S
  <1>1. \E n \in S : \A m \in S : n <= m
    BY LeastNatural
  <1>2. QED
    BY <1>1, Zenon DEF Min

LEMMA LastIsOne ==
  ASSUME NEW n \in Nat, NEW S \in SUBSET (1..n), S # {}
  PROVE  Max(S) \in S /\ \A x \in S : x <= Max(S)
  <1> DEFINE R == {n - x : x \in S}
  <1>1. R \subseteq Nat /\ R # {}
    OBVIOUS
  <1>2. PICK r \in R : \A q \in R : r <= q
    BY <1>1, LeastNatural
  <1>3. PICK x \in S : r = n - x
    BY <1>2
  <1>4. \A y \in S : n - y \in R
    OBVIOUS
  <1>5. \A y \in S : n - x <= n - y
    BY <1>2, <1>3, <1>4
  <1>6. \A y \in S : x >= y
    <2> HIDE DEF R
    <2>1. x \in Nat /\ \A y \in S : y \in Nat
      OBVIOUS
    <2>2. QED
      BY <1>5, <2>1
  <1>7. Max(S) \in S /\ \A y \in S : Max(S) >= y
    BY <1>6, Zenon DEF Max
  <1>8. QED
    BY <1>7

LEMMA LastIndex ==
  ASSUME NEW f, Indexed(f), NEW S \in SUBSET DOMAIN f, S # {}
  PROVE  Max(S) \in S
  <1>1. PICK n \in Nat : DOMAIN f \subseteq 1..n
    BY DEF Indexed
  <1>2. S \in SUBSET (1..n)
    BY <1>1
  <1>3. QED
    BY <1>2, LastIsOne

LEMMA FirstIndex ==
  ASSUME NEW f, Indexed(f), NEW S \in SUBSET DOMAIN f, S # {}
  PROVE  Min(S) \in S
  <1>1. PICK n \in Nat : DOMAIN f \subseteq 1..n
    BY DEF Indexed
  <1>2. S \in SUBSET Nat
    BY <1>1
  <1>3. QED
    BY <1>2, FirstIsOne

IsJoined(j, id, models) ==
  /\ IsRecord(j) /\ j.id = id /\ j.exact \in BOOLEAN
  /\ j.exact <=> \E i \in DOMAIN models : models[i].id = id
  /\ \/ \E i \in DOMAIN models :
          /\ Key(models[i].id) = Key(id) /\ (j.exact => models[i].id = id)
          /\ j.type = models[i].type /\ j.state = models[i].state
          /\ j.window \in {"server", models[i].window}
     \/ /\ \A i \in DOMAIN models : Key(models[i].id) # Key(id)
        /\ ~j.exact /\ j.type = No /\ j.state = No /\ j.window \in {"server", No}

LEMMA JoinIs ==
  ASSUME NEW models, Indexed(models), NEW id, NEW wide \in BOOLEAN
  PROVE  IsJoined(Join(id, models, wide), id, models)
  <1> DEFINE exact == {i \in DOMAIN models : models[i].id = id}
             near == {i \in DOMAIN models : Key(models[i].id) = Key(id)}
             from == IF exact # {} THEN models[Max(exact)]
                     ELSE IF near # {} THEN models[Max(near)] ELSE Model(id, No, No, No)
             j == [id |-> id, type |-> from.type, state |-> from.state, exact |-> exact # {},
                   window |-> IF wide THEN "server" ELSE from.window]
  <1>1. Join(id, models, wide) = j
    BY DEF Join
  <1>2. j.id = id /\ j.type = from.type /\ j.state = from.state /\ j.window \in {"server", from.window}
        /\ j.exact \in BOOLEAN /\ (j.exact <=> exact # {})
    <2> HIDE DEF exact, from
    <2>1. QED
      OBVIOUS
  <1>3. IsRecord(j)
    BY DEF IsRecord
  <1>4. exact # {} <=> \E i \in DOMAIN models : models[i].id = id
    OBVIOUS
  <1> HIDE DEF j
  <1>5. CASE exact # {}
    <2>1. Max(exact) \in exact
      BY <1>5, LastIndex, Zenon
    <2> DEFINE i == Max(exact)
    <2>2. i \in DOMAIN models /\ models[i].id = id /\ from = models[i]
      BY <2>1, <1>5
    <2> HIDE DEF i, from
    <2>3. QED
      BY <1>1, <1>2, <1>3, <1>4, <2>2 DEF IsJoined
  <1>6. CASE exact = {} /\ near # {}
    <2>1. Max(near) \in near
      BY <1>6, LastIndex, Zenon
    <2> DEFINE i == Max(near)
    <2>2. i \in DOMAIN models /\ Key(models[i].id) = Key(id) /\ from = models[i]
      BY <2>1, <1>6
    <2> HIDE DEF i, from
    <2>3. ~j.exact
      BY <1>2, <1>6
    <2>4. QED
      BY <1>1, <1>2, <1>3, <1>4, <2>2, <2>3 DEF IsJoined
  <1>7. CASE near = {}
    <2>1. exact = {}
      BY <1>7
    <2>2. from.type = No /\ from.state = No /\ from.window = No
      BY <2>1, <1>7 DEF Model
    <2>3. \A i \in DOMAIN models : Key(models[i].id) # Key(id)
      BY <1>7
    <2> HIDE DEF from, exact, near
    <2>4. QED
      BY <1>1, <1>2, <1>3, <1>4, <2>1, <2>2, <2>3 DEF IsJoined
  <1>8. QED
    BY <1>5, <1>6, <1>7

IsMerged(d, l, models, source, only) ==
  /\ IsDescribed(d) /\ d.source = source /\ d.catalogue = Named(models) /\ d.loadedOnly = only /\ Indexed(d.models)
  /\ Named(d.models) = IF l # <<>> THEN ToSet(l) ELSE Named(models)
  /\ \A i \in DOMAIN d.models : IsJoined(d.models[i], d.models[i].id, models)
  /\ l # <<>> => DOMAIN d.models = DOMAIN l /\ \A i \in DOMAIN l : d.models[i].id = l[i]

LEMMA MergeIs ==
  ASSUME NEW l \in Seq(Ids), NEW models, Indexed(models), NEW source, NEW wide \in BOOLEAN, NEW only \in BOOLEAN
  PROVE  IsMerged(Merge(l, models, source, wide, only), l, models, source, only)
  <1> DEFINE offered == IF l # <<>> THEN l ELSE [i \in DOMAIN models |-> models[i].id]
             joined == [i \in DOMAIN offered |-> Join(offered[i], models, wide)]
             d == Merge(l, models, source, wide, only)
  <1>1. d.models = joined /\ d.source = source /\ d.catalogue = Named(models) /\ d.loadedOnly = only
    BY DEF Merge, Described, Named
  <1>2. IsDescribed(d)
    BY DEF Merge, Described, IsDescribed
  <1>3. Indexed(offered)
    <2>1. CASE l # <<>>
      <3>1. Len(l) \in Nat /\ DOMAIN l = 1..Len(l)
        OBVIOUS
      <3>2. QED
        BY <2>1, <3>1 DEF Indexed
    <2>2. QED
      BY <2>1 DEF Indexed
  <1>4. \A i \in DOMAIN offered : IsJoined(Join(offered[i], models, wide), offered[i], models)
    BY JoinIs
  <1>5. {offered[i] : i \in DOMAIN offered} = IF l # <<>> THEN ToSet(l) ELSE Named(models)
    BY DEF ToSet, Named
  <1>6. l # <<>> => offered = l
    OBVIOUS
  <1> HIDE DEF offered, d
  <1>7. DOMAIN joined = DOMAIN offered /\ \A i \in DOMAIN joined : joined[i] = Join(offered[i], models, wide)
    OBVIOUS
  <1> HIDE DEF joined
  <1>8. Indexed(joined)
    BY <1>3, <1>7 DEF Indexed
  <1>9. \A i \in DOMAIN joined : IsJoined(joined[i], joined[i].id, models) /\ joined[i].id = offered[i]
    BY <1>4, <1>7 DEF IsJoined
  <1>10. Named(joined) = {offered[i] : i \in DOMAIN offered}
    BY <1>7, <1>9 DEF Named
  <1>11. QED
    <2>1. /\ d.source = source /\ d.catalogue = Named(models) /\ d.loadedOnly = only /\ Indexed(d.models)
          /\ Named(d.models) = IF l # <<>> THEN ToSet(l) ELSE Named(models)
      BY <1>1, <1>5, <1>8, <1>10
    <2>2. \A i \in DOMAIN d.models : IsJoined(d.models[i], d.models[i].id, models)
      BY <1>1, <1>9
    <2>3. l # <<>> => DOMAIN d.models = DOMAIN l /\ \A i \in DOMAIN l : d.models[i].id = l[i]
      BY <1>1, <1>6, <1>7, <1>9
    <2>4. QED
      BY <1>2, <2>1, <2>2, <2>3 DEF d, IsMerged

(* What a dialect reads is sincere, and of a server that holds still current. *)
Sincere(models, source, s) ==
  \A i \in DOMAIN models :
    LET m == models[i] IN
    /\ m.type = "embeddings" => Key(m.id) \in s.embeds
    /\ source = "lmstudio" /\ m.type # "embeddings" => Key(m.id) \notin s.embeds
    /\ m.state # No => source \in StateTellers
    /\ m.window # No => m.window = m.id

Current(models, source, s) ==
  \A i \in DOMAIN models :
    LET m == models[i] IN
    /\ m.state # No => (m.state = "loaded" <=> m.id \in s.loaded)
    /\ m.window # No /\ source \in StateTellers => m.window \in s.loaded

LEMMA MergeDescribes ==
  ASSUME NEW s, NEW l \in Seq(Ids), NEW models, Indexed(models), NEW source, NEW wide \in BOOLEAN, NEW only \in BOOLEAN,
         only <=> source = "unsloth", Sincere(models, source, s),
         source = "unsloth" => l # <<>> /\ ToSet(l) \subseteq Named(models)
  PROVE  Describes(Merge(l, models, source, wide, only), l, s)
  <1> DEFINE d == Merge(l, models, source, wide, only)
  <1>1. IsMerged(d, l, models, source, only)
    BY MergeIs
  <1> HIDE DEF d
  <1>2. /\ d.source = source /\ d.catalogue = Named(models) /\ d.loadedOnly = only /\ Indexed(d.models)
        /\ Named(d.models) = IF l # <<>> THEN ToSet(l) ELSE Named(models)
        /\ \A i \in DOMAIN d.models : IsJoined(d.models[i], d.models[i].id, models)
    BY <1>1 DEF IsMerged
  <1>3. ASSUME NEW k \in DOMAIN d.models
        PROVE  LET m == d.models[k] IN
               /\ m.exact \in BOOLEAN
               /\ m.type = "embeddings" => Key(m.id) \in s.embeds
               /\ m.state # No => d.source \in StateTellers
               /\ m.window \notin {No, "server"} => Key(m.window) = Key(m.id)
               /\ d.source = "unsloth" => m.exact
               /\ d.source = "lmstudio" /\ Key(m.id) \in {Key(id) : id \in d.catalogue} /\ m.type # "embeddings" =>
                    Key(m.id) \notin s.embeds
    <2> DEFINE m == d.models[k]
    <2>1. IsJoined(m, m.id, models)
      BY <1>2, <1>3
    <2> HIDE DEF m
    <2>2. /\ m.exact \in BOOLEAN
          /\ m.exact <=> \E i \in DOMAIN models : models[i].id = m.id
          /\ \/ \E i \in DOMAIN models :
                  /\ Key(models[i].id) = Key(m.id) /\ (m.exact => models[i].id = m.id)
                  /\ m.type = models[i].type /\ m.state = models[i].state
                  /\ m.window \in {"server", models[i].window}
             \/ /\ \A i \in DOMAIN models : Key(models[i].id) # Key(m.id)
                /\ ~m.exact /\ m.type = No /\ m.state = No /\ m.window \in {"server", No}
      BY <2>1 DEF IsJoined
    <2>3. d.source = "unsloth" => m.exact
      <3>1. SUFFICES ASSUME source = "unsloth" PROVE m.exact
        BY <1>2
      <3>2. m.id \in Named(d.models)
        BY DEF Named, m
      <3>3. m.id \in Named(models)
        BY <1>2, <3>1, <3>2
      <3>4. QED
        BY <2>2, <3>3 DEF Named
    <2>4. CASE \E i \in DOMAIN models :
                  /\ Key(models[i].id) = Key(m.id) /\ (m.exact => models[i].id = m.id)
                  /\ m.type = models[i].type /\ m.state = models[i].state
                  /\ m.window \in {"server", models[i].window}
      <3>1. PICK i \in DOMAIN models :
                  /\ Key(models[i].id) = Key(m.id)
                  /\ m.type = models[i].type /\ m.state = models[i].state
                  /\ m.window \in {"server", models[i].window}
        BY <2>4
      <3>2. /\ models[i].type = "embeddings" => Key(models[i].id) \in s.embeds
            /\ source = "lmstudio" /\ models[i].type # "embeddings" => Key(models[i].id) \notin s.embeds
            /\ models[i].state # No => source \in StateTellers
            /\ models[i].window # No => models[i].window = models[i].id
        BY DEF Sincere
      <3>3. QED
        BY <1>2, <2>2, <2>3, <3>1, <3>2 DEF m
    <2>5. CASE /\ \A i \in DOMAIN models : Key(models[i].id) # Key(m.id)
               /\ ~m.exact /\ m.type = No /\ m.state = No /\ m.window \in {"server", No}
      <3>1. Key(m.id) \notin {Key(id) : id \in d.catalogue}
        BY <1>2, <2>5 DEF Named
      <3>2. QED
        BY <2>2, <2>3, <2>5, <3>1 DEF m, No
    <2>6. QED
      BY <2>2, <2>4, <2>5
  <1>4. QED
    BY <1>2, <1>3 DEF Describes, d

LEMMA MergeHolds ==
  ASSUME NEW s, NEW l \in Seq(Ids), NEW models, Indexed(models), NEW source, NEW wide \in BOOLEAN, NEW only \in BOOLEAN,
         Current(models, source, s)
  PROVE  Holds(Merge(l, models, source, wide, only), s)
  <1> DEFINE d == Merge(l, models, source, wide, only)
  <1>1. IsMerged(d, l, models, source, only)
    BY MergeIs
  <1> HIDE DEF d
  <1>2. d.source = source /\ \A i \in DOMAIN d.models : IsJoined(d.models[i], d.models[i].id, models)
    BY <1>1 DEF IsMerged
  <1>3. ASSUME NEW k \in DOMAIN d.models
        PROVE  LET m == d.models[k] IN
               /\ m.exact /\ m.state = "loaded" => m.id \in s.loaded
               /\ m.exact /\ m.state \notin {No, "loaded"} => m.id \notin s.loaded
               /\ m.window \notin {No, "server"} /\ d.source \in StateTellers => m.window \in s.loaded
    <2> DEFINE m == d.models[k]
    <2>1. IsJoined(m, m.id, models)
      BY <1>2, <1>3
    <2> HIDE DEF m
    <2>2. \/ \E i \in DOMAIN models :
                  /\ Key(models[i].id) = Key(m.id) /\ (m.exact => models[i].id = m.id)
                  /\ m.type = models[i].type /\ m.state = models[i].state
                  /\ m.window \in {"server", models[i].window}
          \/ /\ \A i \in DOMAIN models : Key(models[i].id) # Key(m.id)
             /\ ~m.exact /\ m.type = No /\ m.state = No /\ m.window \in {"server", No}
      BY <2>1 DEF IsJoined
    <2>3. CASE \E i \in DOMAIN models :
                  /\ Key(models[i].id) = Key(m.id) /\ (m.exact => models[i].id = m.id)
                  /\ m.type = models[i].type /\ m.state = models[i].state
                  /\ m.window \in {"server", models[i].window}
      <3>1. PICK i \in DOMAIN models :
                  /\ m.exact => models[i].id = m.id
                  /\ m.state = models[i].state
                  /\ m.window \in {"server", models[i].window}
        BY <2>3
      <3>2. /\ models[i].state # No => (models[i].state = "loaded" <=> models[i].id \in s.loaded)
            /\ models[i].window # No /\ source \in StateTellers => models[i].window \in s.loaded
        BY DEF Current
      <3>3. QED
        BY <1>2, <3>1, <3>2 DEF m, No
    <2>4. CASE ~m.exact /\ m.window \in {"server", No}
      BY <2>4 DEF m
    <2>5. QED
      BY <2>2, <2>3, <2>4
  <1>4. QED
    BY <1>3 DEF Holds, d

Sound(d, l, s) == Describes(d, l, s) /\ Publishes(d, s) /\ Confirms(d, s)

LEMMA MergePublishes ==
  ASSUME NEW s \in Server, NEW models, Indexed(models), NEW source, NEW wide \in BOOLEAN, NEW only \in BOOLEAN,
         Named(models) # {} => s.kind \in Publishing /\ Own(s) \subseteq Named(models)
  PROVE  Publishes(Merge(s.listed, models, source, wide, only), s)
  <1> DEFINE d == Merge(s.listed, models, source, wide, only)
  <1>1. s.listed \in Seq(Ids)
    BY DEF Server
  <1>2. IsMerged(d, s.listed, models, source, only)
    BY <1>1, MergeIs
  <1> HIDE DEF d
  <1>3. d.catalogue = Named(models) /\ Named(d.models) = IF s.listed # <<>> THEN ToSet(s.listed) ELSE Named(models)
    BY <1>2 DEF IsMerged
  <1>4. ToSet(s.listed) \subseteq Named(d.models) \cup {}
    BY <1>3 DEF ToSet
  <1>5. Publishes(d, s)
    BY <1>3, <1>4 DEF Publishes
  <1>6. QED
    BY <1>5 DEF d

LEMMA MergeIsSound ==
  ASSUME NEW s \in Server, NEW models, Indexed(models), NEW source, NEW wide \in BOOLEAN,
         source # "unsloth", Sincere(models, source, s),
         Named(models) # {} => s.kind \in Publishing /\ Own(s) \subseteq Named(models)
  PROVE  Sound(Merge(s.listed, models, source, wide, FALSE), s.listed, s)
  <1> DEFINE d == Merge(s.listed, models, source, wide, FALSE)
  <1>1. s.listed \in Seq(Ids)
    BY DEF Server
  <1>2. Describes(d, s.listed, s)
    BY <1>1, MergeDescribes
  <1>3. Publishes(d, s)
    BY MergePublishes
  <1>4. IsMerged(d, s.listed, models, source, FALSE)
    BY <1>1, MergeIs
  <1> HIDE DEF d
  <1>5. Confirms(d, s)
    BY <1>4 DEF IsMerged, Confirms
  <1>6. Sound(d, s.listed, s)
    BY <1>2, <1>3, <1>5 DEF Sound
  <1>7. QED
    BY <1>6 DEF d

LEMMA ListIsIndexed ==
  ASSUME NEW l \in Seq(Ids), NEW f, DOMAIN f \subseteq DOMAIN l
  PROVE  Indexed(f)
  <1>1. Len(l) \in Nat /\ DOMAIN l = 1..Len(l)
    OBVIOUS
  <1>2. QED
    BY <1>1 DEF Indexed

(* A list of windows, each of the model it is stated for.                    *)
LEMMA WindowedIs ==
  ASSUME NEW s, NEW l \in Seq(Ids), NEW S \in SUBSET DOMAIN l, NEW source, source \notin StateTellers
  PROVE  LET models == Windowed(l, S) IN
         Indexed(models) /\ Sincere(models, source, s) /\ Current(models, source, s) /\ Named(models) = {l[i] : i \in S}
  <1> DEFINE models == Windowed(l, S)
  <1>1. DOMAIN models = S /\ \A i \in S : models[i] = [id |-> l[i], type |-> No, state |-> No, window |-> l[i]]
    BY DEF Windowed, Model
  <1> HIDE DEF models
  <1>2. Indexed(models)
    BY <1>1, ListIsIndexed
  <1>3. Sincere(models, source, s)
    BY <1>1 DEF Sincere, No, StateTellers
  <1>4. Current(models, source, s)
    BY <1>1 DEF Current
  <1>5. Named(models) = {l[i] : i \in S}
    BY <1>1 DEF Named
  <1>6. QED
    BY <1>2, <1>3, <1>4, <1>5 DEF models

LEMMA OneIs ==
  ASSUME NEW s, NEW id
  PROVE  LET models == <<Model(id, No, No, id)>> IN
         Indexed(models) /\ Sincere(models, "vmlx", s) /\ Current(models, "vmlx", s)
  <1> DEFINE models == <<Model(id, No, No, id)>>
  <1>1. DOMAIN models = 1..1 /\ models[1] = [id |-> id, type |-> No, state |-> No, window |-> id]
    BY DEF Model
  <1> HIDE DEF models
  <1>2. Indexed(models)
    BY <1>1 DEF Indexed
  <1>3. Sincere(models, "vmlx", s)
    BY <1>1 DEF Sincere, No
  <1>4. Current(models, "vmlx", s)
    BY <1>1 DEF Current, StateTellers
  <1>5. QED
    BY <1>2, <1>3, <1>4 DEF models

LEMMA LmStudioIs ==
  ASSUME NEW s \in Server
  PROVE  LET models == ReadLmStudio(s) IN
         /\ Indexed(models) /\ Sincere(models, "lmstudio", s) /\ Current(models, "lmstudio", s)
         /\ Named(models) = ToSet(s.catalogue)
  <1> DEFINE models == ReadLmStudio(s)
             c == s.catalogue
  <1>1. c \in Seq(Ids)
    BY DEF Server
  <1>2. DOMAIN models = DOMAIN c /\ \A i \in DOMAIN c :
          /\ models[i].id = c[i] /\ (models[i].type = "embeddings" <=> Key(c[i]) \in s.embeds)
          /\ models[i].state # No /\ (models[i].state = "loaded" <=> c[i] \in s.loaded)
          /\ models[i].window = IF c[i] \in s.loaded THEN c[i] ELSE No
    BY DEF ReadLmStudio, Model, Loaded, No
  <1> HIDE DEF models
  <1>3. Indexed(models)
    BY <1>1, <1>2, ListIsIndexed
  <1>4. Sincere(models, "lmstudio", s)
    BY <1>2 DEF Sincere, StateTellers
  <1>5. Current(models, "lmstudio", s)
    BY <1>2 DEF Current
  <1>6. Named(models) = ToSet(c)
    BY <1>2 DEF Named, ToSet
  <1>7. QED
    BY <1>3, <1>4, <1>5, <1>6 DEF models

LEMMA UnslothIs ==
  ASSUME NEW s \in Server
  PROVE  LET models == ReadUnsloth(s) IN
         /\ Indexed(models) /\ Sincere(models, "unsloth", s) /\ Current(models, "unsloth", s)
         /\ Named(models) = ToSet(s.listed)
  <1> DEFINE models == ReadUnsloth(s)
             c == s.listed
  <1>1. c \in Seq(Ids)
    BY DEF Server
  <1>2. DOMAIN models = DOMAIN c /\ \A i \in DOMAIN c :
          /\ models[i].id = c[i] /\ models[i].type = No
          /\ models[i].state # No /\ (models[i].state = "loaded" <=> c[i] \in s.loaded)
          /\ models[i].window = IF c[i] \in s.loaded THEN c[i] ELSE No
    BY DEF ReadUnsloth, Model, Loaded, No
  <1> HIDE DEF models
  <1>3. Indexed(models)
    BY <1>1, <1>2, ListIsIndexed
  <1>4. Sincere(models, "unsloth", s)
    BY <1>2 DEF Sincere, StateTellers, No
  <1>5. Current(models, "unsloth", s)
    BY <1>2 DEF Current
  <1>6. Named(models) = ToSet(c)
    BY <1>2 DEF Named, ToSet
  <1>7. QED
    BY <1>3, <1>4, <1>5, <1>6 DEF models

(* Nobody is recognised: the listing's ids and nothing else.                 *)
Plain(d, l) ==
  /\ d.source = No /\ d.loadedOnly = FALSE /\ Indexed(d.models) /\ Named(d.models) = ToSet(l)
  /\ \A i \in DOMAIN d.models :
       LET m == d.models[i] IN m.exact = FALSE /\ m.type = No /\ m.state = No /\ m.window \in {No, "server"}

LEMMA UnrecognisedIs ==
  ASSUME NEW l \in Seq(Ids)
  PROVE  Plain(Unrecognised(l), l) /\ Unrecognised(l).catalogue = {}
         /\ \A C : LET d == [Unrecognised(l) EXCEPT !.catalogue = C] IN Plain(d, l) /\ d.catalogue = C
  <1> DEFINE models == [i \in DOMAIN l |-> Join(l[i], <<>>, FALSE)]
  <1>1. Unrecognised(l) = [models |-> models, source |-> No, catalogue |-> {}, loadedOnly |-> FALSE]
    BY DEF Unrecognised, Described
  <1>2. Indexed(<<>>)
    BY DEF Indexed
  <1>3. \A i \in DOMAIN l : IsJoined(models[i], l[i], <<>>)
    BY <1>2, JoinIs
  <1>4. DOMAIN models = DOMAIN l
    OBVIOUS
  <1> HIDE DEF models
  <1>5. \A i \in DOMAIN models :
          LET m == models[i] IN m.id = l[i] /\ m.exact = FALSE /\ m.type = No /\ m.state = No /\ m.window \in {No, "server"}
    BY <1>3, <1>4 DEF IsJoined
  <1>6. Indexed(models)
    BY <1>4, ListIsIndexed
  <1>7. Named(models) = ToSet(l)
    BY <1>4, <1>5 DEF Named, ToSet
  <1>8. \A C : Plain([models |-> models, source |-> No, catalogue |-> C, loadedOnly |-> FALSE], l)
    BY <1>5, <1>6, <1>7 DEF Plain
  <1>9. QED
    BY <1>1, <1>8

LEMMA PlainIsSound ==
  ASSUME NEW d, NEW l, NEW s, Plain(d, l)
  PROVE  Describes(d, l, s) /\ Confirms(d, s) /\ Holds(d, s)
  <1>1. Describes(d, l, s)
    BY DEF Plain, Describes, No
  <1>2. Confirms(d, s) /\ Holds(d, s)
    BY DEF Plain, Confirms, Holds, No
  <1>3. QED
    BY <1>1, <1>2

-----------------------------------------------------------------------------
(* What is chosen of a sound description.                                    *)
Alone(d, i) == \A j \in DOMAIN d.models : d.models[j].type # "embeddings" => j = i
Resident(m) == m.exact /\ m.state = "loaded"
Unloaded(m) == m.exact /\ m.state \notin {No, "loaded"}

Picks(p, d, i) ==
  LET m == d.models[i] IN
  /\ p.model = m.id /\ m.type # "embeddings" /\ p.because \in {"sole", "loaded", "sole-not-loaded"}
  /\ d.loadedOnly => m.state = "loaded"
  /\ p.because = "loaded" => m.state = "loaded" /\ (m.exact \/ d.loadedOnly)
  /\ \/ Alone(d, i)
     \/ /\ Resident(m)
        /\ \A j \in DOMAIN d.models : d.models[j].type # "embeddings" /\ j # i => Unloaded(d.models[j])

LEMMA AutoPicks ==
  ASSUME NEW d, d.loadedOnly \in BOOLEAN, AutoSelect(d).kind = "chosen"
  PROVE  \E i \in DOMAIN d.models : Picks(AutoSelect(d), d, i)
  <1> DEFINE candidates == {i \in DOMAIN d.models : d.models[i].type # "embeddings"}
             loaded == {i \in candidates : d.models[i].state = "loaded"}
             Sole(S) == \E i \in S : S = {i}
             TheOne(S) == d.models[CHOOSE i \in S : TRUE]
             sole == TheOne(candidates)
             because == IF ~(d.loadedOnly \/ StatesUsable({sole})) THEN "sole"
                        ELSE IF sole.state = "loaded" THEN "loaded" ELSE "sole-not-loaded"
             p == AutoSelect(d)
  <1>1. p = IF candidates = {} THEN Problem("no chat model")
            ELSE IF Sole(candidates) /\ (d.loadedOnly => sole.state = "loaded") THEN Chosen(sole.id, because)
            ELSE IF ~StatesUsable({d.models[i] : i \in candidates}) THEN Problem("states unknown")
            ELSE IF Sole(loaded) THEN Chosen(TheOne(loaded).id, "loaded")
            ELSE Problem(IF loaded = {} THEN "none loaded" ELSE "several loaded")
    BY DEF AutoSelect
  <1>2. \A why : Problem(why).kind # "chosen"
    BY DEF Problem
  <1>3. \A id, b : Chosen(id, b).model = id /\ Chosen(id, b).because = b
    BY DEF Chosen
  <1>4. ASSUME NEW S, NEW i \in S, S = {i} PROVE TheOne(S) = d.models[i]
    <2>1. (CHOOSE j \in S : TRUE) = i
      BY <1>4
    <2>2. QED
      BY <2>1
  <1> HIDE DEF p
  <1>5. CASE Sole(candidates) /\ (d.loadedOnly => sole.state = "loaded")
    <2>1. PICK i \in candidates : candidates = {i}
      BY <1>5
    <2>2. sole = d.models[i]
      BY <1>4, <2>1
    <2>3. candidates # {}
      BY <2>1
    <2>4. p = Chosen(sole.id, because)
      BY <1>1, <1>5, <2>3
    <2>5. because = "loaded" => sole.state = "loaded" /\ (d.loadedOnly \/ StatesUsable({sole}))
      OBVIOUS
    <2>6. StatesUsable({sole}) => sole.exact
      BY DEF StatesUsable
    <2>7. because \in {"sole", "loaded", "sole-not-loaded"}
      OBVIOUS
    <2>8. i \in DOMAIN d.models /\ d.models[i].type # "embeddings" /\ Alone(d, i)
      BY <2>1 DEF Alone
    <2>9. p.model = d.models[i].id /\ p.because = because
      BY <1>3, <2>2, <2>4
    <2>10. d.loadedOnly => d.models[i].state = "loaded"
      BY <1>5, <2>2
    <2> HIDE DEF because, sole, candidates
    <2>11. Picks(p, d, i)
      BY <2>2, <2>5, <2>6, <2>7, <2>8, <2>9, <2>10 DEF Picks
    <2>12. QED
      BY <2>8, <2>11 DEF p
  <1>6. CASE ~(Sole(candidates) /\ (d.loadedOnly => sole.state = "loaded"))
    <2>1. /\ StatesUsable({d.models[i] : i \in candidates}) /\ Sole(loaded)
          /\ p = Chosen(TheOne(loaded).id, "loaded")
      <3> HIDE DEF candidates, loaded, sole, because, Sole, TheOne
      <3>1. QED
        BY <1>1, <1>2, <1>6 DEF p
    <2>2. PICK i \in loaded : loaded = {i}
      BY <2>1
    <2>3. TheOne(loaded) = d.models[i]
      BY <1>4, <2>2
    <2>4. p.model = d.models[i].id /\ p.because = "loaded"
      BY <1>3, <2>1, <2>3
    <2>5. \A j \in candidates : d.models[j].state # No /\ d.models[j].exact
      BY <2>1 DEF StatesUsable
    <2>6. \A j \in candidates : j # i => d.models[j].state # "loaded"
      BY <2>2
    <2>7. i \in DOMAIN d.models /\ d.models[i].type # "embeddings" /\ Resident(d.models[i])
      BY <2>2, <2>5 DEF Resident
    <2>8. \A j \in DOMAIN d.models : d.models[j].type # "embeddings" /\ j # i => Unloaded(d.models[j])
      BY <2>5, <2>6 DEF Unloaded
    <2>9. Picks(p, d, i)
      BY <2>4, <2>7, <2>8 DEF Picks, Resident
    <2>10. QED
      BY <2>7, <2>9 DEF p
  <1>7. QED
    BY <1>5, <1>6

Wanted == IF ask.named # No THEN ask.named ELSE ask.preset

LEMMA PlanIs ==
  ASSUME NEW d
  PROVE  LET p == PlanSelection(ask, d) IN
         /\ Wanted = No => p = AutoSelect(d)
         /\ Wanted # No =>
              \/ p = Problem("unserved") /\ Unserved(Wanted, d)
              \/ /\ p = Problem("embeds") /\ ask.named = No
                 /\ \E i \in DOMAIN d.models : d.models[i].id = Wanted /\ d.models[i].type = "embeddings"
              \/ p = Chosen(Wanted, "named")
  BY DEF PlanSelection, Wanted

LEMMA EffectiveIs ==
  ASSUME NEW d
  PROVE  LET p == PlanSelection(ask, d)
             c == EffectiveWindow(ask, d)
             own == {i \in DOMAIN d.models : d.models[i].id = p.model}
         IN  /\ c.kind = p.kind /\ c.model = p.model /\ c.because = p.because
             /\ c.detected = IF own = {} THEN No ELSE d.models[Min(own)].window
  BY DEF EffectiveWindow

LEMMA DetectedIs ==
  ASSUME NEW d, NEW l, NEW s, Describes(d, l, s), EffectiveWindow(ask, d).detected \notin {No, "server"}
  PROVE  LET c == EffectiveWindow(ask, d) IN
         \E i \in DOMAIN d.models : d.models[i].id = c.model /\ d.models[i].window = c.detected
  <1> DEFINE c == EffectiveWindow(ask, d)
             own == {i \in DOMAIN d.models : d.models[i].id = c.model}
  <1>1. c.detected = IF own = {} THEN No ELSE d.models[Min(own)].window
    BY EffectiveIs
  <1>2. own # {}
    BY <1>1
  <1>3. Indexed(d.models)
    BY DEF Describes
  <1>4. Min(own) \in own
    BY <1>2, <1>3, FirstIndex
  <1> HIDE DEF c
  <1>5. \E i \in DOMAIN d.models : d.models[i].id = c.model /\ d.models[i].window = c.detected
    BY <1>1, <1>2, <1>4
  <1>6. QED
    BY <1>5 DEF c

LEMMA KeptIfNamed ==
  ASSUME server \in Server, Sound(found, listing, server),
         choice = EffectiveWindow(ask, found)
  PROVE  NamedIsKept
  <1> DEFINE p == PlanSelection(ask, found)
  <1>1. SUFFICES ASSUME Wanted # No, p.kind # "chosen"
                 PROVE  \/ server.kind \in Publishing /\ Wanted \notin ToSet(server.listed) \cup Own(server)
                        \/ ask.named = No /\ Key(Wanted) \in server.embeds
    BY EffectiveIs DEF NamedIsKept, Wanted, Publishing, Own
  <1>2. p # Chosen(Wanted, "named")
    BY <1>1 DEF Chosen
  <1>3. CASE Unserved(Wanted, found)
    <2>1. found.catalogue # {} /\ Wanted \notin found.catalogue \cup Named(found.models)
      BY <1>3 DEF Unserved, Named
    <2>2. QED
      BY <2>1 DEF Sound, Publishes
  <1>4. CASE /\ ask.named = No
             /\ \E i \in DOMAIN found.models : found.models[i].id = Wanted /\ found.models[i].type = "embeddings"
    BY <1>4 DEF Sound, Describes
  <1>5. QED
    BY <1>1, <1>2, <1>3, <1>4, PlanIs

LEMMA ChoosesTruly ==
  ASSUME server \in Server, Sound(found, listing, server), changes = 0 => Holds(found, server),
         choice = EffectiveWindow(ask, found)
  PROVE  ChoiceIsTrue
  <1> SUFFICES ASSUME choice.kind = "chosen", changes = 0 PROVE ChoiceIsTrue
    BY DEF ChoiceIsTrue
  <1> DEFINE p == PlanSelection(ask, found)
             auto    == choice.because # "named"
             offered == IF listing # <<>> THEN ToSet(listing) ELSE {m.id : m \in ToSet(found.models)}
             chat    == {id \in offered \ {choice.model} : Key(id) \notin server.embeds}
             tells   == \/ found.source = "unsloth"
                        \/ found.source = "lmstudio" /\ Key(choice.model) \in {Key(id) : id \in found.catalogue}
             stated  == found.source \in {"lmstudio", "unsloth"}
  <1>1. choice.kind = p.kind /\ choice.model = p.model /\ choice.because = p.because
    BY EffectiveIs
  <1>2. offered = Named(found.models)
    BY DEF Sound, Describes, Named, ToSet
  <1>3. Holds(found, server) /\ Describes(found, listing, server) /\ Confirms(found, server)
    BY DEF Sound
  <1>4. choice.detected \notin {No, "server"} =>
          Key(choice.detected) = Key(choice.model) /\ (stated => choice.detected \in server.loaded)
    <2> SUFFICES ASSUME choice.detected \notin {No, "server"}
                 PROVE  Key(choice.detected) = Key(choice.model) /\ (stated => choice.detected \in server.loaded)
      OBVIOUS
    <2>1. PICK i \in DOMAIN found.models : found.models[i].id = choice.model /\ found.models[i].window = choice.detected
      BY <1>3, DetectedIs
    <2>2. QED
      BY <1>3, <2>1 DEF Describes, Holds, StateTellers
  <1>5. CASE Wanted # No
    <2>1. p = Chosen(Wanted, "named")
      BY <1>1, <1>5, PlanIs DEF Problem
    <2>2. choice.because = "named"
      BY <1>1, <2>1 DEF Chosen
    <2>3. QED
      BY <1>4, <2>2 DEF ChoiceIsTrue
  <1>6. CASE Wanted = No
    <2>1. p = AutoSelect(found)
      BY <1>6, PlanIs
    <2>2. found.loadedOnly \in BOOLEAN /\ (found.loadedOnly <=> found.source = "unsloth")
      BY <1>3 DEF Describes
    <2>3. PICK i \in DOMAIN found.models : Picks(p, found, i)
      BY <1>1, <2>1, <2>2, AutoPicks
    <2> DEFINE m == found.models[i]
    <2>4. /\ choice.model = m.id /\ m.type # "embeddings"
          /\ found.source = "unsloth" => m.state = "loaded"
          /\ choice.because = "loaded" => m.state = "loaded" /\ (m.exact \/ found.source = "unsloth")
          /\ \/ Alone(found, i)
             \/ /\ Resident(m)
                /\ \A j \in DOMAIN found.models :
                     found.models[j].type # "embeddings" /\ j # i => Unloaded(found.models[j])
      BY <1>1, <2>2, <2>3 DEF Picks
    <2>5. choice.model \in offered
      BY <1>2, <2>4 DEF Named
    <2>6. tells => Key(choice.model) \notin server.embeds
      BY <1>3, <2>4 DEF Describes, Confirms
    <2>7. choice.because = "loaded" => choice.model \in server.loaded
      BY <1>3, <2>4 DEF Describes, Holds
    <2>8. ASSUME NEW id \in chat
          PROVE  \E j \in DOMAIN found.models : found.models[j].id = id /\ found.models[j].type # "embeddings" /\ j # i
      <3>1. id \in Named(found.models) /\ id # choice.model /\ Key(id) \notin server.embeds
        BY <1>2
      <3>2. PICK j \in DOMAIN found.models : found.models[j].id = id
        BY <3>1 DEF Named
      <3>3. found.models[j].type # "embeddings"
        BY <1>3, <3>1, <3>2 DEF Describes
      <3>4. QED
        BY <2>4, <3>1, <3>2, <3>3
    <2>9. chat # {} => choice.model \in server.loaded /\ chat \cap server.loaded = {}
      <3>1. SUFFICES ASSUME NEW id \in chat PROVE choice.model \in server.loaded /\ id \notin server.loaded
        OBVIOUS
      <3>2. PICK j \in DOMAIN found.models : found.models[j].id = id /\ found.models[j].type # "embeddings" /\ j # i
        BY <2>8
      <3>3. ~Alone(found, i)
        BY <3>2 DEF Alone
      <3>4. Resident(m) /\ Unloaded(found.models[j])
        BY <2>4, <3>2, <3>3
      <3>5. QED
        BY <1>3, <2>4, <3>2, <3>4 DEF Resident, Unloaded, Holds
    <2>10. QED
      BY <1>4, <2>5, <2>6, <2>7, <2>9 DEF ChoiceIsTrue
  <1>7. QED
    BY <1>5, <1>6

-----------------------------------------------------------------------------
(* The steps of the choice.                                                  *)
LEMMA HealthIs ==
  ASSUME NEW s
  PROVE  /\ Health(s).kind \in {"engine", "gateway", "other"}
         /\ Health(s).kind = "other" => ~Sleeps(s)
         /\ Health(s).kind = "engine" => ~Sleeps(s)
         /\ Health(s).kind = "gateway" /\ Health(s).holds # No => ~Sleeps(s)
  <1>1. CASE s.kind = "engine"
    BY <1>1 DEF Health, Sleeps
  <1>2. CASE s.kind = "gateway"
    BY <1>2 DEF Health
  <1>3. CASE s.kind \notin {"engine", "gateway"}
    BY <1>3 DEF Health, Sleeps
  <1>4. QED
    BY <1>1, <1>2, <1>3

LEMMA NothingFoundYet ==
  ASSUME NEW s
  PROVE  Sound(NoProvider, <<>>, s) /\ Holds(NoProvider, s)
  <1>1. <<>> \in Seq(Ids)
    OBVIOUS
  <1>2. Plain(NoProvider, <<>>) /\ NoProvider.catalogue = {}
    BY <1>1, UnrecognisedIs DEF NoProvider
  <1>3. Publishes(NoProvider, s)
    BY <1>2 DEF Publishes
  <1>4. QED
    BY <1>2, <1>3, PlainIsSound DEF Sound

LEMMA UnrecognisedIsSound ==
  ASSUME NEW s \in Server
  PROVE  LET d == Unrecognised(s.listed) IN Sound(d, s.listed, s) /\ Holds(d, s)
  <1> DEFINE d == Unrecognised(s.listed)
  <1>1. s.listed \in Seq(Ids)
    BY DEF Server
  <1>2. Plain(d, s.listed) /\ d.catalogue = {}
    BY <1>1, UnrecognisedIs
  <1> HIDE DEF d
  <1>3. Publishes(d, s)
    BY <1>2 DEF Publishes
  <1>4. Sound(d, s.listed, s) /\ Holds(d, s)
    BY <1>2, <1>3, PlainIsSound DEF Sound
  <1>5. QED
    BY <1>4 DEF d

(* Every end of the discovery is one of these.                               *)
FindsSoundly == /\ Sound(found', listing', server) /\ Holds(found', server)
                /\ step' = "choose" /\ listing' = server.listed

LEMMA KeepsChoice ==
  ASSUME ChoiceInv, stage = "choice", step # "chosen", UNCHANGED <<stage, server, changes, ask, choice>>,
         step' \in Probing \cup {"choose"}, HealthInv', FoundInv', SleepersAreLeft'
  PROVE  ChoiceInv'
  <1>1. step' \notin {"chosen"}
    BY DEF Probing
  <1>2. choice = Undecided
    BY DEF ChoiceInv, DecidedInv
  <1>3. DecidedInv'
    BY <1>1, <1>2 DEF DecidedInv
  <1>4. server' \in Server /\ changes' \in Nat
    BY DEF ChoiceInv
  <1>5. QED
    BY <1>3, <1>4 DEF ChoiceInv

LEMMA FoundFollows ==
  ASSUME FindsSoundly, UNCHANGED <<server, changes>>
  PROVE  FoundInv'
  BY DEF FindsSoundly, FoundInv, Sound, Opening, Probing

LEMMA HealthFirstKeeps == ChoiceInv /\ stage = "choice" /\ HealthFirst /\ UNCHANGED stage => ChoiceInv'
  <1> SUFFICES ASSUME ChoiceInv, stage = "choice", HealthFirst, UNCHANGED stage PROVE ChoiceInv'
    OBVIOUS
  <1>1. /\ step = "health" /\ step' = "listing" /\ reading' \in {Health(server), Inconclusive}
        /\ query' = IF IsVmlx(reading') THEN "dropped" ELSE "kept"
        /\ UNCHANGED <<server, changes, ask, listing, found, choice, woken>>
    BY DEF HealthFirst
  <1>2. reading = Unread /\ query = "kept" /\ server \in Server /\ changes \in Nat
    BY <1>1 DEF ChoiceInv, HealthInv
  <1>3. HealthInv'
    <2>1. query' = "kept" => reading' = Inconclusive \/ ~Sleeps(server)
      BY <1>1, HealthIs DEF IsVmlx
    <2>2. QED
      BY <1>1, <2>1 DEF HealthInv
  <1>4. FoundInv'
    BY <1>1 DEF ChoiceInv, FoundInv, Opening, Probing
  <1>5. DecidedInv'
    BY <1>1 DEF ChoiceInv, DecidedInv
  <1>6. SleepersAreLeft'
    BY <1>1, <1>2 DEF ChoiceInv, SleepersAreLeft, Unread, Inconclusive
  <1>7. QED
    BY <1>1, <1>2, <1>3, <1>4, <1>5, <1>6 DEF ChoiceInv, Opening

(* A listing is sent only where it wakes nobody, or its query was asked for. *)
LEMMA ListingWakesNobody ==
  ASSUME ChoiceInv, stage = "choice", step = "listing", UNCHANGED <<changes, reading>>,
         IF query \in {"kept", "restored"} THEN Routed("listing") ELSE UNCHANGED woken,
         query = "restored" => query' = "restored"
  PROVE  SleepersAreLeft'
  <1> SUFFICES ASSUME changes = 0
               PROVE  woken' \subseteq {"listing"} /\ (woken' # {} => query' = "restored" \/ reading' = Inconclusive)
    BY DEF SleepersAreLeft
  <1>1. woken \subseteq {"listing"} /\ (woken # {} => query = "restored" \/ reading = Inconclusive)
    BY DEF ChoiceInv, SleepersAreLeft
  <1>2. query = "kept" => reading = Inconclusive \/ ~Sleeps(server)
    BY DEF ChoiceInv, HealthInv
  <1>3. woken' = woken \/ (woken' = woken \cup {"listing"} /\ query \in {"kept", "restored"} /\ Sleeps(server))
    BY DEF Routed
  <1>4. QED
    BY <1>1, <1>2, <1>3

LEMMA ReadListingKeeps == ChoiceInv /\ stage = "choice" /\ ReadListing /\ UNCHANGED stage => ChoiceInv'
  <1> SUFFICES ASSUME ChoiceInv, stage = "choice", ReadListing, UNCHANGED stage PROVE ChoiceInv'
    OBVIOUS
  <1> DEFINE l == server.listed
             vllm == Windowed(l, Held(l, server))
  <1>1. /\ step = "listing" /\ listing' = l
        /\ IF query \in {"kept", "restored"} THEN Routed("listing") ELSE UNCHANGED woken
        /\ UNCHANGED <<server, changes, ask, query, reading, choice>>
    BY DEF ReadListing
  <1>2. \/ server.kind = "mtplx" /\ l # <<>> /\ step' = "mtplx" /\ UNCHANGED found
        \/ /\ server.kind = "unsloth" /\ l # <<>> /\ step' = "checks"
           /\ found' = Merge(l, ReadUnsloth(server), "unsloth", FALSE, TRUE)
        \/ /\ server.kind = "vllm" /\ Held(l, server) # {} /\ step' = "choose"
           /\ found' = Merge(l, vllm, "vllm", FALSE, FALSE)
        \/ step' = "vmlx" /\ UNCHANGED found
    BY <1>1 DEF ReadListing, Finds
  <1>3. server \in Server /\ l \in Seq(Ids)
    BY DEF ChoiceInv, Server
  <1>4. SleepersAreLeft'
    BY <1>1, ListingWakesNobody
  <1>5. step' \in Probing \cup {"choose"} /\ step' \notin {"capabilities", "native", "health", "listing"}
    BY <1>2 DEF Probing
  <1>6. HealthInv'
    BY <1>1, <1>5 DEF ChoiceInv, HealthInv
  <1>7. FoundInv'
    <2>1. CASE server.kind = "mtplx" /\ l # <<>> /\ step' = "mtplx"
      BY <1>1, <2>1 DEF FoundInv, Opening, Probing
    <2>2. CASE step' = "vmlx"
      BY <1>1, <2>2 DEF FoundInv, Opening, Probing
    <2>3. CASE /\ server.kind = "unsloth" /\ l # <<>> /\ step' = "checks"
               /\ found' = Merge(l, ReadUnsloth(server), "unsloth", FALSE, TRUE)
      <3> DEFINE models == ReadUnsloth(server)
      <3>1. Indexed(models) /\ Sincere(models, "unsloth", server) /\ Current(models, "unsloth", server)
            /\ Named(models) = ToSet(l)
        BY <1>3, UnslothIs
      <3> HIDE DEF models
      <3>2. Describes(found', l, server) /\ Holds(found', server)
        BY <1>3, <2>3, <3>1, MergeDescribes, MergeHolds DEF models
      <3>3. Own(server) \subseteq Named(models)
        BY <2>3 DEF Own
      <3>4. Publishes(found', server)
        BY <1>3, <2>3, <3>1, <3>3, MergePublishes DEF models, Publishing
      <3>5. IsMerged(found', l, models, "unsloth", TRUE)
        BY <1>3, <2>3, <3>1, MergeIs DEF models
      <3>6. /\ IsDescribed(found') /\ found'.source = "unsloth" /\ DOMAIN found'.models = DOMAIN l
            /\ \A i \in DOMAIN l : IsRecord(found'.models[i]) /\ found'.models[i].id = l[i]
        BY <2>3, <3>5 DEF IsMerged, IsJoined
      <3>7. QED
        BY <1>1, <2>3, <3>2, <3>4, <3>6 DEF FoundInv, Opening, Probing
    <2>4. CASE /\ server.kind = "vllm" /\ Held(l, server) # {} /\ step' = "choose"
               /\ found' = Merge(l, vllm, "vllm", FALSE, FALSE)
      <3>1. Held(l, server) \in SUBSET DOMAIN l /\ "vllm" \notin StateTellers
        BY DEF Held, StateTellers
      <3>2. /\ Indexed(vllm) /\ Sincere(vllm, "vllm", server) /\ Current(vllm, "vllm", server)
        BY <1>3, <3>1, WindowedIs
      <3> HIDE DEF vllm
      <3>3. server.kind \in Publishing /\ Own(server) \subseteq Named(vllm)
        BY <2>4 DEF Publishing, Own
      <3>4. Sound(found', l, server)
        BY <1>3, <2>4, <3>2, <3>3, MergeIsSound
      <3>5. Holds(found', server)
        BY <1>3, <2>4, <3>2, MergeHolds
      <3>6. QED
        BY <1>1, <2>4, <3>4, <3>5, FoundFollows DEF FindsSoundly
    <2>5. QED
      BY <1>2, <2>1, <2>2, <2>3, <2>4
  <1>8. QED
    BY <1>1, <1>4, <1>5, <1>6, <1>7, KeepsChoice

LEMMA FindingKeeps ==
  ASSUME ChoiceInv, stage = "choice", step \in Probing, FindsSoundly,
         UNCHANGED <<stage, server, changes, ask, query, choice>>,
         changes = 0 => reading' \in {Unread, Inconclusive, Health(server)},
         reading = Inconclusive => reading' = Inconclusive, SleepersAreLeft'
  PROVE  ChoiceInv'
  <1>1. step' = "choose"
    BY DEF FindsSoundly
  <1>2. HealthInv'
    BY <1>1 DEF ChoiceInv, HealthInv, Probing
  <1>3. FoundInv'
    BY FoundFollows
  <1>4. QED
    BY <1>1, <1>2, <1>3, KeepsChoice DEF Probing

LEMMA ReadingIsOld ==
  ASSUME ChoiceInv, stage = "choice", changes = 0
  PROVE  reading \in {Unread, Inconclusive, Health(server)}
  BY DEF ChoiceInv, HealthInv

LEMMA NobodyIsWoken ==
  ASSUME ChoiceInv, stage = "choice", UNCHANGED <<changes, query, woken>>,
         reading = Inconclusive => reading' = Inconclusive
  PROVE  SleepersAreLeft'
  BY DEF ChoiceInv, SleepersAreLeft

LEMMA ListingFailsKeeps == ChoiceInv /\ stage = "choice" /\ ListingFails /\ UNCHANGED stage => ChoiceInv'
  <1> SUFFICES ASSUME ChoiceInv, stage = "choice", ListingFails, UNCHANGED stage PROVE ChoiceInv'
    OBVIOUS
  <1>1. /\ step = "listing" /\ UNCHANGED <<server, changes, ask, reading, listing, found>>
        /\ IF query \in {"kept", "restored"} THEN Routed("listing") ELSE UNCHANGED woken
        /\ \/ query = "dropped" /\ query' = "restored" /\ UNCHANGED <<step, choice>>
           \/ /\ choice' = IF ask.named = No /\ ask.preset = No THEN Unreachable ELSE EffectiveWindow(ask, NoProvider)
              /\ step' = "chosen" /\ UNCHANGED query
    BY DEF ListingFails
  <1>2. listing = <<>> /\ found = NoProvider /\ server \in Server /\ changes \in Nat
    BY <1>1 DEF ChoiceInv, FoundInv, Opening
  <1>3. SleepersAreLeft'
    BY <1>1, ListingWakesNobody
  <1>4. HealthInv'
    BY <1>1 DEF ChoiceInv, HealthInv
  <1>5. FoundInv'
    BY <1>1, <1>2, NothingFoundYet DEF FoundInv, Opening, Probing, Sound
  <1>6. DecidedInv'
    BY <1>1, <1>2 DEF ChoiceInv, DecidedInv
  <1>7. QED
    BY <1>1, <1>2, <1>3, <1>4, <1>5, <1>6 DEF ChoiceInv, Opening

LEMMA MtplxKeeps == ChoiceInv /\ stage = "choice" /\ (ReadMtplx \/ MtplxFails) /\ UNCHANGED stage => ChoiceInv'
  <1> SUFFICES ASSUME ChoiceInv, stage = "choice", ReadMtplx \/ MtplxFails, UNCHANGED stage PROVE ChoiceInv'
    OBVIOUS
  <1> DEFINE l == server.listed
             models == Windowed(l, DOMAIN l)
  <1>1. /\ step = "mtplx" /\ step' = "choose"
        /\ UNCHANGED <<server, changes, ask, query, reading, listing, choice, woken>>
    BY DEF ReadMtplx, MtplxFails, Finds
  <1>2. server \in Server /\ l \in Seq(Ids) /\ listing = l /\ server.kind = "mtplx"
    BY <1>1 DEF ChoiceInv, FoundInv, Probing, Server
  <1>3. Own(server) = {} /\ server.kind \in Publishing
    BY <1>2 DEF Own, Publishing
  <1>4. Sound(found', l, server) /\ Holds(found', server)
    <2>1. CASE ReadMtplx
      <3>1. found' = Merge(l, models, "mtplx", TRUE, FALSE)
        BY <1>2, <2>1 DEF ReadMtplx, Finds
      <3>2. DOMAIN l \in SUBSET DOMAIN l /\ "mtplx" \notin StateTellers
        BY DEF StateTellers
      <3>3. Indexed(models) /\ Sincere(models, "mtplx", server) /\ Current(models, "mtplx", server)
        BY <1>2, <3>2, WindowedIs
      <3> HIDE DEF models
      <3>4. Sound(found', l, server)
        BY <1>2, <1>3, <3>1, <3>3, MergeIsSound
      <3>5. Holds(found', server)
        BY <1>2, <3>1, <3>3, MergeHolds
      <3>6. QED
        BY <3>4, <3>5
    <2>2. CASE MtplxFails
      <3>1. found' = [Unrecognised(l) EXCEPT !.catalogue = ToSet(l)]
        BY <1>2, <2>2 DEF MtplxFails, Finds
      <3>2. Plain(found', l) /\ found'.catalogue = ToSet(l)
        BY <1>2, <3>1, UnrecognisedIs
      <3>3. Publishes(found', server)
        BY <1>3, <3>2 DEF Publishes
      <3>4. QED
        BY <3>2, <3>3, PlainIsSound DEF Sound
    <2>3. QED
      BY <2>1, <2>2
  <1>5. FindsSoundly
    BY <1>1, <1>2, <1>4 DEF FindsSoundly
  <1>6. SleepersAreLeft'
    BY <1>1, NobodyIsWoken
  <1>7. QED
    BY <1>1, <1>5, <1>6, ReadingIsOld, FindingKeeps DEF Probing

LEMMA CheckEmbeddingsKeeps == ChoiceInv /\ stage = "choice" /\ CheckEmbeddings /\ UNCHANGED stage => ChoiceInv'
  <1> SUFFICES ASSUME ChoiceInv, stage = "choice", CheckEmbeddings, UNCHANGED stage PROVE ChoiceInv'
    OBVIOUS
  <1> DEFINE AskedModel(answered, i) ==
               IF found.models[i].state # "loaded" THEN found.models[i]
               ELSE IF i \notin answered THEN [found.models[i] EXCEPT !.state = No]
               ELSE IF Key(listing[i]) \in server.embeds THEN [found.models[i] EXCEPT !.type = "embeddings"]
               ELSE found.models[i]
  <1>1. step = "checks" /\ step' = "choose" /\ UNCHANGED <<server, changes, ask, query, reading, listing, choice, woken>>
    BY DEF CheckEmbeddings, Finds
  <1>2. PICK answered : found' = [found EXCEPT !.models = [i \in DOMAIN listing |-> AskedModel(answered, i)]]
    BY DEF CheckEmbeddings, Finds
  <1>3. /\ listing = server.listed /\ found.source = "unsloth" /\ IsDescribed(found)
        /\ DOMAIN found.models = DOMAIN listing
        /\ \A i \in DOMAIN listing : IsRecord(found.models[i]) /\ found.models[i].id = listing[i]
        /\ Describes(found, listing, server) /\ Publishes(found, server)
        /\ changes = 0 => Holds(found, server)
    BY <1>1 DEF ChoiceInv, FoundInv, Probing
  <1>4. /\ found'.source = found.source /\ found'.catalogue = found.catalogue /\ found'.loadedOnly = found.loadedOnly
        /\ found'.models = [i \in DOMAIN listing |-> AskedModel(answered, i)]
    BY <1>2, <1>3 DEF IsDescribed, Described
  <1> DEFINE m(i) == found.models[i]
             n(i) == found'.models[i]
  <1>5. ASSUME NEW i \in DOMAIN listing
        PROVE  /\ n(i).id = m(i).id /\ n(i).exact = m(i).exact /\ n(i).window = m(i).window
               /\ n(i).state \in {m(i).state, No}
               /\ n(i).type # m(i).type => n(i).type = "embeddings" /\ Key(m(i).id) \in server.embeds
               /\ n(i).state = "loaded" /\ n(i).type # "embeddings" => Key(m(i).id) \notin server.embeds
    <2>1. n(i) = AskedModel(answered, i)
      BY <1>4
    <2>2. IsRecord(m(i)) /\ m(i).id = listing[i]
      BY <1>3
    <2>3. CASE m(i).state # "loaded"
      BY <2>1, <2>3
    <2>4. CASE m(i).state = "loaded" /\ i \notin answered
      <3>1. n(i) = [m(i) EXCEPT !.state = No]
        BY <2>1, <2>4
      <3> HIDE DEF m, n
      <3>2. QED
        BY <2>2, <3>1 DEF IsRecord, No
    <2>5. CASE m(i).state = "loaded" /\ i \in answered /\ Key(listing[i]) \in server.embeds
      <3>1. n(i) = [m(i) EXCEPT !.type = "embeddings"]
        BY <2>1, <2>5
      <3> HIDE DEF m, n
      <3>2. QED
        BY <2>2, <2>5, <3>1 DEF IsRecord
    <2>6. CASE m(i).state = "loaded" /\ i \in answered /\ Key(listing[i]) \notin server.embeds
      BY <2>1, <2>2, <2>6
    <2>7. QED
      BY <2>3, <2>4, <2>5, <2>6
  <1>6. DOMAIN found'.models = DOMAIN found.models
    BY <1>3, <1>4
  <1>7. Named(found'.models) = Named(found.models)
    BY <1>3, <1>5, <1>6 DEF Named
  <1>8. Indexed(found'.models)
    BY <1>3, <1>6 DEF Describes, Indexed
  <1>9. Describes(found', listing, server)
    <2>1. ASSUME NEW i \in DOMAIN found'.models
          PROVE  /\ n(i).exact \in BOOLEAN
                 /\ n(i).type = "embeddings" => Key(n(i).id) \in server.embeds
                 /\ n(i).state # No => found'.source \in StateTellers
                 /\ n(i).window \notin {No, "server"} => Key(n(i).window) = Key(n(i).id)
                 /\ n(i).exact
      BY <1>3, <1>4, <1>5, <1>6 DEF Describes
    <2>2. QED
      BY <1>3, <1>4, <1>7, <1>8, <2>1 DEF Describes
  <1>10. Publishes(found', server)
    BY <1>3, <1>4, <1>7 DEF Publishes
  <1>11. Confirms(found', server)
    BY <1>3, <1>5, <1>6 DEF Confirms
  <1>12. changes = 0 => Holds(found', server)
    BY <1>3, <1>4, <1>5, <1>6 DEF Holds
  <1>13. FoundInv'
    BY <1>1, <1>3, <1>9, <1>10, <1>11, <1>12 DEF FoundInv, Opening, Probing
  <1>14. HealthInv'
    BY <1>1 DEF ChoiceInv, HealthInv
  <1>15. SleepersAreLeft'
    BY <1>1, NobodyIsWoken
  <1>16. QED
    BY <1>1, <1>13, <1>14, <1>15, KeepsChoice

LEMMA VmlxIsSound ==
  ASSUME server \in Server, listing = server.listed, NEW id
  PROVE  Sound(ReadVmlx(id), server.listed, server) /\ Holds(ReadVmlx(id), server)
  <1> DEFINE l == server.listed
             models == <<Model(id, No, No, id)>>
             b == Merge(l, models, "vmlx", FALSE, FALSE)
             d == ReadVmlx(id)
  <1>1. l \in Seq(Ids)
    BY DEF Server
  <1>2. Indexed(models) /\ Sincere(models, "vmlx", server) /\ Current(models, "vmlx", server)
    BY OneIs
  <1>3. d = [b EXCEPT !.catalogue = {}]
    BY DEF ReadVmlx
  <1> HIDE DEF models
  <1>4. IsMerged(b, l, models, "vmlx", FALSE)
    BY <1>1, <1>2, MergeIs
  <1>5. Describes(b, l, server) /\ Holds(b, server)
    BY <1>1, <1>2, MergeDescribes, MergeHolds
  <1> HIDE DEF b, d
  <1>6. d.models = b.models /\ d.source = "vmlx" /\ d.loadedOnly = FALSE /\ d.catalogue = {} /\ b.source = "vmlx"
    BY <1>3, <1>4 DEF IsMerged, IsDescribed, Described
  <1>7. Describes(d, l, server) /\ Holds(d, server)
    BY <1>5, <1>6 DEF Describes, Holds
  <1>8. Publishes(d, server) /\ Confirms(d, server)
    BY <1>6 DEF Publishes, Confirms
  <1>9. Sound(d, l, server) /\ Holds(d, server)
    BY <1>7, <1>8 DEF Sound
  <1>10. QED
    BY <1>9 DEF d

LEMMA ProbeVmlxKeeps == ChoiceInv /\ stage = "choice" /\ ProbeVmlx /\ UNCHANGED stage => ChoiceInv'
  <1> SUFFICES ASSUME ChoiceInv, stage = "choice", ProbeVmlx, UNCHANGED stage PROVE ChoiceInv'
    OBVIOUS
  <1>1. /\ step = "vmlx" /\ UNCHANGED <<server, changes, ask, query, listing, choice, woken>>
        /\ reading' \in IF reading = Unread THEN {Health(server), Inconclusive} ELSE {reading}
        /\ \/ ProbesNative(reading') /\ step' = "native" /\ UNCHANGED found
           \/ step' = "choose" /\ found' = ReadVmlx(reading'.holds)
           \/ reading'.kind = "gateway" /\ reading'.holds # No /\ step' = "capabilities" /\ UNCHANGED found
           \/ step' = "choose" /\ found' = Unrecognised(listing)
    BY DEF ProbeVmlx, Finds
  <1>2. server \in Server /\ listing = server.listed
    BY <1>1 DEF ChoiceInv, FoundInv, Probing
  <1>3. reading = Inconclusive => reading' = Inconclusive
    BY <1>1 DEF Unread, Inconclusive
  <1>4. changes = 0 => reading' \in {Unread, Inconclusive, Health(server)}
    BY <1>1, ReadingIsOld
  <1>5. SleepersAreLeft'
    BY <1>1, <1>3, NobodyIsWoken
  <1>6. ASSUME step' = "choose" PROVE ChoiceInv'
    <2>1. Sound(found', listing, server) /\ Holds(found', server)
      BY <1>1, <1>2, <1>6, VmlxIsSound, UnrecognisedIsSound
    <2>2. FindsSoundly
      BY <1>1, <1>2, <1>6, <2>1 DEF FindsSoundly
    <2>3. QED
      BY <1>1, <1>3, <1>4, <1>5, <2>2, FindingKeeps DEF Probing
  <1>7. ASSUME step' \in {"native", "capabilities"} PROVE ChoiceInv'
    <2>1. FoundInv'
      BY <1>1, <1>2, <1>7 DEF FoundInv, Opening, Probing
    <2>2. step' = "native" => reading'.kind = "other"
      BY <1>1 DEF ProbesNative
    <2>3. step' = "capabilities" => reading'.kind = "gateway" /\ reading'.holds # No
      BY <1>1
    <2>4. HealthInv'
      <3>1. Unread.kind = "unread" /\ Inconclusive.kind = "inconclusive"
        BY DEF Unread, Inconclusive
      <3>2. changes = 0 => reading' = Health(server)
        BY <1>4, <1>7, <2>2, <2>3, <3>1
      <3>3. query = "kept" => (changes = 0 => reading' = Inconclusive \/ ~Sleeps(server))
        BY <1>1, <1>3 DEF ChoiceInv, HealthInv
      <3>4. query \in {"none", "kept", "dropped", "restored"}
        BY DEF ChoiceInv, HealthInv
      <3>5. QED
        BY <1>1, <1>7, <2>2, <2>3, <3>2, <3>3, <3>4 DEF HealthInv
    <2>5. QED
      BY <1>1, <1>5, <1>7, <2>1, <2>4, KeepsChoice DEF Probing
  <1>8. QED
    BY <1>1, <1>6, <1>7

(* What /health has said of a server that has held still tells that a probe  *)
(* wakes nobody.                                                             *)
LEMMA ProbeWakesNobody ==
  ASSUME ChoiceInv, stage = "choice", step \in {"capabilities", "native"}, NEW what, Routed(what),
         UNCHANGED <<changes, query, reading>>
  PROVE  SleepersAreLeft'
  <1>1. changes = 0 => ~Sleeps(server)
    BY HealthIs DEF ChoiceInv, HealthInv
  <1>2. changes = 0 => woken' = woken
    BY <1>1 DEF Routed
  <1>3. QED
    BY <1>2 DEF ChoiceInv, SleepersAreLeft

LEMMA ProbeKeeps == ChoiceInv /\ stage = "choice" /\ (AskCapabilities \/ ProbeNative) /\ UNCHANGED stage => ChoiceInv'
  <1> SUFFICES ASSUME ChoiceInv, stage = "choice", AskCapabilities \/ ProbeNative, UNCHANGED stage PROVE ChoiceInv'
    OBVIOUS
  <1> DEFINE l == server.listed
             c == server.catalogue
             omlx == Windowed(c, DOMAIN c)
  <1>1. /\ step \in {"capabilities", "native"} /\ step' = "choose"
        /\ Routed("capabilities") \/ Routed("native")
        /\ UNCHANGED <<server, changes, ask, query, reading, listing, choice>>
    BY DEF AskCapabilities, ProbeNative, Finds
  <1>2. server \in Server /\ listing = l /\ l \in Seq(Ids) /\ c \in Seq(Ids)
    BY <1>1 DEF ChoiceInv, FoundInv, Probing, Server
  <1>3. \/ found' = Unrecognised(l)
        \/ found' = ReadVmlx(FirstHeld(server))
        \/ server.kind = "lmstudio" /\ found' = Merge(l, ReadLmStudio(server), "lmstudio", FALSE, FALSE)
        \/ found' = Merge(l, <<>>, "llamacpp", TRUE, FALSE)
        \/ server.kind = "omlx" /\ found' = Merge(l, omlx, "omlx", FALSE, FALSE)
    BY <1>2 DEF AskCapabilities, ProbeNative, Finds
  <1>4. Sound(found', l, server) /\ Holds(found', server)
    <2>1. CASE found' = Unrecognised(l)
      BY <1>2, <2>1, UnrecognisedIsSound
    <2>2. CASE found' = ReadVmlx(FirstHeld(server))
      BY <1>2, <2>2, VmlxIsSound
    <2>3. CASE server.kind = "lmstudio" /\ found' = Merge(l, ReadLmStudio(server), "lmstudio", FALSE, FALSE)
      <3> DEFINE models == ReadLmStudio(server)
      <3>1. /\ Indexed(models) /\ Sincere(models, "lmstudio", server) /\ Current(models, "lmstudio", server)
            /\ Named(models) = ToSet(c)
        BY <1>2, LmStudioIs
      <3>2. server.kind \in Publishing /\ Own(server) \subseteq Named(models)
        BY <2>3, <3>1 DEF Publishing, Own
      <3> HIDE DEF models
      <3>3. Sound(found', l, server)
        BY <1>2, <2>3, <3>1, <3>2, MergeIsSound DEF models
      <3>4. Holds(found', server)
        BY <1>2, <2>3, <3>1, MergeHolds DEF models
      <3>5. QED
        BY <3>3, <3>4
    <2>4. CASE found' = Merge(l, <<>>, "llamacpp", TRUE, FALSE)
      <3>1. /\ Indexed(<<>>) /\ Sincere(<<>>, "llamacpp", server) /\ Current(<<>>, "llamacpp", server)
            /\ Named(<<>>) = {}
        BY DEF Indexed, Sincere, Current, Named
      <3>2. Sound(found', l, server)
        BY <1>2, <2>4, <3>1, MergeIsSound
      <3>3. Holds(found', server)
        BY <1>2, <2>4, <3>1, MergeHolds
      <3>4. QED
        BY <3>2, <3>3
    <2>5. CASE server.kind = "omlx" /\ found' = Merge(l, omlx, "omlx", FALSE, FALSE)
      <3>1. DOMAIN c \in SUBSET DOMAIN c /\ "omlx" \notin StateTellers
        BY DEF StateTellers
      <3>2. /\ Indexed(omlx) /\ Sincere(omlx, "omlx", server) /\ Current(omlx, "omlx", server)
            /\ Named(omlx) = {c[i] : i \in DOMAIN c}
        BY <1>2, <3>1, WindowedIs
      <3> HIDE DEF omlx
      <3>3. server.kind \in Publishing /\ Own(server) \subseteq Named(omlx)
        BY <2>5, <3>2 DEF Publishing, Own, ToSet
      <3>4. Sound(found', l, server)
        BY <1>2, <2>5, <3>2, <3>3, MergeIsSound
      <3>5. Holds(found', server)
        BY <1>2, <2>5, <3>2, MergeHolds
      <3>6. QED
        BY <3>4, <3>5
    <2>6. QED
      BY <1>3, <2>1, <2>2, <2>3, <2>4, <2>5
  <1>5. FindsSoundly
    BY <1>1, <1>2, <1>4 DEF FindsSoundly
  <1>6. SleepersAreLeft'
    BY <1>1, ProbeWakesNobody
  <1>7. QED
    BY <1>1, <1>5, <1>6, ReadingIsOld, FindingKeeps DEF Probing

LEMMA ChooseKeeps == ChoiceInv /\ stage = "choice" /\ Choose /\ UNCHANGED stage => ChoiceInv'
  <1> SUFFICES ASSUME ChoiceInv, stage = "choice", Choose, UNCHANGED stage PROVE ChoiceInv'
    OBVIOUS
  <1>1. /\ step = "choose" /\ step' = "chosen" /\ choice' = EffectiveWindow(ask, found)
        /\ UNCHANGED <<server, changes, ask, query, reading, listing, found, woken>>
    BY DEF Choose
  <1>2. HealthInv'
    BY <1>1 DEF ChoiceInv, HealthInv
  <1>3. FoundInv'
    BY <1>1 DEF ChoiceInv, FoundInv, Opening, Probing
  <1>4. DecidedInv'
    BY <1>1 DEF DecidedInv
  <1>5. SleepersAreLeft'
    BY <1>1, NobodyIsWoken
  <1>6. QED
    BY <1>1, <1>2, <1>3, <1>4, <1>5 DEF ChoiceInv

LEMMA ServerChangesKeeps == ChoiceInv /\ stage = "choice" /\ ServerChanges /\ UNCHANGED stage => ChoiceInv'
  <1> SUFFICES ASSUME ChoiceInv, stage = "choice", ServerChanges, UNCHANGED stage PROVE ChoiceInv'
    OBVIOUS
  <1>1. /\ changes' = changes + 1 /\ UNCHANGED <<ask, step, query, reading, listing, found, choice, woken>>
    BY DEF ServerChanges
  <1>2. PICK id \in ToSet(server.listed) \cup ToSet(server.catalogue) :
          server' = [server EXCEPT !.loaded = (@ \cup {id}) \ (@ \cap {id})]
    BY DEF ServerChanges
  <1>3. server \in Server /\ changes \in Nat
    BY DEF ChoiceInv
  <1>4. id \in Ids
    BY <1>2, <1>3 DEF ToSet, Server
  <1>5. /\ server' \in Server /\ server'.kind = server.kind /\ server'.listed = server.listed
        /\ server'.catalogue = server.catalogue /\ server'.embeds = server.embeds
    BY <1>2, <1>3, <1>4 DEF Server
  <1>6. changes' \in Nat /\ changes' # 0
    BY <1>1, <1>3
  <1>7. HealthInv'
    BY <1>1, <1>6 DEF ChoiceInv, HealthInv
  <1>8. Describes(found, listing, server) => Describes(found, listing, server')
    BY <1>5 DEF Describes
  <1>9. Publishes(found, server) => Publishes(found, server')
    BY <1>5 DEF Publishes, Own
  <1>10. Confirms(found, server) => Confirms(found, server')
    BY <1>5 DEF Confirms
  <1>11. FoundInv'
    BY <1>1, <1>5, <1>6, <1>8, <1>9, <1>10 DEF ChoiceInv, FoundInv
  <1>12. DecidedInv'
    BY <1>1 DEF ChoiceInv, DecidedInv
  <1>13. SleepersAreLeft'
    BY <1>6 DEF SleepersAreLeft
  <1>14. QED
    BY <1>1, <1>5, <1>6, <1>7, <1>11, <1>12, <1>13 DEF ChoiceInv

LEMMA ChoiceBegins == ChoiceIdle /\ BeginChoice /\ stage' = "choice" => ChoiceInv'
  <1> SUFFICES ASSUME ChoiceIdle, BeginChoice, stage' = "choice" PROVE ChoiceInv'
    OBVIOUS
  <1>1. /\ server' \in Server /\ changes' = 0 /\ found' = NoProvider /\ listing' = <<>>
        /\ reading' = Unread /\ woken' = {} /\ choice' = Undecided
        /\ step' \in Opening /\ (step' = "health" => query' = "kept") /\ (step' = "listing" => query' = "none")
    BY ServersAssumption DEF ChoiceIdle, BeginChoice, Server, Opening
  <1>2. HealthInv'
    BY <1>1 DEF HealthInv, Opening
  <1>3. FoundInv'
    BY <1>1, NothingFoundYet DEF FoundInv, Opening, Probing, Sound
  <1>4. DecidedInv' /\ SleepersAreLeft'
    BY <1>1 DEF DecidedInv, SleepersAreLeft, Opening
  <1>5. QED
    BY <1>1, <1>2, <1>3, <1>4 DEF ChoiceInv

LEMMA ChoiceInvStep == ChoiceInv /\ [Next]_vars => ChoiceInv'
  <1> SUFFICES ASSUME ChoiceInv, [Next]_vars PROVE ChoiceInv'
    OBVIOUS
  <1>1. CASE Choice
    BY <1>1, ChoiceBegins DEF Choice, ChoiceInv
  <1>2. CASE Describe
    BY <1>2, HealthFirstKeeps, ReadListingKeeps, ListingFailsKeeps, MtplxKeeps, CheckEmbeddingsKeeps, ProbeVmlxKeeps,
       ProbeKeeps, ChooseKeeps, ServerChangesKeeps, Zenon DEF Describe, ChoiceNext, runVars
  <1>3. CASE HasModel
    BY <1>3 DEF HasModel, EndChoice, ChoiceInv, ChoiceIdle
  <1>4. CASE UNCHANGED choiceVars /\ (stage' = "choice" <=> stage = "choice")
    <2>1. CASE stage = "choice"
      <3>1. stage' = "choice"
        BY <1>4, <2>1
      <3>2. /\ HealthInv' <=> HealthInv
            /\ FoundInv' <=> FoundInv
            /\ DecidedInv' <=> DecidedInv
            /\ SleepersAreLeft' <=> SleepersAreLeft
        BY <1>4 DEF choiceVars, HealthInv, FoundInv, DecidedInv, SleepersAreLeft
      <3>3. QED
        BY <1>4, <2>1, <3>1, <3>2 DEF ChoiceInv, choiceVars
    <2>2. CASE stage # "choice"
      BY <1>4, <2>2 DEF ChoiceInv, ChoiceIdle, choiceVars
    <2>3. QED
      BY <2>1, <2>2
  <1>5. \/ Choice \/ Describe \/ HasModel
        \/ UNCHANGED choiceVars /\ (stage' = "choice" <=> stage = "choice")
    <2>1. CASE ReviewNext
      <3>1. CASE Configure \/ Collect \/ Fit \/ Review
        BY <3>1, Zenon DEF Configure, Collect, Fit, Review, runVars
      <3>2. CASE Resolved \/ Target \/ HasTarget \/ Size \/ Ask
        BY <3>2 DEF Resolved, Target, HasTarget, Size, Ask
      <3>3. QED
        BY <2>1, <3>1, <3>2, Zenon DEF ReviewNext
    <2>2. CASE UNCHANGED reviewVars \/ UNCHANGED vars
      BY <2>2, Zenon DEF reviewVars, vars, runVars
    <2>3. QED
      BY <2>1, <2>2, Zenon DEF Next
  <1>6. QED
    BY <1>1, <1>2, <1>3, <1>4, <1>5

LEMMA ChoiceInvIsSound == ChoiceInv => DiscoveryIsSound
  <1> SUFFICES ASSUME ChoiceInv PROVE DiscoveryIsSound
    OBVIOUS
  <1>1. CASE choice = Undecided
    <2>1. woken = {} \/ stage = "choice"
      BY DEF ChoiceInv, ChoiceIdle
    <2>2. SleepersAreLeft
      BY <2>1 DEF ChoiceInv, SleepersAreLeft
    <2>3. choice.kind = "undecided"
      BY <1>1 DEF Undecided
    <2>4. QED
      BY <2>2, <2>3 DEF DiscoveryIsSound, ChoiceIsTrue, NamedIsKept
  <1>2. CASE choice # Undecided
    <2>1. stage = "choice" /\ step = "chosen" /\ server \in Server /\ SleepersAreLeft /\ FoundInv
      BY <1>2 DEF ChoiceInv, ChoiceIdle, DecidedInv
    <2>2. Sound(found, listing, server) /\ (changes = 0 => Holds(found, server))
      BY <2>1 DEF FoundInv, Sound, Opening, Probing
    <2>3. CASE choice = EffectiveWindow(ask, found)
      BY <2>1, <2>2, <2>3, KeptIfNamed, ChoosesTruly DEF DiscoveryIsSound
    <2>4. CASE choice = Unreachable /\ ask.named = No /\ ask.preset = No
      BY <2>1, <2>4 DEF DiscoveryIsSound, ChoiceIsTrue, NamedIsKept, Unreachable
    <2>5. QED
      BY <1>2, <2>1, <2>3, <2>4 DEF ChoiceInv, DecidedInv
  <1>3. QED
    BY <1>1, <1>2

(* Of any servers and models, whatever is loaded or unloaded meanwhile and   *)
(* whichever probes fail: no sleeping gateway is woken to look for a window, *)
(* a model that was named is refused only on the server's own word, and one  *)
(* that nobody named is the one the description bears out.  (model-info.mjs  *)
(* discoverModels, describeModels; model-selection.mjs planSelection)        *)
THEOREM DiscoveryIsAlwaysSound == Spec => []DiscoveryIsSound
  <1>1. Init => ChoiceInv
    BY DEF Init, ChoiceInv
  <1>2. ChoiceInv /\ [Next]_vars => ChoiceInv'
    BY ChoiceInvStep
  <1>3. ChoiceInv => DiscoveryIsSound
    BY ChoiceInvIsSound
  <1>4. QED
    BY <1>1, <1>2, <1>3, PTL DEF Spec

-----------------------------------------------------------------------------
(* What is made of a reply: the outcome is what the two channels come to,    *)
(* and neither changes once it is read.                                      *)
NotRead == [kind |-> "none"]

ReadInv ==
  /\ content \in Seq(Blocks) /\ reasoning \in Seq(Blocks) /\ structured \in BOOLEAN
  /\ \/ outcome = Pending
     \/ outcome = NotRead /\ content = <<>>
     \/ /\ ParseFindings.reading.kind = "findings"
        /\ outcome = [kind |-> "findings", channel |-> ParseFindings.channel,
                      kept |-> ParseFindings.reading.kept, dropped |-> ParseFindings.reading.dropped]
     \/ /\ ParseFindings.reading.kind # "findings"
        /\ outcome = UnparsedReply

LEMMA BlockIs ==
  ASSUME NEW b \in Blocks, b.kind \in {"json", "yaml"}
  PROVE  b.list \in Seq(Entries)
  BY ReadingAssumption DEF Prose, Stray, Code, EmptyList

(* Nothing in a list is usable just when none of its elements is.            *)
LEMMA UsableIs ==
  ASSUME NEW list \in Seq(Entries)
  PROVE  /\ Usable(list) \in Nat
         /\ Usable(list) = 0 <=> \A i \in DOMAIN list : list[i] \notin {"named", "message"}
  <1> DEFINE S == {i \in DOMAIN list : list[i] \in {"named", "message"}}
  <1>1. IsFiniteSet(1..Len(list)) /\ S \in SUBSET (1..Len(list))
    <2>1. Len(list) \in Int /\ 1 \in Int
      OBVIOUS
    <2>2. QED
      BY <2>1, FS_Interval
  <1>2. IsFiniteSet(S)
    BY <1>1, FS_Subset
  <1>3. Cardinality(S) \in Nat
    BY <1>2, FS_CardinalityType
  <1>4. Cardinality(S) = 0 <=> S = {}
    BY <1>2, FS_EmptySet
  <1>5. Usable(list) = Cardinality(S)
    BY DEF Usable
  <1>6. QED
    BY <1>3, <1>4, <1>5

(* The scanned candidate that is taken is the last one.                      *)
LEMMA LastCandidate ==
  ASSUME NEW t \in Seq(Blocks), Scanned(t) # {}
  PROVE  Max(Scanned(t)) \in Scanned(t) /\ \A i \in Scanned(t) : i <= Max(Scanned(t))
  <1>1. Len(t) \in Nat /\ Scanned(t) \in SUBSET (1..Len(t))
    BY DEF Scanned
  <1>2. QED
    BY <1>1, LastIsOne

(* A list with nothing in it is read only from a reply that is nothing else, *)
(* or that opens with it and offers nothing below.                           *)
LEMMA EmptyIsAll ==
  ASSUME NEW t \in Seq(Blocks), NEW c \in BOOLEAN,
         Found(t, c) # NoPayload, Found(t, c).list = <<>>
  PROVE  \A i \in DOMAIN t : ~Offers(t[i])
  <1>1. CASE Len(t) = 1 /\ t[1].list = <<>>
    <2>1. DOMAIN t = {1}
      BY <1>1
    <2>2. DOMAIN t[1].list = {}
      BY <1>1
    <2>3. QED
      BY <2>1, <2>2 DEF Offers
  <1>2. CASE Found(t, c) = FindingsInYaml(t)
    BY <1>1, <1>2 DEF FindingsInYaml, NoPayload
  <1>3. CASE Found(t, c) = ExtractJson(t)
    <2>1. CASE WholeIsJson(t)
      BY <1>1, <1>3, <2>1 DEF ExtractJson, WholeIsJson
    <2>2. CASE ~WholeIsJson(t)
      <3>1. Scanned(t) # {}
        BY <1>3, <2>2 DEF ExtractJson
      <3>2. Found(t, c) = Outermost(t[Max(Scanned(t))])
        BY <1>3, <2>2, <3>1 DEF ExtractJson
      <3>3. Inner.list # <<>>
        BY DEF Inner, Json
      <3>4. \A b : FindingsShaped(b.list, FALSE) => b.list # <<>>
        BY DEF FindingsShaped
      <3>5. QED
        BY <3>2, <3>3, <3>4 DEF Outermost
    <2>3. QED
      BY <2>1, <2>2
  <1>4. CASE Found(t, c) = EmptyFindingsDocument(t)
    <2>1. t # <<>> /\ t[1] = EmptyList /\ \A i \in 2 .. Len(t) : t[i].kind \in {"prose", "stray"}
      BY <1>4 DEF EmptyFindingsDocument
    <2>2. \A i \in DOMAIN t : t[i].kind \notin {"json", "yaml"}
      BY <2>1 DEF EmptyList
    <2>3. QED
      BY <2>2 DEF Offers
  <1>5. QED
    BY <1>2, <1>3, <1>4 DEF Found

(* The last list that names a finding is the one that is found.              *)
LEMMA LastNamedIsFound ==
  ASSUME NEW t \in Seq(Blocks), NEW c \in BOOLEAN, ~c, NEW i \in DOMAIN t,
         t[i].kind = "json", \E k \in DOMAIN t[i].list : t[i].list[k] = "named",
         ~InString(t, i), \A j \in DOMAIN t : j > i => ~Offers(t[j])
  PROVE  Found(t, c) = t[i] /\ t[i] # NoPayload
  <1>1. Len(t) = 1 => i = 1
    OBVIOUS
  <1>2. FindingsInYaml(t) = NoPayload
    BY <1>1 DEF FindingsInYaml, NoPayload
  <1>3. t[i] # NoPayload
    BY DEF NoPayload
  <1>4. FindingsShaped(t[i].list, FALSE)
    BY DEF FindingsShaped
  <1>5. i \in Scanned(t)
    BY <1>4 DEF Scanned, HasCandidate
  <1>6. Max(Scanned(t)) = i
    <2> DEFINE last == Max(Scanned(t))
    <2>1. last \in Scanned(t) /\ i <= last
      BY <1>5, LastCandidate
    <2>2. last \in DOMAIN t /\ t[last].kind = "json" /\ HasCandidate(t[last])
      BY <2>1 DEF Scanned
    <2>3. Offers(t[last])
      BY <2>2 DEF HasCandidate, FindingsShaped, Offers
    <2> HIDE DEF last
    <2>4. last \in Nat /\ i \in Nat
      BY <2>2
    <2>5. QED
      BY <2>1, <2>2, <2>3, <2>4 DEF last
  <1>7. ExtractJson(t) = t[i]
    BY <1>1, <1>4, <1>5, <1>6 DEF ExtractJson, WholeIsJson, Outermost
  <1>8. QED
    BY <1>2, <1>3, <1>7 DEF Found

LEMMA FoundIsFindings ==
  ASSUME NEW t, NEW c \in BOOLEAN, FindingsIn(t, c).kind = "findings"
  PROVE  /\ Found(t, c) # NoPayload
         /\ FindingsIn(t, c).kept = Usable(Found(t, c).list)
         /\ Found(t, c).list # <<>> => Usable(Found(t, c).list) # 0
  BY DEF FindingsIn, NoPayload, Unreadable

LEMMA ParsedIs ==
  ASSUME structured \in BOOLEAN
  PROVE  /\ ParseFindings.channel \in {"content", "reasoning"}
         /\ \E c \in BOOLEAN : ParseFindings.reading = FindingsIn(TextOf(ParseFindings.channel), c)
         /\ ~structured => ParseFindings = [reading |-> FindingsIn(content, structured), channel |-> "content"]
  <1>1. CASE structured = FALSE
    BY <1>1 DEF ParseFindings, TextOf
  <1>2. CASE structured = TRUE /\ FindingsIn(content, TRUE) = NoPayload
    BY <1>2 DEF ParseFindings, TextOf
  <1>3. CASE structured = TRUE /\ FindingsIn(content, TRUE) # NoPayload
    BY <1>3 DEF ParseFindings, TextOf
  <1>4. QED
    BY <1>1, <1>2, <1>3

LEMMA UnparsedKind == UnparsedReply.kind \in {"refused", "verbatim"}
  BY DEF UnparsedReply

LEMMA CleanReads == ReadInv => CleanIsTrue
  <1> SUFFICES ASSUME ReadInv, outcome.kind = "findings", outcome.kept = 0
               PROVE  \A i \in DOMAIN TextOf(outcome.channel) : ~Offers(TextOf(outcome.channel)[i])
    BY DEF CleanIsTrue
  <1>1. /\ ParseFindings.reading.kind = "findings"
        /\ outcome.channel = ParseFindings.channel /\ outcome.kept = ParseFindings.reading.kept
    BY UnparsedKind DEF ReadInv, Pending, NotRead
  <1>2. PICK c \in BOOLEAN : ParseFindings.reading = FindingsIn(TextOf(outcome.channel), c)
    BY <1>1, ParsedIs DEF ReadInv
  <1> DEFINE t == TextOf(outcome.channel)
  <1>3. t \in Seq(Blocks)
    BY DEF ReadInv, TextOf
  <1>4. Found(t, c) # NoPayload /\ Found(t, c).list = <<>>
    BY <1>1, <1>2, FoundIsFindings
  <1> HIDE DEF t
  <1>5. QED
    BY <1>3, <1>4, EmptyIsAll DEF t

LEMMA FindingsAreReported ==
  ASSUME ReadInv, outcome # Pending, content # <<>>, ParseFindings.reading.kind = "findings"
  PROVE  outcome = [kind |-> "findings", channel |-> ParseFindings.channel,
                    kept |-> ParseFindings.reading.kept, dropped |-> ParseFindings.reading.dropped]
  BY Zenon DEF ReadInv

LEMMA PayloadIsRead == ReadInv => PayloadWins
  <1> SUFFICES ASSUME ReadInv, NEW i \in DOMAIN content, outcome # Pending, ~structured,
                      content[i].kind = "json", \E k \in DOMAIN content[i].list : content[i].list[k] = "named",
                      ~InString(content, i), \A j \in DOMAIN content : j > i => ~Offers(content[j])
               PROVE  outcome = [kind |-> "findings", channel |-> "content", kept |-> Usable(content[i].list),
                                 dropped |-> Len(content[i].list) - Usable(content[i].list)]
    BY DEF PayloadWins
  <1>1. content \in Seq(Blocks) /\ content # <<>>
    BY DEF ReadInv
  <1>2. Found(content, structured) = content[i] /\ content[i] # NoPayload
    BY <1>1, LastNamedIsFound DEF ReadInv
  <1>3. content[i].list \in Seq(Entries)
    BY <1>1, BlockIs
  <1>4. Usable(content[i].list) # 0
    BY <1>3, UsableIs
  <1>5. FindingsIn(content, structured) =
          [kind |-> "findings", kept |-> Usable(content[i].list),
           dropped |-> Len(content[i].list) - Usable(content[i].list)]
    BY <1>2, <1>4 DEF FindingsIn
  <1>6. ParseFindings = [reading |-> FindingsIn(content, structured), channel |-> "content"]
    BY ParsedIs DEF ReadInv
  <1>7. /\ ParseFindings.reading.kind = "findings" /\ ParseFindings.channel = "content"
        /\ ParseFindings.reading.kept = Usable(content[i].list)
        /\ ParseFindings.reading.dropped = Len(content[i].list) - Usable(content[i].list)
    BY <1>5, <1>6
  <1>8. outcome = [kind |-> "findings", channel |-> ParseFindings.channel,
                   kept |-> ParseFindings.reading.kept, dropped |-> ParseFindings.reading.dropped]
    BY <1>1, <1>7, FindingsAreReported
  <1>9. QED
    BY <1>7, <1>8, Zenon

LEMMA EvidenceShows == ReadInv => EvidenceIsShown
  <1> SUFFICES ASSUME ReadInv, outcome.kind = "verbatim", NEW c \in {"content", "reasoning"},
                      c = "content" \/ structured, \E i \in DOMAIN TextOf(c) : Offers(TextOf(c)[i])
               PROVE  c \in outcome.shown
    BY DEF EvidenceIsShown
  <1>1. outcome = UnparsedReply
    BY DEF ReadInv, Pending, NotRead
  <1>2. TextOf(c) # <<>>
    OBVIOUS
  <1>3. QED
    BY <1>1, <1>2 DEF UnparsedReply, TextOf

LEMMA ReadInvStep == ReadInv /\ [Next]_vars => ReadInv'
  <1> SUFFICES ASSUME ReadInv, [Next]_vars PROVE ReadInv'
    OBVIOUS
  <1>1. CASE UNCHANGED readVars
    BY <1>1 DEF readVars, ReadInv, ParseFindings, UnparsedReply
  <1>2. CASE ReadNext
    <2>1. UNCHANGED <<content, reasoning, structured, cut>>
      BY <1>2 DEF ReadNext, Report, ShowVerbatim
    <2>2. ParseFindings' = ParseFindings /\ UnparsedReply' = UnparsedReply
      BY <2>1 DEF ParseFindings, UnparsedReply
    <2>3. CASE Report
      BY <2>1, <2>2, <2>3 DEF Report, ReadInv
    <2>4. CASE ShowVerbatim
      BY <2>1, <2>2, <2>4 DEF ShowVerbatim, ReadInv
    <2>5. QED
      BY <1>2, <2>3, <2>4 DEF ReadNext
  <1>3. QED
    BY <1>1, <1>2 DEF Next, vars

(* Whatever blocks a reply is made of, in whatever order and on either       *)
(* channel: a clean result is clean, the last list that names a finding is   *)
(* the one read, and what cannot be read is shown.  (json-scan.mjs           *)
(* extractJson, structured.mjs findingsIn, review-unparsed.mjs)              *)
THEOREM ReadingIsAlwaysTrue == Spec => []ReadingIsTrue
  <1>1. Init => ReadInv
    <2>1. NoReply => ReadInv
      <3>1. <<>> \in Seq(Blocks)
        OBVIOUS
      <3>2. NoReply => outcome = NotRead /\ content = <<>> /\ reasoning = <<>> /\ structured = FALSE
        BY DEF NoReply, NotRead
      <3>3. QED
        BY <3>1, <3>2 DEF ReadInv
    <2>2. ReadInit => ReadInv
      <3>1. \A t \in Texts : t \in Seq(Blocks)
        BY DEF Texts, BoundedSeq, SeqOf
      <3>2. \A t \in Drafts : t \in Seq(Blocks)
        BY ReadingAssumption
      <3>3. QED
        BY <3>1, <3>2 DEF ReadInit, ReadInv
    <2>3. QED
      BY <2>1, <2>2 DEF Init
  <1>2. ReadInv /\ [Next]_vars => ReadInv'
    BY ReadInvStep
  <1>3. ReadInv => ReadingIsTrue
    BY CleanReads, PayloadIsRead, EvidenceShows DEF ReadingIsTrue
  <1>4. QED
    BY <1>1, <1>2, <1>3, PTL DEF Spec

-----------------------------------------------------------------------------
(* A text in chunks.  The parser is a record whose buffer is a text; a run   *)
(* of it consumes one line at a time until there is none left.               *)
LEMMA Induction ==
  ASSUME NEW S \in SUBSET Nat, 0 \in S, \A n \in S : n + 1 \in S
  PROVE  \A n \in Nat : n \in S
  <1> SUFFICES ASSUME Nat \ S # {} PROVE FALSE
    OBVIOUS
  <1>1. PICK n \in Nat \ S : \A m \in Nat \ S : n <= m
    BY LeastNatural
  <1>2. n # 0 /\ n - 1 \in Nat /\ ~(n <= n - 1)
    BY <1>1
  <1>3. n - 1 \in S
    BY <1>1, <1>2
  <1>4. QED
    BY <1>1, <1>2, <1>3

IsReader(q) ==
  \E x \in Seq(Letters) : \E d, e : \E b \in BOOLEAN :
    q = [buffer |-> x, data |-> d, events |-> e, done |-> b]

(* Where a buffer's first line ends, if it does.                             *)
LEMMA FirstLineEnds ==
  ASSUME NEW b \in Seq(Letters)
  PROVE  \/ /\ Separator(b) = [at |-> 0, next |-> 0]
            /\ \A i \in 1 .. Len(b) : b[i] \in {CR, LF} => b[i] = CR /\ i = Len(b)
         \/ \E i \in 1 .. Len(b) :
              /\ b[i] \in {CR, LF} /\ \A j \in 1 .. Len(b) : b[j] \in {CR, LF} => i <= j
              /\ ~(b[i] = CR /\ i = Len(b))
              /\ Separator(b) = [at |-> i, next |-> IF b[i] = CR /\ b[i + 1] = LF THEN i + 2 ELSE i + 1]
  <1> DEFINE ends == {i \in 1 .. Len(b) : b[i] \in {CR, LF}}
  <1>1. CASE ends = {}
    BY <1>1 DEF Separator
  <1>2. CASE ends # {}
    <2>1. ends \in SUBSET Nat
      OBVIOUS
    <2>2. \E i \in ends : \A j \in ends : i <= j
      BY <1>2, <2>1, LeastNatural
    <2> DEFINE i == CHOOSE i \in ends : \A j \in ends : i <= j
    <2>3. i \in ends /\ \A j \in ends : i <= j
      BY <2>2
    <2>4. Separator(b) =
            IF b[i] = CR /\ i = Len(b) THEN [at |-> 0, next |-> 0]
            ELSE [at |-> i, next |-> IF b[i] = CR /\ b[i + 1] = LF THEN i + 2 ELSE i + 1]
      BY <1>2, Zenon DEF Separator
    <2> HIDE DEF i
    <2>5. \A j \in ends : j \in Nat /\ j <= Len(b)
      OBVIOUS
    <2>6. CASE b[i] = CR /\ i = Len(b)
      <3>1. \A j \in ends : j = i
        BY <2>3, <2>5, <2>6
      <3>2. QED
        BY <2>4, <2>6, <3>1
    <2>7. CASE ~(b[i] = CR /\ i = Len(b))
      <3>1. Separator(b) = [at |-> i, next |-> IF b[i] = CR /\ b[i + 1] = LF THEN i + 2 ELSE i + 1]
        BY <2>4, <2>7, Zenon
      <3>2. QED
        BY <2>3, <2>7, <3>1
    <2>8. QED
      BY <2>6, <2>7
  <1>3. QED
    BY <1>1, <1>2

(* A line that has ended stays where it is when more arrives.                *)
LEMMA LineStays ==
  ASSUME NEW b \in Seq(Letters), NEW t \in Seq(Letters), Separator(b).at # 0
  PROVE  /\ Separator(b \o t) = Separator(b)
         /\ Separator(b).at \in 1 .. Len(b) /\ Separator(b).next \in 2 .. Len(b) + 1
         /\ Separator(b).at < Separator(b).next
  <1>1. PICK i \in 1 .. Len(b) :
           /\ b[i] \in {CR, LF} /\ \A j \in 1 .. Len(b) : b[j] \in {CR, LF} => i <= j
           /\ ~(b[i] = CR /\ i = Len(b))
           /\ Separator(b) = [at |-> i, next |-> IF b[i] = CR /\ b[i + 1] = LF THEN i + 2 ELSE i + 1]
    BY FirstLineEnds
  <1> DEFINE c == b \o t
  <1>2. c \in Seq(Letters) /\ Len(b) \in Nat /\ Len(t) \in Nat /\ Len(c) = Len(b) + Len(t)
    OBVIOUS
  <1>3. \A j \in 1 .. Len(b) : c[j] = b[j]
    OBVIOUS
  <1> HIDE DEF c
  <1>4. i \in 1 .. Len(c) /\ c[i] = b[i] /\ ~(c[i] = CR /\ i = Len(c))
    BY <1>1, <1>2, <1>3
  <1>5. PICK k \in 1 .. Len(c) :
           /\ c[k] \in {CR, LF} /\ \A j \in 1 .. Len(c) : c[j] \in {CR, LF} => k <= j
           /\ Separator(c) = [at |-> k, next |-> IF c[k] = CR /\ c[k + 1] = LF THEN k + 2 ELSE k + 1]
    <2>1. ~(\A j \in 1 .. Len(c) : c[j] \in {CR, LF} => c[j] = CR /\ j = Len(c))
      BY <1>1, <1>4
    <2>2. QED
      BY <1>2, <2>1, FirstLineEnds
  <1>6. k = i
    <2>1. k <= i
      BY <1>1, <1>4, <1>5
    <2>2. k \in 1 .. Len(b)
      BY <1>2, <2>1
    <2>3. i <= k
      BY <1>1, <1>3, <1>5, <2>2
    <2>4. QED
      BY <2>1, <2>3
  <1>7. b[i] = CR => i + 1 \in 1 .. Len(b) /\ c[i + 1] = b[i + 1]
    BY <1>1, <1>2, <1>3
  <1>8. Separator(c) = Separator(b)
    BY <1>1, <1>4, <1>5, <1>6, <1>7
  <1>9. QED
    BY <1>1, <1>2, <1>8 DEF c

(* What a line makes of everything but the buffer.                           *)
State(d, e, b) == [data |-> d, events |-> e, done |-> b]
With(x, m) == [buffer |-> x, data |-> m.data, events |-> m.events, done |-> m.done]

Dispatched(d, e, b) ==
  IF d = <<>> THEN State(d, e, b)
  ELSE IF Joined(d) = <<DONE>> THEN State(<<>>, e, TRUE)
  ELSE IF Joined(d) = <<>> THEN State(<<>>, e, b)
  ELSE State(<<>>, Append(e, Joined(d)), b)

Lined(raw, d, e, b) ==
  IF raw = <<>> THEN Dispatched(d, e, b)
  ELSE IF IsData(raw) THEN State(Append(d, DataValue(raw)), e, b)
  ELSE State(d, e, b)

LEMMA LinedDone ==
  ASSUME NEW raw, NEW d, NEW e, NEW b \in BOOLEAN
  PROVE  Lined(raw, d, e, b).done \in BOOLEAN
  BY DEF Lined, Dispatched, State

LEMMA Updated ==
  ASSUME NEW x, NEW d, NEW e, NEW b, NEW p, p = [buffer |-> x, data |-> d, events |-> e, done |-> b], NEW v
  PROVE  /\ [p EXCEPT !.buffer = v] = [buffer |-> v, data |-> d, events |-> e, done |-> b]
         /\ [p EXCEPT !.data = v] = [buffer |-> x, data |-> v, events |-> e, done |-> b]
         /\ [p EXCEPT !.events = v] = [buffer |-> x, data |-> d, events |-> v, done |-> b]
         /\ [p EXCEPT !.done = v] = [buffer |-> x, data |-> d, events |-> e, done |-> v]
  OBVIOUS

LEMMA TakenMore ==
  ASSUME NEW x, NEW e, NEW b, NEW r, r = [buffer |-> x, data |-> <<>>, events |-> e, done |-> b], NEW v
  PROVE  [r EXCEPT !.events = Append(r.events, v)] = [buffer |-> x, data |-> <<>>, events |-> Append(e, v), done |-> b]
  <1>1. r.events = e
    OBVIOUS
  <1>2. \A w : [r EXCEPT !.events = w] = [buffer |-> x, data |-> <<>>, events |-> w, done |-> b]
    BY Updated
  <1>3. QED
    BY <1>1, <1>2, Zenon

LEMMA TakenDone ==
  ASSUME NEW x, NEW e, NEW b, NEW r, r = [buffer |-> x, data |-> <<>>, events |-> e, done |-> b]
  PROVE  [r EXCEPT !.done = TRUE] = [buffer |-> x, data |-> <<>>, events |-> e, done |-> TRUE]
  <1>1. \A w : [r EXCEPT !.done = w] = [buffer |-> x, data |-> <<>>, events |-> e, done |-> w]
    BY Updated
  <1>2. QED
    BY <1>1, Zenon

LEMMA DispatchIs ==
  ASSUME NEW x, NEW d, NEW e, NEW b, NEW p, p = [buffer |-> x, data |-> d, events |-> e, done |-> b]
  PROVE  Dispatch(p) = With(x, Dispatched(d, e, b))
  <1>1. p.data = d /\ p.events = e /\ p.done = b /\ p.buffer = x
    OBVIOUS
  <1> DEFINE taken == [p EXCEPT !.data = <<>>]
  <1>2. taken = [buffer |-> x, data |-> <<>>, events |-> e, done |-> b]
    BY Updated
  <1> HIDE DEF taken
  <1>3. [taken EXCEPT !.done = TRUE] = [buffer |-> x, data |-> <<>>, events |-> e, done |-> TRUE]
    BY <1>2, TakenDone
  <1>4. [taken EXCEPT !.events = Append(taken.events, Joined(d))]
          = [buffer |-> x, data |-> <<>>, events |-> Append(e, Joined(d)), done |-> b]
    BY <1>2, TakenMore
  <1>5. Dispatch(p) = IF d = <<>> THEN p
                      ELSE IF Joined(d) = <<DONE>> THEN [taken EXCEPT !.done = TRUE]
                      ELSE IF Joined(d) = <<>> THEN taken
                      ELSE [taken EXCEPT !.events = Append(taken.events, Joined(d))]
    BY <1>1, Zenon DEF Dispatch, taken
  <1>6. QED
    BY <1>2, <1>3, <1>4, <1>5 DEF Dispatched, With, State

LEMMA LineIs ==
  ASSUME NEW x, NEW d, NEW e, NEW b, NEW p, p = [buffer |-> x, data |-> d, events |-> e, done |-> b], NEW raw
  PROVE  Line(p, raw) = With(x, Lined(raw, d, e, b))
  <1>1. CASE raw = <<>>
    <2>1. Line(p, raw) = Dispatch(p) /\ Lined(raw, d, e, b) = Dispatched(d, e, b)
      BY <1>1 DEF Line, Lined
    <2>2. QED
      BY <2>1, DispatchIs
  <1>2. CASE raw # <<>> /\ ~IsData(raw)
    BY <1>2 DEF Line, Lined, With, State
  <1>3. CASE raw # <<>> /\ IsData(raw)
    <2>1. [p EXCEPT !.data = Append(@, DataValue(raw))]
            = [buffer |-> x, data |-> Append(d, DataValue(raw)), events |-> e, done |-> b]
      OBVIOUS
    <2>2. QED
      BY <1>3, <2>1 DEF Line, Lined, With, State
  <1>4. QED
    BY <1>1, <1>2, <1>3

LEMMA FedWith ==
  ASSUME NEW x, NEW m, NEW t
  PROVE  Fed(With(x, m), t) = With(x \o t, m)
  <1>1. With(x, m).buffer = x
    BY DEF With
  <1>2. \A v : [With(x, m) EXCEPT !.buffer = v] = With(v, m)
    BY DEF With
  <1>3. QED
    BY <1>1, <1>2, Zenon DEF Fed

(* One line consumed: what is left of the buffer is shorter, and what comes  *)
(* later neither changes the line nor, before [DONE], gets lost.             *)
Rest(x) == SubSeq(x, Separator(x).next, Len(x))
Taking(x, d, e, b) == Lined(SubSeq(x, 1, Separator(x).at - 1), d, e, b)

LEMMA StuckIs ==
  ASSUME NEW x, NEW d, NEW e, NEW b, NEW q, q = [buffer |-> x, data |-> d, events |-> e, done |-> b]
  PROVE  Stuck(q) <=> b \/ Separator(x).at = 0
  <1>1. q.buffer = x /\ q.done = b
    OBVIOUS
  <1>2. QED
    BY <1>1, Zenon DEF Stuck

LEMMA ConsumeIs ==
  ASSUME NEW x, NEW d, NEW e, NEW b \in BOOLEAN,
         NEW q, q = [buffer |-> x, data |-> d, events |-> e, done |-> b]
  PROVE  Consume(q) = With(IF Taking(x, d, e, b).done THEN <<>> ELSE Rest(x), Taking(x, d, e, b))
  <1> DEFINE raw == SubSeq(x, 1, Separator(x).at - 1)
             m == Taking(x, d, e, b)
  <1>1. q.buffer = x
    OBVIOUS
  <1>2. Line(q, raw) = With(x, m)
    BY LineIs DEF Taking
  <1>3. Consume(q) = [Line(q, raw) EXCEPT !.buffer = IF Line(q, raw).done THEN <<>> ELSE Rest(x)]
    BY <1>1, Zenon DEF Consume, Rest
  <1> HIDE DEF m, raw
  <1>4. Line(q, raw).done = m.done
    BY <1>2 DEF With
  <1>5. \A v : [Line(q, raw) EXCEPT !.buffer = v] = With(v, m)
    <2>1. ASSUME NEW v, NEW l, l = With(x, m) PROVE [l EXCEPT !.buffer = v] = With(v, m)
      <3>1. l = [buffer |-> x, data |-> m.data, events |-> m.events, done |-> m.done]
        BY <2>1 DEF With
      <3>2. [l EXCEPT !.buffer = v] = [buffer |-> v, data |-> m.data, events |-> m.events, done |-> m.done]
        BY <3>1
      <3>3. QED
        BY <3>2, Zenon DEF With
    <2>2. QED
      BY <1>2, <2>1, Zenon
  <1>6. Consume(q) = With(IF m.done THEN <<>> ELSE Rest(x), m)
    BY <1>3, <1>4, <1>5, Zenon
  <1>7. QED
    BY <1>6 DEF m

LEMMA RestIs ==
  ASSUME NEW x \in Seq(Letters), Separator(x).at # 0
  PROVE  Rest(x) \in Seq(Letters) /\ Len(Rest(x)) < Len(x)
  <1>1. x \o <<>> = x /\ <<>> \in Seq(Letters) /\ Len(x) \in Nat
    OBVIOUS
  <1>2. Separator(x).next \in 2 .. Len(x) + 1
    BY <1>1, LineStays
  <1> DEFINE n == Separator(x).next
  <1>3. Rest(x) = SubSeq(x, n, Len(x))
    BY DEF Rest
  <1> HIDE DEF n
  <1>4. n \in 2 .. Len(x) + 1
    BY <1>2 DEF n
  <1>5. SubSeq(x, n, Len(x)) \in Seq(Letters) /\ Len(SubSeq(x, n, Len(x))) = Len(x) - n + 1
    BY <1>1, <1>4
  <1>6. QED
    BY <1>1, <1>3, <1>4, <1>5

LEMMA RestStays ==
  ASSUME NEW x \in Seq(Letters), NEW t \in Seq(Letters), Separator(x).at # 0, NEW d, NEW e, NEW b
  PROVE  Rest(x \o t) = Rest(x) \o t /\ Taking(x \o t, d, e, b) = Taking(x, d, e, b)
  <1> DEFINE i == Separator(x).at
             n == Separator(x).next
  <1>1. Separator(x \o t) = Separator(x) /\ i \in 1 .. Len(x) /\ n \in 2 .. Len(x) + 1
    BY LineStays
  <1>2. Rest(x) = SubSeq(x, n, Len(x)) /\ Rest(x \o t) = SubSeq(x \o t, n, Len(x \o t))
    BY <1>1 DEF Rest
  <1>3. /\ Taking(x, d, e, b) = Lined(SubSeq(x, 1, i - 1), d, e, b)
        /\ Taking(x \o t, d, e, b) = Lined(SubSeq(x \o t, 1, i - 1), d, e, b)
    BY <1>1, Zenon DEF Taking
  <1> HIDE DEF i, n
  <1>4. SubSeq(x \o t, 1, i - 1) = SubSeq(x, 1, i - 1)
    BY <1>1
  <1>5. SubSeq(x \o t, n, Len(x \o t)) = SubSeq(x, n, Len(x)) \o t
    BY <1>1
  <1>6. QED
    BY <1>2, <1>3, <1>4, <1>5
LEMMA ConsumeReads ==
  ASSUME NEW q, IsReader(q), ~Stuck(q)
  PROVE  /\ IsReader(Consume(q)) /\ Len(Consume(q).buffer) < Len(q.buffer)
         /\ Consume(q).done \in BOOLEAN
  <1>1. PICK x \in Seq(Letters) : \E d, e : \E b \in BOOLEAN :
           q = [buffer |-> x, data |-> d, events |-> e, done |-> b]
    BY DEF IsReader
  <1>2. PICK d, e : \E b \in BOOLEAN : q = [buffer |-> x, data |-> d, events |-> e, done |-> b]
    BY <1>1
  <1>3. PICK b \in BOOLEAN : q = [buffer |-> x, data |-> d, events |-> e, done |-> b]
    BY <1>2
  <1>4. Separator(x).at # 0 /\ ~b
    BY <1>3, StuckIs
  <1> DEFINE m == Taking(x, d, e, b)
             rest == IF m.done THEN <<>> ELSE Rest(x)
  <1>5. Consume(q) = With(rest, m)
    BY <1>3, ConsumeIs
  <1>6. m.done \in BOOLEAN
    BY LinedDone DEF Taking
  <1>7. rest \in Seq(Letters) /\ Len(rest) < Len(x)
    <2>1. Rest(x) \in Seq(Letters) /\ Len(Rest(x)) < Len(x) /\ Len(x) \in Nat
      BY <1>4, RestIs
    <2>2. Len(Rest(x)) \in Nat /\ <<>> \in Seq(Letters) /\ Len(<<>>) = 0
      BY <2>1
    <2> HIDE DEF m
    <2>3. QED
      BY <2>1, <2>2
  <1> HIDE DEF m, rest
  <1>8. Consume(q) = [buffer |-> rest, data |-> m.data, events |-> m.events, done |-> m.done]
    BY <1>5 DEF With
  <1>9. Consume(q).buffer = rest /\ Consume(q).done = m.done /\ q.buffer = x
    BY <1>3, <1>8
  <1>10. IsReader(Consume(q))
    BY <1>6, <1>7, <1>8 DEF IsReader
  <1>11. QED
    BY <1>6, <1>7, <1>9, <1>10

LEMMA FedReads ==
  ASSUME NEW q, IsReader(q), NEW t \in Seq(Letters)
  PROVE  IsReader(Fed(q, t)) /\ Fed(q, t).done = q.done /\ Fed(q, t).buffer = q.buffer \o t
  <1>1. PICK x \in Seq(Letters) : \E d, e : \E b \in BOOLEAN :
           q = [buffer |-> x, data |-> d, events |-> e, done |-> b]
    BY DEF IsReader
  <1>2. PICK d, e : \E b \in BOOLEAN : q = [buffer |-> x, data |-> d, events |-> e, done |-> b]
    BY <1>1
  <1>3. PICK b \in BOOLEAN : q = [buffer |-> x, data |-> d, events |-> e, done |-> b]
    BY <1>2
  <1>4. Fed(q, t) = [buffer |-> x \o t, data |-> d, events |-> e, done |-> b]
    <2>1. q = With(x, State(d, e, b))
      BY <1>3 DEF With, State
    <2>2. Fed(q, t) = With(x \o t, State(d, e, b))
      BY <2>1, FedWith, Zenon
    <2>3. QED
      BY <2>2 DEF With, State
  <1>5. x \o t \in Seq(Letters)
    OBVIOUS
  <1>6. IsReader(Fed(q, t))
    BY <1>4, <1>5 DEF IsReader
  <1>7. QED
    BY <1>3, <1>4, <1>6

LEMMA ConsumeStays ==
  ASSUME NEW q, IsReader(q), ~Stuck(q), NEW t \in Seq(Letters)
  PROVE  /\ ~Stuck(Fed(q, t))
         /\ Consume(q).done => Consume(Fed(q, t)) = Consume(q)
         /\ ~Consume(q).done => Consume(Fed(q, t)) = Fed(Consume(q), t)
  <1>1. PICK x \in Seq(Letters) : \E d, e : \E b \in BOOLEAN :
           q = [buffer |-> x, data |-> d, events |-> e, done |-> b]
    BY DEF IsReader
  <1>2. PICK d, e : \E b \in BOOLEAN : q = [buffer |-> x, data |-> d, events |-> e, done |-> b]
    BY <1>1
  <1>3. PICK b \in BOOLEAN : q = [buffer |-> x, data |-> d, events |-> e, done |-> b]
    BY <1>2
  <1>4. Separator(x).at # 0 /\ ~b
    BY <1>3, StuckIs
  <1>5. Fed(q, t) = [buffer |-> x \o t, data |-> d, events |-> e, done |-> b]
    <2>1. q = With(x, State(d, e, b))
      BY <1>3 DEF With, State
    <2>2. Fed(q, t) = With(x \o t, State(d, e, b))
      BY <2>1, FedWith, Zenon
    <2>3. QED
      BY <2>2 DEF With, State
  <1>6. Separator(x \o t) = Separator(x)
    BY <1>4, LineStays
  <1>7. ~Stuck(Fed(q, t))
    BY <1>4, <1>5, <1>6, StuckIs
  <1> DEFINE m == Taking(x, d, e, b)
  <1>8. Rest(x \o t) = Rest(x) \o t /\ Taking(x \o t, d, e, b) = m
    <2>1. ASSUME NEW c PROVE Rest(x \o t) = Rest(x) \o t /\ Taking(x \o t, d, e, c) = Taking(x, d, e, c)
      BY <1>4, RestStays
    <2>2. QED
      BY <2>1
  <1>9. Consume(q) = With(IF m.done THEN <<>> ELSE Rest(x), m)
    BY <1>3, ConsumeIs
  <1>10. Consume(Fed(q, t)) = With(IF m.done THEN <<>> ELSE Rest(x) \o t, m)
    <2>1. Consume(Fed(q, t)) = With(IF Taking(x \o t, d, e, b).done THEN <<>> ELSE Rest(x \o t), Taking(x \o t, d, e, b))
      BY <1>5, ConsumeIs, Zenon
    <2> HIDE DEF m
    <2>2. QED
      BY <1>8, <2>1, Zenon
  <1>11. m.done \in BOOLEAN /\ Rest(x) \in Seq(Letters)
    BY <1>4, RestIs, LinedDone DEF Taking
  <1> HIDE DEF m
  <1>12. Consume(q).done = m.done
    BY <1>9 DEF With
  <1>13. CASE m.done
    BY <1>7, <1>9, <1>10, <1>12, <1>13
  <1>14. CASE ~m.done
    <2>1. Consume(q) = With(Rest(x), m)
      BY <1>9, <1>14
    <2>2. Fed(Consume(q), t) = With(Rest(x) \o t, m)
      BY <2>1, FedWith, Zenon
    <2>3. Consume(Fed(q, t)) = With(Rest(x) \o t, m)
      BY <1>10, <1>14
    <2>4. QED
      BY <1>7, <1>12, <1>14, <2>2, <2>3
  <1>15. QED
    BY <1>11, <1>13, <1>14

(* A run of the parser, from p to q, over n lines.                           *)
Run(f, n, p, q) ==
  /\ f[0] = p /\ f[n] = q
  /\ \A k \in Nat : k < n => ~Stuck(f[k]) /\ f[k + 1] = Consume(f[k])

LEMMA RunReads ==
  ASSUME NEW f, NEW n \in Nat, NEW p, NEW q, Run(f, n, p, q), IsReader(p)
  PROVE  \A k \in Nat : k <= n => IsReader(f[k])
  <1> DEFINE S == {k \in Nat : k <= n => IsReader(f[k])}
  <1>1. 0 \in S
    BY DEF Run
  <1>2. ASSUME NEW k \in S PROVE k + 1 \in S
    <2>1. k \in Nat /\ k + 1 \in Nat
      OBVIOUS
    <2>2. SUFFICES ASSUME k + 1 <= n PROVE IsReader(f[k + 1])
      BY <2>1
    <2>3. k < n /\ k <= n
      BY <2>1, <2>2
    <2>4. ~Stuck(f[k]) /\ f[k + 1] = Consume(f[k]) /\ IsReader(f[k])
      BY <1>2, <2>1, <2>3 DEF Run
    <2>5. QED
      BY <2>4, ConsumeReads
  <1>3. S \in SUBSET Nat
    OBVIOUS
  <1> HIDE DEF S
  <1>4. \A k \in Nat : k \in S
    BY <1>1, <1>2, <1>3, Induction
  <1>5. QED
    BY <1>4 DEF S

(* Two runs to the end are one.                                              *)
LEMMA RunsAgree ==
  ASSUME NEW f, NEW n \in Nat, NEW g, NEW m \in Nat, NEW p, NEW q, NEW r,
         Run(f, n, p, q), Stuck(q), Run(g, m, p, r), Stuck(r)
  PROVE  q = r
  <1> DEFINE S == {k \in Nat : k <= n /\ k <= m => f[k] = g[k]}
  <1>1. 0 \in S
    BY DEF Run
  <1>2. ASSUME NEW k \in S PROVE k + 1 \in S
    <2>1. k \in Nat /\ k + 1 \in Nat
      OBVIOUS
    <2>2. SUFFICES ASSUME k + 1 <= n, k + 1 <= m PROVE f[k + 1] = g[k + 1]
      BY <2>1
    <2>3. k < n /\ k < m /\ f[k] = g[k]
      BY <1>2, <2>1, <2>2
    <2>4. QED
      BY <2>1, <2>3 DEF Run
  <1>3. S \in SUBSET Nat
    OBVIOUS
  <1> HIDE DEF S
  <1>4. \A k \in Nat : k \in S
    BY <1>1, <1>2, <1>3, Induction
  <1>5. CASE n < m
    <2>1. f[n] = g[n]
      BY <1>4, <1>5 DEF S
    <2>2. QED
      BY <1>5, <2>1 DEF Run
  <1>6. CASE m < n
    <2>1. f[m] = g[m]
      BY <1>4, <1>6 DEF S
    <2>2. QED
      BY <1>6, <2>1 DEF Run
  <1>7. CASE n = m
    BY <1>4, <1>7 DEF S, Run
  <1>8. QED
    BY <1>5, <1>6, <1>7

(* One run after another.                                                    *)
LEMMA RunsJoin ==
  ASSUME NEW f, NEW n \in Nat, NEW g, NEW m \in Nat, NEW p, NEW q, NEW r,
         Run(f, n, p, q), Run(g, m, q, r)
  PROVE  \E h : Run(h, n + m, p, r)
  <1> DEFINE h == [k \in Nat |-> IF k <= n THEN f[k] ELSE g[k - n]]
  <1>1. h[0] = p
    BY DEF Run
  <1>2. \A k \in Nat : k >= n => h[k] = g[k - n]
    BY DEF Run
  <1>3. h[n + m] = r
    <2>1. n + m \in Nat /\ n + m >= n /\ n + m - n = m
      OBVIOUS
    <2> HIDE DEF h
    <2>2. QED
      BY <1>2, <2>1 DEF Run
  <1>4. ASSUME NEW k \in Nat, k < n + m PROVE ~Stuck(h[k]) /\ h[k + 1] = Consume(h[k])
    <2>1. CASE k < n
      <3>1. h[k] = f[k] /\ h[k + 1] = f[k + 1]
        BY <2>1
      <3>2. QED
        BY <2>1, <3>1 DEF Run
    <2>2. CASE k >= n
      <3>1. k - n \in Nat /\ k - n < m /\ k + 1 >= n /\ k + 1 \in Nat /\ k + 1 - n = (k - n) + 1
        BY <1>4, <2>2
      <3>2. h[k] = g[k - n] /\ h[k + 1] = g[(k - n) + 1]
        <4> HIDE DEF h
        <4>1. QED
          BY <1>2, <2>2, <3>1
      <3> HIDE DEF h
      <3>3. QED
        BY <3>1, <3>2 DEF Run
    <2>3. QED
      BY <2>1, <2>2
  <1> HIDE DEF h
  <1>5. Run(h, n + m, p, r)
    BY <1>1, <1>3, <1>4 DEF Run
  <1>6. QED
    BY <1>5

(* With more behind it the parser does what it did, and stands where it      *)
(* stood; if it had read [DONE] it has read it, and drops the rest.          *)
LEMMA RunStays ==
  ASSUME NEW f, NEW n \in Nat, NEW p, NEW q, Run(f, n, p, q), IsReader(p), ~p.done, NEW t \in Seq(Letters)
  PROVE  \E g : Run(g, n, Fed(p, t), IF q.done THEN q ELSE Fed(q, t))
  <1> DEFINE g == [k \in Nat |-> IF f[k].done THEN f[k] ELSE Fed(f[k], t)]
  <1>1. g[0] = Fed(p, t) /\ g[n] = IF q.done THEN q ELSE Fed(q, t)
    BY DEF Run
  <1>2. ASSUME NEW k \in Nat, k < n PROVE ~Stuck(g[k]) /\ g[k + 1] = Consume(g[k])
    <2>1. ~Stuck(f[k]) /\ f[k + 1] = Consume(f[k])
      BY <1>2 DEF Run
    <2>2. IsReader(f[k])
      BY <1>2, RunReads
    <2>3. ~f[k].done
      BY <2>1 DEF Stuck
    <2>4. g[k] = Fed(f[k], t) /\ g[k + 1] = IF f[k + 1].done THEN f[k + 1] ELSE Fed(f[k + 1], t)
      BY <2>3
    <2> HIDE DEF g
    <2>5. /\ ~Stuck(Fed(f[k], t))
          /\ Consume(f[k]).done => Consume(Fed(f[k], t)) = Consume(f[k])
          /\ ~Consume(f[k]).done => Consume(Fed(f[k], t)) = Fed(Consume(f[k]), t)
      BY <2>1, <2>2, ConsumeStays
    <2>6. QED
      BY <2>1, <2>4, <2>5
  <1> HIDE DEF g
  <1>3. Run(g, n, Fed(p, t), IF q.done THEN q ELSE Fed(q, t))
    BY <1>1, <1>2 DEF Run
  <1>4. QED
    BY <1>3

(* What `Scan` computes is the end of such a run.                            *)
Advanced(q) == IF Stuck(q) THEN q ELSE Consume(q)
Steps(s, n, p) == s = [k \in 0 .. n |-> IF k = 0 THEN p ELSE Advanced(s[k - 1])]

LEMMA StepsExist ==
  ASSUME NEW p, NEW n \in Nat
  PROVE  \E s : Steps(s, n, p)
  <1> DEFINE S == {m \in Nat : \E s : Steps(s, m, p)}
  <1>1. 0 \in S
    <2> DEFINE s == [k \in 0 .. 0 |-> p]
    <2>1. s = [k \in 0 .. 0 |-> IF k = 0 THEN p ELSE Advanced(s[k - 1])]
      OBVIOUS
    <2> HIDE DEF s
    <2>2. Steps(s, 0, p)
      BY <2>1 DEF Steps
    <2>3. QED
      BY <2>2
  <1>2. ASSUME NEW m \in S PROVE m + 1 \in S
    <2>1. PICK s : Steps(s, m, p)
      OBVIOUS
    <2>2. m \in Nat /\ m + 1 \in Nat
      OBVIOUS
    <2> DEFINE t == [k \in 0 .. m + 1 |-> IF k <= m THEN s[k] ELSE Advanced(s[m])]
    <2>3. \A k \in 0 .. m : s[k] = IF k = 0 THEN p ELSE Advanced(s[k - 1])
      BY <2>1, Zenon DEF Steps
    <2>4. ASSUME NEW k \in 0 .. m + 1 PROVE t[k] = IF k = 0 THEN p ELSE Advanced(t[k - 1])
      <3>1. CASE k = 0
        BY <2>2, <2>3, <3>1
      <3>2. CASE k # 0 /\ k <= m
        <4>1. k \in 0 .. m /\ k - 1 \in 0 .. m + 1 /\ k - 1 <= m
          BY <2>2, <3>2
        <4>2. t[k] = s[k] /\ t[k - 1] = s[k - 1]
          BY <3>2, <4>1
        <4> HIDE DEF t
        <4>3. QED
          BY <2>3, <3>2, <4>1, <4>2
      <3>3. CASE k = m + 1
        <4>1. k # 0 /\ k - 1 = m /\ m \in 0 .. m + 1 /\ ~(k <= m)
          BY <2>2, <3>3
        <4>2. t[k] = Advanced(s[m]) /\ t[m] = s[m]
          BY <4>1
        <4> HIDE DEF t
        <4>3. QED
          BY <4>1, <4>2
      <3>4. QED
        BY <2>2, <3>1, <3>2, <3>3
    <2>5. t = [k \in 0 .. m + 1 |-> t[k]]
      OBVIOUS
    <2> HIDE DEF t
    <2>6. Steps(t, m + 1, p)
      BY <2>4, <2>5, Zenon DEF Steps
    <2>7. QED
      BY <2>2, <2>6
  <1>3. S \in SUBSET Nat
    OBVIOUS
  <1> HIDE DEF S
  <1>4. n \in S
    BY <1>1, <1>2, <1>3, Induction
  <1>5. QED
    BY <1>4 DEF S

LEMMA ScanSteps ==
  ASSUME NEW p, IsReader(p)
  PROVE  \E s : Steps(s, Len(p.buffer), p) /\ Scan(p) = s[Len(p.buffer)]
  <1> DEFINE n == Len(p.buffer)
  <1>1. n \in Nat
    BY DEF IsReader
  <1> DEFINE s == CHOOSE s : s = [k \in 0 .. n |->
                     IF k = 0 THEN p ELSE IF Stuck(s[k - 1]) THEN s[k - 1] ELSE Consume(s[k - 1])]
  <1>2. Scan(p) = s[n]
    BY DEF Scan
  <1>3. \E f : f = [k \in 0 .. n |->
                     IF k = 0 THEN p ELSE IF Stuck(f[k - 1]) THEN f[k - 1] ELSE Consume(f[k - 1])]
    <2> HIDE DEF n
    <2>1. PICK f : Steps(f, n, p)
      BY <1>1, StepsExist
    <2>2. QED
      BY <2>1 DEF Steps, Advanced
  <1>4. s = [k \in 0 .. n |->
                     IF k = 0 THEN p ELSE IF Stuck(s[k - 1]) THEN s[k - 1] ELSE Consume(s[k - 1])]
    <2> HIDE DEF n
    <2>1. QED
      BY <1>3, Zenon
  <1>5. Steps(s, n, p)
    <2> HIDE DEF s, n
    <2>1. QED
      BY <1>4, Zenon DEF Steps, Advanced
  <1> HIDE DEF s
  <1>6. QED
    BY <1>2, <1>5

(* It runs until no line is left: a buffer of n symbols holds at most n.     *)
LEMMA ScanRuns ==
  ASSUME NEW p, IsReader(p)
  PROVE  (\E f : \E n \in Nat : Run(f, n, p, Scan(p))) /\ Stuck(Scan(p)) /\ IsReader(Scan(p))
  <1> DEFINE top == Len(p.buffer)
  <1>1. top \in Nat
    BY DEF IsReader
  <1>2. PICK s : Steps(s, top, p) /\ Scan(p) = s[top]
    BY ScanSteps
  <1> HIDE DEF top
  <1>3. \A k \in 0 .. top : s[k] = IF k = 0 THEN p ELSE Advanced(s[k - 1])
    BY <1>2, Zenon DEF Steps
  <1> DEFINE S == {k \in Nat : k <= top =>
                     /\ \E f : \E n \in Nat : Run(f, n, p, s[k])
                     /\ IsReader(s[k])
                     /\ Stuck(s[k]) \/ Len(s[k].buffer) <= top - k}
  <1>4. 0 \in S
    <2>1. s[0] = p
      BY <1>1, <1>3
    <2> DEFINE f == [k \in Nat |-> p]
    <2>2. f[0] = p /\ \A k \in Nat : ~(k < 0)
      OBVIOUS
    <2> HIDE DEF f
    <2>3. Run(f, 0, p, p)
      BY <2>2 DEF Run
    <2>4. \E g : \E n \in Nat : Run(g, n, p, s[0])
      BY <2>1, <2>3
    <2>5. Len(p.buffer) <= top - 0
      BY <1>1 DEF top
    <2>6. QED
      BY <2>1, <2>4, <2>5
  <1>5. ASSUME NEW k \in S PROVE k + 1 \in S
    <2>1. k \in Nat /\ k + 1 \in Nat
      OBVIOUS
    <2> SUFFICES ASSUME k + 1 <= top
                 PROVE  /\ \E f : \E n \in Nat : Run(f, n, p, s[k + 1])
                        /\ IsReader(s[k + 1])
                        /\ Stuck(s[k + 1]) \/ Len(s[k + 1].buffer) <= top - (k + 1)
      BY <2>1
    <2>2. /\ \E f : \E n \in Nat : Run(f, n, p, s[k])
          /\ IsReader(s[k])
          /\ Stuck(s[k]) \/ Len(s[k].buffer) <= top - k
      BY <1>1, <1>5, <2>1
    <2>3. s[k + 1] = Advanced(s[k])
      <3>1. k + 1 \in 0 .. top /\ k + 1 # 0 /\ (k + 1) - 1 = k
        BY <1>1, <2>1
      <3>2. QED
        BY <1>3, <3>1
    <2>4. CASE Stuck(s[k])
      BY <2>2, <2>3, <2>4 DEF Advanced
    <2>5. CASE ~Stuck(s[k])
      <3>1. s[k + 1] = Consume(s[k])
        BY <2>3, <2>5 DEF Advanced
      <3>2. IsReader(s[k + 1]) /\ Len(s[k + 1].buffer) < Len(s[k].buffer)
        BY <2>2, <2>5, <3>1, ConsumeReads
      <3>3. Len(s[k + 1].buffer) \in Nat /\ Len(s[k].buffer) \in Nat
        BY <2>2, <3>2 DEF IsReader
      <3>4. Len(s[k + 1].buffer) <= top - (k + 1)
        BY <1>1, <2>1, <2>2, <2>5, <3>2, <3>3
      <3>5a. PICK f : \E n \in Nat : Run(f, n, p, s[k])
        BY <2>2
      <3>5. PICK n \in Nat : Run(f, n, p, s[k])
        BY <3>5a
      <3> DEFINE g == [j \in Nat |-> IF j = 0 THEN s[k] ELSE s[k + 1]]
      <3>6. g[0] = s[k] /\ g[1] = s[k + 1] /\ \A j \in Nat : j < 1 => j = 0 /\ j + 1 = 1
        OBVIOUS
      <3> HIDE DEF g
      <3>7. Run(g, 1, s[k], s[k + 1])
        BY <2>5, <3>1, <3>6 DEF Run
      <3>8. \E h : Run(h, n + 1, p, s[k + 1])
        BY <3>5, <3>7, RunsJoin
      <3>9. n + 1 \in Nat
        OBVIOUS
      <3>10. QED
        BY <3>2, <3>4, <3>8, <3>9
    <2>6. QED
      BY <2>4, <2>5
  <1>6. S \in SUBSET Nat
    OBVIOUS
  <1> HIDE DEF S
  <1>7. top \in S
    BY <1>1, <1>4, <1>5, <1>6, Induction
  <1>8. /\ \E f : \E n \in Nat : Run(f, n, p, s[top])
        /\ IsReader(s[top])
        /\ Stuck(s[top]) \/ Len(s[top].buffer) <= 0
    BY <1>1, <1>7 DEF S
  <1>9. Len(s[top].buffer) <= 0 => Stuck(s[top])
    <2> SUFFICES ASSUME Len(s[top].buffer) <= 0 PROVE Stuck(s[top])
      OBVIOUS
    <2>1. s[top].buffer \in Seq(Letters)
      BY <1>8 DEF IsReader
    <2>2. Len(s[top].buffer) = 0
      BY <2>1
    <2>3. Separator(s[top].buffer).at = 0
      BY <2>1, <2>2, FirstLineEnds
    <2>4. QED
      BY <2>3 DEF Stuck
  <1>10. QED
    BY <1>2, <1>8, <1>9

(* Two chunks are one.                                                       *)
LEMMA TwoChunks ==
  ASSUME NEW p, IsReader(p), ~p.done, NEW t \in Seq(Letters)
  PROVE  /\ ~Scan(p).done => Scan(Fed(Scan(p), t)) = Scan(Fed(p, t))
         /\ Scan(p).done => Scan(Fed(p, t)) = Scan(p)
  <1>1a. PICK f : \E n \in Nat : Run(f, n, p, Scan(p))
    BY ScanRuns
  <1>1. PICK n \in Nat : Run(f, n, p, Scan(p))
    BY <1>1a
  <1>2. Stuck(Scan(p)) /\ IsReader(Scan(p))
    BY ScanRuns
  <1>3. IsReader(Fed(p, t))
    BY FedReads
  <1>4a. PICK g : \E m \in Nat : Run(g, m, Fed(p, t), Scan(Fed(p, t)))
    BY <1>3, ScanRuns
  <1>4. PICK m \in Nat : Run(g, m, Fed(p, t), Scan(Fed(p, t)))
    BY <1>4a
  <1>5. Stuck(Scan(Fed(p, t)))
    BY <1>3, ScanRuns
  <1>6. PICK h : Run(h, n, Fed(p, t), IF Scan(p).done THEN Scan(p) ELSE Fed(Scan(p), t))
    BY <1>1, RunStays
  <1>7. CASE Scan(p).done
    <2>1. Run(h, n, Fed(p, t), Scan(p))
      BY <1>6, <1>7
    <2>2. Scan(p) = Scan(Fed(p, t))
      BY <1>2, <1>4, <1>5, <2>1, RunsAgree
    <2>3. QED
      BY <1>7, <2>2
  <1>8. CASE ~Scan(p).done
    <2>1. Run(h, n, Fed(p, t), Fed(Scan(p), t))
      BY <1>6, <1>8
    <2>2. IsReader(Fed(Scan(p), t))
      BY <1>2, FedReads
    <2>3a. PICK i : \E k \in Nat : Run(i, k, Fed(Scan(p), t), Scan(Fed(Scan(p), t)))
      BY <2>2, ScanRuns
    <2>3. PICK k \in Nat : Run(i, k, Fed(Scan(p), t), Scan(Fed(Scan(p), t)))
      BY <2>3a
    <2>4. Stuck(Scan(Fed(Scan(p), t)))
      BY <2>2, ScanRuns
    <2>5. PICK j : Run(j, n + k, Fed(p, t), Scan(Fed(Scan(p), t)))
      BY <2>1, <2>3, RunsJoin
    <2>6. n + k \in Nat
      OBVIOUS
    <2>7. Scan(Fed(Scan(p), t)) = Scan(Fed(p, t))
      BY <1>4, <1>5, <2>4, <2>5, <2>6, RunsAgree
    <2>8. QED
      BY <1>8, <2>7
  <1>9. QED
    BY <1>7, <1>8

(* The parser of the whole that has arrived.                                 *)
LEMMA FreshReads ==
  /\ \A t \in Seq(Letters) : IsReader(Fed(Fresh, t)) /\ ~Fed(Fresh, t).done
  /\ \A t, u \in Seq(Letters) : Fed(Fed(Fresh, t), u) = Fed(Fresh, t \o u)
  /\ Scan(Fed(Fresh, <<>>)) = Fresh
  <1> DEFINE m == State(<<>>, <<>>, FALSE)
  <1>1. Fresh = With(<<>>, m)
    BY DEF Fresh, With, State
  <1>2. m.done = FALSE
    BY DEF State
  <1> HIDE DEF m
  <1>3. \A t : Fed(Fresh, t) = With(<<>> \o t, m)
    BY <1>1, FedWith, Zenon
  <1>4. \A t, u : Fed(Fed(Fresh, t), u) = With((<<>> \o t) \o u, m)
    BY <1>3, FedWith, Zenon
  <1>5. \A x : With(x, m).done = FALSE /\ With(x, m).buffer = x
    BY <1>2 DEF With
  <1>6. ASSUME NEW t \in Seq(Letters) PROVE IsReader(Fed(Fresh, t)) /\ ~Fed(Fresh, t).done
    <2>1. <<>> \o t = t
      OBVIOUS
    <2>2. With(t, m) = [buffer |-> t, data |-> m.data, events |-> m.events, done |-> FALSE]
      BY <1>2, Zenon DEF With
    <2>3. FALSE \in BOOLEAN
      OBVIOUS
    <2>4. IsReader(With(t, m))
      BY <2>2, <2>3, Zenon DEF IsReader
    <2>5. QED
      BY <1>3, <1>5, <2>1, <2>4
  <1>7. Scan(Fed(Fresh, <<>>)) = Fresh
    <2>1. <<>> \in Seq(Letters) /\ <<>> \o <<>> = <<>>
      OBVIOUS
    <2>2. Fed(Fresh, <<>>) = Fresh
      BY <1>1, <1>3, <2>1
    <2>3. IsReader(Fresh) /\ Fresh.buffer = <<>>
      BY <1>6, <2>1, <2>2 DEF Fresh
    <2>4. PICK s : Steps(s, 0, Fresh) /\ Scan(Fresh) = s[0]
      <3>1. Len(Fresh.buffer) = 0
        BY <2>3
      <3>2. QED
        BY <2>3, <3>1, ScanSteps
    <2>5. s[0] = Fresh
      <3>1. 0 \in 0 .. 0
        OBVIOUS
      <3>2. QED
        BY <2>4, <3>1, Zenon DEF Steps
    <2>6. QED
      BY <2>2, <2>4, <2>5
  <1>8. ASSUME NEW t \in Seq(Letters), NEW u \in Seq(Letters)
        PROVE  Fed(Fed(Fresh, t), u) = Fed(Fresh, t \o u)
    <2>1. (<<>> \o t) \o u = <<>> \o (t \o u)
      OBVIOUS
    <2>2. QED
      BY <1>3, <1>4, <2>1, Zenon
  <1>9. QED
    BY <1>6, <1>7, <1>8

LEMMA DispatchReads ==
  ASSUME NEW x, NEW m
  PROVE  \E n : Dispatch(With(x, m)) = With(x, n)
  <1>1. With(x, m) = [buffer |-> x, data |-> m.data, events |-> m.events, done |-> m.done]
    BY Zenon DEF With
  <1>2. Dispatch(With(x, m)) = With(x, Dispatched(m.data, m.events, m.done))
    BY <1>1, DispatchIs
  <1>3. QED
    BY <1>2

LEMMA AtEndReads ==
  ASSUME NEW p, IsReader(p)
  PROVE  \E m : AtEnd(p) = With(<<>>, m)
  <1>1. PICK x \in Seq(Letters) : \E d, e : \E b \in BOOLEAN :
           p = [buffer |-> x, data |-> d, events |-> e, done |-> b]
    BY DEF IsReader
  <1>2. PICK d, e : \E b \in BOOLEAN : p = [buffer |-> x, data |-> d, events |-> e, done |-> b]
    BY <1>1
  <1>3. PICK b \in BOOLEAN : p = [buffer |-> x, data |-> d, events |-> e, done |-> b]
    BY <1>2
  <1> DEFINE last == IF p.buffer # <<>> /\ Last(p.buffer) = CR THEN Front(p.buffer) ELSE p.buffer
             q == IF last = <<>> THEN p ELSE Line(p, last)
  <1>4. AtEnd(p) = Dispatch([q EXCEPT !.buffer = <<>>])
    BY DEF AtEnd
  <1>5. \E m : q = With(x, m)
    <2>1. p = With(x, State(d, e, b))
      BY <1>3 DEF With, State
    <2>2. Line(p, last) = With(x, Lined(last, d, e, b))
      BY <1>3, LineIs
    <2>3. QED
      BY <2>1, <2>2
  <1> HIDE DEF q
  <1>6. PICK m : q = With(x, m)
    BY <1>5
  <1>7. [q EXCEPT !.buffer = <<>>] = With(<<>>, m)
    BY <1>6 DEF With
  <1>8. QED
    BY <1>4, <1>7, DispatchReads

StreamInv ==
  /\ text \in Seq(Letters) /\ sent \in 0 .. Len(text) /\ ended \in BOOLEAN
  /\ ~ended => Parser = Scan(Fed(Fresh, SubSeq(text, 1, sent))) /\ done = FALSE
  /\ ended => Parser = AtOnce(text)

LEMMA BecomesIs ==
  ASSUME NEW x, NEW m, Becomes(With(x, m))
  PROVE  Parser' = With(x, m) /\ done' = m.done
  BY DEF Becomes, Parser, With

LEMMA ReaderIsWith ==
  ASSUME NEW p, IsReader(p)
  PROVE  \E x, m : p = With(x, m) /\ p.done = m.done
  <1>1. PICK x \in Seq(Letters) : \E d, e : \E b \in BOOLEAN :
           p = [buffer |-> x, data |-> d, events |-> e, done |-> b]
    BY DEF IsReader
  <1>2. PICK d, e : \E b \in BOOLEAN : p = [buffer |-> x, data |-> d, events |-> e, done |-> b]
    BY <1>1
  <1>3. PICK b \in BOOLEAN : p = [buffer |-> x, data |-> d, events |-> e, done |-> b]
    BY <1>2
  <1>4. p = With(x, State(d, e, b)) /\ p.done = State(d, e, b).done
    BY <1>3 DEF With, State
  <1>5. QED
    BY <1>4

LEMMA CutAt ==
  ASSUME NEW t \in Seq(Letters), NEW a \in Nat, NEW b \in Nat, a <= b, b <= Len(t)
  PROVE  /\ SubSeq(t, 1, a) \in Seq(Letters) /\ SubSeq(t, a + 1, b) \in Seq(Letters)
         /\ SubSeq(t, 1, b) = SubSeq(t, 1, a) \o SubSeq(t, a + 1, b)
  <1>1. SubSeq(t, 1, a) \in Seq(Letters) /\ SubSeq(t, a + 1, b) \in Seq(Letters)
    OBVIOUS
  <1>2. SubSeq(t, 1, b) = SubSeq(t, 1, a) \o SubSeq(t, a + 1, b)
    OBVIOUS
  <1>3. QED
    BY <1>1, <1>2

LEMMA CutOff ==
  ASSUME NEW t \in Seq(Letters), NEW a \in Nat, a <= Len(t)
  PROVE  /\ SubSeq(t, 1, a) \in Seq(Letters) /\ SubSeq(t, a + 1, Len(t)) \in Seq(Letters)
         /\ t = SubSeq(t, 1, a) \o SubSeq(t, a + 1, Len(t))
  <1>1. Len(t) \in Nat /\ Len(t) <= Len(t) /\ SubSeq(t, 1, Len(t)) = t
    OBVIOUS
  <1>2. QED
    BY <1>1, CutAt

LEMMA PushKeeps == StreamInv /\ Push => StreamInv'
  <1> SUFFICES ASSUME StreamInv, Push PROVE StreamInv'
    OBVIOUS
  <1>1. PICK n \in 1 .. Len(text) - sent :
           LET p == Scan(Fed(Parser, SubSeq(text, sent + 1, sent + n))) IN
           sent' = sent + n /\ Becomes(p) /\ ended' = p.done
    BY DEF Push
  <1> DEFINE before == SubSeq(text, 1, sent)
             chunk == SubSeq(text, sent + 1, sent + n)
             now == SubSeq(text, 1, sent + n)
             later == SubSeq(text, sent + n + 1, Len(text))
             p == Scan(Fed(Fresh, now))
  <1>2. /\ text \in Seq(Letters) /\ Len(text) \in Nat /\ sent \in 0 .. Len(text) /\ text' = text
        /\ ended = FALSE /\ done = FALSE /\ Parser = Scan(Fed(Fresh, before))
    BY DEF StreamInv, Push
  <1>3. /\ before \in Seq(Letters) /\ chunk \in Seq(Letters) /\ now \in Seq(Letters) /\ later \in Seq(Letters)
        /\ now = before \o chunk /\ text = now \o later /\ sent + n \in 0 .. Len(text)
    <2>1. n \in Nat /\ sent \in Nat /\ sent + n \in Nat /\ sent <= sent + n /\ sent + n <= Len(text)
      BY <1>2
    <2>2. now = before \o chunk /\ before \in Seq(Letters) /\ chunk \in Seq(Letters)
      BY <1>2, <2>1, CutAt
    <2>3. text = now \o later /\ now \in Seq(Letters) /\ later \in Seq(Letters)
      <3> DEFINE k == sent + n
      <3> HIDE DEF k
      <3>1. k \in Nat /\ k <= Len(text)
        BY <2>1 DEF k
      <3>2. text = SubSeq(text, 1, k) \o SubSeq(text, k + 1, Len(text))
        BY <1>2, <3>1, CutOff
      <3>3. SubSeq(text, 1, k) \in Seq(Letters) /\ SubSeq(text, k + 1, Len(text)) \in Seq(Letters)
        BY <1>2, <3>1, CutOff
      <3>4. QED
        BY <3>2, <3>3, Zenon DEF k
    <2> HIDE DEF before, chunk, now, later
    <2>4. QED
      BY <1>2, <2>1, <2>2, <2>3
  <1> HIDE DEF before, chunk, now, later
  <1>4. Parser.done = FALSE
    BY <1>2 DEF Parser
  <1>5. Scan(Fed(Parser, chunk)) = p
    <2>1. IsReader(Fed(Fresh, before)) /\ ~Fed(Fresh, before).done /\ ~Scan(Fed(Fresh, before)).done
      BY <1>2, <1>3, <1>4, FreshReads
    <2>2. Scan(Fed(Scan(Fed(Fresh, before)), chunk)) = Scan(Fed(Fed(Fresh, before), chunk))
      BY <1>3, <2>1, TwoChunks
    <2>3. Fed(Fed(Fresh, before), chunk) = Fed(Fresh, now)
      BY <1>3, FreshReads
    <2>4. QED
      BY <1>2, <2>2, <2>3
  <1>6. IsReader(p) /\ IsReader(Fed(Fresh, now)) /\ ~Fed(Fresh, now).done
    BY <1>3, FreshReads, ScanRuns
  <1> HIDE DEF p
  <1>7. sent' = sent + n /\ Becomes(p) /\ ended' = p.done
    BY <1>1, <1>5 DEF chunk
  <1>8. Parser' = p /\ done' = p.done /\ p.done \in BOOLEAN
    <2>1. PICK x, m : p = With(x, m) /\ p.done = m.done
      BY <1>6, ReaderIsWith
    <2>2. Parser' = p /\ done' = p.done
      BY <1>7, <2>1, BecomesIs
    <2>3. p.done \in BOOLEAN
      BY <1>6 DEF IsReader
    <2>4. QED
      BY <2>2, <2>3
  <1>9. p.done => p = AtOnce(text)
    <2> SUFFICES ASSUME p.done PROVE p = AtOnce(text)
      OBVIOUS
    <2>1. Scan(Fed(Fed(Fresh, now), later)) = p
      BY <1>3, <1>6, TwoChunks DEF p
    <2>2. Fed(Fed(Fresh, now), later) = Fed(Fresh, text)
      BY <1>3, FreshReads
    <2>3. QED
      BY <2>1, <2>2 DEF AtOnce
  <1>10. ~p.done => Parser' = Scan(Fed(Fresh, SubSeq(text, 1, sent'))) /\ done' = FALSE
    BY <1>7, <1>8 DEF p, now
  <1>11. QED
    BY <1>2, <1>3, <1>7, <1>8, <1>9, <1>10 DEF StreamInv

LEMMA EndKeeps == StreamInv /\ End => StreamInv'
  <1> SUFFICES ASSUME StreamInv, End PROVE StreamInv'
    OBVIOUS
  <1>1. /\ text \in Seq(Letters) /\ sent = Len(text) /\ ended = FALSE /\ done = FALSE
        /\ Parser = Scan(Fed(Fresh, SubSeq(text, 1, sent))) /\ text' = text /\ sent' = sent
        /\ Becomes(AtEnd(Parser)) /\ ended' = TRUE
    BY DEF StreamInv, End
  <1>2. SubSeq(text, 1, sent) = text /\ sent \in 0 .. Len(text)
    BY <1>1
  <1>3. Parser = Scan(Fed(Fresh, text)) /\ IsReader(Parser)
    <2>1. IsReader(Fed(Fresh, text))
      BY <1>1, FreshReads
    <2>2. QED
      BY <1>1, <1>2, <2>1, ScanRuns
  <1>4. PICK m : AtEnd(Parser) = With(<<>>, m)
    BY <1>3, AtEndReads
  <1>5. Parser' = AtEnd(Parser)
    BY <1>1, <1>4, BecomesIs
  <1>6. ~Parser.done
    BY <1>1 DEF Parser
  <1>7. AtOnce(text) = AtEnd(Parser)
    BY <1>3, <1>6 DEF AtOnce
  <1>8. AtOnce(text') = AtOnce(text)
    BY <1>1
  <1>9. QED
    BY <1>1, <1>2, <1>5, <1>7, <1>8 DEF StreamInv

LEMMA StreamInvStep == StreamInv /\ [Next]_vars => StreamInv'
  <1> SUFFICES ASSUME StreamInv, [Next]_vars PROVE StreamInv'
    OBVIOUS
  <1>1. CASE UNCHANGED sseVars
    <2>1. text' = text /\ sent' = sent /\ ended' = ended /\ done' = done /\ Parser' = Parser
      BY <1>1 DEF sseVars, Parser
    <2>2. QED
      BY <2>1 DEF StreamInv
  <1>2. CASE SseNext
    BY <1>2, PushKeeps, EndKeeps DEF SseNext
  <1>3. QED
    BY <1>1, <1>2 DEF Next, vars

LEMMA StreamBegins == Init => StreamInv
  <1>1. SubSeq(<<>>, 1, 0) = <<>> /\ <<>> \in Seq(Letters) /\ Len(<<>>) = 0
    OBVIOUS
  <1>2. SseInit => StreamInv
    <2> SUFFICES ASSUME SseInit PROVE StreamInv
      OBVIOUS
    <2>1. text \in Seq(Letters)
      BY DEF SseInit, BoundedSeq, SeqOf
    <2>2. SubSeq(text, 1, 0) = <<>> /\ Len(text) \in Nat /\ 0 \in 0 .. Len(text)
      BY <2>1
    <2>3. sent = 0 /\ ended = FALSE /\ done = FALSE /\ Parser = Fresh
      BY Zenon DEF SseInit, Parser, Fresh
    <2>4. QED
      BY <2>1, <2>2, <2>3, FreshReads DEF StreamInv
  <1>3. NoStream => StreamInv
    <2> SUFFICES ASSUME NoStream PROVE StreamInv
      OBVIOUS
    <2>1. text = <<>> /\ sent = 0 /\ ended = TRUE /\ Parser = Fresh
      BY Zenon DEF NoStream, Parser, Fresh
    <2>2. AtOnce(<<>>) = AtEnd(Fresh)
      <3>1. Fresh.done = FALSE
        BY DEF Fresh
      <3>2. QED
        BY <3>1, FreshReads DEF AtOnce
    <2>3. AtEnd(Fresh) = Fresh
      <3>1. Fresh.buffer = <<>> /\ Fresh.data = <<>>
        BY DEF Fresh
      <3>2. [Fresh EXCEPT !.buffer = <<>>] = Fresh
        BY DEF Fresh
      <3>3. Dispatch(Fresh) = Fresh
        BY <3>1 DEF Dispatch
      <3>4. QED
        BY <3>1, <3>2, <3>3, Zenon DEF AtEnd
    <2>4. QED
      BY <1>1, <2>1, <2>2, <2>3 DEF StreamInv
  <1>4. QED
    BY <1>2, <1>3 DEF Init

(* Whatever a server sends and however it is cut into chunks: the parser is  *)
(* where one chunk of the same text takes it, and the reader ends as it does *)
(* when the whole text comes at once.  (sse.mjs scanLines, push, end)        *)
THEOREM CutsNeverMatter == Spec => []CutsDontMatter
  <1>1. Init => StreamInv
    BY StreamBegins
  <1>2. StreamInv /\ [Next]_vars => StreamInv'
    BY StreamInvStep
  <1>3. StreamInv => CutsDontMatter
    BY DEF StreamInv, CutsDontMatter
  <1>4. QED
    BY <1>1, <1>2, <1>3, PTL DEF Spec

-----------------------------------------------------------------------------
(* Places in order: the first of them stay the first when later ones come.   *)
Upto(places, i) == {j \in places : j <= i}

LEMMA RankIs ==
  ASSUME NEW n \in Nat, NEW S \in SUBSET (1 .. n), NEW i
  PROVE  /\ IsFiniteSet(S) /\ Cardinality(S) \in Nat
         /\ Upto(S, i) \in SUBSET S /\ IsFiniteSet(Upto(S, i)) /\ Cardinality(Upto(S, i)) \in Nat
         /\ Cardinality(Upto(S, i)) <= Cardinality(S)
  <1>1. IsFiniteSet(1 .. n)
    BY FS_Interval
  <1>2. IsFiniteSet(S) /\ Upto(S, i) \in SUBSET S
    BY <1>1, FS_Subset DEF Upto
  <1>3. QED
    BY <1>2, FS_Subset, FS_CardinalityType

LEMMA NthIs ==
  ASSUME NEW S, NEW T, NEW n,
         \A i : i \in S /\ Cardinality(Upto(S, i)) = n <=> i \in T /\ Cardinality(Upto(T, i)) = n
  PROVE  Nth(S, n) = Nth(T, n)
  <1>1. Nth(S, n) = CHOOSE i : i \in S /\ Cardinality(Upto(S, i)) = n
    BY DEF Nth, Upto
  <1>2. Nth(T, n) = CHOOSE i : i \in T /\ Cardinality(Upto(T, i)) = n
    BY DEF Nth, Upto
  <1>3. QED
    BY <1>1, <1>2

LEMMA NthUpto ==
  ASSUME NEW n \in Nat, NEW S \in SUBSET (1 .. n), NEW c \in Nat,
         NEW k \in 1 .. Cardinality(Upto(S, c))
  PROVE  Nth(Upto(S, c), k) = Nth(S, k)
  <1> DEFINE T == Upto(S, c)
  <1>1. T \in SUBSET S /\ T \in SUBSET (1 .. n) /\ IsFiniteSet(T) /\ Cardinality(T) \in Nat
    BY RankIs
  <1>0. \A j \in S : j \in Nat
    OBVIOUS
  <1>2. ASSUME NEW i \in T PROVE Upto(T, i) = Upto(S, i)
    <2>1. i \in Nat /\ i <= c /\ i \in S
      BY <1>0, <1>2 DEF Upto
    <2>2. \A j \in S : j <= i => j <= c
      BY <1>0, <2>1
    <2>3. QED
      BY <2>2 DEF Upto
  <1>3. ASSUME NEW i \in S, i \notin T PROVE Cardinality(Upto(S, i)) # k
    <2>1. i \in Nat /\ c \in Nat /\ ~(i <= c)
      BY <1>3 DEF Upto
    <2>2. T \cup {i} \subseteq Upto(S, i)
      <3>1. \A j \in T : j \in S /\ j \in Nat /\ j <= c
        BY <1>0 DEF Upto
      <3>2. \A j \in T : j \in S /\ j <= i
        BY <2>1, <3>1
      <3>3. i \in S /\ i <= i
        BY <2>1
      <3> HIDE DEF T
      <3>4. QED
        BY <3>2, <3>3 DEF Upto
    <2>3. Cardinality(T \cup {i}) = Cardinality(T) + 1 /\ IsFiniteSet(Upto(S, i))
      BY <1>1, <1>3, RankIs, FS_AddElement
    <2>4. Cardinality(T \cup {i}) <= Cardinality(Upto(S, i)) /\ Cardinality(Upto(S, i)) \in Nat
      BY <2>2, <2>3, RankIs, FS_Subset
    <2>5. QED
      BY <1>1, <2>3, <2>4
  <1> HIDE DEF T
  <1>4. \A i : i \in T /\ Cardinality(Upto(T, i)) = k <=> i \in S /\ Cardinality(Upto(S, i)) = k
    BY <1>1, <1>2, <1>3
  <1>5. Nth(T, k) = Nth(S, k)
    BY <1>4, NthIs
  <1>6. QED
    BY <1>5 DEF T

LEMMA NthLast ==
  ASSUME NEW n \in Nat, NEW S \in SUBSET (1 .. n), NEW m \in 1 .. n, \A i \in S : i < m
  PROVE  /\ Cardinality(S \cup {m}) = Cardinality(S) + 1
         /\ \A k \in 1 .. Cardinality(S) : Nth(S \cup {m}, k) = Nth(S, k)
         /\ Nth(S \cup {m}, Cardinality(S) + 1) = m
  <1> DEFINE T == S \cup {m}
  <1>1. T \in SUBSET (1 .. n) /\ m \notin S
    OBVIOUS
  <1>2. IsFiniteSet(S) /\ Cardinality(S) \in Nat
    BY RankIs
  <1>3. Cardinality(T) = Cardinality(S) + 1
    BY <1>1, <1>2, FS_AddElement
  <1>4. Upto(T, m - 1) = S
    <2>1. \A j \in S : j \in T /\ j \in Nat /\ j <= m - 1
      OBVIOUS
    <2>2. \A j \in T : j <= m - 1 => j \in S
      OBVIOUS
    <2> HIDE DEF T
    <2>3. QED
      BY <2>1, <2>2 DEF Upto
  <1>5. ASSUME NEW k \in 1 .. Cardinality(S) PROVE Nth(T, k) = Nth(S, k)
    <2> HIDE DEF T
    <2>1. m - 1 \in Nat
      OBVIOUS
    <2>2. QED
      BY <1>1, <1>4, <2>1, NthUpto
  <1>6. m \in T /\ Cardinality(Upto(T, m)) = Cardinality(S) + 1
    <2>1. Upto(T, m) = T
      <3>1. \A j \in T : j <= m
        OBVIOUS
      <3> HIDE DEF T
      <3>2. QED
        BY <3>1 DEF Upto
    <2>2. QED
      BY <1>3, <2>1
  <1>7. ASSUME NEW i \in S PROVE Cardinality(Upto(T, i)) # Cardinality(S) + 1
    <2>1. Upto(T, i) \subseteq S
      BY DEF Upto
    <2>2. Cardinality(Upto(T, i)) <= Cardinality(S) /\ Cardinality(Upto(T, i)) \in Nat
      BY <1>1, <1>2, <2>1, FS_Subset, RankIs
    <2>3. QED
      BY <1>2, <2>2
  <1>8. Nth(T, Cardinality(S) + 1) = m
    <2>1. Nth(T, Cardinality(S) + 1) = CHOOSE i \in T : Cardinality(Upto(T, i)) = Cardinality(S) + 1
      BY DEF Nth, Upto
    <2>2. \E i \in T : Cardinality(Upto(T, i)) = Cardinality(S) + 1
      BY <1>6
    <2> DEFINE i == CHOOSE i \in T : Cardinality(Upto(T, i)) = Cardinality(S) + 1
    <2>3. i \in T /\ Cardinality(Upto(T, i)) = Cardinality(S) + 1
      BY <2>2
    <2> HIDE DEF i
    <2>4. i = m
      BY <1>7, <2>3
    <2>5. QED
      BY <2>1, <2>4 DEF i
  <1>9. QED
    BY <1>3, <1>5, <1>8

(* A sequence that is longer by one.                                        *)
LEMMA OneMore ==
  ASSUME NEW k \in Nat, NEW X, NEW Y, NEW v \in [1 .. k -> X], NEW w \in [1 .. k + 1 -> Y],
         \A n \in 1 .. k : w[n] = v[n]
  PROVE  w = Append(v, w[k + 1])
  <1>1. v \in Seq(X) /\ Len(v) = k
    OBVIOUS
  <1>2. Append(v, w[k + 1]) = [n \in 1 .. k + 1 |-> IF n <= k THEN v[n] ELSE w[k + 1]]
    BY <1>1
  <1>3. ASSUME NEW n \in 1 .. k + 1 PROVE w[n] = IF n <= k THEN v[n] ELSE w[k + 1]
    <2>1. n <= k => n \in 1 .. k
      OBVIOUS
    <2>2. ~(n <= k) => n = k + 1
      OBVIOUS
    <2>3. QED
      BY <2>1, <2>2, Zenon
  <1>4. QED
    BY <1>1, <1>2, <1>3

LEMMA ValuesGrow ==
  ASSUME NEW t, NEW n \in Nat, NEW S \in SUBSET (1 .. n), NEW m \in 1 .. n, \A i \in S : i < m
  PROVE  Values(t, S \cup {m}) = Append(Values(t, S), DataValue(LineAt(t, m)))
  <1> DEFINE k == Cardinality(S)
             v == Values(t, S)
             w == Values(t, S \cup {m})
  <1>1. k \in Nat /\ Cardinality(S \cup {m}) = k + 1
    BY RankIs, NthLast
  <1>2. /\ v = [j \in 1 .. k |-> DataValue(LineAt(t, Nth(S, j)))]
        /\ w = [j \in 1 .. k + 1 |-> DataValue(LineAt(t, Nth(S \cup {m}, j)))]
    BY <1>1, Zenon DEF Values
  <1>3. (\A j \in 1 .. k : Nth(S \cup {m}, j) = Nth(S, j)) /\ Nth(S \cup {m}, k + 1) = m
    BY NthLast
  <1> HIDE DEF k, v, w
  <1>4. PICK X, Y : v \in [1 .. k -> X] /\ w \in [1 .. k + 1 -> Y]
    <2>1. v \in [1 .. k -> {v[j] : j \in 1 .. k}] /\ w \in [1 .. k + 1 -> {w[j] : j \in 1 .. k + 1}]
      BY <1>2
    <2>2. QED
      BY <2>1
  <1>5. k + 1 \in 1 .. k + 1 /\ \A j \in 1 .. k : j \in 1 .. k + 1
    BY <1>1
  <1>6. (\A j \in 1 .. k : w[j] = v[j]) /\ w[k + 1] = DataValue(LineAt(t, m))
    BY <1>2, <1>3, <1>5
  <1>7. w = Append(v, w[k + 1])
    BY <1>1, <1>4, <1>6, OneMore
  <1>8. QED
    BY <1>6, <1>7 DEF v, w

LEMMA PayloadsGrow ==
  ASSUME NEW t, NEW n \in Nat, NEW S \in SUBSET (1 .. n), NEW m \in 1 .. n, \A i \in S : i < m
  PROVE  Payloads(t, S \cup {m}) = Append(Payloads(t, S), Payload(t, m))
  <1> DEFINE k == Cardinality(S)
             v == Payloads(t, S)
             w == Payloads(t, S \cup {m})
  <1>1. k \in Nat /\ Cardinality(S \cup {m}) = k + 1
    BY RankIs, NthLast
  <1>2. /\ v = [j \in 1 .. k |-> Payload(t, Nth(S, j))]
        /\ w = [j \in 1 .. k + 1 |-> Payload(t, Nth(S \cup {m}, j))]
    BY <1>1, Zenon DEF Payloads
  <1>3. (\A j \in 1 .. k : Nth(S \cup {m}, j) = Nth(S, j)) /\ Nth(S \cup {m}, k + 1) = m
    BY NthLast
  <1> HIDE DEF k, v, w
  <1>4. PICK X, Y : v \in [1 .. k -> X] /\ w \in [1 .. k + 1 -> Y]
    <2>1. v \in [1 .. k -> {v[j] : j \in 1 .. k}] /\ w \in [1 .. k + 1 -> {w[j] : j \in 1 .. k + 1}]
      BY <1>2
    <2>2. QED
      BY <2>1
  <1>5. k + 1 \in 1 .. k + 1 /\ \A j \in 1 .. k : j \in 1 .. k + 1
    BY <1>1
  <1>6. (\A j \in 1 .. k : w[j] = v[j]) /\ w[k + 1] = Payload(t, m)
    BY <1>2, <1>3, <1>5
  <1>7. w = Append(v, w[k + 1])
    BY <1>1, <1>4, <1>6, OneMore
  <1>8. QED
    BY <1>6, <1>7 DEF v, w

LEMMA NoneOrSome ==
  ASSUME NEW t, NEW n \in Nat, NEW S \in SUBSET (1 .. n)
  PROVE  Values(t, S) = <<>> <=> S = {}
  <1> DEFINE k == Cardinality(S)
             v == Values(t, S)
  <1>1. k \in Nat /\ (k = 0 <=> S = {})
    BY RankIs, FS_EmptySet
  <1>2. v = [j \in 1 .. k |-> DataValue(LineAt(t, Nth(S, j)))]
    BY DEF Values
  <1> HIDE DEF k, v
  <1>3. DOMAIN v = 1 .. k
    BY <1>2
  <1>4. v = <<>> <=> k = 0
    <2>1. k = 0 => v = <<>>
      <3>1. k = 0 => 1 .. k = {}
        OBVIOUS
      <3>2. QED
        BY <1>2, <3>1
    <2>2. v = <<>> => 1 .. k = {}
      BY <1>3
    <2>3. 1 .. k = {} => k = 0
      BY <1>1
    <2>4. QED
      BY <2>1, <2>2, <2>3
  <1>5. QED
    BY <1>1, <1>4 DEF v

(* What is handed on up to a place comes first of all that is.               *)
LEMMA HandedFirst ==
  ASSUME NEW t, NEW n \in Nat, NEW S \in SUBSET (1 .. n), NEW c \in Nat
  PROVE  IsPrefix(Payloads(t, Upto(S, c)), Payloads(t, S))
  <1> DEFINE k == Cardinality(Upto(S, c))
             j == Cardinality(S)
             v == Payloads(t, Upto(S, c))
             w == Payloads(t, S)
  <1>1. k \in Nat /\ j \in Nat /\ k <= j
    BY RankIs
  <1>2. /\ v = [i \in 1 .. k |-> Payload(t, Nth(Upto(S, c), i))]
        /\ w = [i \in 1 .. j |-> Payload(t, Nth(S, i))]
    BY DEF Payloads
  <1>3. \A i \in 1 .. k : Nth(Upto(S, c), i) = Nth(S, i)
    BY NthUpto
  <1> HIDE DEF k, j, v, w
  <1>4. \A i \in 1 .. k : v[i] = w[i]
    BY <1>1, <1>2, <1>3
  <1>5. /\ v \in Seq({v[i] : i \in 1 .. k}) /\ Len(v) = k
        /\ w \in Seq({w[i] : i \in 1 .. j}) /\ Len(w) = j
    <2> DEFINE V == {v[i] : i \in 1 .. k}
               W == {w[i] : i \in 1 .. j}
    <2>1. v \in [1 .. k -> V] /\ w \in [1 .. j -> W]
      BY <1>2
    <2> HIDE DEF V, W
    <2>2. v \in Seq(V) /\ Len(v) = k /\ w \in Seq(W) /\ Len(w) = j
      BY <1>1, <2>1
    <2>3. QED
      BY <2>2 DEF V, W
  <1>6. SubSeq(v, 1, k) = SubSeq(w, 1, k)
    <2>1. SubSeq(v, 1, k) = [i \in 1 .. k |-> v[i]]
      BY <1>1, <1>5
    <2>2. SubSeq(w, 1, k) = [i \in 1 .. k |-> w[i]]
      BY <1>1, <1>5
    <2>3. QED
      BY <1>4, <2>1, <2>2
  <1>7. IsPrefix(v, w)
    BY <1>1, <1>5, <1>6 DEF IsPrefix
  <1>8. QED
    BY <1>7 DEF v, w

-----------------------------------------------------------------------------
(* The lines of a text where the parser finds them.                         *)
Place(t, c) == c = 0 \/ c \in LineEnds(t)
NoEndIn(t, c, e) == \A j \in LineEnds(t) : ~(c < j /\ j < e)

LEMMA LineFrom ==
  ASSUME NEW t \in Seq(Letters), NEW c \in Nat, Place(t, c), NEW i \in Nat, c < i, NoEndIn(t, c, i)
  PROVE  LineAt(t, i) =
           SubSeq(t, c + 1, IF i <= Len(t) /\ t[i] = LF /\ i > c + 1 /\ t[i - 1] = CR THEN i - 2 ELSE i - 1)
  <1> DEFINE ends == {0} \cup {j \in LineEnds(t) : j < i}
             last == CHOOSE j \in ends : \A k \in ends : k <= j
  <1>1. \A j \in LineEnds(t) : j \in Nat
    BY DEF LineEnds
  <1>2. c \in ends /\ \A k \in ends : k \in Nat /\ k <= c
    BY <1>1 DEF Place, NoEndIn
  <1>3. \E j \in ends : \A k \in ends : k <= j
    BY <1>2
  <1>4. last \in ends /\ \A k \in ends : k <= last
    BY <1>3
  <1> HIDE DEF last, ends
  <1>5. last = c
    BY <1>2, <1>4
  <1>6. LineAt(t, i) =
           SubSeq(t, 1 + last,
                  IF i <= Len(t) /\ t[i] = LF /\ i > 1 + last /\ t[i - 1] = CR THEN i - 2 ELSE i - 1)
    BY DEF LineAt, last, ends
  <1>7. 1 + c = c + 1
    OBVIOUS
  <1>8. QED
    BY <1>5, <1>6, <1>7

(* What is left of a text behind a place.                                   *)
LEMMA PartIs ==
  ASSUME NEW s \in Seq(Letters), NEW i \in Nat, NEW j \in Nat
  PROVE  SubSeq(s, i, j) = [k \in 1 .. j - i + 1 |-> s[i + k - 1]]
  OBVIOUS

LEMMA TailOf ==
  ASSUME NEW t \in Seq(Letters), NEW c \in Nat, NEW n \in Nat, c <= n, n <= Len(t),
         NEW x, x = SubSeq(t, c + 1, n)
  PROVE  /\ x \in Seq(Letters) /\ Len(x) = n - c
         /\ \A i \in 1 .. n - c : x[i] = t[c + i]
         /\ \A i, j \in Nat : i >= 1 /\ j <= n - c => SubSeq(x, i, j) = SubSeq(t, c + i, c + j)
  <1>1. x \in Seq(Letters) /\ Len(x) = n - c /\ \A i \in 1 .. n - c : x[i] = t[c + i]
    OBVIOUS
  <1>2. ASSUME NEW i \in Nat, NEW j \in Nat, i >= 1, j <= n - c
        PROVE  SubSeq(x, i, j) = SubSeq(t, c + i, c + j)
    <2>1. SubSeq(x, i, j) = [k \in 1 .. j - i + 1 |-> x[i + k - 1]]
      <3>1. x \in Seq(Letters) /\ i \in Nat /\ j \in Nat
        BY <1>1
      <3>2. QED
        BY <3>1, PartIs, Zenon
    <2>2. SubSeq(t, c + i, c + j) = [k \in 1 .. (c + j) - (c + i) + 1 |-> t[c + i + k - 1]]
      BY <1>2
    <2>3. (c + j) - (c + i) + 1 = j - i + 1
      BY <1>2
    <2>4. \A k \in 1 .. j - i + 1 : x[i + k - 1] = t[c + i + k - 1]
      <3> SUFFICES ASSUME NEW k \in 1 .. j - i + 1 PROVE x[i + k - 1] = t[c + i + k - 1]
        OBVIOUS
      <3> DEFINE l == i + k - 1
      <3>1. l \in 1 .. n - c /\ c + i + k - 1 = c + l
        BY <1>2
      <3> HIDE DEF l
      <3>2. x[l] = t[c + l]
        BY <1>1, <3>1
      <3>3. QED
        BY <3>1, <3>2 DEF l
    <2>5. QED
      BY <2>1, <2>2, <2>3, <2>4
  <1>3. QED
    BY <1>1, <1>2

(* The line that the parser takes is the next line of the text.             *)
TakesLine(t, c, n, x, e) ==
  /\ c < e /\ e <= n /\ NoEndIn(t, c, e)
  /\ LineAt(t, e) = SubSeq(x, 1, Separator(x).at - 1) /\ Rest(x) = SubSeq(t, e + 1, n)

LEMMA LineInText ==
  ASSUME NEW t \in Seq(Letters), NEW c \in Nat, Place(t, c), NEW n \in Nat, c <= n, n <= Len(t),
         NEW x, x = SubSeq(t, c + 1, n), Separator(x).at # 0
  PROVE  \E e \in LineEnds(t) : TakesLine(t, c, n, x, e)
  <1>1. /\ x \in Seq(Letters) /\ Len(x) = n - c
        /\ \A i \in 1 .. n - c : x[i] = t[c + i]
        /\ \A i, j \in Nat : i >= 1 /\ j <= n - c => SubSeq(x, i, j) = SubSeq(t, c + i, c + j)
    BY TailOf
  <1>2. PICK i \in 1 .. Len(x) :
           /\ x[i] \in {CR, LF} /\ \A j \in 1 .. Len(x) : x[j] \in {CR, LF} => i <= j
           /\ ~(x[i] = CR /\ i = Len(x))
           /\ Separator(x) = [at |-> i, next |-> IF x[i] = CR /\ x[i + 1] = LF THEN i + 2 ELSE i + 1]
    <2>1. x \in Seq(Letters)
      BY <1>1
    <2>2. Separator(x) # [at |-> 0, next |-> 0]
      OBVIOUS
    <2>3. QED
      BY <2>1, <2>2, FirstLineEnds, Zenon
  <1>3. i \in 1 .. n - c /\ t[c + i] = x[i] /\ c + i \in 1 .. Len(t) /\ i \in Nat /\ CR # LF
    BY <1>1, <1>2 DEF CR, LF
  <1>4. (x[i] = CR => i # n - c) /\ \A j \in 1 .. n - c : x[j] \in {CR, LF} => i <= j
    BY <1>1, <1>2
  <1>5. x[i] = CR => i + 1 \in 1 .. n - c /\ c + i + 1 \in 1 .. Len(t) /\ t[c + i + 1] = x[i + 1]
    <2> SUFFICES ASSUME x[i] = CR
                 PROVE  i + 1 \in 1 .. n - c /\ c + i + 1 \in 1 .. Len(t) /\ t[c + i + 1] = x[i + 1]
      OBVIOUS
    <2>1. i + 1 \in 1 .. n - c
      BY <1>3, <1>4
    <2>2. x[i + 1] = t[c + (i + 1)] /\ c + (i + 1) = c + i + 1
      BY <1>1, <1>3, <2>1
    <2>3. c + i + 1 \in 1 .. Len(t)
      BY <1>3, <2>1
    <2>4. QED
      BY <2>1, <2>2, <2>3
  <1>6. \A j \in LineEnds(t) : j \in 1 .. Len(t) /\ t[j] \in {CR, LF}
    BY DEF LineEnds
  <1>7. \A j \in 1 .. Len(t) : c < j /\ j < c + i => t[j] \notin {CR, LF}
    <2> SUFFICES ASSUME NEW j \in 1 .. Len(t), c < j, j < c + i PROVE t[j] \notin {CR, LF}
      OBVIOUS
    <2> DEFINE k == j - c
    <2>1. k \in 1 .. n - c /\ k < i /\ c + k = j
      BY <1>3
    <2> HIDE DEF k
    <2>2. x[k] = t[j]
      BY <1>1, <2>1
    <2>3. ~(i <= k)
      BY <1>3, <2>1
    <2>4. QED
      BY <1>4, <2>1, <2>2, <2>3
  <1>8. CASE x[i] = CR /\ x[i + 1] = LF
    <2> DEFINE e == c + i + 1
    <2>1. e \in 1 .. Len(t) /\ t[e] = LF /\ t[e - 1] = CR /\ e - 1 = c + i /\ e <= n /\ c < e /\ e > c + 1
      BY <1>3, <1>5, <1>8
    <2>2. e \in LineEnds(t)
      BY <2>1 DEF LineEnds
    <2>3. c + i \notin LineEnds(t)
      BY <1>3, <1>5, <1>8 DEF LineEnds
    <2>4. NoEndIn(t, c, e)
      <3> SUFFICES ASSUME NEW j \in LineEnds(t), c < j, j < e PROVE FALSE
        BY DEF NoEndIn
      <3>1. j \in 1 .. Len(t) /\ t[j] \in {CR, LF}
        BY <1>6
      <3>2. j = c + i \/ j < c + i
        BY <1>3, <3>1
      <3>3. QED
        BY <1>7, <2>3, <3>1, <3>2
    <2>5. LineAt(t, e) = SubSeq(t, c + 1, e - 2)
      <3> HIDE DEF e
      <3>1. e \in Nat /\ e <= Len(t)
        BY <2>1
      <3>2. QED
        BY <2>1, <2>4, <3>1, LineFrom
    <2>6. SubSeq(x, 1, i - 1) = SubSeq(t, c + 1, e - 2)
      <3>1. i - 1 \in Nat /\ i - 1 <= n - c /\ c + (i - 1) = e - 2
        BY <1>3
      <3>2. SubSeq(x, 1, i - 1) = SubSeq(t, c + 1, c + (i - 1))
        BY <1>1, <3>1
      <3>3. QED
        BY <3>1, <3>2
    <2>7. Rest(x) = SubSeq(t, e + 1, n)
      <3>1. Separator(x).next = i + 2
        BY <1>2, <1>8
      <3>2. i + 2 \in Nat /\ n - c \in Nat /\ c + (i + 2) = e + 1 /\ c + (n - c) = n /\ n - c <= n - c
        BY <1>3
      <3>3. Rest(x) = SubSeq(x, i + 2, n - c)
        BY <1>1, <3>1 DEF Rest
      <3>4. SubSeq(x, i + 2, n - c) = SubSeq(t, c + (i + 2), c + (n - c))
        BY <1>1, <3>2
      <3>5. QED
        BY <3>2, <3>3, <3>4
    <2>8. Separator(x).at = i
      BY <1>2
    <2> HIDE DEF e
    <2>9. QED
      BY <2>1, <2>2, <2>4, <2>5, <2>6, <2>7, <2>8 DEF TakesLine
  <1>9. CASE ~(x[i] = CR /\ x[i + 1] = LF)
    <2> DEFINE e == c + i
    <2>1. e \in 1 .. Len(t) /\ t[e] \in {CR, LF} /\ e <= n /\ c < e
      BY <1>2, <1>3
    <2>2. e \in LineEnds(t)
      BY <1>3, <1>5, <1>9, <2>1 DEF LineEnds
    <2>3. NoEndIn(t, c, e)
      BY <1>6, <1>7 DEF NoEndIn
    <2>4. LineAt(t, e) = SubSeq(t, c + 1, e - 1)
      <3>1. ~(e > c + 1 /\ t[e - 1] = CR)
        <4>1. e > c + 1 => e - 1 \in 1 .. Len(t) /\ c < e - 1 /\ e - 1 < c + i
          <5>1. e \in Nat /\ Len(t) \in Nat /\ e <= Len(t)
            BY <1>3
          <5>2. QED
            BY <5>1
        <4> HIDE DEF e
        <4>2. QED
          BY <1>7, <4>1
      <3> HIDE DEF e
      <3>2. QED
        BY <2>1, <2>3, <3>1, LineFrom
    <2>5. SubSeq(x, 1, i - 1) = SubSeq(t, c + 1, e - 1)
      <3>1. i - 1 \in Nat /\ i - 1 <= n - c
        BY <1>3
      <3>2. SubSeq(x, 1, i - 1) = SubSeq(t, c + 1, c + (i - 1))
        BY <1>1, <3>1
      <3>3. c + (i - 1) = e - 1
        BY <1>3
      <3> HIDE DEF e
      <3>4. QED
        BY <3>2, <3>3
    <2>6. Rest(x) = SubSeq(t, e + 1, n)
      <3>1. Separator(x).next = i + 1
        BY <1>2, <1>9
      <3>2. i + 1 \in Nat /\ n - c \in Nat /\ c + (i + 1) = e + 1 /\ c + (n - c) = n /\ n - c <= n - c
        BY <1>3
      <3>3. Rest(x) = SubSeq(x, i + 1, n - c)
        BY <1>1, <3>1 DEF Rest
      <3>4. SubSeq(x, i + 1, n - c) = SubSeq(t, c + (i + 1), c + (n - c))
        BY <1>1, <3>2
      <3>5. QED
        BY <3>2, <3>3, <3>4
    <2>7. Separator(x).at = i
      BY <1>2
    <2> HIDE DEF e
    <2>8. QED
      BY <2>1, <2>2, <2>3, <2>4, <2>5, <2>6, <2>7 DEF TakesLine
  <1>10. QED
    BY <1>8, <1>9

(* Behind the last line it takes before the text ends.                      *)
LEMMA LastLine ==
  ASSUME NEW t \in Seq(Letters), NEW c \in Nat, Place(t, c), c <= Len(t),
         NEW x, x = SubSeq(t, c + 1, Len(t)), Separator(x).at = 0
  PROVE  \/ /\ NoEndIn(t, c, Len(t) + 1) /\ LineAt(t, Len(t) + 1) = x
            /\ x # <<>> => Last(x) # CR
         \/ /\ x # <<>> /\ Last(x) = CR /\ c < Len(t) /\ Len(t) \in LineEnds(t)
            /\ NoEndIn(t, c, Len(t)) /\ LineAt(t, Len(t)) = Front(x)
  <1> DEFINE n == Len(t)
  <1>0. n \in Nat
    OBVIOUS
  <1>1. /\ x \in Seq(Letters) /\ Len(x) = n - c
        /\ \A i \in 1 .. n - c : x[i] = t[c + i]
        /\ \A i, j \in Nat : i >= 1 /\ j <= n - c => SubSeq(x, i, j) = SubSeq(t, c + i, c + j)
    BY <1>0, TailOf
  <1>2. \A i \in 1 .. Len(x) : x[i] \in {CR, LF} => x[i] = CR /\ i = Len(x)
    <2>1. x \in Seq(Letters)
      BY <1>1
    <2> SUFFICES ASSUME ~(\A i \in 1 .. Len(x) : x[i] \in {CR, LF} => x[i] = CR /\ i = Len(x))
                 PROVE  FALSE
      OBVIOUS
    <2>2. PICK i \in 1 .. Len(x) :
             Separator(x) = [at |-> i, next |-> IF x[i] = CR /\ x[i + 1] = LF THEN i + 2 ELSE i + 1]
      BY <2>1, FirstLineEnds, Zenon
    <2>3. Separator(x).at = i /\ i # 0
      BY <2>2
    <2>4. QED
      BY <2>3
  <1>3. \A j \in LineEnds(t) : j \in 1 .. n /\ t[j] \in {CR, LF}
    BY DEF LineEnds
  <1>4. \A j \in LineEnds(t) : c < j => j = n /\ t[n] = CR /\ x # <<>> /\ x[Len(x)] = CR
    <2> SUFFICES ASSUME NEW j \in LineEnds(t), c < j
                 PROVE  j = n /\ t[n] = CR /\ x # <<>> /\ x[Len(x)] = CR
      OBVIOUS
    <2> DEFINE k == j - c
    <2>1. k \in 1 .. n - c /\ c + k = j /\ j \in 1 .. n
      BY <1>3
    <2> HIDE DEF k, n
    <2>2. x[k] = t[j] /\ k \in 1 .. Len(x) /\ t[j] \in {CR, LF}
      BY <1>1, <1>3, <2>1
    <2>3. x[k] = CR /\ k = Len(x)
      BY <1>2, <2>2
    <2>4. k = n - c
      BY <1>1, <2>3
    <2>5. j = n
      BY <1>0, <2>1, <2>4
    <2>6. x # <<>>
      <3>1. Len(x) # 0 /\ Len(<<>>) = 0
        BY <2>2
      <3>2. QED
        BY <3>1
    <2>7. QED
      BY <2>2, <2>3, <2>5, <2>6
  <1>5. CASE x # <<>> /\ Last(x) = CR
    <2>1. Len(x) # 0 /\ x[Len(x)] = CR /\ Len(x) \in Nat
      <3>1. x \in Seq(Letters)
        BY <1>1
      <3>2. x[Len(x)] = CR
        BY <1>5, Zenon DEF Last
      <3>3. Len(x) # 0 /\ Len(x) \in Nat
        BY <1>5, <3>1
      <3>4. QED
        BY <3>2, <3>3
    <2>2. c < n /\ n \in 1 .. n /\ t[n] = CR
      <3>0. Len(x) = n - c
        BY <1>1
      <3> HIDE DEF n
      <3>1. n - c \in 1 .. n - c /\ c + (n - c) = n /\ c < n /\ n \in 1 .. n
        BY <1>0, <2>1, <3>0
      <3>2. x[n - c] = t[c + (n - c)]
        BY <1>1, <3>1
      <3>3. QED
        BY <2>1, <3>0, <3>1, <3>2
    <2>3. n \in LineEnds(t)
      BY <2>2 DEF LineEnds
    <2>4. NoEndIn(t, c, n)
      <3>1. \A j \in LineEnds(t) : c < j => j = n
        BY <1>4, Zenon
      <3>2. ~(n < n)
        BY <1>0
      <3> HIDE DEF n
      <3>3. QED
        BY <3>1, <3>2, Zenon DEF NoEndIn
    <2>5. LineAt(t, n) = SubSeq(t, c + 1, n - 1)
      <3>1. t[n] # LF
        BY <2>2 DEF CR, LF
      <3> HIDE DEF n
      <3>2. QED
        BY <1>0, <2>2, <2>4, <3>1, LineFrom
    <2>6. Front(x) = SubSeq(t, c + 1, n - 1)
      <3>1. Front(x) = SubSeq(x, 1, Len(x) - 1)
        BY DEF Front
      <3>2. Len(x) - 1 \in Nat /\ Len(x) - 1 <= n - c /\ c + (Len(x) - 1) = n - 1
        BY <1>0, <1>1, <2>1
      <3> HIDE DEF n
      <3>3. SubSeq(x, 1, Len(x) - 1) = SubSeq(t, c + 1, c + (Len(x) - 1))
        BY <1>1, <3>2
      <3>4. QED
        BY <3>1, <3>2, <3>3
    <2>7. QED
      BY <1>5, <2>2, <2>3, <2>4, <2>5, <2>6
  <1>6. CASE ~(x # <<>> /\ Last(x) = CR)
    <2>1. NoEndIn(t, c, n + 1)
      BY <1>4, <1>6 DEF NoEndIn, Last
    <2>2. LineAt(t, n + 1) = SubSeq(t, c + 1, n)
      <3>1. n + 1 \in Nat /\ c < n + 1 /\ ~(n + 1 <= Len(t)) /\ (n + 1) - 1 = n
        OBVIOUS
      <3> HIDE DEF n
      <3>2. QED
        BY <2>1, <3>1, LineFrom
    <2>3. QED
      BY <1>6, <2>1, <2>2
  <1>7. QED
    BY <1>5, <1>6

-----------------------------------------------------------------------------
(* What has been read of a text up to a place, a line at a time.            *)
Marks(t) == LineEnds(t) \cup {Len(t) + 1, Len(t) + 2}
Next1(t, c, e) == c < e /\ e \in Marks(t) /\ \A j \in Marks(t) : ~(c < j /\ j < e)

ReadTo(t, c, m) ==
  IF m.done THEN m.events = Reference(t) /\ Stops(t) # {}
  ELSE /\ m.data = Values(t, OwnLines(t, c + 1))
       /\ m.events = Payloads(t, Upto(Handed(t), c))
       /\ \A s \in Stops(t) : c < s

LEMMA MarksAre ==
  ASSUME NEW t \in Seq(Letters)
  PROVE  /\ Len(t) \in Nat /\ LineEnds(t) \in SUBSET (1 .. Len(t))
         /\ Marks(t) \in SUBSET (1 .. Len(t) + 2)
         /\ EventEnds(t) \in SUBSET Marks(t) /\ Len(t) + 1 \notin EventEnds(t)
         /\ \A e : OwnLines(t, e) \in SUBSET (1 .. Len(t) + 1)
         /\ Handed(t) \in SUBSET EventEnds(t) /\ Stops(t) \in SUBSET EventEnds(t)
         /\ Handed(t) \in SUBSET (1 .. Len(t) + 2)
  <1>1. Len(t) \in Nat /\ LineEnds(t) \in SUBSET (1 .. Len(t))
    BY DEF LineEnds
  <1>2. Marks(t) \in SUBSET (1 .. Len(t) + 2)
    BY <1>1 DEF Marks
  <1>3. EventEnds(t) \in SUBSET Marks(t) /\ Len(t) + 1 \notin EventEnds(t)
    BY <1>1 DEF EventEnds, Marks
  <1>4. \A e : OwnLines(t, e) \in SUBSET (1 .. Len(t) + 1)
    BY <1>1 DEF OwnLines
  <1>5. Handed(t) \in SUBSET EventEnds(t) /\ Stops(t) \in SUBSET EventEnds(t)
    BY DEF Handed, Stops
  <1>6. QED
    BY <1>1, <1>2, <1>3, <1>4, <1>5

LEMMA OwnStays ==
  ASSUME NEW t \in Seq(Letters), NEW c \in Nat, NEW e, Next1(t, c, e)
  PROVE  OwnLines(t, e) = OwnLines(t, c + 1)
  <1>1. e \in Nat /\ c + 1 \in Nat
    BY MarksAre DEF Next1
  <1>2. \A j \in Marks(t) : j \in Nat /\ (j < e <=> j < c + 1)
    BY <1>1, MarksAre DEF Next1
  <1>3. \A b \in EventEnds(t) : b < e <=> b < c + 1
    BY <1>2, MarksAre
  <1>4. \A i \in LineEnds(t) \cup {Len(t) + 1} : i < e <=> i < c + 1
    BY <1>2 DEF Marks
  <1>5. QED
    BY <1>3, <1>4, Zenon DEF OwnLines

LEMMA OwnGrows ==
  ASSUME NEW t \in Seq(Letters), NEW c \in Nat, NEW e, Next1(t, c, e), e \notin EventEnds(t),
         e \in LineEnds(t) \cup {Len(t) + 1}
  PROVE  OwnLines(t, e + 1) = OwnLines(t, c + 1) \cup (IF IsData(LineAt(t, e)) THEN {e} ELSE {})
  <1>1. e \in Nat /\ \A j \in Marks(t) : j \in Nat
    BY MarksAre DEF Next1
  <1>2. \A j \in Marks(t) : j < e + 1 <=> j < e \/ j = e
    BY <1>1
  <1>3. \A b \in EventEnds(t) : b \in Nat /\ (b < e + 1 <=> b < e)
    BY <1>2, MarksAre
  <1>4. \A i \in LineEnds(t) \cup {Len(t) + 1} : i \in Nat /\ (i < e + 1 <=> i < e \/ i = e)
    BY <1>2, MarksAre DEF Marks
  <1>5. \A b \in EventEnds(t) : ~(e < b /\ b < e + 1)
    BY <1>1, <1>3
  <1>6. \A i : i \in OwnLines(t, e + 1) <=>
            i \in OwnLines(t, e) \/ (i = e /\ IsData(LineAt(t, e)))
    <2>1. \A i : i \in OwnLines(t, e + 1) <=>
              /\ i \in LineEnds(t) \cup {Len(t) + 1}
              /\ i < e + 1 /\ IsData(LineAt(t, i)) /\ \A b \in EventEnds(t) : ~(i < b /\ b < e + 1)
      BY Zenon DEF OwnLines
    <2>2. \A i : i \in OwnLines(t, e) <=>
              /\ i \in LineEnds(t) \cup {Len(t) + 1}
              /\ i < e /\ IsData(LineAt(t, i)) /\ \A b \in EventEnds(t) : ~(i < b /\ b < e)
      BY Zenon DEF OwnLines
    <2>3. QED
      BY <1>3, <1>4, <1>5, <2>1, <2>2, Zenon
  <1>7. OwnLines(t, e) = OwnLines(t, c + 1)
    BY OwnStays
  <1>8. QED
    BY <1>6, <1>7

LEMMA OwnBegins ==
  ASSUME NEW t \in Seq(Letters), NEW e \in EventEnds(t)
  PROVE  OwnLines(t, e + 1) = {}
  <1>1. e \in Nat
    BY MarksAre
  <1>2. SUFFICES ASSUME NEW i \in OwnLines(t, e + 1) PROVE FALSE
    OBVIOUS
  <1>3. /\ i \in LineEnds(t) \cup {Len(t) + 1} /\ i < e + 1 /\ IsData(LineAt(t, i))
        /\ ~(i < e /\ e < e + 1)
    BY <1>2 DEF OwnLines
  <1>4. i \in Nat
    BY <1>3, MarksAre
  <1>5. i = e
    BY <1>1, <1>3, <1>4
  <1>6. LineAt(t, e) = <<>>
    <2>1. e # Len(t) + 2
      BY <1>3, <1>5, MarksAre
    <2>2. QED
      BY <2>1 DEF EventEnds
  <1>7. QED
    BY <1>3, <1>5, <1>6 DEF IsData

(* Where no event ends, nothing is handed on.                               *)
LEMMA NothingHanded ==
  ASSUME NEW t \in Seq(Letters), NEW c \in Nat, NEW e, Next1(t, c, e),
         e \notin Handed(t), e \notin Stops(t), \A s \in Stops(t) : c < s
  PROVE  Upto(Handed(t), e) = Upto(Handed(t), c) /\ \A s \in Stops(t) : e < s
  <1>1. e \in Nat
    BY MarksAre DEF Next1
  <1>2. \A j \in Marks(t) : j \in Nat /\ (j <= e <=> j <= c \/ j = e)
    BY <1>1, MarksAre DEF Next1
  <1>3. \A j \in Handed(t) : j <= e <=> j <= c
    BY <1>2, MarksAre
  <1>4. \A s \in Stops(t) : s \in Nat /\ ~(s <= e)
    BY <1>2, MarksAre
  <1>5. \A s \in Stops(t) : e < s
    BY <1>1, <1>4
  <1>6. QED
    BY <1>3, <1>5 DEF Upto

LEMMA LineReadTo ==
  ASSUME NEW t \in Seq(Letters), NEW c \in Nat, NEW e, Next1(t, c, e), e \notin EventEnds(t),
         NEW d, NEW v, ReadTo(t, c, State(d, v, FALSE))
  PROVE  ReadTo(t, e, IF IsData(LineAt(t, e)) THEN State(Append(d, DataValue(LineAt(t, e))), v, FALSE)
                      ELSE State(d, v, FALSE))
  <1>1. /\ d = Values(t, OwnLines(t, c + 1)) /\ v = Payloads(t, Upto(Handed(t), c))
        /\ \A s \in Stops(t) : c < s
    BY DEF ReadTo, State
  <1>2. e \in LineEnds(t) \cup {Len(t) + 1}
    BY DEF Next1, Marks, EventEnds
  <1>3. OwnLines(t, e + 1) = OwnLines(t, c + 1) \cup (IF IsData(LineAt(t, e)) THEN {e} ELSE {})
    BY <1>2, OwnGrows
  <1>4. v = Payloads(t, Upto(Handed(t), e)) /\ \A s \in Stops(t) : e < s
    <2>1. e \notin Handed(t) /\ e \notin Stops(t)
      BY MarksAre
    <2>2. Upto(Handed(t), e) = Upto(Handed(t), c) /\ \A s \in Stops(t) : e < s
      BY <1>1, <2>1, NothingHanded
    <2>3. QED
      BY <1>1, <2>2
  <1>5. CASE ~IsData(LineAt(t, e))
    <2>1. OwnLines(t, e + 1) = OwnLines(t, c + 1)
      BY <1>3, <1>5
    <2>2. ReadTo(t, e, State(d, v, FALSE))
      BY <1>1, <1>4, <2>1 DEF ReadTo, State
    <2>3. QED
      BY <1>5, <2>2
  <1>6. CASE IsData(LineAt(t, e))
    <2>1. OwnLines(t, e + 1) = OwnLines(t, c + 1) \cup {e}
      BY <1>3, <1>6
    <2>2. \A i \in OwnLines(t, c + 1) : i < e
      <3>1. OwnLines(t, e) = OwnLines(t, c + 1)
        BY OwnStays
      <3>2. QED
        BY <3>1 DEF OwnLines
    <2>3. OwnLines(t, c + 1) \in SUBSET (1 .. Len(t) + 1) /\ e \in 1 .. Len(t) + 1 /\ Len(t) + 1 \in Nat
      BY <1>2, MarksAre
    <2>4. Values(t, OwnLines(t, e + 1)) = Append(d, DataValue(LineAt(t, e)))
      BY <1>1, <2>1, <2>2, <2>3, ValuesGrow
    <2>5. ReadTo(t, e, State(Append(d, DataValue(LineAt(t, e))), v, FALSE))
      BY <1>4, <2>4 DEF ReadTo, State
    <2>6. QED
      BY <1>6, <2>5
  <1>7. QED
    BY <1>5, <1>6

LEMMA EventReadTo ==
  ASSUME NEW t \in Seq(Letters), NEW c \in Nat, NEW e \in EventEnds(t), Next1(t, c, e),
         NEW d, NEW v, ReadTo(t, c, State(d, v, FALSE))
  PROVE  ReadTo(t, e, Dispatched(d, v, FALSE))
  <1>1. /\ d = Values(t, OwnLines(t, c + 1)) /\ v = Payloads(t, Upto(Handed(t), c))
        /\ \A s \in Stops(t) : c < s
    BY DEF ReadTo, State
  <1>2. OwnLines(t, e) = OwnLines(t, c + 1) /\ OwnLines(t, e + 1) = {}
    BY OwnStays, OwnBegins
  <1>3. d = <<>> <=> OwnLines(t, e) = {}
    <2>1. OwnLines(t, e) \in SUBSET (1 .. Len(t) + 1) /\ Len(t) + 1 \in Nat
      BY MarksAre
    <2>2. QED
      BY <1>1, <1>2, <2>1, NoneOrSome
  <1>4. Joined(d) = Payload(t, e)
    BY <1>1, <1>2 DEF Payload
  <1>5. Values(t, OwnLines(t, e + 1)) = <<>>
    <2>1. {} \in SUBSET (1 .. 0) /\ 0 \in Nat
      OBVIOUS
    <2>2. QED
      BY <1>2, <2>1, NoneOrSome
  <1>6. c < e /\ e \in Nat /\ \A j \in Marks(t) : j \in Nat /\ ~(c < j /\ j < e)
    BY MarksAre DEF Next1
  <1>7. ASSUME e \notin Stops(t), e \notin Handed(t)
        PROVE  ReadTo(t, e, State(<<>>, v, FALSE))
    <2>1. Upto(Handed(t), e) = Upto(Handed(t), c) /\ \A s \in Stops(t) : e < s
      BY <1>1, <1>7, NothingHanded
    <2>2. QED
      BY <1>1, <1>5, <2>1 DEF ReadTo, State
  <1>8. CASE d = <<>>
    <2>1. e \notin Stops(t) /\ e \notin Handed(t)
      BY <1>3, <1>8 DEF Stops, Handed
    <2>2. Dispatched(d, v, FALSE) = State(<<>>, v, FALSE)
      BY <1>8 DEF Dispatched
    <2>3. QED
      BY <1>7, <2>1, <2>2
  <1>9. CASE d # <<>> /\ Joined(d) = <<DONE>>
    <2>1. e \in Stops(t)
      BY <1>3, <1>4, <1>9 DEF Stops
    <2>2. \A h \in Handed(t) : h <= c
      <3> SUFFICES ASSUME NEW h \in Handed(t) PROVE h <= c
        OBVIOUS
      <3>1. h < e /\ h \in Marks(t)
        BY <2>1, MarksAre DEF Handed
      <3>2. QED
        BY <1>6, <3>1
    <2>3. Upto(Handed(t), c) = Handed(t)
      BY <2>2 DEF Upto
    <2>4. v = Reference(t)
      BY <1>1, <2>3 DEF Reference
    <2>5. Dispatched(d, v, FALSE) = State(<<>>, v, TRUE)
      BY <1>9 DEF Dispatched
    <2>6. ReadTo(t, e, State(<<>>, v, TRUE))
      <3>1. State(<<>>, v, TRUE).done /\ State(<<>>, v, TRUE).events = v
        BY DEF State
      <3>2. QED
        BY <2>1, <2>4, <3>1, Zenon DEF ReadTo
    <2>7. QED
      BY <2>5, <2>6, Zenon
  <1>10. CASE d # <<>> /\ Joined(d) = <<>>
    <2>1. e \notin Handed(t)
      BY <1>4, <1>10 DEF Handed
    <2>2. <<>> # <<DONE>>
      <3>1. Len(<<>>) = 0 /\ Len(<<DONE>>) = 1
        OBVIOUS
      <3>2. QED
        BY <3>1
    <2>3. e \notin Stops(t)
      BY <1>4, <1>10, <2>2 DEF Stops
    <2>4. Dispatched(d, v, FALSE) = State(<<>>, v, FALSE)
      BY <1>10, <2>2 DEF Dispatched
    <2>5. QED
      BY <1>7, <2>1, <2>3, <2>4
  <1>11. CASE d # <<>> /\ Joined(d) # <<DONE>> /\ Joined(d) # <<>>
    <2>1. e \notin Stops(t)
      BY <1>4, <1>11 DEF Stops
    <2>2. \A s \in Stops(t) : e < s
      <3> SUFFICES ASSUME NEW s \in Stops(t) PROVE e < s
        OBVIOUS
      <3>1. s \in Marks(t) /\ c < s /\ s # e
        BY <1>1, <2>1, MarksAre
      <3>2. QED
        BY <1>6, <3>1
    <2>3. e \in Handed(t)
      BY <1>3, <1>4, <1>11, <2>2 DEF Handed
    <2>4. Upto(Handed(t), e) = Upto(Handed(t), c) \cup {e}
      <3>1. \A j \in Handed(t) : j <= e <=> j <= c \/ j = e
        BY <1>6, MarksAre
      <3>2. QED
        BY <2>3, <3>1 DEF Upto
    <2>5. Payloads(t, Upto(Handed(t), e)) = Append(v, Payload(t, e))
      <3>1. Upto(Handed(t), c) \in SUBSET (1 .. Len(t) + 2) /\ e \in 1 .. Len(t) + 2 /\ Len(t) + 2 \in Nat
        BY MarksAre DEF Upto
      <3>2. \A j \in Upto(Handed(t), c) : j < e
        BY <1>6, <3>1 DEF Upto
      <3>3. QED
        BY <1>1, <2>4, <3>1, <3>2, PayloadsGrow
    <2>6. Dispatched(d, v, FALSE) = State(<<>>, Append(v, Payload(t, e)), FALSE)
      BY <1>4, <1>11 DEF Dispatched
    <2> DEFINE w == Append(v, Payload(t, e))
    <2>7. ReadTo(t, e, State(<<>>, w, FALSE))
      <3>1. /\ ~State(<<>>, w, FALSE).done /\ State(<<>>, w, FALSE).events = w
            /\ State(<<>>, w, FALSE).data = <<>>
        BY DEF State
      <3> HIDE DEF w
      <3>2. w = Payloads(t, Upto(Handed(t), e))
        BY <2>5 DEF w
      <3>3. QED
        BY <1>5, <2>2, <3>1, <3>2, Zenon DEF ReadTo
    <2>8. QED
      BY <2>6, <2>7, Zenon
  <1>12. QED
    BY <1>8, <1>9, <1>10, <1>11

(* A line that has been taken, whichever it is.                             *)
LEMMA LinedReadTo ==
  ASSUME NEW t \in Seq(Letters), NEW c \in Nat, NEW e \in LineEnds(t), c < e, NoEndIn(t, c, e),
         NEW d, NEW v, ReadTo(t, c, State(d, v, FALSE))
  PROVE  Next1(t, c, e) /\ ReadTo(t, e, Lined(LineAt(t, e), d, v, FALSE))
  <1>1. Next1(t, c, e)
    <2>1. e \in 1 .. Len(t) /\ Len(t) \in Nat
      BY MarksAre
    <2>2. QED
      BY <2>1 DEF Next1, Marks, NoEndIn
  <1>2. CASE LineAt(t, e) = <<>>
    <2>1. e \in EventEnds(t)
      BY <1>2 DEF EventEnds
    <2>2. ReadTo(t, e, Dispatched(d, v, FALSE))
      BY <1>1, <2>1, EventReadTo
    <2>3. QED
      BY <1>1, <1>2, <2>2 DEF Lined
  <1>3. CASE LineAt(t, e) # <<>>
    <2>1. e \notin EventEnds(t)
      <3>1. e # Len(t) + 2
        BY MarksAre
      <3>2. QED
        BY <1>3, <3>1 DEF EventEnds
    <2>2. QED
      BY <1>1, <1>3, <2>1, LineReadTo DEF Lined
  <1>4. QED
    BY <1>2, <1>3

(* The parser has read the first n symbols of a text: up to some place, and  *)
(* what is behind that in its buffer.                                       *)
Standing(t, n, x, m) ==
  \E c \in 0 .. n : Place(t, c) /\ x = SubSeq(t, c + 1, n) /\ ReadTo(t, c, m)

HasRead(t, n, q) ==
  \E x \in Seq(Letters) : \E d, v : \E b \in BOOLEAN :
    /\ q = [buffer |-> x, data |-> d, events |-> v, done |-> b]
    /\ IF b THEN v = Reference(t) /\ Stops(t) # {} ELSE Standing(t, n, x, State(d, v, FALSE))

LEMMA ConsumeHasRead ==
  ASSUME NEW t \in Seq(Letters), NEW n \in Nat, n <= Len(t), NEW q, HasRead(t, n, q), ~Stuck(q)
  PROVE  HasRead(t, n, Consume(q))
  <1>1. PICK x \in Seq(Letters) : \E d, v : \E b \in BOOLEAN :
           /\ q = [buffer |-> x, data |-> d, events |-> v, done |-> b]
           /\ IF b THEN v = Reference(t) /\ Stops(t) # {} ELSE Standing(t, n, x, State(d, v, FALSE))
    BY DEF HasRead
  <1>2. PICK d, v : \E b \in BOOLEAN :
           /\ q = [buffer |-> x, data |-> d, events |-> v, done |-> b]
           /\ IF b THEN v = Reference(t) /\ Stops(t) # {} ELSE Standing(t, n, x, State(d, v, FALSE))
    BY <1>1
  <1>3. PICK b \in BOOLEAN :
           /\ q = [buffer |-> x, data |-> d, events |-> v, done |-> b]
           /\ IF b THEN v = Reference(t) /\ Stops(t) # {} ELSE Standing(t, n, x, State(d, v, FALSE))
    BY <1>2
  <1>4. b = FALSE /\ Separator(x).at # 0
    BY <1>3, StuckIs
  <1>5. PICK c \in 0 .. n : Place(t, c) /\ x = SubSeq(t, c + 1, n) /\ ReadTo(t, c, State(d, v, FALSE))
    BY <1>3, <1>4 DEF Standing
  <1>6. PICK e \in LineEnds(t) : TakesLine(t, c, n, x, e)
    <2>1. c \in Nat /\ c <= n
      OBVIOUS
    <2>2. QED
      BY <1>4, <1>5, <2>1, LineInText
  <1>7. /\ c < e /\ e <= n /\ NoEndIn(t, c, e)
         /\ LineAt(t, e) = SubSeq(x, 1, Separator(x).at - 1) /\ Rest(x) = SubSeq(t, e + 1, n)
    BY <1>6 DEF TakesLine
  <1> DEFINE m == Lined(LineAt(t, e), d, v, FALSE)
  <1>8. ReadTo(t, e, m)
    <2>1. c \in Nat
      OBVIOUS
    <2>2. QED
      BY <1>5, <1>7, <2>1, LinedReadTo
  <1>9. Consume(q) = With(IF m.done THEN <<>> ELSE Rest(x), m)
    <2>1. Taking(x, d, v, b) = m
      BY <1>4, <1>7 DEF Taking
    <2>2. q = [buffer |-> x, data |-> d, events |-> v, done |-> b]
      BY <1>3
    <2>3. Consume(q) = With(IF Taking(x, d, v, b).done THEN <<>> ELSE Rest(x), Taking(x, d, v, b))
      BY <2>2, ConsumeIs
    <2> HIDE DEF m
    <2>4. QED
      BY <2>1, <2>3, Zenon
  <1>10. m.done \in BOOLEAN /\ m = State(m.data, m.events, m.done)
    <2>1. m.done \in BOOLEAN
      BY LinedDone
    <2>2. m = State(m.data, m.events, m.done)
      BY DEF Lined, Dispatched, State
    <2>3. QED
      BY <2>1, <2>2
  <1> HIDE DEF m
  <1>11. e \in 0 .. n /\ Place(t, e) /\ Rest(x) \in Seq(Letters)
    <2>1. e \in 1 .. Len(t)
      BY MarksAre
    <2>2. Rest(x) \in Seq(Letters)
      BY <1>4, RestIs
    <2>3. QED
      BY <1>7, <2>1, <2>2 DEF Place
  <1>12. CASE m.done
    <2>1. Consume(q) = [buffer |-> <<>>, data |-> m.data, events |-> m.events, done |-> TRUE]
      BY <1>9, <1>10, <1>12 DEF With
    <2>2. m.events = Reference(t) /\ Stops(t) # {}
      BY <1>8, <1>12, Zenon DEF ReadTo
    <2>3. <<>> \in Seq(Letters) /\ TRUE \in BOOLEAN
      OBVIOUS
    <2>4. QED
      BY <2>1, <2>2, <2>3, Zenon DEF HasRead
  <1>13. CASE ~m.done
    <2>1. Consume(q) = [buffer |-> Rest(x), data |-> m.data, events |-> m.events, done |-> FALSE]
      BY <1>9, <1>10, <1>13 DEF With
    <2>2. m = State(m.data, m.events, FALSE)
      BY <1>10, <1>13
    <2>3. Standing(t, n, Rest(x), State(m.data, m.events, FALSE))
      BY <1>7, <1>8, <1>11, <2>2, Zenon DEF Standing
    <2>4. FALSE \in BOOLEAN
      OBVIOUS
    <2>5. QED
      BY <1>11, <2>1, <2>3, <2>4, Zenon DEF HasRead
  <1>14. QED
    BY <1>10, <1>12, <1>13

LEMMA FreshHasRead ==
  ASSUME NEW t \in Seq(Letters), NEW n \in Nat, n <= Len(t)
  PROVE  HasRead(t, n, Fed(Fresh, SubSeq(t, 1, n)))
  <1> DEFINE x == SubSeq(t, 1, n)
  <1>1. x \in Seq(Letters)
    OBVIOUS
  <1> HIDE DEF x
  <1>2. Fed(Fresh, x) = [buffer |-> x, data |-> <<>>, events |-> <<>>, done |-> FALSE]
    <2>1. Fresh = With(<<>>, State(<<>>, <<>>, FALSE))
      BY DEF Fresh, With, State
    <2>2. Fed(Fresh, x) = With(<<>> \o x, State(<<>>, <<>>, FALSE))
      BY <2>1, FedWith, Zenon
    <2>3. <<>> \o x = x
      BY <1>1
    <2>4. QED
      BY <2>2, <2>3 DEF With, State
  <1>3. Standing(t, n, x, State(<<>>, <<>>, FALSE))
    <2>1. OwnLines(t, 0 + 1) = {}
      <3>1. \A i \in LineEnds(t) \cup {Len(t) + 1} : ~(i < 1)
        <4>1. \A i \in LineEnds(t) \cup {Len(t) + 1} : i \in 1 .. Len(t) + 1
          BY MarksAre
        <4>2. QED
          BY <4>1
      <3>2. QED
        BY <3>1 DEF OwnLines
    <2>2. Upto(Handed(t), 0) = {}
      BY MarksAre DEF Upto
    <2>3. Values(t, {}) = <<>> /\ Payloads(t, {}) = <<>>
      <3>1. Cardinality({}) = 0 /\ 1 .. 0 = {}
        BY FS_EmptySet
      <3>2. QED
        BY <3>1 DEF Values, Payloads
    <2>4. \A s \in Stops(t) : 0 < s
      BY MarksAre
    <2>5. ReadTo(t, 0, State(<<>>, <<>>, FALSE))
      <3>1. /\ ~State(<<>>, <<>>, FALSE).done /\ State(<<>>, <<>>, FALSE).events = <<>>
            /\ State(<<>>, <<>>, FALSE).data = <<>>
        BY DEF State
      <3>2. QED
        BY <2>1, <2>2, <2>3, <2>4, <3>1, Zenon DEF ReadTo
    <2>6. 0 \in 0 .. n /\ Place(t, 0) /\ x = SubSeq(t, 0 + 1, n)
      BY DEF Place, x
    <2>7. QED
      BY <2>5, <2>6, Zenon DEF Standing
  <1>4. FALSE \in BOOLEAN
    OBVIOUS
  <1>5. HasRead(t, n, Fed(Fresh, x))
    BY <1>1, <1>2, <1>3, <1>4, Zenon DEF HasRead
  <1>6. QED
    BY <1>5 DEF x

(* So `Scan` has read it, and leaves no line that has ended.                *)
LEMMA ScanHasRead ==
  ASSUME NEW t \in Seq(Letters), NEW n \in Nat, n <= Len(t)
  PROVE  HasRead(t, n, Scan(Fed(Fresh, SubSeq(t, 1, n))))
  <1> DEFINE p == Fed(Fresh, SubSeq(t, 1, n))
  <1>1. HasRead(t, n, p)
    BY FreshHasRead
  <1>2. IsReader(p)
    <2>1. SubSeq(t, 1, n) \in Seq(Letters)
      OBVIOUS
    <2>2. QED
      BY <2>1, FreshReads
  <1> HIDE DEF p
  <1>3. PICK f : \E k \in Nat : Run(f, k, p, Scan(p))
    BY <1>2, ScanRuns
  <1>4. PICK k \in Nat : Run(f, k, p, Scan(p))
    BY <1>3
  <1> DEFINE S == {j \in Nat : j <= k => HasRead(t, n, f[j])}
  <1>5. 0 \in S
    BY <1>1, <1>4 DEF Run
  <1>6. ASSUME NEW j \in S PROVE j + 1 \in S
    <2>1. j \in Nat /\ j + 1 \in Nat /\ (j + 1 <= k => j < k /\ j <= k)
      OBVIOUS
    <2>2. j + 1 <= k => HasRead(t, n, f[j + 1])
      BY <1>4, <1>6, <2>1, ConsumeHasRead DEF Run
    <2>3. QED
      BY <2>1, <2>2
  <1>7. S \in SUBSET Nat
    OBVIOUS
  <1> HIDE DEF S
  <1>8. k \in S
    BY <1>5, <1>6, <1>7, Induction
  <1>9. HasRead(t, n, f[k])
    BY <1>8 DEF S
  <1>10. QED
    BY <1>4, <1>9 DEF Run, p

(* Behind the last line there is one more end of an event, and that is all.  *)
LEMMA ReadAll ==
  ASSUME NEW t \in Seq(Letters), NEW m, m.done \in BOOLEAN, ReadTo(t, Len(t) + 2, m)
  PROVE  m.events = Reference(t) /\ m.done = SawDone(t)
  <1>1. CASE m.done
    BY <1>1 DEF ReadTo, SawDone
  <1>2. CASE ~m.done
    <2>1. \A h \in Handed(t) \cup Stops(t) : h \in Nat /\ h <= Len(t) + 2 /\ ~(Len(t) + 2 < h)
      BY MarksAre
    <2>2. Upto(Handed(t), Len(t) + 2) = Handed(t)
      BY <2>1 DEF Upto
    <2>3. Stops(t) = {}
      BY <1>2, <2>1 DEF ReadTo
    <2>4. m.events = Reference(t)
      BY <1>2, <2>2 DEF ReadTo, Reference
    <2>5. QED
      BY <1>2, <2>3, <2>4 DEF SawDone
  <1>3. QED
    BY <1>1, <1>2

LEMMA EndAdjoins ==
  ASSUME NEW t \in Seq(Letters)
  PROVE  /\ \A c \in Nat : c <= Len(t) /\ NoEndIn(t, c, Len(t) + 1) => Next1(t, c, Len(t) + 1)
         /\ Next1(t, Len(t) + 1, Len(t) + 2) /\ Len(t) + 2 \in EventEnds(t)
  <1>1. Len(t) \in Nat /\ \A j \in LineEnds(t) : j \in Nat /\ j <= Len(t)
    BY MarksAre
  <1>2. QED
    BY <1>1 DEF Next1, Marks, NoEndIn, EventEnds

LEMMA LastReadTo ==
  ASSUME NEW t \in Seq(Letters), NEW d, NEW v, ReadTo(t, Len(t) + 1, State(d, v, FALSE))
  PROVE  ReadTo(t, Len(t) + 2, Dispatched(d, v, FALSE))
  <1>1. Len(t) + 1 \in Nat
    BY MarksAre
  <1>2. QED
    BY <1>1, EndAdjoins, EventReadTo

(* A text that ends with its last line has an empty one behind it.          *)
LEMMA NothingBehind ==
  ASSUME NEW t \in Seq(Letters), Len(t) \in LineEnds(t),
         NEW d, NEW v, ReadTo(t, Len(t), State(d, v, FALSE))
  PROVE  ReadTo(t, Len(t) + 1, State(d, v, FALSE))
  <1> DEFINE n == Len(t)
  <1>1. n \in Nat /\ \A j \in LineEnds(t) : j \in Nat /\ j <= n
    BY MarksAre
  <1>2. NoEndIn(t, n, n + 1) /\ Place(t, n)
    BY <1>1 DEF NoEndIn, Place
  <1>3. Next1(t, n, n + 1) /\ n + 1 \notin EventEnds(t)
    BY <1>1, <1>2, EndAdjoins, MarksAre
  <1>4. ~IsData(LineAt(t, n + 1))
    <2>1. LineAt(t, n + 1) = SubSeq(t, n + 1, n)
      <3>1. n + 1 \in Nat /\ n < n + 1 /\ ~(n + 1 <= Len(t)) /\ (n + 1) - 1 = n
        BY <1>1
      <3> HIDE DEF n
      <3>2. QED
        BY <1>1, <1>2, <3>1, LineFrom
    <2>2. SubSeq(t, n + 1, n) = <<>>
      BY <1>1
    <2>3. QED
      BY <2>1, <2>2 DEF IsData
  <1>5. QED
    BY <1>1, <1>3, <1>4, LineReadTo

LEMMA EndReadTo ==
  ASSUME NEW t \in Seq(Letters), NEW c \in 0 .. Len(t), Place(t, c),
         NEW x, x = SubSeq(t, c + 1, Len(t)), Separator(x).at = 0,
         NEW d, NEW v, ReadTo(t, c, State(d, v, FALSE)),
         NEW last, last = (IF x # <<>> /\ Last(x) = CR THEN Front(x) ELSE x),
         NEW more, more = (IF IsData(last) THEN Append(d, DataValue(last)) ELSE d)
  PROVE  ReadTo(t, Len(t) + 2, Dispatched(more, v, FALSE))
  <1> DEFINE n == Len(t)
  <1>1. n \in Nat /\ c \in Nat /\ c <= n
    BY MarksAre
  <1>2. \/ NoEndIn(t, c, n + 1) /\ LineAt(t, n + 1) = x /\ last = x
        \/ /\ last = Front(x) /\ c < n /\ n \in LineEnds(t)
           /\ NoEndIn(t, c, n) /\ LineAt(t, n) = Front(x)
    BY <1>1, LastLine
  <1>3. CASE NoEndIn(t, c, n + 1) /\ LineAt(t, n + 1) = x /\ last = x
    <2>1. Next1(t, c, n + 1) /\ n + 1 \notin EventEnds(t)
      BY <1>1, <1>3, EndAdjoins, MarksAre
    <2>2. ReadTo(t, n + 1, IF IsData(last) THEN State(Append(d, DataValue(last)), v, FALSE)
                           ELSE State(d, v, FALSE))
      BY <1>1, <1>3, <2>1, LineReadTo
    <2>3. ReadTo(t, n + 1, State(more, v, FALSE))
      BY <2>2, Zenon
    <2>4. QED
      BY <2>3, LastReadTo
  <1>4. CASE /\ last = Front(x) /\ c < n /\ n \in LineEnds(t)
             /\ NoEndIn(t, c, n) /\ LineAt(t, n) = Front(x)
    <2>1. LineAt(t, n) = last
      BY <1>4
    <2>2. Next1(t, c, n) /\ ReadTo(t, n, Lined(last, d, v, FALSE))
      <3>1. ReadTo(t, n, Lined(LineAt(t, n), d, v, FALSE)) /\ Next1(t, c, n)
        BY <1>1, <1>4, LinedReadTo
      <3>2. QED
        BY <2>1, <3>1
    <2>3. CASE last # <<>>
      <3>1. Lined(last, d, v, FALSE) = State(more, v, FALSE)
        BY <2>3 DEF Lined
      <3>2. ReadTo(t, n + 1, State(more, v, FALSE))
        BY <1>4, <2>2, <3>1, NothingBehind
      <3>3. QED
        BY <3>2, LastReadTo
    <2>4. CASE last = <<>>
      <3> DEFINE m == Dispatched(d, v, FALSE)
      <3>1. more = d /\ ReadTo(t, n, m)
        BY <2>2, <2>4 DEF Lined, IsData
      <3>2. CASE m.done
        <4> HIDE DEF m
        <4>1. ReadTo(t, n + 2, m)
          BY <3>1, <3>2 DEF ReadTo
        <4>2. QED
          BY <3>1, <4>1 DEF m
      <3>3. CASE ~m.done
        <4>1. \E w : m = State(<<>>, w, FALSE)
          BY <3>3 DEF Dispatched, State
        <4> HIDE DEF m
        <4>2. PICK w : m = State(<<>>, w, FALSE)
          BY <4>1
        <4>3. ReadTo(t, n + 1, State(<<>>, w, FALSE))
          BY <1>4, <3>1, <4>2, NothingBehind
        <4>4. ReadTo(t, n + 2, Dispatched(<<>>, w, FALSE))
          BY <4>3, LastReadTo
        <4>5. Dispatched(<<>>, w, FALSE) = m
          BY <4>2 DEF Dispatched
        <4>6. ReadTo(t, n + 2, m)
          BY <4>4, <4>5
        <4>7. QED
          BY <3>1, <4>6 DEF m
      <3>4. QED
        BY <3>2, <3>3
    <2>5. QED
      BY <2>3, <2>4
  <1>5. QED
    BY <1>2, <1>3, <1>4

(* The reader that has stopped on [DONE], and the one that has not: what is   *)
(* left in its buffer is the last line of the text.                         *)
LEMMA EndHasRead ==
  ASSUME NEW t \in Seq(Letters), NEW p, HasRead(t, Len(t), p), Stuck(p), ~p.done
  PROVE  AtEnd(p).events = Reference(t) /\ AtEnd(p).done = SawDone(t)
  <1> DEFINE n == Len(t)
  <1>0. n \in Nat
    BY MarksAre
  <1>1. PICK x \in Seq(Letters) : \E d, v : \E b \in BOOLEAN :
           /\ p = [buffer |-> x, data |-> d, events |-> v, done |-> b]
           /\ IF b THEN v = Reference(t) /\ Stops(t) # {} ELSE Standing(t, n, x, State(d, v, FALSE))
    BY DEF HasRead
  <1>2. PICK d, v : \E b \in BOOLEAN :
           /\ p = [buffer |-> x, data |-> d, events |-> v, done |-> b]
           /\ IF b THEN v = Reference(t) /\ Stops(t) # {} ELSE Standing(t, n, x, State(d, v, FALSE))
    BY <1>1
  <1>3. PICK b \in BOOLEAN :
           /\ p = [buffer |-> x, data |-> d, events |-> v, done |-> b]
           /\ IF b THEN v = Reference(t) /\ Stops(t) # {} ELSE Standing(t, n, x, State(d, v, FALSE))
    BY <1>2
  <1>4. b = FALSE /\ Separator(x).at = 0
    BY <1>3, StuckIs
  <1>5. p = [buffer |-> x, data |-> d, events |-> v, done |-> FALSE]
    BY <1>3, <1>4
  <1>6. PICK c \in 0 .. n : Place(t, c) /\ x = SubSeq(t, c + 1, n) /\ ReadTo(t, c, State(d, v, FALSE))
    BY <1>3, <1>4 DEF Standing
  <1> DEFINE last == IF x # <<>> /\ Last(x) = CR THEN Front(x) ELSE x
             more == IF IsData(last) THEN Append(d, DataValue(last)) ELSE d
             q == IF last = <<>> THEN p ELSE Line(p, last)
  <1>7. ReadTo(t, n + 2, Dispatched(more, v, FALSE))
    <2> HIDE DEF more
    <2>1. more = (IF IsData(last) THEN Append(d, DataValue(last)) ELSE d)
      BY DEF more
    <2> HIDE DEF last
    <2>2. last = (IF x # <<>> /\ Last(x) = CR THEN Front(x) ELSE x)
      BY DEF last
    <2>3. QED
      BY <1>4, <1>6, <2>1, <2>2, EndReadTo
  <1>8. AtEnd(p) = Dispatch([q EXCEPT !.buffer = <<>>])
    BY <1>5, Zenon DEF AtEnd
  <1>9. q = With(x, State(more, v, FALSE))
    <2>1. p = With(x, State(d, v, FALSE))
      BY <1>5 DEF With, State
    <2> HIDE DEF last
    <2>2. CASE last = <<>>
      BY <2>1, <2>2 DEF IsData
    <2>3. CASE last # <<>>
      <3>0. p = [buffer |-> x, data |-> d, events |-> v, done |-> b]
        BY <1>3
      <3>1. Line(p, last) = With(x, Lined(last, d, v, b))
        BY <3>0, LineIs
      <3>2. Lined(last, d, v, FALSE) = State(more, v, FALSE)
        BY <2>3 DEF Lined
      <3>3. QED
        BY <1>4, <2>3, <3>1, <3>2
    <2>4. QED
      BY <2>2, <2>3
  <1> HIDE DEF q, more
  <1>10. [q EXCEPT !.buffer = <<>>] = [buffer |-> <<>>, data |-> more, events |-> v, done |-> b]
    <2>1. q = [buffer |-> x, data |-> more, events |-> v, done |-> b]
      BY <1>4, <1>9 DEF With, State
    <2>2. \A r : r = [buffer |-> x, data |-> more, events |-> v, done |-> b] =>
            [r EXCEPT !.buffer = <<>>] = [buffer |-> <<>>, data |-> more, events |-> v, done |-> b]
      OBVIOUS
    <2>3. QED
      BY <2>1, <2>2, Zenon
  <1>11. AtEnd(p) = With(<<>>, Dispatched(more, v, FALSE))
    <2>1. Dispatch([q EXCEPT !.buffer = <<>>]) = With(<<>>, Dispatched(more, v, b))
      BY <1>10, DispatchIs
    <2>2. QED
      BY <1>4, <1>8, <2>1
  <1> DEFINE m == Dispatched(more, v, FALSE)
  <1>12. m.done \in BOOLEAN
    BY DEF Dispatched, State
  <1>13. m.events = Reference(t) /\ m.done = SawDone(t)
    <2> HIDE DEF m
    <2>1. ReadTo(t, Len(t) + 2, m)
      BY <1>7 DEF m
    <2>2. QED
      BY <1>12, <2>1, ReadAll
  <1>14. AtEnd(p).events = m.events /\ AtEnd(p).done = m.done
    BY <1>11 DEF With
  <1>15. QED
    BY <1>13, <1>14

(* As far as it has come, and at its end.                                   *)
LEMMA ReadingIs == StreamInv => StreamIsRead
  <1> SUFFICES ASSUME StreamInv PROVE StreamIsRead
    OBVIOUS
  <1>1. text \in Seq(Letters) /\ sent \in Nat /\ sent <= Len(text) /\ Len(text) \in Nat
    BY DEF StreamInv
  <1>2. CASE ~ended
    <2> DEFINE p == Scan(Fed(Fresh, SubSeq(text, 1, sent)))
    <2>1. Parser = p /\ done = FALSE
      BY <1>2 DEF StreamInv
    <2>2. HasRead(text, sent, p)
      BY <1>1, ScanHasRead
    <2>3. p.done = FALSE /\ events = p.events
      BY <2>1 DEF Parser
    <2> HIDE DEF p
    <2>4. \E c \in 0 .. sent : events = Payloads(text, Upto(Handed(text), c))
      <3>1. PICK x \in Seq(Letters) : \E d, v : \E b \in BOOLEAN :
               /\ p = [buffer |-> x, data |-> d, events |-> v, done |-> b]
               /\ IF b THEN v = Reference(text) /\ Stops(text) # {}
                  ELSE Standing(text, sent, x, State(d, v, FALSE))
        BY <2>2 DEF HasRead
      <3>2. PICK d, v : \E b \in BOOLEAN :
               /\ p = [buffer |-> x, data |-> d, events |-> v, done |-> b]
               /\ IF b THEN v = Reference(text) /\ Stops(text) # {}
                  ELSE Standing(text, sent, x, State(d, v, FALSE))
        BY <3>1
      <3>3. Standing(text, sent, x, State(d, v, FALSE)) /\ events = v
        <4>1. PICK b \in BOOLEAN :
                 /\ p = [buffer |-> x, data |-> d, events |-> v, done |-> b]
                 /\ IF b THEN v = Reference(text) /\ Stops(text) # {}
                    ELSE Standing(text, sent, x, State(d, v, FALSE))
          BY <3>2
        <4>2. p.done = b /\ p.events = v
          BY <4>1
        <4>3. QED
          BY <2>3, <4>1, <4>2, Zenon
      <3>4. PICK c \in 0 .. sent : ReadTo(text, c, State(d, v, FALSE))
        BY <3>3 DEF Standing
      <3>5. v = Payloads(text, Upto(Handed(text), c))
        BY <3>4 DEF ReadTo, State
      <3>6. QED
        BY <3>3, <3>5
    <2>5. PICK c \in 0 .. sent : events = Payloads(text, Upto(Handed(text), c))
      BY <2>4
    <2>6. IsPrefix(Payloads(text, Upto(Handed(text), c)), Payloads(text, Handed(text)))
      <3>1. Handed(text) \in SUBSET (1 .. Len(text) + 2) /\ Len(text) + 2 \in Nat /\ c \in Nat
        BY <1>1, MarksAre
      <3>2. QED
        BY <1>1, <3>1, HandedFirst
    <2>7. QED
      BY <1>2, <2>5, <2>6 DEF StreamIsRead, Reference
  <1>3. CASE ended
    <2> DEFINE p == Scan(Fed(Fresh, text))
    <2>1. Parser = AtOnce(text)
      BY <1>3 DEF StreamInv
    <2>2. SubSeq(text, 1, Len(text)) = text
      BY <1>1
    <2>3. HasRead(text, Len(text), p)
      <3>1. HasRead(text, Len(text), Scan(Fed(Fresh, SubSeq(text, 1, Len(text)))))
        BY <1>1, ScanHasRead
      <3>2. QED
        BY <2>2, <3>1
    <2>4. Stuck(p)
      <3>1. IsReader(Fed(Fresh, text))
        BY <1>1, FreshReads
      <3>2. QED
        BY <3>1, ScanRuns DEF Run
    <2>5. AtOnce(text) = IF p.done THEN p ELSE AtEnd(p)
      BY DEF AtOnce
    <2> HIDE DEF p
    <2>6. events = AtOnce(text).events /\ done = AtOnce(text).done
      BY <2>1 DEF Parser
    <2>7. events = Reference(text) /\ done = SawDone(text)
      <3>1. CASE ~p.done
        <4>1. AtOnce(text) = AtEnd(p)
          BY <2>5, <3>1
        <4>2. QED
          BY <1>1, <2>3, <2>4, <2>6, <3>1, <4>1, EndHasRead
      <3>2. CASE p.done
        <4>1. PICK x \in Seq(Letters) : \E d, v : \E b \in BOOLEAN :
                 /\ p = [buffer |-> x, data |-> d, events |-> v, done |-> b]
                 /\ IF b THEN v = Reference(text) /\ Stops(text) # {}
                    ELSE Standing(text, Len(text), x, State(d, v, FALSE))
          BY <2>3 DEF HasRead
        <4>2. PICK d, v : \E b \in BOOLEAN :
                 /\ p = [buffer |-> x, data |-> d, events |-> v, done |-> b]
                 /\ IF b THEN v = Reference(text) /\ Stops(text) # {}
                    ELSE Standing(text, Len(text), x, State(d, v, FALSE))
          BY <4>1
        <4>3. PICK b \in BOOLEAN :
                 /\ p = [buffer |-> x, data |-> d, events |-> v, done |-> b]
                 /\ IF b THEN v = Reference(text) /\ Stops(text) # {}
                    ELSE Standing(text, Len(text), x, State(d, v, FALSE))
          BY <4>2
        <4>4. p.done = b /\ p.events = v
          BY <4>3
        <4>5. p.events = Reference(text) /\ p.done = TRUE /\ SawDone(text) = TRUE
          BY <3>2, <4>3, <4>4 DEF SawDone
        <4>6. QED
          BY <2>5, <2>6, <3>2, <4>5
      <3>3. QED
        BY <3>1, <3>2
    <2>8. IsPrefix(Reference(text), Reference(text))
      <3>1. Handed(text) \in SUBSET (1 .. Len(text) + 2) /\ Len(text) + 2 \in Nat
        BY <1>1, MarksAre
      <3>2. Upto(Handed(text), Len(text) + 2) = Handed(text)
        BY <3>1 DEF Upto
      <3>3. IsPrefix(Payloads(text, Upto(Handed(text), Len(text) + 2)), Payloads(text, Handed(text)))
        BY <3>1, HandedFirst
      <3>4. QED
        BY <3>2, <3>3 DEF Reference
    <2>9. QED
      BY <2>7, <2>8 DEF StreamIsRead
  <1>4. ended \in BOOLEAN
    BY DEF StreamInv
  <1>5. QED
    BY <1>2, <1>3, <1>4

(* Whatever a server sends and however it is cut into chunks, the reader      *)
(* hands on the events that the format says are in the text, each as soon as *)
(* no chunk to come can change it, and it ends knowing whether [DONE] was    *)
(* among them.  (sse.mjs scanLines, push, end; createSseParser)              *)
THEOREM ChunksNeverMatter == Spec => []ChunksDontMatter
  <1>1. Init => StreamInv
    BY StreamBegins
  <1>2. StreamInv /\ [Next]_vars => StreamInv'
    BY StreamInvStep
  <1>3. StreamInv => ChunksDontMatter
    BY ReadingIs DEF StreamInv, CutsDontMatter, ChunksDontMatter
  <1>4. QED
    BY <1>1, <1>2, <1>3, PTL DEF Spec
=============================================================================
