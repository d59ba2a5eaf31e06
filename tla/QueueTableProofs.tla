-------------------------- MODULE QueueTableProofs --------------------------
(***************************************************************************)
(* What the commands say of a queue is so of every table, of however many  *)
(* rows: whom the queue seats next, whom status blames, what abandon may   *)
(* promise.                                                                *)
(***************************************************************************)
EXTENDS QueueTable, WellFoundedInduction, TLAPS

(* A set of naturals has a least element.                                    *)
LEMMA LeastNatural ==
  ASSUME NEW S \in SUBSET Nat, S # {}
  PROVE  \E n \in S : \A m \in S : n <= m
  <1> DEFINE R == {ss \in Nat \X Nat : ss[1] < ss[2]}
  <1>1. OpToRel(<, Nat) = R
    BY Zenon DEF OpToRel
  <1>2. IsWellFoundedOn(R, Nat)
    BY Zenon, <1>1, NatLessThanWellFounded
  <1>3. \A m, n \in Nat : m < n => <<m, n>> \in R
    OBVIOUS
  <1> HIDE DEF R
  <1>4. PICK n \in S : \A m \in S : ~(<<m, n>> \in R)
    BY <1>2, WFMin
  <1>5. \A m \in S : ~(m < n)
    BY <1>3, <1>4
  <1>6. QED
    BY <1>5

LEMMA LowestIsLeast ==
  ASSUME NEW S \in SUBSET Nat, S # {}
  PROVE  Lowest(S) \in S /\ \A t \in S : Lowest(S) <= t
  BY LeastNatural DEF Lowest

-----------------------------------------------------------------------------
(* The rules, of any table of views.                                         *)
View ==
  [state : Active, cancel : BOOLEAN, known : BOOLEAN, beat : {"fresh", "stale", "unreadable"},
   expired : BOOLEAN, here : BOOLEAN, liveness : LivenessKinds]
ViewTable(w) == DOMAIN w \subseteq Nat \ {0} /\ \A s \in DOMAIN w : w[s] \in View

LEMMA HeadExists ==
  ASSUME NEW w, ViewTable(w), NEW t \in QueuedIn(w), Role(w, t) # "skip"
  PROVE  \E h \in QueuedIn(w) : IsHead(w, h) /\ h <= t
  <1> DEFINE S == {u \in QueuedIn(w) : Role(w, u) # "skip"}
  <1>1. S \subseteq Nat /\ t \in S
    BY DEF ViewTable, QueuedIn
  <1>2. PICK h \in S : \A u \in S : h <= u
    BY <1>1, LeastNatural
  <1>3. IsHead(w, h)
    BY <1>1, <1>2 DEF IsHead, ViewTable, QueuedIn
  <1>4. QED
    BY <1>1, <1>2, <1>3

LEMMA OneHead ==
  ASSUME NEW w, ViewTable(w), NEW h \in DOMAIN w, NEW t \in DOMAIN w, IsHead(w, h), IsHead(w, t)
  PROVE  h = t
  BY DEF IsHead, ViewTable, QueuedIn

(* A running row that is not provably dead holds any waiting job up, and so  *)
(* does a head in front of it, with nothing else in the queue.               *)
LEMMA BlockerBlocks ==
  ASSUME NEW w, ViewTable(w), NEW s \in DOMAIN w, Eligible(w[s]), NEW b \in RunningBlockers(w)
  PROVE  Verdict(w, s) = "blocked" /\ Verdict(Only(w, {s, b}), s) = "blocked"
  <1>1. b \in RunningBlockers(Only(w, {s, b}))
    BY DEF RunningBlockers, RunningIn, Only
  <1>2. Only(w, {s, b})[s] = w[s]
    BY DEF Only
  <1>3. w[s].state = "queued" /\ ~w[s].cancel
    BY DEF Eligible
  <1>4. QED
    BY <1>1, <1>2, <1>3 DEF Verdict

LEMMA HeadBlocks ==
  ASSUME NEW w, ViewTable(w), NEW s \in DOMAIN w, Eligible(w[s]), NEW h \in QueuedIn(w),
         IsHead(w, h), h < s, RunningBlockers(w) = {}
  PROVE  Verdict(w, s) = "blocked" /\ Verdict(Only(w, {s, h}), s) = "blocked"
  <1> DEFINE o == Only(w, {s, h})
  <1>1. w[s].state = "queued" /\ ~w[s].cancel
    BY DEF Eligible
  <1>2. ~IsHead(w, s) /\ ~(\A t \in QueuedIn(w) : Role(w, t) = "skip")
    BY DEF IsHead
  <1>3. /\ DOMAIN o = {s, h} /\ o[s] = w[s] /\ o[h] = w[h]
        /\ h \in QueuedIn(o) /\ Role(o, h) = Role(w, h)
    BY DEF Only, QueuedIn, Role
  <1>4. ~IsHead(o, s) /\ ~(\A t \in QueuedIn(o) : Role(o, t) = "skip")
    BY <1>3 DEF IsHead
  <1> HIDE DEF o
  <1>5. Verdict(w, s) = "blocked" /\ Verdict(o, s) = "blocked"
    BY <1>1, <1>2, <1>3, <1>4 DEF Verdict
  <1>6. QED
    BY <1>5 DEF o

(* What could be drained to is seated by its worker's next attempt, and      *)
(* reads as waiting.                                                         *)
LEMMA DrainSeats ==
  ASSUME NEW w, ViewTable(w), CouldDrain(w)
  PROVE  \E s \in DOMAIN w : /\ w[s].liveness = "live" /\ Verdict(w, s) = "acquired"
                             /\ DisplayOf(w[s]) = "queued"
  <1>1. PICK h \in QueuedIn(w) :
          /\ RunningBlockers(w) = {} /\ IsHead(w, h) /\ Role(w, h) = "head"
          /\ ~w[h].cancel /\ w[h].beat = "fresh"
    BY DEF CouldDrain
  <1>2. h \in DOMAIN w /\ w[h].state = "queued" /\ w[h].liveness = "live"
    BY <1>1 DEF QueuedIn, Role, QueuedRole
  <1>3. Verdict(w, h) = "acquired"
    BY <1>1, <1>2 DEF Verdict
  <1>4. DisplayOf(w[h]) = "queued"
    BY <1>1, <1>2 DEF DisplayOf
  <1>5. QED
    BY <1>2, <1>3, <1>4

(* Who is to blame, and that somebody is shown to be.                        *)
LEMMA BlameIsJust ==
  ASSUME NEW w, ViewTable(w), BlockingSeq(w) # 0
  PROVE  LET b == BlockingSeq(w) IN
         /\ b \in DOMAIN w /\ ~w[b].here
         /\ \E s \in DOMAIN w : /\ Eligible(w[s]) /\ Verdict(w, s) = "blocked"
                                /\ Verdict(Only(w, {s, b}), s) = "blocked"
  <1> DEFINE blockers == RunningBlockers(w)
             heads == {h \in QueuedIn(w) : IsHead(w, h)}
  <1>1. PICK s \in DOMAIN w : Eligible(w[s])
    BY DEF BlockingSeq
  <1>2. CASE blockers # {}
    <2>1. Lowest(blockers) \in blockers
      BY <1>2, LowestIsLeast DEF RunningBlockers, RunningIn, ViewTable
    <2>2. BlockingSeq(w) = Lowest(blockers) /\ ~w[Lowest(blockers)].here
      BY <1>1, <1>2 DEF BlockingSeq
    <2>3. Lowest(blockers) \in DOMAIN w
      BY <2>1 DEF RunningBlockers, RunningIn
    <2>4. QED
      BY <1>1, <2>1, <2>2, <2>3, BlockerBlocks
  <1>3. CASE blockers = {}
    <2>1. BlockingSeq(w) = Lowest(heads) /\ \E h \in heads : ~w[h].here /\ \E t \in DOMAIN w : Eligible(w[t]) /\ t > h
      BY <1>1, <1>3 DEF BlockingSeq
    <2>2. PICK h \in heads, t \in DOMAIN w : ~w[h].here /\ Eligible(w[t]) /\ t > h
      BY <2>1
    <2>3. h \in DOMAIN w /\ heads \subseteq DOMAIN w
      BY DEF QueuedIn
    <2>4. heads \subseteq Nat /\ heads # {}
      BY <2>2, <2>3 DEF ViewTable
    <2>5. Lowest(heads) \in heads
      BY <2>4, LowestIsLeast
    <2>6. Lowest(heads) = h
      BY <2>2, <2>3, <2>5, OneHead
    <2>7. t \in Nat /\ h \in Nat /\ h < t
      BY <2>2, <2>3 DEF ViewTable
    <2>8. Verdict(w, t) = "blocked" /\ Verdict(Only(w, {t, h}), t) = "blocked"
      BY <1>3, <2>2, <2>7, HeadBlocks
    <2>9. QED
      BY <2>1, <2>2, <2>3, <2>6, <2>8
  <1>4. QED
    BY <1>2, <1>3

LEMMA SomebodyIsShown ==
  ASSUME NEW w, ViewTable(w), NEW s \in DOMAIN w, Eligible(w[s]), Verdict(w, s) = "blocked"
  PROVE  \E b \in Shown(w) : Verdict(Only(w, {s, b}), s) = "blocked"
  <1>1. CASE RunningBlockers(w) # {}
    <2>1. PICK b \in RunningBlockers(w) : TRUE
      BY <1>1
    <2>2. b \in Shown(w)
      BY DEF RunningBlockers, RunningIn, Shown
    <2>3. QED
      BY <2>2, BlockerBlocks
  <1>2. CASE RunningBlockers(w) = {}
    <2>1. /\ w[s].state = "queued" /\ ~w[s].cancel /\ w[s].here /\ w[s].liveness \in {"live", "starting"}
          /\ s \in QueuedIn(w) /\ Role(w, s) # "skip"
      BY DEF Eligible, QueuedIn, Role, QueuedRole
    <2>2. ~(IsHead(w, s) /\ Role(w, s) = "head")
      BY <1>2, <2>1 DEF Verdict
    <2>3. PICK h \in QueuedIn(w) : IsHead(w, h) /\ h <= s
      BY <2>1, HeadExists
    <2>4. h \in DOMAIN w /\ h \in Nat /\ s \in Nat
      BY DEF QueuedIn, ViewTable
    <2>5. CASE h = s
      <3> DEFINE o == Only(w, {s})
      <3>1. DOMAIN o = {s} /\ o[s] = w[s] /\ RunningBlockers(o) = {}
        BY <2>1 DEF Only, RunningBlockers, RunningIn
      <3>2. QueuedIn(o) = {s} /\ Role(o, s) = Role(w, s)
        BY <2>1, <3>1 DEF QueuedIn, Role
      <3> HIDE DEF o
      <3>3. Verdict(o, s) = "blocked"
        BY <2>1, <2>2, <2>3, <2>5, <3>1, <3>2 DEF Verdict
      <3>4. s \in Shown(w)
        BY <2>1 DEF Shown
      <3>5. {s, s} = {s}
        OBVIOUS
      <3>6. QED
        BY <3>3, <3>4, <3>5 DEF o
    <2>6. CASE h # s
      <3>1. h < s
        BY <2>3, <2>4, <2>6
      <3>2. Verdict(Only(w, {s, h}), s) = "blocked"
        BY <1>2, <2>3, <3>1, HeadBlocks
      <3>3. h \in Shown(w)
        <4> SUFFICES ASSUME ~w[h].here PROVE h = BlockingSeq(w)
          BY <2>4 DEF Shown
        <4> DEFINE heads == {u \in QueuedIn(w) : IsHead(w, u)}
        <4>1. h \in heads /\ heads \subseteq DOMAIN w
          BY <2>3 DEF QueuedIn
        <4>2. Lowest(heads) \in heads
          BY <4>1, LowestIsLeast DEF ViewTable
        <4>3. Lowest(heads) = h
          BY <2>3, <4>1, <4>2, OneHead
        <4>4. BlockingSeq(w) = Lowest(heads)
          BY <1>2, <2>4, <3>1, <4>1 DEF BlockingSeq
        <4>5. QED
          BY <4>3, <4>4
      <3>4. QED
        BY <3>2, <3>3
    <2>7. QED
      BY <2>5, <2>6
  <1>3. QED
    BY <1>1, <1>2

-----------------------------------------------------------------------------
(* The tables there can be.                                                  *)
TypeInv ==
  /\ DOMAIN table \subseteq Seqs
  /\ \A s \in DOMAIN table : table[s] \in Rows

LEMMA ViewsAreViews ==
  ASSUME NEW t, DOMAIN t \subseteq Seqs, \A s \in DOMAIN t : t[s] \in Rows
  PROVE  ViewTable(Views(t)) /\ DOMAIN Views(t) = DOMAIN t
  <1>1. ASSUME NEW s \in DOMAIN t PROVE Views(t)[s] \in View
    <2>1. t[s] \in RawRow
      BY DEF Rows
    <2>2. LivenessOf(t[s].state, t[s].pid, t[s].age) \in LivenessKinds
      BY DEF LivenessOf, LivenessKinds
    <2>3. QED
      BY <2>1, <2>2 DEF Views, View, RawRow
  <1>2. QED
    BY <1>1, SeqsAssumption DEF ViewTable, Views

LEMMA TypeStep == TypeInv /\ [TableNext]_tableVars => TypeInv'
  <1> SUFFICES ASSUME TypeInv, [TableNext]_tableVars PROVE TypeInv'
    OBVIOUS
  <1> USE DEF TypeInv
  <1>1. ASSUME NEW S PROVE /\ DOMAIN Without(table, S) = DOMAIN table \ S
                           /\ \A s \in DOMAIN table \ S : Without(table, S)[s] = table[s]
    BY DEF Without, Only
  <1>2. ASSUME NEW s \in Seqs, Attempt(s) PROVE TypeInv'
    <2> DEFINE left == Without(table, CollectedBy(q, s))
    <2>1. /\ s \in DOMAIN table /\ table[s].pid = "live"
          /\ table' = left \/ table' = [left EXCEPT ![s].state = "running", ![s].late = FALSE]
      BY <1>2 DEF Attempt
    <2>2. /\ DOMAIN left \subseteq DOMAIN table
          /\ \A u \in DOMAIN left : left[u] = table[u]
      BY <1>1
    <2> HIDE DEF left
    <2>3. [table[s] EXCEPT !.state = "running", !.late = FALSE] \in Rows
      BY <2>1 DEF Rows, RawRow, Canonical, Active
    <2>4. CASE table' = left
      BY <2>2, <2>4
    <2>5. CASE table' = [left EXCEPT ![s].state = "running", ![s].late = FALSE]
      <3>1. /\ DOMAIN table' = DOMAIN left
            /\ \A u \in DOMAIN left : u # s => table'[u] = table[u]
            /\ s \in DOMAIN left => table'[s] = [table[s] EXCEPT !.state = "running", !.late = FALSE]
        BY <2>2, <2>5
      <3>2. QED
        BY <2>2, <2>3, <3>1
    <2>6. QED
      BY <2>1, <2>4, <2>5
  <1>3. ASSUME NEW s \in Seqs, NEW force \in BOOLEAN, Abandon(s, force) PROVE TypeInv'
    BY <1>1, <1>3 DEF Abandon
  <1>4. CASE Collect
    <2>1. PICK S : table' = Without(table, S)
      BY <1>4 DEF Collect
    <2>2. QED
      BY <1>1, <2>1
  <1>5. CASE UNCHANGED tableVars
    BY <1>5 DEF tableVars
  <1>6. QED
    BY <1>2, <1>3, <1>4, <1>5 DEF TableNext

LEMMA TypeInit == TableInit => TypeInv
  <1> SUFFICES ASSUME TableInit PROVE TypeInv
    OBVIOUS
  <1>1. PICK S \in SUBSET Seqs : table \in [S -> Rows]
    BY DEF TableInit, Tables, Prompt
  <1>2. QED
    BY <1>1 DEF TypeInv

THEOREM TablesAreTables == TableSpec => []TypeInv
  BY TypeInit, TypeStep, PTL DEF TableSpec

-----------------------------------------------------------------------------
(* Abandon never says that the queue can move on when it cannot: whatever    *)
(* table it leaves, some living worker's next attempt takes the slot.        *)
(* (job-drain.mjs couldDrain against job-queue.mjs decide)                   *)
THEOREM DrainIsAlwaysTrue == TableSpec => []DrainIsTrue
  <1>1. TableInit => DrainIsTrue
    BY DEF TableInit, Silence, DrainIsTrue
  <1>2. DrainIsTrue /\ TypeInv' /\ [TableNext]_tableVars => DrainIsTrue'
    <2> SUFFICES ASSUME DrainIsTrue, TypeInv', [TableNext]_tableVars, said'.drains
                 PROVE  (\E s \in DOMAIN q : q[s].liveness = "live" /\ Verdict(q, s) = "acquired")'
      BY DEF DrainIsTrue
    <2>1. ViewTable(Views(table'))
      BY ViewsAreViews DEF TypeInv
    <2>2. CASE UNCHANGED tableVars
      BY <2>2 DEF tableVars, DrainIsTrue, q
    <2>3. CASE TableNext
      <3>1. PICK s \in Seqs, force \in BOOLEAN : Abandon(s, force)
        <4>1. ASSUME NEW s \in Seqs, Attempt(s) PROVE FALSE
          BY <4>1 DEF Attempt
        <4>2. ~Collect
          BY DEF Collect, Silence
        <4>3. QED
          BY <2>3, <4>1, <4>2 DEF TableNext
      <3>2. CouldDrain(Views(table'))
        BY <3>1 DEF Abandon
      <3>3. QED
        BY <2>1, <3>2, DrainSeats DEF q
    <2>4. QED
      BY <2>2, <2>3
  <1>3. QED
    BY <1>1, <1>2, TablesAreTables, PTL DEF TableSpec

(* No row that this build understands can hold the queue for good: the       *)
(* operator or recovery can clear it, whatever its columns hold, or its      *)
(* grace ends.  (job-abandon.mjs abandonDecision against job-reconcile.mjs)  *)
THEOREM OperatorCanAlwaysClear == TableSpec => []OperatorCanClear
  <1>1. TypeInv => OperatorCanClear
    <2> SUFFICES ASSUME TypeInv, NEW s \in DOMAIN q, q[s].known
                 PROVE  \/ q[s].liveness = "starting"
                        \/ Allows(AbandonDecision(q[s], TRUE))
                        \/ Recoverable(q[s]) /\ RecoveryLands(table[s], q[s].liveness)
      BY DEF OperatorCanClear
    <2>1. ViewTable(q) /\ DOMAIN q = DOMAIN table
      BY ViewsAreViews DEF TypeInv, q
    <2>2. q[s] \in View /\ table[s] \in RawRow
      BY <2>1 DEF ViewTable, TypeInv, Rows
    <2>3. q[s].liveness = LivenessOf(table[s].state, table[s].pid, table[s].age)
      BY <2>1 DEF q, Views
    <2>4. CASE q[s].liveness = "live"
      BY <2>2, <2>4 DEF AbandonDecision, Allows
    <2>5. CASE q[s].liveness = "malformed"
      BY <2>2, <2>5 DEF AbandonDecision, Allows
    <2>6. CASE q[s].liveness = "dead"
      BY <2>6 DEF Recoverable, RecoveryLands
    <2>7. CASE q[s].liveness = "never-started"
      <3>1. table[s].state = "queued" /\ table[s].pid = "none"
        BY <2>2, <2>3, <2>7 DEF LivenessOf, RawRow, PidKinds, AgeKinds, Active
      <3>2. QED
        BY <2>7, <3>1 DEF Recoverable, RecoveryLands
    <2>8. QED
      BY <2>2, <2>4, <2>5, <2>6, <2>7 DEF View, LivenessKinds
  <1>2. QED
    BY <1>1, TablesAreTables, PTL

(* Of every table of however many rows: what recovery leaves standing        *)
(* abandon clears or will, and it says that the queue can move on only when  *)
(* some living worker can take the slot.  (job-abandon.mjs abandonRow)       *)
THEOREM AbandonIsAlwaysReliable == TableSpec => []AbandonIsReliable
  BY DrainIsAlwaysTrue, OperatorCanAlwaysClear, PTL DEF AbandonIsReliable

(* Of every table of however many rows: "cancelling" is said only of a       *)
(* worker that still checks in, the row that is blamed would hold a job of   *)
(* this workspace by itself, and no wait goes without a cause on the screen. *)
(* (job-view.mjs displayOf, blockingSeqFor, statusView)                      *)
THEOREM StatusIsAlwaysHonest == TableSpec => []StatusIsHonest
  <1>1. TypeInv => StatusIsHonest
    <2> SUFFICES ASSUME TypeInv PROVE StatusIsHonest
      OBVIOUS
    <2>1. ViewTable(q)
      BY ViewsAreViews DEF TypeInv, q
    <2>2. DisplayIsHonest
      <3>1. ASSUME NEW s \in DOMAIN q, DisplayOf(q[s]) = "cancelling"
            PROVE  /\ q[s].liveness = "live" /\ q[s].beat # "stale"
                   /\ q[s].state = "running" => ~q[s].expired
        <4>1. q[s].liveness \in LivenessKinds /\ q[s].state \in Active
          BY <2>1 DEF ViewTable, View
        <4>2. QED
          BY <3>1, <4>1 DEF DisplayOf, LivenessKinds, Active
      <3>2. CouldDrain(q) => \E s \in DOMAIN q : Verdict(q, s) = "acquired" /\ DisplayOf(q[s]) = "queued"
        BY <2>1, DrainSeats
      <3>3. QED
        BY <3>1, <3>2 DEF DisplayIsHonest
    <2>3. BlamedRowBlocks
      BY <2>1, BlameIsJust DEF BlamedRowBlocks
    <2>4. CauseIsShown
      BY <2>1, SomebodyIsShown DEF CauseIsShown
    <2>5. QED
      BY <2>2, <2>3, <2>4 DEF StatusIsHonest
  <1>2. QED
    BY <1>1, TablesAreTables, PTL
=============================================================================
