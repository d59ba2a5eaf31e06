---------------------------- MODULE SweepProofs ----------------------------
(***************************************************************************)
(* A night of any length, over any history, with any replies, any number   *)
(* of writes that fail and a death at any step: what was settled is right, *)
(* its health is its replay, and what is recovered from its ledger is it.  *)
(***************************************************************************)
EXTENDS Sweep, FiniteSetTheorems, WellFoundedInduction, TLAPS

-----------------------------------------------------------------------------
(* Induction over the naturals, for a set of them.                           *)
LEMMA Induction ==
  ASSUME NEW S, 0 \in S, \A n \in Nat : n \in S => n + 1 \in S
  PROVE  Nat \subseteq S
  <1> DEFINE R == {ss \in Nat \X Nat : ss[1] < ss[2]}
             T == Nat \ S
  <1>1. OpToRel(<, Nat) = R
    BY Zenon DEF OpToRel
  <1>2. IsWellFoundedOn(R, Nat)
    BY Zenon, <1>1, NatLessThanWellFounded
  <1>3. \A m, n \in Nat : m < n => <<m, n>> \in R
    OBVIOUS
  <1> HIDE DEF R
  <1>4. SUFFICES ASSUME T # {} PROVE FALSE
    OBVIOUS
  <1>5. T \subseteq Nat
    OBVIOUS
  <1> HIDE DEF T
  <1>6. PICK n \in T : \A m \in T : ~(<<m, n>> \in R)
    BY <1>2, <1>4, <1>5, WFMin
  <1>7. n \in Nat /\ n \notin S /\ n # 0
    BY DEF T
  <1>8. n - 1 \in Nat /\ n - 1 < n
    BY <1>7
  <1>9. n - 1 \notin T
    BY <1>3, <1>6, <1>7, <1>8
  <1>10. n - 1 \in S /\ n - 1 + 1 = n
    BY <1>7, <1>8, <1>9 DEF T
  <1>11. QED
    BY <1>7, <1>8, <1>10

-----------------------------------------------------------------------------
(* The replay of a night, one commit at a time.                              *)
Tallies == [streak : Nat, longest : Nat, resets : Nat, outages : Nat]

LEMMA QuietType == Quiet \in Tallies
  BY DEF Quiet, Tallies

LEMMA CountedType ==
  ASSUME NEW s \in Tallies, NEW entry
  PROVE  Counted(s, entry) \in Tallies
  <1>1. /\ s.streak \in Nat /\ s.longest \in Nat /\ s.resets \in Nat /\ s.outages \in Nat
        /\ s.streak + 1 \in Nat /\ s.outages + 1 \in Nat /\ s.resets + 0 \in Nat /\ s.resets + 1 \in Nat
    BY DEF Tallies
  <1>2. Judged(s, entry) \in Tallies
    BY <1>1 DEF Judged, Tallies
  <1>3. QED
    BY <1>2 DEF Counted

(* Tallies that are given by the first and by each from the last.            *)
LEMMA Iteration ==
  ASSUME NEW step \in [Nat \X Tallies -> Tallies], NEW L \in Nat
  PROVE  \E f \in [0..L -> Tallies] : f[0] = Quiet /\ \A n \in 1..L : f[n] = step[<<n - 1, f[n - 1]>>]
  <1> DEFINE Good == {k \in Nat : \E f \in [0..k -> Tallies] :
                        f[0] = Quiet /\ \A n \in 1..k : f[n] = step[<<n - 1, f[n - 1]>>]}
  <1>1. 0 \in Good
    <2>1. [k \in 0..0 |-> Quiet] \in [0..0 -> Tallies] /\ [k \in 0..0 |-> Quiet][0] = Quiet
      BY QuietType
    <2>2. \A n \in 1..0 : FALSE
      OBVIOUS
    <2>3. QED
      BY <2>1, <2>2
  <1>2. ASSUME NEW k \in Nat, k \in Good PROVE k + 1 \in Good
    <2>1. PICK f \in [0..k -> Tallies] : f[0] = Quiet /\ \A n \in 1..k : f[n] = step[<<n - 1, f[n - 1]>>]
      BY <1>2
    <2> DEFINE g == [n \in 0..(k + 1) |-> IF n <= k THEN f[n] ELSE step[<<k, f[k]>>]]
    <2>2. k \in 0..k /\ f[k] \in Tallies /\ <<k, f[k]>> \in Nat \X Tallies
      OBVIOUS
    <2>3. step[<<k, f[k]>>] \in Tallies
      BY <2>2
    <2>4. g \in [0..(k + 1) -> Tallies]
      BY <2>3
    <2>5. \A n \in 0..k : g[n] = f[n]
      OBVIOUS
    <2>6. g[k + 1] = step[<<k, f[k]>>]
      OBVIOUS
    <2> HIDE DEF g
    <2>7. ASSUME NEW n \in 1..(k + 1) PROVE g[n] = step[<<n - 1, g[n - 1]>>]
      <3>1. CASE n = k + 1
        <4>1. n - 1 = k /\ g[k] = f[k]
          BY <2>2, <2>5, <3>1
        <4>2. QED
          BY <2>6, <3>1, <4>1
      <3>2. CASE n # k + 1
        <4>1. n \in 1..k /\ n \in 0..k /\ n - 1 \in 0..k
          BY <3>2
        <4>2. g[n] = f[n] /\ g[n - 1] = f[n - 1]
          BY <2>5, <4>1
        <4>3. QED
          BY <2>1, <4>1, <4>2
      <3>3. QED
        BY <3>1, <3>2
    <2>8. g[0] = Quiet
      BY <2>1, <2>5
    <2>9. QED
      BY <2>4, <2>7, <2>8
  <1> HIDE DEF Good
  <1>3. L \in Good
    BY <1>1, <1>2, Induction
  <1>4. QED
    BY <1>3 DEF Good

LEMMA ReplayIs ==
  ASSUME NEW entries, Len(entries) \in Nat
  PROVE  /\ Replay(entries) \in [0..Len(entries) -> Tallies]
         /\ Replay(entries)[0] = Quiet
         /\ \A n \in 1..Len(entries) : Replay(entries)[n] = Counted(Replay(entries)[n - 1], entries[n])
  <1> DEFINE L == Len(entries)
             step == [ns \in Nat \X Tallies |-> Counted(ns[2], entries[ns[1] + 1])]
             Is(f) == f = [n \in 0..L |-> IF n = 0 THEN Quiet ELSE Counted(f[n - 1], entries[n])]
  <1>1. Quiet \in Tallies
    BY QuietType
  <1>2. step \in [Nat \X Tallies -> Tallies]
    BY CountedType
  <1>3. \A n \in Nat, s \in Tallies : step[<<n, s>>] = Counted(s, entries[n + 1])
    OBVIOUS
  <1> HIDE DEF step
  <1>4. PICK f \in [0..L -> Tallies] : f[0] = Quiet /\ \A n \in 1..L : f[n] = step[<<n - 1, f[n - 1]>>]
    <2>1. L \in Nat
      OBVIOUS
    <2> HIDE DEF L
    <2>2. QED
      BY <1>2, <2>1, Iteration
  <1>5. ASSUME NEW n \in 1..L PROVE f[n] = Counted(f[n - 1], entries[n])
    <2>1. n - 1 \in Nat /\ n - 1 \in 0..L /\ n - 1 + 1 = n
      OBVIOUS
    <2>2. f[n - 1] \in Tallies
      BY <2>1
    <2>3. QED
      BY <1>3, <1>4, <2>1, <2>2
  <1>6. Is(f)
    BY <1>4, <1>5
  <1>7. Replay(entries) = CHOOSE g : Is(g)
    BY DEF Replay
  <1>8. Is(Replay(entries))
    BY <1>6, <1>7
  <1> DEFINE g == Replay(entries)
             Typed == {k \in Nat : k <= L => g[k] \in Tallies}
  <1>9. /\ DOMAIN g = 0..L /\ g[0] = Quiet
        /\ \A n \in 1..L : g[n] = Counted(g[n - 1], entries[n])
    BY <1>8
  <1> HIDE DEF g, Is
  <1>10. 0 \in Typed
    BY <1>1, <1>9
  <1>11. ASSUME NEW k \in Nat, k \in Typed PROVE k + 1 \in Typed
    <2>1. k + 1 <= L => k + 1 \in 1..L /\ k + 1 - 1 = k /\ g[k] \in Tallies
      BY <1>11
    <2>2. QED
      BY <1>9, <2>1, CountedType
  <1> HIDE DEF Typed
  <1>12. Nat \subseteq Typed
    BY <1>10, <1>11, Induction
  <1>13. \A n \in 0..L : g[n] \in Tallies
    BY <1>12 DEF Typed
  <1>14. g = [n \in 0..L |-> g[n]]
    BY <1>8 DEF g, Is
  <1>15. g \in [0..L -> Tallies]
    BY <1>13, <1>14
  <1>16. QED
    BY <1>9, <1>15 DEF g

(* Two nights that were attempted alike are replayed alike.                  *)
LEMMA ReplaysAgree ==
  ASSUME NEW a, NEW b, Len(a) \in Nat, Len(b) \in Nat,
         NEW k \in Nat, k <= Len(a), k <= Len(b),
         \A n \in 1..k : a[n] = b[n] \/ (~a[n].attempted /\ ~b[n].attempted)
  PROVE  \A n \in 0..k : Replay(a)[n] = Replay(b)[n]
  <1> DEFINE Alike == {n \in Nat : n <= k => Replay(a)[n] = Replay(b)[n]}
  <1>1. 0 \in Alike
    BY ReplayIs
  <1>2. ASSUME NEW n \in Nat, n \in Alike PROVE n + 1 \in Alike
    <2>1. SUFFICES ASSUME n + 1 <= k PROVE Replay(a)[n + 1] = Replay(b)[n + 1]
      OBVIOUS
    <2>2. n + 1 \in 1..k /\ n + 1 \in 1..Len(a) /\ n + 1 \in 1..Len(b) /\ n + 1 - 1 = n
      BY <2>1
    <2>3. Replay(a)[n] = Replay(b)[n]
      BY <1>2, <2>1
    <2>4. Replay(a)[n + 1] = Counted(Replay(a)[n], a[n + 1])
      BY <2>2, ReplayIs
    <2>5. Replay(b)[n + 1] = Counted(Replay(b)[n], b[n + 1])
      BY <2>2, ReplayIs
    <2>6. Counted(Replay(a)[n], a[n + 1]) = Counted(Replay(a)[n], b[n + 1])
      BY <2>2 DEF Counted
    <2>7. QED
      BY <2>3, <2>4, <2>5, <2>6
  <1> HIDE DEF Alike
  <1>3. Nat \subseteq Alike
    BY <1>1, <1>2, Induction
  <1>4. QED
    BY <1>3 DEF Alike

(* What was not attempted is not replayed.                                   *)
LEMMA ReplayPasses ==
  ASSUME NEW a, Len(a) \in Nat, NEW k \in Nat, k <= Len(a),
         \A n \in (k + 1)..Len(a) : ~a[n].attempted
  PROVE  Replay(a)[Len(a)] = Replay(a)[k]
  <1> DEFINE Still == {n \in Nat : k + n <= Len(a) => Replay(a)[k + n] = Replay(a)[k]}
  <1>1. 0 \in Still
    OBVIOUS
  <1>2. ASSUME NEW n \in Nat, n \in Still PROVE n + 1 \in Still
    <2>1. SUFFICES ASSUME k + n + 1 <= Len(a) PROVE Replay(a)[k + n + 1] = Replay(a)[k]
      OBVIOUS
    <2>2. k + n + 1 \in 1..Len(a) /\ k + n + 1 \in (k + 1)..Len(a) /\ k + n + 1 - 1 = k + n
      BY <2>1
    <2>3. Replay(a)[k + n] = Replay(a)[k]
      BY <1>2, <2>1
    <2>4. Replay(a)[k + n + 1] = Counted(Replay(a)[k + n], a[k + n + 1])
      BY <2>2, ReplayIs
    <2>5. QED
      BY <2>2, <2>3, <2>4 DEF Counted
  <1> HIDE DEF Still
  <1>3. Len(a) - k \in Nat /\ k + (Len(a) - k) = Len(a)
    OBVIOUS
  <1>4. Len(a) - k \in Still
    BY <1>1, <1>2, <1>3, Induction
  <1>5. QED
    BY <1>3, <1>4 DEF Still

(* A streak is never longer than the longest.                                *)
LEMMA StreakBelowLongest ==
  ASSUME NEW a, Len(a) \in Nat
  PROVE  \A n \in 0..Len(a) : Replay(a)[n] \in Tallies /\ Replay(a)[n].streak <= Replay(a)[n].longest
  <1> DEFINE Below == {n \in Nat : n <= Len(a) => Replay(a)[n].streak <= Replay(a)[n].longest}
  <1>1. 0 \in Below
    BY ReplayIs DEF Quiet
  <1>2. ASSUME NEW n \in Nat, n \in Below PROVE n + 1 \in Below
    <2>1. SUFFICES ASSUME n + 1 <= Len(a) PROVE Replay(a)[n + 1].streak <= Replay(a)[n + 1].longest
      OBVIOUS
    <2>2. n + 1 \in 1..Len(a) /\ n \in 0..Len(a) /\ n + 1 - 1 = n
      BY <2>1
    <2> DEFINE s == Replay(a)[n]
    <2>3. Replay(a)[n + 1] = Counted(s, a[n + 1])
      BY <2>2, ReplayIs
    <2>4. s \in Tallies /\ s.streak <= s.longest
      BY <1>2, <2>1, <2>2, ReplayIs
    <2> HIDE DEF s
    <2>5. Counted(s, a[n + 1]).streak <= Counted(s, a[n + 1]).longest
      BY <2>4 DEF Counted, Judged, Tallies
    <2>6. QED
      BY <2>3, <2>5
  <1> HIDE DEF Below
  <1>3. Nat \subseteq Below
    BY <1>1, <1>2, Induction
  <1>4. QED
    BY <1>3, ReplayIs DEF Below

-----------------------------------------------------------------------------
(* What is walked of the history.                                            *)
LEMMA EnumeratedIs ==
  /\ Len(Enumerated) \in Nat /\ DOMAIN Enumerated = 1..Len(Enumerated)
  /\ \A n \in 1..Len(Enumerated) : Enumerated[n].eligible \in BOOLEAN
  /\ \A m, n \in 1..Len(Enumerated) : Enumerated[m].sha = Enumerated[n].sha => m = n
  <1> DEFINE enough(n) == Cardinality({m \in 1..(n - 1) : History[m].code}) < MaxCommits
             walked == {n \in 1..Len(History) : n <= ScanLimit /\ enough(n)}
             N == Cardinality(walked)
  <1>1. History \in Seq(Range(History)) /\ Len(History) \in Nat /\ DOMAIN History = 1..Len(History)
    BY SweepAssumption
  <1>2. IsFiniteSet(1..Len(History)) /\ Cardinality(1..Len(History)) = Len(History)
    BY <1>1, FS_Interval
  <1>3. walked \subseteq 1..Len(History)
    OBVIOUS
  <1> HIDE DEF walked
  <1>4. N \in Nat /\ N <= Len(History)
    BY <1>2, <1>3, FS_Subset, FS_CardinalityType
  <1>5. Enumerated = [n \in 1..N |-> [sha |-> History[n].sha, eligible |-> History[n].code]]
    BY DEF Enumerated, walked
  <1> HIDE DEF N
  <1>6. Len(Enumerated) = N /\ DOMAIN Enumerated = 1..N
    BY <1>4, <1>5
  <1>7. \A n \in 1..N : n \in DOMAIN History /\ History[n] \in Range(History)
    BY <1>1, <1>4 DEF Range
  <1>8. \A n \in 1..N : Enumerated[n].sha = History[n].sha /\ Enumerated[n].eligible = History[n].code
    BY <1>5
  <1>9. QED
    BY <1>4, <1>6, <1>7, <1>8, SweepAssumption
-----------------------------------------------------------------------------
(* What the loop may settle for a commit: a look at it, or a reason for none. *)
Skips == {"skipped-no-code", "skipped-abort", "skipped-deadline"}
Facts == {Classify(reply) : reply \in Replies} \cup {Unanswered(why, NoReason) : why \in Skips}
Outcomes == {EntryOf(f, Enumerated[n].sha, b) : f \in Facts, n \in DOMAIN Enumerated, b \in BOOLEAN}

Looked(e, c) == c.eligible /\ \E reply \in Replies : e = EntryOf(Classify(reply), c.sha, TRUE)

Passed(s, n, why, over) ==
  /\ s[n] = EntryOf(Unanswered(why, NoReason), Enumerated[n].sha, FALSE)
  /\ why = "skipped-no-code" <=> ~Enumerated[n].eligible
  /\ why = "skipped-deadline" => over
  /\ why = "skipped-abort" => \E m \in 1..(n - 1) : ServerGone(s, m, n - 1)

Right(s, n, over) == Looked(s[n], Enumerated[n]) \/ \E why \in Skips : Passed(s, n, why, over)

SettledInv ==
  /\ settled \in Seq(Outcomes) /\ Len(settled) <= Len(Enumerated)
  /\ \A n \in 1..Len(settled) : Right(settled, n, late)
  /\ late \in BOOLEAN /\ aborted \in BOOLEAN /\ streak \in Nat

(* How many of them the loop's own counter has seen, and what it then says:  *)
(* outages since the last commit that was looked at and was none.            *)
Uncounted == {"entry", "gap", "count"}
Seen == IF phase \in Uncounted THEN Len(settled) - 1 ELSE Len(settled)

Streak(s, m, n, x) ==
  /\ x = Cardinality({k \in m..n : s[k].attempted})
  /\ \A k \in m..n : s[k].attempted => IsOutage(s[k])

CounterAt(s, n, x, stopped) ==
  /\ \E m \in 1..(n + 1) : Streak(s, m, n, x)
  /\ stopped => \E m \in 1..n : ServerGone(s, m, n)
  /\ Replay(s)[n].streak = x
  /\ stopped <=> Replay(s)[n].longest >= AbortAfter

CounterInv ==
  /\ phase \in Uncounted => settled # <<>>
  /\ phase # "dead" =>
     /\ CounterAt(settled, Seen, streak, aborted)
     /\ phase \in Uncounted /\ aborted => ~settled[Len(settled)].attempted
  /\ phase = "dead" =>
     \E n \in {Len(settled) - 1, Len(settled)} : n >= 0 /\ CounterAt(settled, n, streak, aborted)

(* The file is lines, each after a newline, whatever writes failed: the      *)
(* header, or the start of it, then what was settled or the loss of it.      *)
Pieces ==
  {Newline, Fragment, HeaderLine(Envelope)} \cup {EntryLine(e) : e \in Outcomes}
    \cup {GapLine(Enumerated[n].sha) : n \in DOMAIN Enumerated}

Line(p, n, s, last) ==
  \/ n = 2 /\ p = HeaderLine(Envelope)
  \/ \E k \in 1..last : p = EntryLine(s[k])
  \/ \E k \in 1..Len(s) : p = GapLine(s[k].sha)
  \/ p = Fragment

Ruled(file, s, last) ==
  /\ file \in Seq(Pieces) /\ Len(file) % 2 = 0
  /\ \A n \in 1..Len(file) : IF n % 2 = 1 THEN file[n] = Newline ELSE Line(file[n], n, s, last)

Entered(file, n, sha) == file[n].kind = "entry" /\ file[n].entry.sha = sha

OnceEach(file) ==
  \A m, n \in 1..Len(file) : file[m].kind = "entry" /\ Entered(file, n, file[m].entry.sha) => m = n
AllWritten(file, whole) == \A sha \in whole : \E n \in 1..Len(file) : Entered(file, n, sha)
AllTraced(file, any) ==
  \A sha \in any : \E n \in 1..Len(file) : file[n].kind \in {"fragment", "gap"} \/ Entered(file, n, sha)

Entries == IF phase \in {"entry", "gap"} THEN Len(settled) - 1 ELSE Len(settled)
Begun == settled # <<>> \/ phase \in {"next", "entry", "gap", "count", "record", "filling", "done"}

LedgerInv ==
  /\ Ruled(ledger, settled, Entries)
  /\ Begun => Len(ledger) >= 2 /\ ledger[2] = HeaderLine(Envelope)
  /\ phase = "header" => ledger = <<>>
  /\ OnceEach(ledger) /\ AllWritten(ledger, wrote) /\ AllTraced(ledger, traced)

NotOurs == ledger \in {Absent, Rival} /\ settled = <<>> /\ phase \in {"open", "failed", "dead"} /\ wrote = {} /\ traced = {}

PhaseInv ==
  /\ phase \in {"open", "header", "next", "entry", "gap", "count", "record", "filling", "done", "failed", "dead"}
  /\ record = "complete" <=> phase = "done"
  /\ phase \in {"record", "filling", "done"} => Len(settled) = Len(Enumerated)
  /\ phase \in {"open", "header"} => settled = <<>> /\ wrote = {} /\ traced = {} /\ streak = 0 /\ ~aborted

FileInv == NotOurs \/ (phase # "open" /\ LedgerInv)

IInv == PhaseInv /\ SettledInv /\ CounterInv /\ FileInv

-----------------------------------------------------------------------------
(* What a look can come to.                                                  *)
LEMMA ClassifyIs ==
  ASSUME NEW reply \in Replies
  PROVE  LET f == Classify(reply) IN
         /\ f.outcome \in REVIEWED \cup (WHY \ (Skips \cup {"unobserved", "unrecorded"}))
         /\ f.outcome \in REVIEWED =>
              f.findings # "unread" /\ ~f.cut /\ f.model \in {Requested, f.declared} /\ f.model # NoModel
  <1>1. reply.doc \in {"report", "envelope", "garbled"} /\ (reply.doc = "report" => reply.model # NoModel)
    BY SweepAssumption
  <1>2. CASE reply.overflow
    BY <1>2 DEF Classify, Unanswered, REVIEWED, WHY, Skips
  <1>3. CASE ~reply.overflow /\ reply.doc # "report"
    BY <1>1, <1>3 DEF Classify, Unanswered, REVIEWED, WHY, Skips
  <1>4. CASE ~reply.overflow /\ reply.doc = "report"
    <2>1. Classify(reply) = Reported(reply)
      BY <1>4 DEF Classify
    <2>2. Verdict(reply) \in REVIEWED => ~Substituted(reply) /\ reply.findings # "unread" /\ ~reply.cut
      BY DEF Verdict, REVIEWED
    <2>3. ~Substituted(reply) => reply.model \in {Requested, reply.declared}
      BY <1>1, <1>4 DEF Substituted, DeclaredMatch
    <2>4. Verdict(reply) \in {"findings", "clean", "substituted", "unreadable", "truncated"}
      BY DEF Verdict
    <2>5. QED
      BY <1>1, <1>4, <2>1, <2>2, <2>3, <2>4 DEF Reported, REVIEWED, WHY, Skips
  <1>5. QED
    BY <1>2, <1>3, <1>4

(* What is right is of its commit, attempted or not as it says.              *)
LEMMA RightIs ==
  ASSUME NEW s, NEW n, NEW over, Right(s, n, over)
  PROVE  /\ s[n].sha = Enumerated[n].sha
         /\ ~Missing(s[n])
         /\ s[n].attempted \in BOOLEAN
         /\ s[n].attempted => Enumerated[n].eligible
         /\ ~s[n].attempted => s[n].outcome \in Skips
  <1>1. CASE Looked(s[n], Enumerated[n])
    <2>1. PICK reply \in Replies : s[n] = EntryOf(Classify(reply), Enumerated[n].sha, TRUE)
      BY <1>1 DEF Looked
    <2>2. Classify(reply).outcome \in REVIEWED \cup (WHY \ (Skips \cup {"unobserved", "unrecorded"}))
      BY ClassifyIs
    <2> DEFINE f == Classify(reply)
    <2> HIDE DEF f
    <2>3. s[n].sha = Enumerated[n].sha /\ s[n].attempted = TRUE /\ s[n].outcome = f.outcome
      BY <2>1 DEF f, EntryOf
    <2>4. f.outcome \notin {"unobserved", "unrecorded"}
      BY <2>2 DEF f, REVIEWED
    <2>5. QED
      BY <1>1, <2>3, <2>4 DEF Looked, Missing
  <1>2. CASE \E why \in Skips : Passed(s, n, why, over)
    <2>1. PICK why \in Skips : s[n] = EntryOf(Unanswered(why, NoReason), Enumerated[n].sha, FALSE)
      BY <1>2 DEF Passed
    <2>2. s[n].sha = Enumerated[n].sha /\ s[n].attempted = FALSE /\ s[n].outcome = why
      BY <2>1 DEF EntryOf, Unanswered
    <2>3. QED
      BY <2>2 DEF Missing, Skips
  <1>3. QED
    BY <1>1, <1>2 DEF Right

(* What holds of the commits settled so far is not changed by the next.      *)
LEMMA GoneKept ==
  ASSUME NEW s, NEW t, NEW m \in Nat, NEW n \in Int, \A k \in m..n : s[k] = t[k], ServerGone(s, m, n)
  PROVE  ServerGone(t, m, n)
  <1>1. {k \in m..n : s[k].attempted} = {k \in m..n : t[k].attempted}
    OBVIOUS
  <1>2. QED
    BY <1>1 DEF ServerGone

LEMMA StreakKept ==
  ASSUME NEW s, NEW t, NEW m \in Nat, NEW n \in Int, NEW x, \A k \in m..n : s[k] = t[k], Streak(s, m, n, x)
  PROVE  Streak(t, m, n, x)
  <1>1. {k \in m..n : s[k].attempted} = {k \in m..n : t[k].attempted}
    OBVIOUS
  <1>2. QED
    BY <1>1 DEF Streak

LEMMA RightKept ==
  ASSUME NEW s, NEW t, NEW n \in Nat, NEW over, NEW over2,
         \A k \in 1..n : s[k] = t[k], over => over2, 1 <= n, Right(s, n, over)
  PROVE  Right(t, n, over2)
  <1>1. s[n] = t[n]
    OBVIOUS
  <1>2. ASSUME NEW m \in 1..(n - 1), ServerGone(s, m, n - 1) PROVE ServerGone(t, m, n - 1)
    BY <1>2, GoneKept
  <1>3. ASSUME NEW why \in Skips, Passed(s, n, why, over) PROVE Passed(t, n, why, over2)
    BY <1>1, <1>2, <1>3 DEF Passed
  <1>4. QED
    BY <1>1, <1>3 DEF Right

LEMMA CounterKept ==
  ASSUME NEW s, NEW t, NEW n \in Nat, NEW x, NEW stopped \in BOOLEAN, Len(s) \in Nat, Len(t) \in Nat,
         n <= Len(s), n <= Len(t), \A k \in 1..n : s[k] = t[k], CounterAt(s, n, x, stopped)
  PROVE  CounterAt(t, n, x, stopped)
  <1>1. PICK m \in 1..(n + 1) : Streak(s, m, n, x)
    BY DEF CounterAt
  <1>2. Streak(t, m, n, x)
    BY <1>1, StreakKept
  <1>3. ASSUME NEW j \in 1..n, ServerGone(s, j, n) PROVE ServerGone(t, j, n)
    BY <1>3, GoneKept
  <1>4. Replay(t)[n] = Replay(s)[n]
    BY ReplaysAgree
  <1>5. QED
    BY <1>2, <1>3, <1>4 DEF CounterAt

(* The loop's counter and the replay, over one more commit.                  *)
LEMMA CountsPassed ==
  ASSUME NEW s, Len(s) \in Nat, NEW n \in Nat, n + 1 <= Len(s), NEW x, NEW stopped \in BOOLEAN,
         ~s[n + 1].attempted, CounterAt(s, n, x, stopped)
  PROVE  CounterAt(s, n + 1, x, stopped)
  <1>1. \A m \in 1..(n + 1) : {k \in m..(n + 1) : s[k].attempted} = {k \in m..n : s[k].attempted}
    OBVIOUS
  <1>2. PICK m \in 1..(n + 1) : Streak(s, m, n, x)
    BY DEF CounterAt
  <1>3. Streak(s, m, n + 1, x)
    <2>1. x = Cardinality({k \in m..(n + 1) : s[k].attempted})
      BY <1>1, <1>2 DEF Streak
    <2>2. \A k \in m..(n + 1) : s[k].attempted => IsOutage(s[k])
      BY <1>2 DEF Streak
    <2>3. QED
      BY <2>1, <2>2 DEF Streak
  <1>4. ASSUME NEW j \in 1..n, ServerGone(s, j, n) PROVE ServerGone(s, j, n + 1)
    <2>1. Cardinality({k \in j..(n + 1) : s[k].attempted}) >= AbortAfter
      <3>1. {k \in j..(n + 1) : s[k].attempted} = {k \in j..n : s[k].attempted}
        OBVIOUS
      <3>2. QED
        BY <1>4, <3>1 DEF ServerGone
    <2>2. \A k \in j..(n + 1) : s[k].attempted => IsOutage(s[k])
      BY <1>4 DEF ServerGone
    <2>3. QED
      BY <2>1, <2>2 DEF ServerGone
  <1>5. Replay(s)[n + 1] = Replay(s)[n]
    <2>1. n + 1 \in 1..Len(s) /\ n + 1 - 1 = n
      OBVIOUS
    <2>2. Replay(s)[n + 1] = Counted(Replay(s)[n], s[n + 1])
      BY <2>1, ReplayIs
    <2>3. QED
      BY <2>2 DEF Counted
  <1>6. m \in 1..(n + 1 + 1) /\ \A j \in 1..n : j \in 1..(n + 1)
    OBVIOUS
  <1>7. QED
    BY <1>3, <1>4, <1>5, <1>6 DEF CounterAt

LEMMA CountsOutage ==
  ASSUME NEW s, Len(s) \in Nat, NEW n \in Nat, n + 1 <= Len(s), NEW x \in Nat,
         s[n + 1].attempted, IsOutage(s[n + 1]), CounterAt(s, n, x, FALSE)
  PROVE  \A stopped \in BOOLEAN : (stopped <=> StopsAfter(x + 1)) => CounterAt(s, n + 1, x + 1, stopped)
  <1>1. PICK m \in 1..(n + 1) : Streak(s, m, n, x)
    BY DEF CounterAt
  <1> DEFINE A == {k \in m..n : s[k].attempted}
             B == {k \in m..(n + 1) : s[k].attempted}
  <1>2. B = A \cup {n + 1} /\ n + 1 \notin A
    OBVIOUS
  <1>3. IsFiniteSet(A)
    <2>1. IsFiniteSet(m..n)
      BY FS_Interval
    <2>2. A \subseteq m..n
      OBVIOUS
    <2>3. QED
      BY <2>1, <2>2, FS_Subset
  <1>4. Cardinality(B) = x + 1
    <2>1. Cardinality(A) = x
      BY <1>1 DEF Streak
    <2> HIDE DEF A, B
    <2>2. QED
      BY <1>2, <1>3, <2>1, FS_AddElement
  <1>5. \A k \in m..(n + 1) : s[k].attempted => IsOutage(s[k])
    BY <1>1 DEF Streak
  <1>6. Streak(s, m, n + 1, x + 1)
    BY <1>4, <1>5 DEF Streak
  <1>7. StopsAfter(x + 1) => ServerGone(s, m, n + 1)
    BY <1>4, <1>5 DEF StopsAfter, ServerGone
  <1> DEFINE r == Replay(s)[n]
  <1>8. r \in Tallies /\ r.streak <= r.longest /\ r.streak = x /\ ~(r.longest >= AbortAfter)
    <2>1. n \in 0..Len(s)
      OBVIOUS
    <2>2. r \in Tallies /\ r.streak <= r.longest
      BY <2>1, StreakBelowLongest
    <2>3. QED
      BY <2>2 DEF CounterAt
  <1>9. Replay(s)[n + 1] = Judged(r, s[n + 1])
    <2>1. n + 1 \in 1..Len(s) /\ n + 1 - 1 = n
      OBVIOUS
    <2>2. Replay(s)[n + 1] = Counted(Replay(s)[n], s[n + 1])
      BY <2>1, ReplayIs
    <2>3. QED
      BY <2>2 DEF Counted
  <1> HIDE DEF r
  <1>10. Judged(r, s[n + 1]).streak = x + 1 /\ (Judged(r, s[n + 1]).longest >= AbortAfter <=> StopsAfter(x + 1))
    BY <1>8, SweepAssumption DEF Judged, Tallies, StopsAfter
  <1>11. m \in 1..(n + 1) /\ m \in 1..(n + 1 + 1)
    OBVIOUS
  <1>12. QED
    BY <1>6, <1>7, <1>9, <1>10, <1>11 DEF CounterAt

LEMMA CountsLook ==
  ASSUME NEW s, Len(s) \in Nat, NEW n \in Nat, n + 1 <= Len(s), NEW x \in Nat,
         s[n + 1].attempted, ~IsOutage(s[n + 1]), CounterAt(s, n, x, FALSE)
  PROVE  CounterAt(s, n + 1, 0, FALSE)
  <1>1. Streak(s, n + 2, n + 1, 0)
    <2>1. {k \in (n + 2)..(n + 1) : s[k].attempted} = {}
      OBVIOUS
    <2>2. Cardinality({}) = 0
      BY FS_EmptySet
    <2>3. \A k \in (n + 2)..(n + 1) : FALSE
      OBVIOUS
    <2>4. QED
      BY <2>1, <2>2, <2>3 DEF Streak
  <1> DEFINE r == Replay(s)[n]
  <1>2. r \in Tallies /\ ~(r.longest >= AbortAfter)
    <2>1. n \in 0..Len(s)
      OBVIOUS
    <2>2. r \in Tallies
      BY <2>1, StreakBelowLongest
    <2>3. QED
      BY <2>2 DEF CounterAt
  <1>3. Replay(s)[n + 1] = Judged(r, s[n + 1])
    <2>1. n + 1 \in 1..Len(s) /\ n + 1 - 1 = n
      OBVIOUS
    <2>2. Replay(s)[n + 1] = Counted(Replay(s)[n], s[n + 1])
      BY <2>1, ReplayIs
    <2>3. QED
      BY <2>2 DEF Counted
  <1> HIDE DEF r
  <1>4. Judged(r, s[n + 1]).streak = 0 /\ ~(Judged(r, s[n + 1]).longest >= AbortAfter)
    BY <1>2 DEF Judged, Tallies
  <1>5. n + 2 \in 1..(n + 1 + 1)
    OBVIOUS
  <1>6. QED
    BY <1>1, <1>3, <1>4, <1>5 DEF CounterAt

-----------------------------------------------------------------------------
(* What is in the file, and what one more line does to it.                   *)
LEMMA LinesDiffer ==
  /\ Newline.kind = "newline" /\ Fragment.kind = "fragment"
  /\ HeaderLine(Envelope).kind = "header" /\ HeaderLine(Envelope).envelope = Envelope
  /\ \A e : EntryLine(e).kind = "entry" /\ EntryLine(e).entry = e
  /\ \A sha : GapLine(sha).kind = "gap" /\ GapLine(sha).sha = sha
  BY DEF Newline, Fragment, HeaderLine, EntryLine, GapLine

LEMMA TornIs ==
  ASSUME NEW p
  PROVE  Written(p) = <<Newline, p>> /\ Torn(Written(p)) = <<Newline, Fragment>>
  <1>1. Head(<<Newline, p>>) = Newline
    OBVIOUS
  <1>2. QED
    BY <1>1 DEF Written, Torn

(* What is left of a file when a line is added to it.                        *)
Longer(file, more, p) ==
  /\ Len(file) \in Nat /\ Len(more) = Len(file) + 2
  /\ \A n \in 1..Len(file) : more[n] = file[n]
  /\ more[Len(file) + 1] = Newline /\ more[Len(file) + 2] = p

LEMMA Appended ==
  ASSUME NEW file \in Seq(Pieces), NEW p \in Pieces
  PROVE  file \o <<Newline, p>> \in Seq(Pieces) /\ Longer(file, file \o <<Newline, p>>, p)
  <1>1. Newline \in Pieces
    BY DEF Pieces
  <1>2. <<Newline, p>> \in Seq(Pieces) /\ Len(<<Newline, p>>) = 2
    BY <1>1
  <1>3. QED
    BY <1>2 DEF Longer

LEMMA LineGrows ==
  ASSUME NEW s, Len(s) \in Nat, NEW t, Len(t) \in Nat, Len(s) <= Len(t), \A k \in 1..Len(s) : s[k] = t[k],
         NEW last \in Nat, NEW more \in Nat, last <= more, last <= Len(s),
         NEW p, NEW n, Line(p, n, s, last)
  PROVE  Line(p, n, t, more)
  BY DEF Line

LEMMA RuledGrows ==
  ASSUME NEW s, Len(s) \in Nat, NEW t, Len(t) \in Nat, Len(s) <= Len(t), \A k \in 1..Len(s) : s[k] = t[k],
         NEW last \in Nat, NEW more \in Nat, last <= more, last <= Len(s),
         NEW file, Ruled(file, s, last)
  PROVE  Ruled(file, t, more)
  BY LineGrows DEF Ruled

LEMMA RuledAppended ==
  ASSUME NEW file, NEW s, NEW last, NEW p \in Pieces, Ruled(file, s, last), Line(p, Len(file) + 2, s, last)
  PROVE  Ruled(file \o <<Newline, p>>, s, last)
  <1> DEFINE more == file \o <<Newline, p>>
  <1>1. file \in Seq(Pieces) /\ Len(file) \in Nat /\ Len(file) % 2 = 0
    BY DEF Ruled
  <1>2. more \in Seq(Pieces) /\ Longer(file, more, p)
    BY <1>1, Appended
  <1> HIDE DEF more
  <1>3. Len(more) % 2 = 0 /\ (Len(file) + 1) % 2 = 1 /\ (Len(file) + 2) % 2 = 0
    BY <1>1, <1>2 DEF Longer
  <1>4. ASSUME NEW n \in 1..Len(more)
        PROVE  IF n % 2 = 1 THEN more[n] = Newline ELSE Line(more[n], n, s, last)
    <2>1. CASE n \in 1..Len(file)
      BY <1>2, <2>1 DEF Longer, Ruled
    <2>2. CASE n = Len(file) + 1
      BY <1>2, <1>3, <2>2 DEF Longer
    <2>3. CASE n = Len(file) + 2
      BY <1>2, <1>3, <2>3 DEF Longer
    <2>4. QED
      BY <1>2, <2>1, <2>2, <2>3 DEF Longer
  <1>5. Ruled(more, s, last)
    BY <1>2, <1>3, <1>4 DEF Ruled
  <1>6. QED
    BY <1>5 DEF more

(* What is noted stays noted; an entry that is added is of a commit that had *)
(* none.                                                                     *)
LEMMA EnteredStays ==
  ASSUME NEW file, NEW more, NEW p, Longer(file, more, p), NEW n \in 1..Len(file)
  PROVE  /\ n \in 1..Len(more)
         /\ more[n].kind = file[n].kind
         /\ \A sha : Entered(more, n, sha) <=> Entered(file, n, sha)
  BY DEF Longer, Entered

LEMMA OnceAppended ==
  ASSUME NEW file, NEW more, NEW p, Longer(file, more, p), OnceEach(file),
         p.kind = "entry" => \A n \in 1..Len(file) : ~Entered(file, n, p.entry.sha)
  PROVE  OnceEach(more)
  <1> DEFINE L == Len(file)
  <1>1. SUFFICES ASSUME NEW m \in 1..Len(more), NEW n \in 1..Len(more),
                        more[m].kind = "entry", Entered(more, n, more[m].entry.sha)
                 PROVE  m = n
    BY DEF OnceEach
  <1>2. more[n].kind = "entry" /\ more[n].entry.sha = more[m].entry.sha
    BY <1>1 DEF Entered
  <1>3. m # L + 1 /\ n # L + 1
    BY <1>1, <1>2, LinesDiffer DEF Longer
  <1>4. m \in 1..L \/ m = L + 2
    BY <1>3 DEF Longer
  <1>5. n \in 1..L \/ n = L + 2
    BY <1>3 DEF Longer
  <1>6. CASE m \in 1..L /\ n \in 1..L
    BY <1>1, <1>2, <1>6 DEF Longer, OnceEach, Entered
  <1>7. CASE m \in 1..L /\ n = L + 2
    BY <1>1, <1>2, <1>7 DEF Longer, Entered
  <1>8. CASE m = L + 2 /\ n \in 1..L
    BY <1>1, <1>2, <1>8 DEF Longer, Entered
  <1>9. QED
    BY <1>4, <1>5, <1>6, <1>7, <1>8

LEMMA WrittenAppended ==
  ASSUME NEW file, NEW more, NEW p, Longer(file, more, p), NEW whole, AllWritten(file, whole)
  PROVE  /\ AllWritten(more, whole)
         /\ p.kind = "entry" => AllWritten(more, whole \cup {p.entry.sha})
  <1>1. AllWritten(more, whole)
    BY EnteredStays DEF AllWritten
  <1>2. ASSUME p.kind = "entry" PROVE Entered(more, Len(file) + 2, p.entry.sha) /\ Len(file) + 2 \in 1..Len(more)
    BY <1>2 DEF Longer, Entered
  <1>3. QED
    BY <1>1, <1>2 DEF AllWritten

LEMMA TracedAppended ==
  ASSUME NEW file, NEW more, NEW p, Longer(file, more, p), NEW any, AllTraced(file, any)
  PROVE  /\ AllTraced(more, any)
         /\ p.kind = "entry" => AllTraced(more, any \cup {p.entry.sha})
         /\ p.kind \in {"gap", "fragment"} => \A sha : AllTraced(more, any \cup {sha})
  <1>1. AllTraced(more, any)
    BY EnteredStays DEF AllTraced
  <1>2. Len(file) + 2 \in 1..Len(more) /\ more[Len(file) + 2] = p
    BY DEF Longer
  <1>3. p.kind = "entry" => Entered(more, Len(file) + 2, p.entry.sha)
    BY <1>2 DEF Entered
  <1>4. ASSUME p.kind = "entry" PROVE AllTraced(more, any \cup {p.entry.sha})
    BY <1>1, <1>2, <1>3, <1>4 DEF AllTraced
  <1>5. ASSUME p.kind \in {"gap", "fragment"}, NEW sha PROVE AllTraced(more, any \cup {sha})
    BY <1>1, <1>2, <1>5 DEF AllTraced
  <1>6. QED
    BY <1>1, <1>4, <1>5

LEMMA NextOdd ==
  ASSUME NEW L \in Nat, NEW n \in 1..L, n # L, n % 2 = 0
  PROVE  n + 1 \in 1..L /\ (n + 1) % 2 = 1
  OBVIOUS

(* A file of whole lines, as it is read.                                     *)
LEMMA RuledIsRead ==
  ASSUME NEW file, NEW s, NEW last, Ruled(file, s, last)
  PROVE  /\ Lines(file) = {n \in 1..Len(file) : n % 2 = 0}
         /\ Whole(file) = {n \in 1..Len(file) : n % 2 = 0 /\ file[n] # Fragment}
         /\ \A kind \in {"header", "entry", "gap"} : Records(file, kind) = {n \in 1..Len(file) : file[n].kind = kind}
         /\ \A n \in 1..Len(file) : file[n].kind # "newline" => n % 2 = 0 /\ Line(file[n], n, s, last)
  <1>1. /\ file \in Seq(Pieces) /\ Len(file) \in Nat /\ DOMAIN file = 1..Len(file) /\ Len(file) % 2 = 0
        /\ \A n \in 1..Len(file) : IF n % 2 = 1 THEN file[n] = Newline ELSE Line(file[n], n, s, last)
    BY DEF Ruled
  <1>2. \A n \in 1..Len(file) : n % 2 = 1 \/ n % 2 = 0
    BY <1>1
  <1>3. \A n, p : Line(p, n, s, last) => p # Newline /\ p.kind # "newline"
    BY LinesDiffer DEF Line
  <1>4. \A n \in 1..Len(file) : file[n] = Newline <=> n % 2 = 1
    BY <1>1, <1>2, <1>3
  <1>5. \A n \in 1..Len(file) : n # 1 /\ n % 2 = 0 => n - 1 \in 1..Len(file) /\ (n - 1) % 2 = 1
    BY <1>1
  <1>6. \A n \in 1..Len(file) : n # Len(file) /\ n % 2 = 0 => n + 1 \in 1..Len(file) /\ (n + 1) % 2 = 1
    BY <1>1, NextOdd
  <1>7. Lines(file) = {n \in 1..Len(file) : n % 2 = 0}
    BY <1>1, <1>2, <1>4, <1>5 DEF Lines
  <1>8. Whole(file) = {n \in 1..Len(file) : n % 2 = 0 /\ file[n] # Fragment}
    BY <1>1, <1>4, <1>6, <1>7 DEF Whole
  <1>9. \A n \in 1..Len(file) : file[n].kind # "newline" => n % 2 = 0 /\ Line(file[n], n, s, last)
    BY <1>1, <1>2, LinesDiffer
  <1>10. ASSUME NEW kind \in {"header", "entry", "gap"}
         PROVE  Records(file, kind) = {n \in 1..Len(file) : file[n].kind = kind}
    <2>1. \A n \in 1..Len(file) : file[n].kind = kind => n % 2 = 0 /\ file[n] # Fragment
      BY <1>9, LinesDiffer
    <2>2. QED
      BY <1>8, <2>1 DEF Records
  <1>11. QED
    BY <1>7, <1>8, <1>9, <1>10

LEMMA RuledLedger ==
  ASSUME NEW file, NEW s, NEW last, Ruled(file, s, last)
  PROVE  LET run == ReadLedger(file) IN
         /\ run.headed <=> Len(file) >= 2 /\ file[2] = HeaderLine(Envelope)
         /\ run.headed => run.envelope = Envelope
         /\ DOMAIN run.entries = {n \in 1..Len(file) : file[n].kind = "entry"}
         /\ \A n \in DOMAIN run.entries : run.entries[n] = file[n].entry /\ \E k \in 1..last : run.entries[n] = s[k]
         /\ run.gaps = {file[n].sha : n \in {m \in 1..Len(file) : file[m].kind = "gap"}}
         /\ \A n \in 1..Len(file) : file[n] = Fragment => n \in run.discarded
  <1> DEFINE run == ReadLedger(file)
             headers == Records(file, "header")
  <1>1. Len(file) \in Nat
    BY DEF Ruled
  <1>2. headers = {n \in 1..Len(file) : file[n].kind = "header"}
    BY RuledIsRead
  <1>3. \A n \in headers : n = 2 /\ file[n] = HeaderLine(Envelope)
    BY <1>2, RuledIsRead, LinesDiffer DEF Line
  <1>4. headers # {} <=> Len(file) >= 2 /\ file[2] = HeaderLine(Envelope)
    BY <1>1, <1>2, <1>3, LinesDiffer
  <1>5. headers # {} => Min(headers) \in headers
    <2>1. ASSUME headers # {} PROVE 2 \in headers /\ \A n \in headers : 2 <= n
      BY <1>3, <2>1
    <2>2. QED
      BY <2>1 DEF Min
  <1>6. /\ run.headed = (headers # {})
        /\ run.envelope = IF headers # {} THEN file[Min(headers)].envelope ELSE [commits |-> <<>>]
        /\ run.entries = [n \in Records(file, "entry") |-> file[n].entry]
        /\ run.gaps = {file[n].sha : n \in Records(file, "gap")}
        /\ run.discarded = (Lines(file) \ Whole(file)) \cup {n \in headers : \E m \in headers : m < n}
    BY DEF ReadLedger
  <1>7. run.headed => run.envelope = Envelope
    BY <1>3, <1>5, <1>6, LinesDiffer
  <1>8. Records(file, "entry") = {n \in 1..Len(file) : file[n].kind = "entry"}
    BY RuledIsRead
  <1>9. Records(file, "gap") = {n \in 1..Len(file) : file[n].kind = "gap"}
    BY RuledIsRead
  <1> HIDE DEF run
  <1>10. ASSUME NEW n \in DOMAIN run.entries
         PROVE  run.entries[n] = file[n].entry /\ \E k \in 1..last : run.entries[n] = s[k]
    <2>1. n \in 1..Len(file) /\ file[n].kind = "entry" /\ run.entries[n] = file[n].entry
      BY <1>6, <1>8
    <2>2. Line(file[n], n, s, last)
      BY <2>1, RuledIsRead
    <2>3. \E k \in 1..last : file[n] = EntryLine(s[k])
      BY <2>1, <2>2, LinesDiffer DEF Line
    <2>4. QED
      BY <2>1, <2>3, LinesDiffer
  <1>11. ASSUME NEW n \in 1..Len(file), file[n] = Fragment PROVE n \in run.discarded
    <2>1. n \in Lines(file) /\ n \notin Whole(file)
      BY <1>11, RuledIsRead, LinesDiffer
    <2>2. QED
      BY <1>6, <2>1
  <1>12. DOMAIN run.entries = {n \in 1..Len(file) : file[n].kind = "entry"}
    BY <1>6, <1>8
  <1>13. QED
    BY <1>4, <1>6, <1>7, <1>9, <1>10, <1>11, <1>12 DEF run

-----------------------------------------------------------------------------
LEMMA InitHolds == Init => IInv
  <1>1. SUFFICES ASSUME Init PROVE IInv
    OBVIOUS
  <1>2. settled = <<>> /\ Len(settled) = 0 /\ settled \in Seq(Outcomes)
    BY <1>1 DEF Init
  <1>3. PhaseInv
    BY <1>1 DEF Init, PhaseInv
  <1>4. SettledInv
    <2>1. \A n \in 1..0 : FALSE
      OBVIOUS
    <2>2. 0 <= Len(Enumerated)
      BY EnumeratedIs
    <2>3. QED
      BY <1>1, <1>2, <2>1, <2>2 DEF Init, SettledInv
  <1>5. CounterInv
    <2>1. Streak(settled, 1, 0, 0)
      <3>1. {k \in 1..0 : settled[k].attempted} = {} /\ \A k \in 1..0 : FALSE
        OBVIOUS
      <3>2. Cardinality({}) = 0
        BY FS_EmptySet
      <3>3. QED
        BY <3>1, <3>2 DEF Streak
    <2>2. Replay(settled)[0] = Quiet
      BY <1>2, ReplayIs
    <2>3. Replay(settled)[0].streak = 0 /\ ~(Replay(settled)[0].longest >= AbortAfter)
      BY <2>2, SweepAssumption DEF Quiet
    <2>4. 1 \in 1..(0 + 1)
      OBVIOUS
    <2>5. CounterAt(settled, 0, 0, FALSE)
      BY <2>1, <2>3, <2>4 DEF CounterAt
    <2>6. phase = "open" /\ Seen = 0 /\ streak = 0 /\ aborted = FALSE
      BY <1>1, <1>2 DEF Init, Seen, Uncounted
    <2>7. QED
      BY <2>5, <2>6 DEF CounterInv, Uncounted
  <1>6. NotOurs
    BY <1>1 DEF Init, NotOurs
  <1>7. QED
    BY <1>3, <1>4, <1>5, <1>6 DEF IInv, FileInv

LEMMA PhaseStep ==
  ASSUME PhaseInv, Next
  PROVE  PhaseInv'
  <1> USE DEF PhaseInv
  <1>1. CASE OpenLedger
    BY <1>1 DEF OpenLedger
  <1>2. CASE WriteHeader
    BY <1>2 DEF WriteHeader
  <1>3. CASE DeadlinePasses
    BY <1>3 DEF DeadlinePasses, Ended
  <1>4. CASE SkipNoCode \/ SkipAbort \/ SkipDeadline \/ Review
    <2>1. /\ phase = "next" /\ phase' = "entry"
          /\ UNCHANGED <<ledger, late, streak, aborted, record, faults, wrote, traced>>
      BY <1>4 DEF SkipNoCode, SkipAbort, SkipDeadline, Review, AtCommit, Settle
    <2>2. QED
      BY <2>1
  <1>5. CASE WriteEntry
    BY <1>5 DEF WriteEntry
  <1>6. CASE WriteGap
    BY <1>6 DEF WriteGap
  <1>7. CASE Count
    BY <1>7 DEF Count
  <1>8. CASE WriteReport
    BY <1>8, EnumeratedIs DEF WriteReport
  <1>9. CASE BeginRecord
    BY <1>9 DEF BeginRecord
  <1>10. CASE FillRecord
    BY <1>10 DEF FillRecord
  <1>11. CASE Dies
    BY <1>11 DEF Dies, Ended
  <1>12. QED
    BY <1>1, <1>2, <1>3, <1>4, <1>5, <1>6, <1>7, <1>8, <1>9, <1>10, <1>11 DEF Next

(* One turn of the loop settles one commit more, and settles it right.       *)
Turn == SkipNoCode \/ SkipAbort \/ SkipDeadline \/ Review

LEMMA TurnSettles ==
  ASSUME IInv, Turn
  PROVE  /\ phase = "next" /\ phase' = "entry"
         /\ UNCHANGED <<ledger, late, streak, aborted, record, faults, wrote, traced>>
         /\ Len(settled) \in Nat /\ Len(settled) < Len(Enumerated)
         /\ settled' \in Seq(Outcomes) /\ Len(settled') = Len(settled) + 1
         /\ \A k \in 1..Len(settled) : settled[k] = settled'[k]
         /\ Right(settled', Len(settled'), late)
         /\ aborted => ~settled'[Len(settled')].attempted
  <1> DEFINE n == Len(settled) + 1
  <1>1. settled \in Seq(Outcomes) /\ Len(settled) \in Nat /\ Len(Enumerated) \in Nat /\ late \in BOOLEAN
    BY EnumeratedIs DEF IInv, SettledInv
  <1>2. AtCommit
    BY DEF Turn, SkipNoCode, SkipAbort, SkipDeadline, Review
  <1>3. phase = "next" /\ Len(settled) < Len(Enumerated) /\ n \in DOMAIN Enumerated /\ Commit = Enumerated[n]
    BY <1>1, <1>2, EnumeratedIs DEF AtCommit, Commit
  <1>4. ASSUME NEW f \in Facts, NEW b \in BOOLEAN, Settle(f, b)
        PROVE  /\ phase' = "entry"
               /\ UNCHANGED <<ledger, late, streak, aborted, record, faults, wrote, traced>>
               /\ settled' \in Seq(Outcomes) /\ Len(settled') = n
               /\ \A k \in 1..Len(settled) : settled[k] = settled'[k]
               /\ settled'[n] = EntryOf(f, Enumerated[n].sha, b)
    <2>1. EntryOf(f, Enumerated[n].sha, b) \in Outcomes
      BY <1>3 DEF Outcomes
    <2>2. settled' = Append(settled, EntryOf(f, Enumerated[n].sha, b))
      BY <1>3, <1>4 DEF Settle
    <2>3. QED
      BY <1>1, <1>4, <2>1, <2>2 DEF Settle
  <1>5. \A why \in Skips : Unanswered(why, NoReason) \in Facts
    BY DEF Facts
  <1>6. ASSUME NEW why \in Skips, Settle(Unanswered(why, NoReason), FALSE),
               why = "skipped-no-code" <=> ~Commit.eligible, why = "skipped-deadline" => late,
               why = "skipped-abort" => aborted
        PROVE  /\ Right(settled', n, late) /\ ~settled'[n].attempted
    <2>1. /\ settled'[n] = EntryOf(Unanswered(why, NoReason), Enumerated[n].sha, FALSE)
          /\ \A k \in 1..Len(settled) : settled[k] = settled'[k]
      BY <1>4, <1>5, <1>6
    <2>2. ASSUME aborted PROVE \E m \in 1..(n - 1) : ServerGone(settled', m, n - 1)
      <3>1. CounterAt(settled, Len(settled), streak, aborted)
        BY <1>3 DEF IInv, CounterInv, Seen, Uncounted
      <3>2. PICK m \in 1..Len(settled) : ServerGone(settled, m, Len(settled))
        BY <2>2, <3>1 DEF CounterAt
      <3>3. m \in Nat /\ \A k \in m..Len(settled) : settled[k] = settled'[k]
        BY <1>1, <2>1
      <3>4. ServerGone(settled', m, Len(settled))
        BY <1>1, <3>2, <3>3, GoneKept
      <3>5. n - 1 = Len(settled)
        BY <1>1
      <3>6. QED
        BY <3>4, <3>5
    <2>3. Passed(settled', n, why, late)
      BY <1>3, <1>6, <2>1, <2>2 DEF Passed
    <2>4. ~settled'[n].attempted
      BY <2>1 DEF EntryOf
    <2>5. QED
      BY <2>3, <2>4 DEF Right
  <1>7. CASE SkipNoCode
    <2>1. Settle(Unanswered("skipped-no-code", NoReason), FALSE) /\ ~Commit.eligible
      BY <1>7 DEF SkipNoCode
    <2>2. "skipped-no-code" \in Skips
      BY DEF Skips
    <2>3. QED
      BY <1>1, <1>3, <1>4, <1>5, <1>6, <2>1, <2>2
  <1>8. CASE SkipAbort
    <2>1. Settle(Unanswered("skipped-abort", NoReason), FALSE) /\ Commit.eligible /\ aborted
      BY <1>8 DEF SkipAbort
    <2>2. "skipped-abort" \in Skips
      BY DEF Skips
    <2>3. QED
      BY <1>1, <1>3, <1>4, <1>5, <1>6, <2>1, <2>2
  <1>9. CASE SkipDeadline
    <2>1. Settle(Unanswered("skipped-deadline", NoReason), FALSE) /\ Commit.eligible /\ late
      BY <1>9 DEF SkipDeadline
    <2>2. "skipped-deadline" \in Skips
      BY DEF Skips
    <2>3. QED
      BY <1>1, <1>3, <1>4, <1>5, <1>6, <2>1, <2>2
  <1>10. CASE Review
    <2>1. PICK reply \in Replies : Settle(Classify(reply), TRUE)
      BY <1>10 DEF Review
    <2>2. Commit.eligible /\ ~aborted
      BY <1>10 DEF Review
    <2>3. Classify(reply) \in Facts
      BY DEF Facts
    <2>4. /\ settled'[n] = EntryOf(Classify(reply), Enumerated[n].sha, TRUE)
          /\ phase' = "entry"
          /\ UNCHANGED <<ledger, late, streak, aborted, record, faults, wrote, traced>>
          /\ settled' \in Seq(Outcomes) /\ Len(settled') = n
          /\ \A k \in 1..Len(settled) : settled[k] = settled'[k]
      BY <1>4, <2>1, <2>3
    <2>5. Right(settled', n, late)
      BY <1>3, <2>2, <2>4 DEF Right, Looked
    <2>6. QED
      BY <1>1, <1>3, <2>2, <2>4, <2>5
  <1>11. QED
    BY <1>7, <1>8, <1>9, <1>10 DEF Turn

LEMMA SettledStep ==
  ASSUME IInv, Next
  PROVE  SettledInv'
  <1>1. /\ settled \in Seq(Outcomes) /\ Len(settled) \in Nat /\ Len(settled) <= Len(Enumerated) /\ Len(Enumerated) \in Nat
        /\ \A n \in 1..Len(settled) : Right(settled, n, late)
        /\ late \in BOOLEAN /\ aborted \in BOOLEAN /\ streak \in Nat
    BY EnumeratedIs DEF IInv, SettledInv
  <1>2. ASSUME UNCHANGED <<settled, late, streak, aborted>> PROVE SettledInv'
    BY <1>1, <1>2 DEF SettledInv
  <1>3. CASE Turn
    <2>1. ASSUME NEW n \in 1..Len(settled) PROVE Right(settled', n, late)
      <3>1. \A k \in 1..Len(settled) : settled[k] = settled'[k]
        BY <1>3, TurnSettles
      <3>2. n \in Nat /\ 1 <= n /\ \A k \in 1..n : settled[k] = settled'[k]
        BY <1>1, <3>1
      <3>3. Right(settled, n, late)
        BY <1>1
      <3>4. QED
        BY <3>2, <3>3, RightKept
    <2>2. \A n \in 1..Len(settled') : n \in 1..Len(settled) \/ n = Len(settled')
      BY <1>3, TurnSettles
    <2>3. \A n \in 1..Len(settled') : Right(settled', n, late)
      BY <1>3, <2>1, <2>2, TurnSettles
    <2>4. UNCHANGED <<late, streak, aborted>> /\ settled' \in Seq(Outcomes) /\ Len(settled') <= Len(Enumerated)
      BY <1>1, <1>3, TurnSettles
    <2>5. QED
      BY <1>1, <2>3, <2>4 DEF SettledInv
  <1>4. CASE DeadlinePasses
    <2>1. late' = TRUE /\ UNCHANGED <<settled, streak, aborted>>
      BY <1>4 DEF DeadlinePasses
    <2>2. ASSUME NEW n \in 1..Len(settled) PROVE Right(settled, n, TRUE)
      <3>1. n \in Nat /\ 1 <= n /\ Right(settled, n, late)
        BY <1>1
      <3>2. QED
        BY <3>1, RightKept
    <2>3. QED
      BY <1>1, <2>1, <2>2 DEF SettledInv
  <1>5. CASE Count
    <2>1. streak' \in Nat /\ aborted' \in BOOLEAN /\ UNCHANGED <<settled, late>>
      BY <1>1, <1>5 DEF Count
    <2>2. QED
      BY <1>1, <2>1 DEF SettledInv
  <1>6. CASE OpenLedger
    BY <1>2, <1>6 DEF OpenLedger
  <1>7. CASE WriteHeader
    BY <1>2, <1>7 DEF WriteHeader
  <1>8. CASE WriteEntry \/ WriteGap
    BY <1>2, <1>8 DEF WriteEntry, WriteGap
  <1>9. CASE WriteReport \/ BeginRecord \/ FillRecord
    BY <1>2, <1>9 DEF WriteReport, BeginRecord, FillRecord
  <1>10. CASE Dies
    BY <1>2, <1>10 DEF Dies
  <1>11. QED
    BY <1>3, <1>4, <1>5, <1>6, <1>7, <1>8, <1>9, <1>10 DEF Next, Turn

LEMMA CounterStep ==
  ASSUME IInv, Next
  PROVE  CounterInv'
  <1>1. /\ settled \in Seq(Outcomes) /\ Len(settled) \in Nat /\ (settled # <<>> <=> Len(settled) >= 1)
        /\ late \in BOOLEAN /\ aborted \in BOOLEAN /\ streak \in Nat
    BY DEF IInv, SettledInv
  <1>2. CounterInv /\ PhaseInv
    BY DEF IInv
  <1>3. ASSUME UNCHANGED <<settled, streak, aborted>>, phase # "dead",
               \/ phase' = phase
               \/ phase \in Uncounted /\ phase' \in Uncounted
               \/ phase \notin Uncounted /\ phase' \notin Uncounted \cup {"dead"}
        PROVE  CounterInv'
    <2>1. Seen' = Seen /\ phase' # "dead" /\ (phase' \in Uncounted => phase \in Uncounted)
      BY <1>3 DEF Seen, Uncounted
    <2>2. QED
      BY <1>2, <1>3, <2>1 DEF CounterInv
  <1>4. CASE OpenLedger
    BY <1>3, <1>4 DEF OpenLedger, Uncounted
  <1>5. CASE WriteHeader
    BY <1>3, <1>5 DEF WriteHeader, Uncounted
  <1>6. CASE DeadlinePasses
    BY <1>3, <1>6 DEF DeadlinePasses, Ended
  <1>7. CASE Turn
    <2>1. /\ phase = "next" /\ phase' = "entry" /\ streak' = streak /\ aborted' = aborted
          /\ Len(settled') = Len(settled) + 1 /\ settled' \in Seq(Outcomes)
          /\ \A k \in 1..Len(settled) : settled[k] = settled'[k]
          /\ aborted => ~settled'[Len(settled')].attempted
      BY <1>7, TurnSettles
    <2>2. Seen = Len(settled) /\ Seen' = Len(settled)
      BY <1>1, <2>1 DEF Seen, Uncounted
    <2>3. CounterAt(settled, Len(settled), streak, aborted)
      BY <1>2, <2>1, <2>2 DEF CounterInv
    <2>4. CounterAt(settled', Len(settled), streak, aborted)
      BY <1>1, <2>1, <2>3, CounterKept
    <2>5. settled' # <<>>
      BY <1>1, <2>1
    <2>6. QED
      BY <2>1, <2>2, <2>4, <2>5 DEF CounterInv
  <1>8. CASE WriteEntry
    BY <1>3, <1>8 DEF WriteEntry, Uncounted
  <1>9. CASE WriteGap
    BY <1>3, <1>9 DEF WriteGap, Uncounted
  <1>10. CASE Count
    <2> DEFINE n == Len(settled) - 1
               e == settled[Len(settled)]
    <2>1. /\ phase = "count" /\ phase' = "next" /\ settled' = settled
          /\ streak' = IF ~e.attempted THEN streak ELSE IF IsOutage(e) THEN streak + 1 ELSE 0
      BY <1>10 DEF Count, Current, Last
    <2>a. aborted' \in BOOLEAN /\ (aborted' <=> (aborted \/ StopsAfter(streak')))
      BY <1>10 DEF Count
    <2>2. Len(settled) >= 1 /\ n \in Nat /\ n + 1 = Len(settled) /\ Seen = n /\ Seen' = n + 1
      BY <1>1, <1>2, <2>1 DEF CounterInv, Seen, Uncounted
    <2>3. CounterAt(settled, n, streak, aborted) /\ (aborted => ~settled[n + 1].attempted)
      BY <1>2, <2>1, <2>2 DEF CounterInv, Uncounted
    <2>c. e = settled[n + 1] /\ n + 1 <= Len(settled)
      BY <2>2
    <2> HIDE DEF e, n
    <2>4. StopsAfter(streak) => aborted
      <3>1. n \in 0..Len(settled)
        BY <2>2
      <3>2. Replay(settled)[n] \in Tallies /\ Replay(settled)[n].streak <= Replay(settled)[n].longest
        BY <1>1, <3>1, StreakBelowLongest
      <3>3. Replay(settled)[n].streak = streak /\ (aborted <=> Replay(settled)[n].longest >= AbortAfter)
        BY <2>3 DEF CounterAt
      <3>4. QED
        BY <1>1, <3>2, <3>3, SweepAssumption DEF StopsAfter, Tallies
    <2>5. CounterAt(settled, n + 1, streak', aborted')
      <3>1. CASE ~e.attempted
        <4>1. streak' = streak /\ aborted' = aborted
          BY <1>1, <2>1, <2>a, <2>4, <3>1
        <4>2. CounterAt(settled, n + 1, streak, aborted)
          BY <1>1, <2>2, <2>3, <2>c, <3>1, CountsPassed
        <4>3. QED
          BY <4>1, <4>2
      <3>2. CASE e.attempted /\ IsOutage(e)
        <4>1. aborted = FALSE /\ streak' = streak + 1
          BY <1>1, <2>1, <2>3, <2>c, <3>2
        <4>2. aborted' \in BOOLEAN /\ (aborted' <=> StopsAfter(streak + 1))
          BY <2>a, <4>1
        <4>3. CounterAt(settled, n, streak, FALSE)
          BY <2>3, <4>1
        <4>4. \A stopped \in BOOLEAN : (stopped <=> StopsAfter(streak + 1)) => CounterAt(settled, n + 1, streak + 1, stopped)
          BY <1>1, <2>2, <2>c, <3>2, <4>3, CountsOutage
        <4>5. QED
          BY <4>1, <4>2, <4>4
      <3>3. CASE e.attempted /\ ~IsOutage(e)
        <4>1. aborted = FALSE /\ streak' = 0
          BY <1>1, <2>1, <2>3, <2>c, <3>3
        <4>2. aborted' = FALSE
          <5>1. ~StopsAfter(0)
            BY SweepAssumption DEF StopsAfter
          <5>2. QED
            BY <2>a, <4>1, <5>1
        <4>3. CounterAt(settled, n, streak, FALSE)
          BY <2>3, <4>1
        <4>4. CounterAt(settled, n + 1, 0, FALSE)
          BY <1>1, <2>2, <2>c, <3>3, <4>3, CountsLook
        <4>5. QED
          BY <4>1, <4>2, <4>4
      <3>4. QED
        BY <3>1, <3>2, <3>3
    <2>6. phase' \notin Uncounted
      BY <2>1 DEF Uncounted
    <2>7. QED
      BY <2>1, <2>2, <2>5, <2>6 DEF CounterInv
  <1>11. CASE WriteReport
    BY <1>3, <1>11 DEF WriteReport, Uncounted
  <1>12. CASE BeginRecord
    BY <1>3, <1>12 DEF BeginRecord, Uncounted
  <1>13. CASE FillRecord
    BY <1>3, <1>13 DEF FillRecord, Uncounted
  <1>14. CASE Dies
    <2>1. phase # "dead" /\ phase' = "dead" /\ UNCHANGED <<settled, streak, aborted>>
      BY <1>14 DEF Dies, Ended
    <2>2. CounterAt(settled, Seen, streak, aborted)
      BY <1>2, <2>1 DEF CounterInv
    <2>3. Seen \in {Len(settled) - 1, Len(settled)} /\ Seen >= 0
      BY <1>1, <1>2 DEF Seen, CounterInv
    <2>4. QED
      BY <2>1, <2>2, <2>3 DEF CounterInv, Uncounted
  <1>15. QED
    BY <1>4, <1>5, <1>6, <1>7, <1>8, <1>9, <1>10, <1>11, <1>12, <1>13, <1>14 DEF Next, Turn

(* A step that leaves the file alone, and one that adds a line to it.        *)
LEMMA LedgerKept ==
  ASSUME IInv, LedgerInv, UNCHANGED <<ledger, settled, wrote, traced>>, phase' # "header" \/ phase' = phase,
         Entries <= Entries', Entries' <= Len(settled), Begun' => Begun
  PROVE  LedgerInv'
  <1>1. Len(settled) \in Nat /\ Entries \in Nat /\ Entries' \in Nat /\ Entries <= Len(settled)
    <2>1. settled \in Seq(Outcomes) /\ (phase \in Uncounted => settled # <<>>)
      BY DEF IInv, SettledInv, CounterInv
    <2>2. Len(settled) \in Nat /\ (settled # <<>> => Len(settled) >= 1)
      BY <2>1
    <2>3. Entries \in Nat /\ Entries <= Len(settled)
      BY <2>1, <2>2 DEF Entries, Uncounted
    <2>4. Entries' \in Nat
      BY <2>2, <2>3 DEF Entries
    <2>5. QED
      BY <2>2, <2>3, <2>4
  <1>2. Ruled(ledger, settled, Entries')
    BY <1>1, RuledGrows DEF LedgerInv
  <1>3. QED
    BY <1>2 DEF LedgerInv

Adds(p) ==
  /\ LedgerInv /\ p \in Pieces /\ ledger' = ledger \o <<Newline, p>> /\ settled' = settled
  /\ Entries <= Entries' /\ Entries' <= Len(settled) /\ Line(p, Len(ledger) + 2, settled, Entries')
  /\ phase' # "header" /\ (Begun' => Begun \/ (ledger = <<>> /\ p = HeaderLine(Envelope)))
  /\ p.kind = "entry" => \A n \in 1..Len(ledger) : ~Entered(ledger, n, p.entry.sha)

LEMMA LedgerLonger ==
  ASSUME IInv, NEW p, Adds(p)
  PROVE  /\ AllWritten(ledger', wrote) /\ AllTraced(ledger', traced)
         /\ p.kind = "entry" => AllWritten(ledger', wrote \cup {p.entry.sha}) /\ AllTraced(ledger', traced \cup {p.entry.sha})
         /\ p.kind \in {"gap", "fragment"} => \A sha : AllTraced(ledger', traced \cup {sha})
         /\ AllWritten(ledger', wrote') /\ AllTraced(ledger', traced') => LedgerInv'
  <1> USE DEF Adds
  <1>1. Len(settled) \in Nat /\ Entries \in Nat /\ Entries' \in Nat /\ Entries <= Len(settled)
    <2>1. settled \in Seq(Outcomes) /\ (phase \in Uncounted => settled # <<>>)
      BY DEF IInv, SettledInv, CounterInv
    <2>2. Len(settled) \in Nat /\ (settled # <<>> => Len(settled) >= 1)
      BY <2>1
    <2>3. Entries \in Nat /\ Entries <= Len(settled)
      BY <2>1, <2>2 DEF Entries, Uncounted
    <2>4. Entries' \in Nat
      BY <2>2, <2>3 DEF Entries
    <2>5. QED
      BY <2>2, <2>3, <2>4
  <1>2. Ruled(ledger, settled, Entries')
    BY <1>1, RuledGrows DEF LedgerInv
  <1>3. Ruled(ledger', settled, Entries')
    BY <1>2, RuledAppended
  <1>4. ledger \in Seq(Pieces)
    BY <1>2 DEF Ruled
  <1>5. Longer(ledger, ledger', p)
    BY <1>4, Appended
  <1>6. OnceEach(ledger')
    BY <1>5, OnceAppended DEF LedgerInv
  <1>7. /\ AllWritten(ledger', wrote)
        /\ p.kind = "entry" => AllWritten(ledger', wrote \cup {p.entry.sha})
    BY <1>5, WrittenAppended DEF LedgerInv
  <1>8. /\ AllTraced(ledger', traced)
        /\ p.kind = "entry" => AllTraced(ledger', traced \cup {p.entry.sha})
        /\ p.kind \in {"gap", "fragment"} => \A sha : AllTraced(ledger', traced \cup {sha})
    BY <1>5, TracedAppended DEF LedgerInv
  <1>9. Begun' => Len(ledger') >= 2 /\ ledger'[2] = HeaderLine(Envelope)
    <2>1. CASE Begun
      BY <1>5, <2>1 DEF LedgerInv, Longer
    <2>2. CASE ledger = <<>> /\ p = HeaderLine(Envelope)
      <3>1. Len(ledger) = 0
        BY <2>2
      <3>2. QED
        BY <1>5, <2>2, <3>1 DEF Longer
    <2>3. QED
      BY <2>1, <2>2
  <1>10. QED
    BY <1>3, <1>6, <1>7, <1>8, <1>9 DEF LedgerInv

(* Of the last commit that was settled there is no entry before it is written. *)
LEMMA NoneYet ==
  ASSUME IInv, LedgerInv, phase \in {"entry", "gap"}
  PROVE  /\ Len(settled) >= 1 /\ Len(settled) \in Nat /\ settled[Len(settled)] \in Outcomes /\ Current = settled[Len(settled)]
         /\ \A n \in 1..Len(ledger) : ~Entered(ledger, n, Current.sha)
         /\ EntryLine(Current) \in Pieces /\ GapLine(Current.sha) \in Pieces
  <1>1. settled \in Seq(Outcomes) /\ settled # <<>> /\ Len(settled) <= Len(Enumerated)
    BY DEF IInv, SettledInv, CounterInv, Uncounted
  <1>2. Len(settled) >= 1 /\ Len(settled) \in Nat /\ settled[Len(settled)] \in Outcomes
    BY <1>1
  <1>3. Current = settled[Len(settled)]
    BY DEF Current, Last
  <1>4. \A k \in 1..Len(settled) : settled[k].sha = Enumerated[k].sha /\ k \in DOMAIN Enumerated
    <2>1. \A k \in 1..Len(settled) : settled[k].sha = Enumerated[k].sha
      BY RightIs DEF IInv, SettledInv
    <2>2. QED
      BY <1>1, <1>2, <2>1, EnumeratedIs
  <1>5. ASSUME NEW n \in 1..Len(ledger), Entered(ledger, n, Current.sha) PROVE FALSE
    <2>1. ledger[n].kind = "entry" /\ ledger[n].entry.sha = Current.sha
      BY <1>5 DEF Entered
    <2>2. Line(ledger[n], n, settled, Len(settled) - 1)
      BY <2>1, RuledIsRead DEF LedgerInv, Entries
    <2>3. PICK k \in 1..(Len(settled) - 1) : ledger[n] = EntryLine(settled[k])
      BY <2>1, <2>2, LinesDiffer DEF Line
    <2>4. k \in 1..Len(settled) /\ Len(settled) \in 1..Len(settled) /\ k # Len(settled)
      BY <1>2
    <2>5. settled[k].sha = settled[Len(settled)].sha
      BY <1>3, <2>1, <2>3, LinesDiffer
    <2>6. QED
      BY <1>4, <2>4, <2>5, EnumeratedIs
  <1>6. Len(settled) \in 1..Len(settled)
    BY <1>2
  <1>7. EntryLine(Current) \in Pieces
    BY <1>2, <1>3 DEF Pieces
  <1>8. GapLine(Current.sha) \in Pieces
    BY <1>3, <1>4, <1>6 DEF Pieces
  <1>9. QED
    BY <1>2, <1>3, <1>5, <1>7, <1>8

LEMMA FileStep ==
  ASSUME IInv, Next
  PROVE  FileInv'
  <1>1. /\ settled \in Seq(Outcomes) /\ Len(settled) \in Nat /\ (settled = <<>> <=> Len(settled) = 0)
        /\ PhaseInv /\ (phase \in Uncounted => settled # <<>>)
        /\ (NotOurs \/ (phase # "open" /\ LedgerInv))
    BY DEF IInv, SettledInv, CounterInv, FileInv
  <1>2. CASE OpenLedger
    <2>1. phase = "open" /\ settled = <<>> /\ wrote = {} /\ traced = {} /\ UNCHANGED <<settled, wrote, traced>> /\ NotOurs
      BY <1>1, <1>2 DEF OpenLedger, PhaseInv
    <2>2. CASE ledger = Absent
      <3>1. ledger' = <<>> /\ phase' = "header" /\ Len(ledger') = 0 /\ ledger' \in Seq(Pieces)
        BY <1>2, <2>2 DEF OpenLedger
      <3>2. \A n \in 1..0 : FALSE
        OBVIOUS
      <3>3. Ruled(ledger', settled', Entries')
        BY <3>1, <3>2 DEF Ruled
      <3>4. OnceEach(ledger') /\ AllWritten(ledger', wrote') /\ AllTraced(ledger', traced')
        BY <2>1, <3>1, <3>2 DEF OnceEach, AllWritten, AllTraced
      <3>5. ~Begun'
        BY <2>1, <3>1 DEF Begun
      <3>6. QED
        BY <3>1, <3>3, <3>4, <3>5 DEF FileInv, LedgerInv
    <2>3. CASE ledger # Absent
      BY <1>2, <2>1, <2>3 DEF OpenLedger, FileInv, NotOurs
    <2>4. QED
      BY <2>2, <2>3
  <1>3. CASE WriteHeader
    <2>1. /\ phase = "header" /\ phase' \in {"next", "failed"} /\ UNCHANGED <<settled, wrote, traced>>
          /\ settled = <<>> /\ LedgerInv /\ ledger = <<>>
      BY <1>1, <1>3 DEF WriteHeader, NotOurs, PhaseInv, LedgerInv
    <2>2. Entries = 0 /\ Entries' = 0 /\ Len(settled) = 0
      BY <1>1, <2>1 DEF Entries
    <2>3. \/ phase' = "next" /\ ledger' = ledger \o <<Newline, HeaderLine(Envelope)>>
          \/ phase' = "failed" /\ ledger' \in {ledger, ledger \o <<Newline, Fragment>>}
      BY <1>3, TornIs DEF WriteHeader, WriteOk, WriteFails
    <2>4. CASE phase' = "next" /\ ledger' = ledger \o <<Newline, HeaderLine(Envelope)>>
      <3>1. HeaderLine(Envelope) \in Pieces
        BY DEF Pieces
      <3>2. Len(ledger) = 0 /\ Line(HeaderLine(Envelope), Len(ledger) + 2, settled, Entries')
        BY <2>1 DEF Line
      <3>3. HeaderLine(Envelope).kind # "entry"
        BY LinesDiffer
      <3>a. Adds(HeaderLine(Envelope))
        BY <2>1, <2>2, <2>4, <3>1, <3>2, <3>3 DEF Adds
      <3>4. LedgerInv'
        BY <3>a, <2>1, <2>2, <2>4, <3>1, <3>2, <3>3, LedgerLonger
      <3>5. QED
        BY <2>4, <3>4 DEF FileInv
    <2>5. CASE phase' = "failed" /\ ledger' = ledger
      <3>1. ~Begun'
        BY <2>1, <2>5 DEF Begun
      <3>2. LedgerInv'
        BY <2>1, <2>2, <2>5, <3>1, LedgerKept
      <3>3. QED
        BY <2>5, <3>2 DEF FileInv
    <2>6. CASE phase' = "failed" /\ ledger' = ledger \o <<Newline, Fragment>>
      <3>1. Fragment \in Pieces /\ Line(Fragment, Len(ledger) + 2, settled, Entries') /\ Fragment.kind # "entry"
        BY LinesDiffer DEF Pieces, Line
      <3>2. ~Begun'
        BY <2>1, <2>6 DEF Begun
      <3>a. Adds(Fragment)
        BY <2>1, <2>2, <2>6, <3>1, <3>2 DEF Adds
      <3>3. LedgerInv'
        BY <3>a, <2>1, <2>2, <2>6, <3>1, <3>2, LedgerLonger
      <3>4. QED
        BY <2>6, <3>3 DEF FileInv
    <2>7. QED
      BY <2>3, <2>4, <2>5, <2>6
  <1>4. CASE DeadlinePasses
    <2>1. UNCHANGED <<phase, settled, ledger, wrote, traced>>
      BY <1>4 DEF DeadlinePasses
    <2>2. Entries' = Entries /\ (Begun' <=> Begun)
      BY <2>1 DEF Entries, Begun
    <2>3. NotOurs => NotOurs'
      BY <2>1 DEF NotOurs
    <2>4. LedgerInv => LedgerInv'
      BY <2>1, <2>2 DEF LedgerInv
    <2>5. QED
      BY <1>1, <2>1, <2>3, <2>4 DEF FileInv
  <1>5. CASE Turn
    <2>1. /\ phase = "next" /\ phase' = "entry" /\ UNCHANGED <<ledger, wrote, traced>>
          /\ settled' \in Seq(Outcomes) /\ Len(settled') = Len(settled) + 1
          /\ \A k \in 1..Len(settled) : settled[k] = settled'[k]
      BY <1>5, TurnSettles
    <2>2. LedgerInv /\ Begun /\ Entries = Len(settled) /\ Entries' = Len(settled)
      BY <1>1, <2>1 DEF NotOurs, Begun, Entries
    <2>3. Len(settled) \in Nat /\ Len(settled') \in Nat /\ Len(settled) <= Len(settled')
      BY <1>1, <2>1
    <2>4. Ruled(ledger, settled', Len(settled))
      BY <2>1, <2>2, <2>3, RuledGrows DEF LedgerInv
    <2>5. LedgerInv'
      BY <2>1, <2>2, <2>4 DEF LedgerInv
    <2>6. QED
      BY <2>1, <2>5 DEF FileInv
  <1>6. CASE WriteEntry
    <2>1. /\ phase = "entry" /\ phase' \in {"count", "gap"} /\ settled' = settled
          /\ traced' = IF ledger' = ledger THEN traced ELSE traced \cup {Current.sha}
          /\ LedgerInv /\ Begun /\ Len(settled) >= 1
      BY <1>1, <1>6 DEF WriteEntry, Traced, NotOurs, Begun, Uncounted
    <2>2. \/ phase' = "count" /\ ledger' = ledger \o <<Newline, EntryLine(Current)>> /\ wrote' = wrote \cup {Current.sha}
          \/ phase' = "gap" /\ ledger' \in {ledger, ledger \o <<Newline, Fragment>>} /\ wrote' = wrote
      BY <1>6, TornIs DEF WriteEntry, WriteOk, WriteFails
    <2>3. CASE phase' = "count" /\ ledger' = ledger \o <<Newline, EntryLine(Current)>> /\ wrote' = wrote \cup {Current.sha}
      <3>1. /\ EntryLine(Current) \in Pieces /\ EntryLine(Current).kind = "entry" /\ EntryLine(Current).entry = Current
            /\ Current = settled[Len(settled)] /\ \A n \in 1..Len(ledger) : ~Entered(ledger, n, Current.sha)
        BY <2>1, NoneYet, LinesDiffer
      <3>2. Entries = Len(settled) - 1 /\ Entries' = Len(settled)
        BY <2>1, <2>3 DEF Entries
      <3>3. Line(EntryLine(Current), Len(ledger) + 2, settled, Entries')
        BY <1>1, <2>1, <3>1, <3>2 DEF Line
      <3>4. traced' = traced \/ traced' = traced \cup {Current.sha}
        BY <2>1
      <3>a. Adds(EntryLine(Current))
        BY <1>1, <2>1, <2>3, <3>1, <3>2, <3>3 DEF Adds
      <3>5. /\ AllTraced(ledger', traced) /\ AllTraced(ledger', traced \cup {Current.sha})
            /\ AllWritten(ledger', wrote \cup {Current.sha})
            /\ AllWritten(ledger', wrote') /\ AllTraced(ledger', traced') => LedgerInv'
        BY <3>a, <1>1, <2>1, <2>3, <3>1, <3>2, <3>3, LedgerLonger
      <3>6. QED
        BY <2>3, <3>4, <3>5 DEF FileInv
    <2>4. CASE phase' = "gap" /\ ledger' = ledger /\ wrote' = wrote
      <3>1. Entries = Len(settled) - 1 /\ Entries' = Len(settled) - 1
        BY <2>1, <2>4 DEF Entries
      <3>2. LedgerInv'
        BY <1>1, <2>1, <2>4, <3>1, LedgerKept
      <3>3. QED
        BY <2>4, <3>2 DEF FileInv
    <2>5. CASE phase' = "gap" /\ ledger' = ledger \o <<Newline, Fragment>> /\ wrote' = wrote
      <3>1. Fragment \in Pieces /\ Line(Fragment, Len(ledger) + 2, settled, Entries') /\ Fragment.kind = "fragment"
        BY LinesDiffer DEF Pieces, Line
      <3>2. Entries = Len(settled) - 1 /\ Entries' = Len(settled) - 1
        BY <2>1, <2>5 DEF Entries
      <3>3. traced' = traced \/ traced' = traced \cup {Current.sha}
        BY <2>1
      <3>a. Adds(Fragment)
        BY <1>1, <2>1, <2>5, <3>1, <3>2 DEF Adds
      <3>4. /\ AllTraced(ledger', traced) /\ AllTraced(ledger', traced \cup {Current.sha})
            /\ AllWritten(ledger', wrote)
            /\ AllWritten(ledger', wrote') /\ AllTraced(ledger', traced') => LedgerInv'
        BY <3>a, <1>1, <2>1, <2>5, <3>1, <3>2, LedgerLonger
      <3>5. QED
        BY <2>5, <3>3, <3>4 DEF FileInv
    <2>6. QED
      BY <2>2, <2>3, <2>4, <2>5
  <1>7. CASE WriteGap
    <2>1. /\ phase = "gap" /\ phase' = "count" /\ settled' = settled /\ wrote' = wrote
          /\ traced' = IF ledger' = ledger THEN traced ELSE traced \cup {Current.sha}
          /\ LedgerInv /\ Begun /\ Len(settled) >= 1
      BY <1>1, <1>7 DEF WriteGap, Traced, NotOurs, Begun, Uncounted
    <2>2. \/ ledger' = ledger \o <<Newline, GapLine(Current.sha)>>
          \/ ledger' = ledger
          \/ ledger' = ledger \o <<Newline, Fragment>>
      BY <1>7, TornIs DEF WriteGap, WriteOk, WriteFails
    <2>3. Entries = Len(settled) - 1 /\ Entries' = Len(settled)
      BY <2>1 DEF Entries
    <2>4. CASE ledger' = ledger
      <3>1. LedgerInv'
        BY <1>1, <2>1, <2>3, <2>4, LedgerKept
      <3>2. QED
        BY <2>1, <3>1 DEF FileInv
    <2>5. ASSUME NEW p \in {Fragment, GapLine(Current.sha)}, ledger' = ledger \o <<Newline, p>> PROVE LedgerInv'
      <3>1. p \in Pieces /\ p.kind \in {"gap", "fragment"} /\ p.kind # "entry"
        BY <2>1, NoneYet, LinesDiffer DEF Pieces
      <3>2. Line(p, Len(ledger) + 2, settled, Entries')
        BY <1>1, <2>1, NoneYet DEF Line
      <3>3. traced' = traced \/ traced' = traced \cup {Current.sha}
        BY <2>1
      <3>a. Adds(p)
        BY <1>1, <2>1, <2>3, <2>5, <3>1, <3>2 DEF Adds
      <3>4. /\ AllTraced(ledger', traced) /\ AllTraced(ledger', traced \cup {Current.sha})
            /\ AllWritten(ledger', wrote)
            /\ AllWritten(ledger', wrote') /\ AllTraced(ledger', traced') => LedgerInv'
        BY <3>a, <1>1, <2>1, <2>3, <2>5, <3>1, <3>2, LedgerLonger
      <3>5. QED
        BY <2>1, <3>3, <3>4
    <2>6. QED
      BY <2>1, <2>2, <2>4, <2>5 DEF FileInv
  <1>8. CASE Count
    <2>1. phase = "count" /\ phase' = "next" /\ UNCHANGED <<settled, ledger, wrote, traced>>
      BY <1>8 DEF Count
    <2>2. LedgerInv /\ Begun /\ Entries = Len(settled) /\ Entries' = Len(settled)
      BY <1>1, <2>1 DEF NotOurs, Begun, Entries
    <2>3. LedgerInv'
      BY <1>1, <2>1, <2>2, LedgerKept
    <2>4. QED
      BY <2>1, <2>3 DEF FileInv
  <1>9. CASE WriteReport \/ BeginRecord \/ FillRecord
    <2>1. /\ phase \in {"next", "record", "filling"} /\ phase' \in {"record", "filling", "done", "failed"}
          /\ UNCHANGED <<settled, ledger, wrote, traced>>
      BY <1>9 DEF WriteReport, BeginRecord, FillRecord
    <2>2. LedgerInv /\ Begun /\ Entries = Len(settled) /\ Entries' = Len(settled)
      BY <1>1, <2>1 DEF NotOurs, Begun, Entries
    <2>3. LedgerInv'
      BY <1>1, <2>1, <2>2, LedgerKept
    <2>4. QED
      BY <2>1, <2>3 DEF FileInv
  <1>10. CASE Dies
    <2>1. /\ phase \notin Ended /\ phase' = "dead" /\ UNCHANGED <<settled, wrote>>
          /\ \/ UNCHANGED <<ledger, traced>>
             \/ /\ phase \in {"header", "entry", "gap"}
                /\ ledger' = ledger \o <<Newline, Fragment>>
                /\ traced' = traced \/ traced' = traced \cup {Current.sha}
      BY <1>10, TornIs DEF Dies
    <2>2. CASE NotOurs
      <3>1. phase = "open"
        BY <2>1, <2>2 DEF NotOurs, Ended
      <3>2. QED
        BY <2>1, <2>2, <3>1 DEF NotOurs, FileInv
    <2>3. CASE LedgerInv
      <3>1. Entries <= Entries' /\ Entries' = Len(settled)
        BY <1>1, <2>1 DEF Entries
      <3>2. Begun' => Begun
        BY <2>1 DEF Begun
      <3>3. CASE UNCHANGED <<ledger, traced>>
        BY <1>1, <2>1, <2>3, <3>1, <3>2, <3>3, LedgerKept DEF FileInv
      <3>4. CASE ledger' = ledger \o <<Newline, Fragment>> /\ (traced' = traced \/ traced' = traced \cup {Current.sha})
        <4>1. Fragment \in Pieces /\ Line(Fragment, Len(ledger) + 2, settled, Entries') /\ Fragment.kind = "fragment"
          BY LinesDiffer DEF Pieces, Line
        <4>a. Adds(Fragment)
          BY <1>1, <2>1, <2>3, <3>1, <3>2, <3>4, <4>1 DEF Adds
        <4>2. /\ AllTraced(ledger', traced) /\ AllTraced(ledger', traced \cup {Current.sha})
              /\ AllWritten(ledger', wrote)
              /\ AllWritten(ledger', wrote') /\ AllTraced(ledger', traced') => LedgerInv'
          BY <4>a, <1>1, <2>1, <2>3, <3>1, <3>2, <3>4, <4>1, LedgerLonger
        <4>3. QED
          BY <2>1, <3>4, <4>2 DEF FileInv
      <3>5. QED
        BY <2>1, <3>3, <3>4
    <2>4. QED
      BY <1>1, <2>2, <2>3
  <1>11. QED
    BY <1>2, <1>3, <1>4, <1>5, <1>6, <1>7, <1>8, <1>9, <1>10 DEF Next, Turn

(* Whatever fails and whenever it dies: what the loop settled is right, what *)
(* it counts is the replay of it, and the file is whole lines, of its own    *)
(* header, entries and losses, each entry once (review-sweep.mjs runSweep,   *)
(* sweep-ledger.mjs openLedger).                                             *)
THEOREM NightInvariant == Spec => []IInv
  <1>1. IInv /\ [Next]_vars => IInv'
    <2>1. ASSUME IInv, Next PROVE IInv'
      BY <2>1, PhaseStep, SettledStep, CounterStep, FileStep DEF IInv
    <2>2. ASSUME IInv, UNCHANGED vars PROVE IInv'
      <3>1. UNCHANGED <<phase, settled, ledger, late, streak, aborted, record, faults, wrote, traced>>
        BY <2>2 DEF vars
      <3>2. PhaseInv' /\ SettledInv'
        BY <2>2, <3>1 DEF IInv, PhaseInv, SettledInv
      <3>3. CounterInv'
        BY <2>2, <3>1 DEF IInv, CounterInv, Seen
      <3>4. FileInv'
        BY <2>2, <3>1 DEF IInv, FileInv, NotOurs, LedgerInv, Entries, Begun
      <3>5. QED
        BY <3>2, <3>3, <3>4 DEF IInv
    <2>3. QED
      BY <2>1, <2>2
  <1>2. QED
    BY <1>1, InitHolds, PTL DEF Spec

-----------------------------------------------------------------------------
(* The n-th commit in what is recovered: as it settled, or given up for lost *)
(* and then never attempted.                                                 *)
LEMMA RowIs ==
  ASSUME IInv, LedgerInv, NEW n \in DOMAIN Enumerated
  PROVE  LET run == ReadLedger(ledger)
             sha == Enumerated[n].sha
         IN  /\ \A m \in DOMAIN run.entries : run.entries[m].sha = sha => n <= Len(settled) /\ run.entries[m] = settled[n]
             /\ At(run.entries, sha) # {} => n <= Len(settled) /\ LastAt(run.entries, sha) = settled[n]
             /\ sha \in run.gaps => n <= Len(settled)
             /\ sha \in wrote => At(run.entries, sha) # {}
  <1> DEFINE run == ReadLedger(ledger)
             sha == Enumerated[n].sha
  <1>1. Ruled(ledger, settled, Entries)
    BY DEF LedgerInv
  <1>2. /\ settled \in Seq(Outcomes) /\ Len(settled) \in Nat /\ Len(settled) <= Len(Enumerated)
        /\ Len(Enumerated) \in Nat /\ n \in 1..Len(Enumerated)
        /\ (phase \in Uncounted => settled # <<>>)
    BY EnumeratedIs DEF IInv, SettledInv, CounterInv
  <1>3. Entries <= Len(settled) /\ Entries \in Int
    BY <1>2 DEF Entries
  <1>4. \A k \in 1..Len(settled) : settled[k].sha = sha => k = n
    <2>1. \A k \in 1..Len(settled) : settled[k].sha = Enumerated[k].sha /\ k \in 1..Len(Enumerated)
      BY <1>2, RightIs DEF IInv, SettledInv
    <2>2. QED
      BY <1>2, <2>1, EnumeratedIs
  <1>5. /\ DOMAIN run.entries = {m \in 1..Len(ledger) : ledger[m].kind = "entry"}
        /\ \A m \in DOMAIN run.entries : run.entries[m] = ledger[m].entry /\ \E k \in 1..Entries : run.entries[m] = settled[k]
        /\ run.gaps = {ledger[m].sha : m \in {j \in 1..Len(ledger) : ledger[j].kind = "gap"}}
    BY <1>1, RuledLedger
  <1> HIDE DEF run, sha
  <1>6. \A m \in DOMAIN run.entries : run.entries[m].sha = sha => n <= Len(settled) /\ run.entries[m] = settled[n]
    <2>1. SUFFICES ASSUME NEW m \in DOMAIN run.entries, run.entries[m].sha = sha
                   PROVE  n <= Len(settled) /\ run.entries[m] = settled[n]
      OBVIOUS
    <2>2. PICK k \in 1..Entries : run.entries[m] = settled[k]
      BY <1>5
    <2>3. k \in 1..Len(settled) /\ settled[k].sha = sha
      BY <1>2, <1>3, <2>1, <2>2
    <2>4. QED
      BY <1>4, <2>2, <2>3
  <1>7. ASSUME At(run.entries, sha) # {} PROVE n <= Len(settled) /\ LastAt(run.entries, sha) = settled[n]
    <2>1. PICK m \in At(run.entries, sha) : m \in DOMAIN run.entries /\ run.entries[m].sha = sha
      BY <1>7 DEF At
    <2>2. \A j \in At(run.entries, sha) : j = m
      <3>1. SUFFICES ASSUME NEW j \in At(run.entries, sha) PROVE j = m
        OBVIOUS
      <3>2. j \in DOMAIN run.entries /\ run.entries[j].sha = sha
        BY DEF At
      <3>3. Entered(ledger, j, ledger[m].entry.sha) /\ ledger[m].kind = "entry" /\ j \in 1..Len(ledger) /\ m \in 1..Len(ledger)
        BY <1>5, <2>1, <3>2 DEF Entered
      <3>4. QED
        BY <3>3 DEF LedgerInv, OnceEach
    <2>3. At(run.entries, sha) = {m} /\ m \in Nat
      BY <1>5, <2>1, <2>2
    <2>4. Max({m}) = m
      BY <2>3 DEF Max
    <2>5. QED
      BY <1>6, <2>1, <2>3, <2>4 DEF LastAt
  <1>8. ASSUME sha \in run.gaps PROVE n <= Len(settled)
    <2>1. PICK m \in 1..Len(ledger) : ledger[m].kind = "gap" /\ ledger[m].sha = sha
      BY <1>5, <1>8
    <2>2. Line(ledger[m], m, settled, Entries)
      BY <1>1, <2>1, RuledIsRead
    <2>3. PICK k \in 1..Len(settled) : ledger[m] = GapLine(settled[k].sha)
      BY <2>1, <2>2, LinesDiffer DEF Line
    <2>4. settled[k].sha = sha
      BY <2>1, <2>3, LinesDiffer
    <2>5. QED
      BY <1>4, <2>3, <2>4
  <1>9. ASSUME sha \in wrote PROVE At(run.entries, sha) # {}
    <2>1. PICK m \in 1..Len(ledger) : Entered(ledger, m, sha)
      BY <1>9 DEF LedgerInv, AllWritten
    <2>2. m \in DOMAIN run.entries /\ run.entries[m].sha = sha
      BY <1>5, <2>1 DEF Entered
    <2>3. QED
      BY <2>2 DEF At
  <1>10. QED
    BY <1>6, <1>7, <1>8, <1>9 DEF run, sha

LEMMA MergedIs ==
  ASSUME IInv, LedgerInv, ReadLedger(ledger).headed
  PROVE  LET run == ReadLedger(ledger)
             merged == MergeManifest(run)
         IN  /\ run.envelope = Envelope
             /\ DOMAIN merged = 1..Len(Enumerated) /\ Len(merged) = Len(Enumerated)
             /\ \A n \in DOMAIN Enumerated :
                  LET sha == Enumerated[n].sha IN
                  \/ n <= Len(settled) /\ merged[n] = settled[n] /\ At(run.entries, sha) # {}
                  \/ /\ At(run.entries, sha) = {} /\ sha \notin wrote
                     /\ merged[n] = Absence(sha, IF sha \in run.gaps THEN "unrecorded" ELSE "unobserved")
  <1> DEFINE run == ReadLedger(ledger)
             merged == MergeManifest(run)
  <1>1. run.envelope = Envelope
    BY RuledLedger DEF LedgerInv
  <1>2. run.envelope.commits = Enumerated
    BY <1>1 DEF Envelope
  <1>3. merged = [n \in DOMAIN Enumerated |->
                    LET sha == Enumerated[n].sha IN
                    IF At(run.entries, sha) # {} THEN LastAt(run.entries, sha)
                    ELSE Absence(sha, IF sha \in run.gaps THEN "unrecorded" ELSE "unobserved")]
    BY <1>2 DEF MergeManifest
  <1>4. DOMAIN merged = 1..Len(Enumerated) /\ Len(merged) = Len(Enumerated)
    BY <1>3, EnumeratedIs
  <1>5. ASSUME NEW n \in DOMAIN Enumerated
        PROVE  LET sha == Enumerated[n].sha IN
               \/ n <= Len(settled) /\ merged[n] = settled[n] /\ At(run.entries, sha) # {}
               \/ /\ At(run.entries, sha) = {} /\ sha \notin wrote
                  /\ merged[n] = Absence(sha, IF sha \in run.gaps THEN "unrecorded" ELSE "unobserved")
    <2> DEFINE sha == Enumerated[n].sha
    <2>1. merged[n] = IF At(run.entries, sha) # {} THEN LastAt(run.entries, sha)
                      ELSE Absence(sha, IF sha \in run.gaps THEN "unrecorded" ELSE "unobserved")
      BY <1>3
    <2>2. /\ At(run.entries, sha) # {} => n <= Len(settled) /\ LastAt(run.entries, sha) = settled[n]
          /\ sha \in wrote => At(run.entries, sha) # {}
      BY RowIs
    <2> HIDE DEF run, merged, sha
    <2>3. QED
      BY <2>1, <2>2 DEF sha
  <1>6. QED
    BY <1>1, <1>4, <1>5

LEMMA AbsenceIs ==
  ASSUME NEW sha, NEW why
  PROVE  Absence(sha, why).sha = sha /\ Absence(sha, why).outcome = why /\ ~Absence(sha, why).attempted
  BY DEF Absence, EntryOf, Unanswered

(* What a recovery finds in a ledger of this run.                            *)
LEMMA RecoveryIs ==
  ASSUME IInv
  PROVE  /\ Recovery.kind = "finished" => record = "complete"
         /\ Recovery.kind = "recovered" => ReadLedger(ledger).headed /\ Recovery = RecoveredRecord(ReadLedger(ledger))
         /\ Ours => LedgerInv
         /\ settled # <<>> => LedgerInv /\ ledger # Absent /\ ReadLedger(ledger).headed
  <1>1. Recovery.kind = "finished" => record = "complete"
    BY DEF Recovery, FinishedRun, RecoveredRecord
  <1>2. Recovery.kind = "recovered" => ReadLedger(ledger).headed /\ Recovery = RecoveredRecord(ReadLedger(ledger))
    BY DEF Recovery
  <1>3. Ours => LedgerInv
    BY DEF IInv, FileInv, NotOurs, Ours
  <1>4. ASSUME settled # <<>> PROVE LedgerInv /\ ledger # Absent /\ ReadLedger(ledger).headed
    <2>1. LedgerInv
      BY <1>4 DEF IInv, FileInv, NotOurs
    <2>2. Len(ledger) >= 2 /\ ledger[2] = HeaderLine(Envelope)
      BY <1>4, <2>1 DEF LedgerInv, Begun
    <2>3. ledger # Absent
      <3>1. Absent[2] = Fragment
        BY DEF Absent
      <3>2. QED
        BY <2>2, <3>1, LinesDiffer
    <2>4. ReadLedger(ledger).headed
      BY <2>1, <2>2, RuledLedger DEF LedgerInv
    <2>5. QED
      BY <2>1, <2>3, <2>4
  <1>5. QED
    BY <1>1, <1>2, <1>3, <1>4

(* What a night is recovered to, after whatever failed or died, is what came *)
(* of it, of every commit that was enumerated (recover-sweep.mjs).           *)
THEOREM RecoveryIsAlwaysTrue == Spec => []RecoveryIsTrue
  <1>1. ASSUME IInv PROVE RecoveryIsTrue
    <2> DEFINE r == Recovery
    <2>1. /\ PhaseInv /\ settled \in Seq(Outcomes) /\ Len(settled) \in Nat
          /\ \A n \in 1..Len(settled) : settled[n].sha = Enumerated[n].sha /\ ~Missing(settled[n])
      BY <1>1, RightIs DEF IInv, SettledInv
    <2>2. Ours /\ r.kind = "finished" => phase = "done" /\ Len(settled) = Len(Enumerated)
      BY <1>1, <2>1, RecoveryIs DEF PhaseInv
    <2>3. ASSUME settled # <<>>, phase # "done" PROVE r.kind = "recovered"
      <3>1. ledger # Absent /\ ReadLedger(ledger).headed
        BY <1>1, <2>3, RecoveryIs
      <3>2. ~FinishedRun
        BY <2>1, <2>3 DEF PhaseInv, FinishedRun
      <3>3. r = RecoveredRecord(ReadLedger(ledger))
        BY <3>1, <3>2 DEF Recovery
      <3>4. QED
        BY <3>3 DEF RecoveredRecord
    <2>4. ASSUME Ours, r.kind = "recovered"
          PROVE  /\ DOMAIN r.entries = DOMAIN Enumerated
                 /\ \A n \in DOMAIN Enumerated :
                      LET row == r.entries[n] IN
                      /\ row.sha = Enumerated[n].sha
                      /\ ~Missing(row) => n <= Len(settled) /\ row = settled[n]
                      /\ row.outcome = "unrecorded" => n <= Len(settled)
                      /\ row.sha \in wrote => ~Missing(row)
      <3> DEFINE run == ReadLedger(ledger)
      <3>1. LedgerInv /\ run.headed /\ r.entries = MergeManifest(run)
        BY <1>1, <2>4, RecoveryIs DEF RecoveredRecord
      <3> HIDE DEF r
      <3>2. DOMAIN r.entries = DOMAIN Enumerated
        BY <1>1, <3>1, MergedIs, EnumeratedIs
      <3>3. ASSUME NEW n \in DOMAIN Enumerated
            PROVE  LET row == r.entries[n] IN
                   /\ row.sha = Enumerated[n].sha
                   /\ ~Missing(row) => n <= Len(settled) /\ row = settled[n]
                   /\ row.outcome = "unrecorded" => n <= Len(settled)
                   /\ row.sha \in wrote => ~Missing(row)
        <4> DEFINE row == r.entries[n]
                   sha == Enumerated[n].sha
        <4>1. n \in Nat /\ 1 <= n
          BY EnumeratedIs
        <4>2. \/ n <= Len(settled) /\ row = settled[n]
              \/ sha \notin wrote /\ row = Absence(sha, IF sha \in run.gaps THEN "unrecorded" ELSE "unobserved")
          BY <1>1, <3>1, MergedIs
        <4>3. sha \in run.gaps => n <= Len(settled)
          BY <1>1, <3>1, RowIs
        <4> HIDE DEF row, sha, run
        <4>4. CASE n <= Len(settled) /\ row = settled[n]
          <5>1. n \in 1..Len(settled)
            BY <2>1, <4>1, <4>4
          <5>2. row.sha = sha /\ ~Missing(row)
            BY <2>1, <4>4, <5>1 DEF sha
          <5>3. QED
            BY <4>4, <5>2 DEF row, sha, Missing
        <4>5. CASE sha \notin wrote /\ row = Absence(sha, IF sha \in run.gaps THEN "unrecorded" ELSE "unobserved")
          <5>1. row.sha = sha /\ row.outcome = IF sha \in run.gaps THEN "unrecorded" ELSE "unobserved"
            BY <4>5, AbsenceIs
          <5>2. QED
            BY <4>3, <4>5, <5>1 DEF row, sha, Missing
        <4>6. QED
          BY <4>2, <4>4, <4>5
      <3>4. QED
        BY <3>2, <3>3
    <2>5. QED
      BY <2>2, <2>3, <2>4 DEF RecoveryIsTrue
  <1>2. QED
    BY <1>1, NightInvariant, PTL

(* The health of a night as it is replayed is what its loop counted, at every *)
(* step and but for the one commit a sweep killed before Count never counts;  *)
(* and what is recovered with no warning replays as the night does            *)
(* (sweep-health.mjs replayStreak).                                           *)
THEOREM HealthIsAlwaysTrue == Spec => []HealthIsTrue
  <1>1. ASSUME IInv PROVE HealthIsTrue
    <2> DEFINE r == Recovery
    <2>1. /\ settled \in Seq(Outcomes) /\ Len(settled) \in Nat /\ Len(settled) <= Len(Enumerated) /\ Len(Enumerated) \in Nat
          /\ aborted \in BOOLEAN
          /\ \A n \in 1..Len(settled) : settled[n].attempted => Enumerated[n].eligible
      BY <1>1, RightIs, EnumeratedIs DEF IInv, SettledInv
    <2>2. /\ phase \notin {"entry", "gap", "count", "dead"} => CountedTo(Len(settled))
          /\ phase \in {"entry", "gap", "count"} => CountedTo(Len(settled) - 1)
          /\ phase = "dead" => CountedTo(Len(settled)) \/ CountedTo(Len(settled) - 1)
      <3>1. ASSUME NEW n \in {Len(settled) - 1, Len(settled)}, n >= 0, CounterAt(settled, n, streak, aborted) PROVE CountedTo(n)
        <4>1. n \in 0..Len(settled)
          BY <2>1, <3>1
        <4>2. aborted <=> Replay(settled)[n].longest >= AbortAfter
          BY <3>1 DEF CounterAt
        <4>3. (Replay(settled)[n].longest >= AbortAfter) = aborted
          BY <2>1, <4>2
        <4>4. QED
          BY <3>1, <4>1, <4>3 DEF CounterAt, CountedTo
      <3>2. CASE phase = "dead"
        BY <1>1, <3>1, <3>2 DEF IInv, CounterInv
      <3>3. CASE phase # "dead"
        <4>1. CounterAt(settled, Seen, streak, aborted) /\ (phase \in Uncounted => settled # <<>>)
          BY <1>1, <3>3 DEF IInv, CounterInv
        <4>2. Seen \in {Len(settled) - 1, Len(settled)} /\ Seen >= 0
          BY <2>1, <4>1 DEF Seen
        <4>3. CountedTo(Seen)
          BY <3>1, <4>1, <4>2
        <4>4. QED
          BY <3>3, <4>3 DEF Seen, Uncounted
      <3>4. QED
        BY <3>2, <3>3
    <2>3. ASSUME Ours, r.kind = "recovered", r.timelineComplete PROVE ReplayStreak(r.entries) = ReplayStreak(settled)
      <3> DEFINE run == ReadLedger(ledger)
                 b == MergeManifest(run)
      <3>1. LedgerInv /\ run.headed /\ r.entries = b /\ TimelineComplete(run, b)
        BY <1>1, <2>3, RecoveryIs DEF RecoveredRecord
      <3>2. run.envelope.commits = Enumerated /\ DOMAIN b = 1..Len(Enumerated) /\ Len(b) = Len(Enumerated)
        BY <1>1, <3>1, MergedIs DEF Envelope
      <3>3. ASSUME NEW n \in 1..Len(Enumerated)
            PROVE  \/ n \in 1..Len(settled) /\ b[n] = settled[n]
                   \/ ~b[n].attempted /\ (n \in 1..Len(settled) => ~settled[n].attempted)
        <4> DEFINE sha == Enumerated[n].sha
        <4>1. n \in DOMAIN Enumerated
          BY EnumeratedIs
        <4>2. \/ n <= Len(settled) /\ b[n] = settled[n]
              \/ b[n] = Absence(sha, IF sha \in run.gaps THEN "unrecorded" ELSE "unobserved")
          BY <1>1, <3>1, <4>1, MergedIs
        <4> HIDE DEF b, sha, run
        <4>3. CASE n <= Len(settled) /\ b[n] = settled[n]
          <5>1. n \in Nat /\ 1 <= n
            BY <2>1
          <5>2. n \in 1..Len(settled)
            BY <2>1, <4>3, <5>1
          <5>3. QED
            BY <4>3, <5>2
        <4>4. CASE b[n] = Absence(sha, IF sha \in run.gaps THEN "unrecorded" ELSE "unobserved")
          <5>1. ~b[n].attempted /\ Missing(b[n])
            BY <4>4, AbsenceIs DEF Missing
          <5>2. ~Enumerated[n].eligible
            BY <3>1, <3>2, <5>1 DEF TimelineComplete
          <5>3. QED
            BY <2>1, <5>1, <5>2
        <4>5. QED
          BY <4>2, <4>3, <4>4
      <3>4. \A n \in 1..Len(settled) : b[n] = settled[n] \/ (~b[n].attempted /\ ~settled[n].attempted)
        BY <2>1, <3>3
      <3>5. \A n \in (Len(settled) + 1)..Len(b) : ~b[n].attempted
        BY <2>1, <3>2, <3>3
      <3> HIDE DEF b
      <3>6. Len(settled) \in 0..Len(settled) /\ Len(b) \in Nat /\ Len(settled) <= Len(b)
        BY <2>1, <3>2
      <3>7. Replay(b)[Len(settled)] = Replay(settled)[Len(settled)]
        BY <2>1, <3>4, <3>6, ReplaysAgree
      <3>8. Replay(b)[Len(b)] = Replay(b)[Len(settled)]
        BY <2>1, <3>5, <3>6, ReplayPasses
      <3>9. QED
        BY <3>1, <3>7, <3>8 DEF ReplayStreak
    <2>4. QED
      BY <2>2, <2>3 DEF HealthIsTrue
  <1>2. QED
    BY <1>1, NightInvariant, PTL

(* What is settled as reviewed was a finished look of the model asked for.   *)
LEMMA ReviewedIs ==
  ASSUME NEW s, NEW n, NEW over, Right(s, n, over)
  PROVE  LET e == s[n] IN
         e.outcome \in REVIEWED => e.findings # "unread" /\ ~e.cut /\ e.model \in {Requested, e.declared}
  <1>1. CASE Looked(s[n], Enumerated[n])
    <2>1. PICK reply \in Replies : s[n] = EntryOf(Classify(reply), Enumerated[n].sha, TRUE)
      BY <1>1 DEF Looked
    <2> DEFINE f == Classify(reply)
    <2>2. f.outcome \in REVIEWED => f.findings # "unread" /\ ~f.cut /\ f.model \in {Requested, f.declared}
      BY ClassifyIs
    <2> HIDE DEF f
    <2>3. /\ s[n].outcome = f.outcome /\ s[n].findings = f.findings /\ s[n].cut = f.cut
          /\ s[n].model = f.model /\ s[n].declared = f.declared
      BY <2>1 DEF EntryOf, f
    <2>4. QED
      BY <2>2, <2>3
  <1>2. CASE \E why \in Skips : Passed(s, n, why, over)
    BY <1>2 DEF Passed, EntryOf, Unanswered, Skips, REVIEWED
  <1>3. QED
    BY <1>1, <1>2 DEF Right

(* A night is told as it went: each commit once, reviewed only by a finished *)
(* look of the model asked for, left out only for the reason that is given   *)
(* (review-sweep.mjs runSweep, sweep-outcome.mjs classify).                  *)
THEOREM NightIsAlwaysTrue == Spec => []NightIsTrue
  <1>1. ASSUME IInv PROVE NightIsTrue
    <2>1. /\ settled \in Seq(Outcomes) /\ Len(settled) \in Nat /\ Len(settled) <= Len(Enumerated)
          /\ Len(Enumerated) \in Nat /\ DOMAIN settled = 1..Len(settled) /\ DOMAIN Enumerated = 1..Len(Enumerated)
          /\ late \in BOOLEAN
      BY <1>1, EnumeratedIs DEF IInv, SettledInv
    <2>2. \A n \in 1..Len(settled) : Right(settled, n, late) /\ settled[n].sha = Enumerated[n].sha
      BY <1>1, RightIs DEF IInv, SettledInv
    <2>3. phase = "done" => [n \in DOMAIN settled |-> settled[n].sha] = [n \in DOMAIN Enumerated |-> Enumerated[n].sha]
      <3>1. phase = "done" => Len(settled) = Len(Enumerated)
        BY <1>1 DEF IInv, PhaseInv
      <3>2. QED
        BY <2>1, <2>2, <3>1
    <2>4. ASSUME NEW n \in DOMAIN settled
          PROVE  LET e == settled[n]
                 IN  /\ Explained(e)
                     /\ e.outcome \in REVIEWED => e.findings # "unread" /\ ~e.cut /\ e.model \in {Requested, e.declared}
                     /\ e.outcome = "skipped-deadline" => late
                     /\ e.outcome = "skipped-abort" => \E m \in 1..(n - 1) : ServerGone(settled, m, n - 1)
                     /\ (e.outcome = "skipped-no-code") = ~Enumerated[n].eligible
      <3> DEFINE e == settled[n]
      <3>1. Right(settled, n, late) /\ n \in 1..Len(Enumerated)
        BY <2>1, <2>2
      <3>2. Enumerated[n].eligible \in BOOLEAN
        BY <3>1, EnumeratedIs
      <3>3. CASE Looked(settled[n], Enumerated[n])
        <4>1. Enumerated[n].eligible
          BY <3>3 DEF Looked
        <4>2. PICK reply \in Replies : settled[n] = EntryOf(Classify(reply), Enumerated[n].sha, TRUE)
          BY <3>3 DEF Looked
        <4> DEFINE f == Classify(reply)
        <4>3. /\ f.outcome \in REVIEWED \cup (WHY \ (Skips \cup {"unobserved", "unrecorded"}))
              /\ f.outcome \in REVIEWED => f.findings # "unread" /\ ~f.cut /\ f.model \in {Requested, f.declared}
          BY ClassifyIs
        <4> HIDE DEF f
        <4>4. e.outcome = f.outcome /\ e.findings = f.findings /\ e.cut = f.cut /\ e.model = f.model /\ e.declared = f.declared
          BY <4>2 DEF EntryOf, f
        <4>5. e.outcome \notin Skips
          BY <4>3, <4>4 DEF Skips, REVIEWED
        <4>6. Explained(e)
          BY <4>3, <4>4 DEF Explained, Section
        <4>7. QED
          BY <4>1, <4>3, <4>4, <4>5, <4>6 DEF Skips
      <3>4. CASE \E why \in Skips : Passed(settled, n, why, late)
        <4>1. PICK why \in Skips : Passed(settled, n, why, late)
          BY <3>4
        <4>2. e.outcome = why
          BY <4>1 DEF Passed, EntryOf, Unanswered
        <4>3. Explained(e) /\ e.outcome \notin REVIEWED
          BY <4>1, <4>2 DEF Explained, Section, Skips, WHY, REVIEWED
        <4>4. /\ why = "skipped-no-code" <=> ~Enumerated[n].eligible
              /\ why = "skipped-deadline" => late
              /\ why = "skipped-abort" => \E m \in 1..(n - 1) : ServerGone(settled, m, n - 1)
          BY <4>1 DEF Passed
        <4> HIDE DEF e
        <4>5. QED
          BY <3>2, <4>2, <4>3, <4>4 DEF e
      <3>5. QED
        BY <3>1, <3>3, <3>4 DEF Right
    <2>5. QED
      BY <2>3, <2>4 DEF NightIsTrue
  <1>2. QED
    BY <1>1, NightInvariant, PTL

-----------------------------------------------------------------------------
(* The model that a ledger was answered by: of every answer, and one that    *)
(* was asked for if it alone was seen.                                       *)
LEMMA ObservedIs ==
  ASSUME NEW entries, IsFiniteSet(DOMAIN entries), ObservedModel(entries) # Unknown
  PROVE  /\ \E e \in Range(entries) : e.answered /\ e.outcome \in REVIEWED
         /\ \A e \in Range(entries) : e.answered => e.model = ObservedModel(entries) /\ e.reported /\ e.model # NoModel
  <1> DEFINE answered == {e \in Range(entries) : e.answered}
             answerers == {e.model : e \in answered}
  <1>1. /\ \E e \in answered : e.outcome \in REVIEWED
        /\ \A e \in answered : e.reported /\ e.model # NoModel
        /\ Cardinality(answerers) = 1
        /\ ObservedModel(entries) = CHOOSE m \in answerers : TRUE
    BY DEF ObservedModel
  <1>2. \A e \in answered : e.model \in answerers
    OBVIOUS
  <1>3. \E m : answerers = {m}
    <2> DEFINE D == {n \in DOMAIN entries : entries[n].answered}
               g == [n \in D |-> entries[n].model]
    <2>1. IsFiniteSet(D)
      <3>1. D \subseteq DOMAIN entries
        OBVIOUS
      <3>2. QED
        BY <3>1, FS_Subset
    <2>2. answerers = {entries[n].model : n \in D}
      BY DEF Range
    <2> HIDE DEF D, answerers
    <2>3. g \in Surjection(D, answerers)
      BY <2>2 DEF Surjection
    <2>4. IsFiniteSet(answerers)
      BY <2>1, <2>3, FS_Surjection
    <2>5. QED
      BY <1>1, <2>4, FS_Singleton DEF answerers
  <1> HIDE DEF answerers
  <1>4. \A e \in answered : e.model = ObservedModel(entries)
    BY <1>1, <1>2, <1>3
  <1>5. QED
    BY <1>1, <1>4

(* What both nights reviewed, and to the same effect, is reproduced.         *)
LEMMA ReproducedIs ==
  ASSUME NEW a, NEW b, NEW sha, Reproduced(a, b, sha)
  PROVE  OutcomeIn(a, sha) \in REVIEWED /\ OutcomeIn(b, sha) = OutcomeIn(a, sha)
  <1> DEFINE X == OutcomeIn(a, sha)
             Y == OutcomeIn(b, sha)
             reviewing == {l \in {"a", "b"} : (IF l = "a" THEN X ELSE Y) \in REVIEWED}
             finding == {l \in reviewing : (IF l = "a" THEN X ELSE Y) = "findings"}
  <1>1. reviewing = {l \in {"a", "b"} : OutcomeIn(IF l = "a" THEN a ELSE b, sha) \in REVIEWED}
    <2>1. OutcomeIn(IF "a" = "a" THEN a ELSE b, sha) = X
      OBVIOUS
    <2>2. OutcomeIn(IF "b" = "a" THEN a ELSE b, sha) = Y
      BY Zenon
    <2>3. QED
      BY <2>1, <2>2
  <1>2. Cardinality(reviewing) >= 2 /\ Cardinality(finding) \in {0, Cardinality(reviewing)}
    BY <1>1 DEF Reproduced, Row
  <1>3. IsFiniteSet({"a", "b"}) /\ Cardinality({"a"}) = 1 /\ Cardinality({"b"}) = 1 /\ Cardinality({"a", "b"}) = 2
    <2>1. IsFiniteSet({"a"}) /\ Cardinality({"a"}) = 1 /\ Cardinality({"b"}) = 1
      BY FS_Singleton
    <2>2. {"a", "b"} = {"a"} \cup {"b"} /\ "b" \notin {"a"}
      OBVIOUS
    <2>3. QED
      BY <2>1, <2>2, FS_AddElement
  <1>4. IsFiniteSet(reviewing) /\ IsFiniteSet(finding) /\ Cardinality({}) = 0
    <2>1. reviewing \subseteq {"a", "b"} /\ finding \subseteq {"a", "b"}
      OBVIOUS
    <2>2. QED
      BY <1>3, <2>1, FS_Subset, FS_EmptySet
  <1>5. X \in REVIEWED /\ Y \in REVIEWED
    <2>1. X \notin REVIEWED /\ Y \notin REVIEWED => reviewing = {}
      OBVIOUS
    <2>2. X \in REVIEWED /\ Y \notin REVIEWED => reviewing = {"a"}
      OBVIOUS
    <2>3. X \notin REVIEWED /\ Y \in REVIEWED => reviewing = {"b"}
      OBVIOUS
    <2> HIDE DEF reviewing, finding
    <2>4. QED
      BY <1>2, <1>3, <1>4, <2>1, <2>2, <2>3
  <1>6. reviewing = {"a", "b"}
    BY <1>5
  <1>7. Cardinality(finding) \in {0, 2}
    BY <1>2, <1>3, <1>6
  <1>8. X = "findings" <=> Y = "findings"
    <2>1. X = "findings" /\ Y # "findings" => finding = {"a"}
      BY <1>6
    <2>2. X # "findings" /\ Y = "findings" => finding = {"b"}
      BY <1>6
    <2> HIDE DEF reviewing, finding
    <2>3. QED
      BY <1>3, <1>7, <2>1, <2>2
  <1>9. QED
    BY <1>5, <1>8 DEF REVIEWED

(* Two nights are taken together only where one model answered both, as far  *)
(* as any answer left a trace, and reproduced is what both reviewed alike    *)
(* (sweep-reproduction.mjs groupRuns, reproductionOf).                       *)
THEOREM ReproductionIsAlwaysTrue == Spec => []ReproductionIsTrue
  <1>1. ASSUME IInv PROVE ReproductionIsTrue
    <2> DEFINE run == ReadLedger(ledger)
               other == ReadLedger(Reference)
               left == {e \in Range(settled) : e.sha \in traced /\ e.answered}
    <2>1. SUFFICES ASSUME Ours, Grouped(run, other)
                   PROVE  /\ \A e \in left : e.model = ObservedModel(run.entries) /\ e.reported
                          /\ Verified(run.entries) => \A e \in left : e.model = Requested
                          /\ \A n \in DOMAIN settled :
                               Reproduced(run, other, settled[n].sha) =>
                                 settled[n].outcome \in REVIEWED /\ settled[n].outcome = OutcomeIn(other, settled[n].sha)
      BY DEF ReproductionIsTrue
    <2>2. LedgerInv /\ Ruled(ledger, settled, Entries)
      BY <1>1, <2>1, RecoveryIs DEF LedgerInv
    <2>3. /\ settled \in Seq(Outcomes) /\ Len(settled) \in Nat /\ Len(settled) <= Len(Enumerated)
          /\ Len(Enumerated) \in Nat /\ DOMAIN settled = 1..Len(settled) /\ DOMAIN Enumerated = 1..Len(Enumerated)
          /\ Len(ledger) \in Nat
      BY <1>1, <2>2, EnumeratedIs DEF IInv, SettledInv, Ruled
    <2>4. \A n \in 1..Len(settled) : Right(settled, n, late) /\ settled[n].sha = Enumerated[n].sha /\ n \in DOMAIN Enumerated
      BY <1>1, <2>3, RightIs DEF IInv, SettledInv
    <2>5. /\ DOMAIN run.entries = {n \in 1..Len(ledger) : ledger[n].kind = "entry"}
          /\ \A n \in DOMAIN run.entries : run.entries[n] = ledger[n].entry /\ \E k \in 1..Entries : run.entries[n] = settled[k]
          /\ run.gaps = {ledger[n].sha : n \in {m \in 1..Len(ledger) : ledger[m].kind = "gap"}}
          /\ \A n \in 1..Len(ledger) : ledger[n] = Fragment => n \in run.discarded
      BY <2>2, RuledLedger
    <2>6. run.gaps = {} /\ run.discarded = {} /\ ObservedModel(run.entries) # Unknown
      BY <2>1 DEF Grouped, Groupable, Intact
    <2>7. IsFiniteSet(DOMAIN run.entries)
      <3>1. IsFiniteSet(1..Len(ledger))
        BY <2>3, FS_Interval
      <3>2. DOMAIN run.entries \subseteq 1..Len(ledger)
        BY <2>5
      <3>3. QED
        BY <3>1, <3>2, FS_Subset
    <2>8. /\ \E e \in Range(run.entries) : e.answered /\ e.outcome \in REVIEWED
          /\ \A e \in Range(run.entries) : e.answered => e.model = ObservedModel(run.entries) /\ e.reported /\ e.model # NoModel
      BY <2>6, <2>7, ObservedIs
    <2>9. ASSUME NEW e \in left PROVE e \in Range(run.entries) /\ e.answered
      <3>1. PICK n \in 1..Len(settled) : e = settled[n]
        BY <2>3 DEF Range
      <3>2. e.sha \in traced /\ e.answered /\ e.sha = Enumerated[n].sha
        BY <2>4, <3>1
      <3>3. PICK m \in 1..Len(ledger) : ledger[m].kind \in {"fragment", "gap"} \/ Entered(ledger, m, e.sha)
        BY <2>2, <3>2 DEF LedgerInv, AllTraced
      <3>4. ledger[m].kind # "gap"
        <4>1. ledger[m].kind = "gap" => m \in {j \in 1..Len(ledger) : ledger[j].kind = "gap"}
          OBVIOUS
        <4> HIDE DEF run
        <4>2. ledger[m].kind = "gap" => ledger[m].sha \in run.gaps
          BY <2>5, <4>1
        <4>3. QED
          BY <2>6, <4>2
      <3>5. ledger[m].kind # "fragment"
        <4>1. SUFFICES ASSUME ledger[m].kind = "fragment" PROVE FALSE
          OBVIOUS
        <4>2. Line(ledger[m], m, settled, Entries)
          BY <2>2, <4>1, RuledIsRead
        <4>3. ledger[m] = Fragment
          BY <4>1, <4>2, LinesDiffer DEF Line
        <4>4. QED
          BY <2>5, <2>6, <4>3
      <3>6. ledger[m].kind = "entry" /\ ledger[m].entry.sha = e.sha
        BY <3>3, <3>4, <3>5 DEF Entered
      <3>7. m \in DOMAIN run.entries /\ run.entries[m].sha = Enumerated[n].sha
        BY <2>5, <3>2, <3>6
      <3>8. run.entries[m] = settled[n]
        BY <1>1, <2>2, <2>4, <3>7, RowIs
      <3>9. QED
        BY <3>1, <3>2, <3>7, <3>8 DEF Range
    <2>10. \A e \in left : e.model = ObservedModel(run.entries) /\ e.reported
      BY <2>8, <2>9
    <2>11. ASSUME Verified(run.entries) PROVE \A e \in left : e.model = Requested
      <3>1. PICK e \in Range(run.entries) : e.answered /\ e.outcome \in REVIEWED
        BY <2>8
      <3>2. e.model = ObservedModel(run.entries) /\ e.model # NoModel /\ ~DeclaredMatch(e)
        BY <2>8, <2>11, <3>1 DEF Verified
      <3>3. PICK m \in DOMAIN run.entries : e = run.entries[m]
        BY <3>1 DEF Range
      <3>4. PICK k \in 1..Len(settled) : e = settled[k]
        <4>1. PICK k \in 1..Entries : e = settled[k]
          BY <2>5, <3>3
        <4>2. Entries <= Len(settled) /\ Entries \in Int
          BY <2>3 DEF Entries
        <4>3. k \in 1..Len(settled)
          BY <2>3, <4>2
        <4>4. QED
          BY <4>1, <4>3
      <3>5. e.model \in {Requested, e.declared}
        BY <1>1, <3>1, <3>4, ReviewedIs, <2>4
      <3>6. e.model = Requested
        BY <3>2, <3>5 DEF DeclaredMatch
      <3>7. QED
        BY <2>10, <3>2, <3>6
    <2>12. ASSUME NEW n \in DOMAIN settled, Reproduced(run, other, settled[n].sha)
           PROVE  settled[n].outcome \in REVIEWED /\ settled[n].outcome = OutcomeIn(other, settled[n].sha)
      <3> DEFINE sha == settled[n].sha
      <3>1. OutcomeIn(run, sha) \in REVIEWED /\ OutcomeIn(other, sha) = OutcomeIn(run, sha)
        BY <2>12, ReproducedIs
      <3>2. n \in DOMAIN Enumerated /\ sha = Enumerated[n].sha
        BY <2>3, <2>4
      <3>3. At(run.entries, sha) # {} => LastAt(run.entries, sha) = settled[n]
        BY <1>1, <2>2, <3>2, RowIs
      <3> HIDE DEF run, other, sha
      <3>4. At(run.entries, sha) # {}
        BY <3>1 DEF OutcomeIn, REVIEWED
      <3>5. OutcomeIn(run, sha) = settled[n].outcome
        BY <3>3, <3>4 DEF OutcomeIn
      <3>6. QED
        BY <3>1, <3>5 DEF sha
    <2>13. QED
      BY <2>10, <2>11, <2>12
  <1>2. QED
    BY <1>1, NightInvariant, PTL
=============================================================================
