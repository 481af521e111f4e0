--------------------------- MODULE DurableJobProofs ---------------------------
(***************************************************************************)
(* The safety of the two jobs that live in files several server processes     *)
(* share: the Crucible build of IdeJobs and the long-run job of LongRun.       *)
(*                                                                           *)
(* A build. For every number of instances, lease, beat and bound: while its    *)
(* creator heartbeats in time nobody else runs it, and followers agree on its  *)
(* outcome. The inductive invariant measures leases against the creator's      *)
(* next record: a follower without news has lease left for longer than that    *)
(* record can take, the journal's last record is no older than the gap, and    *)
(* the end of a build is always news to those who follow it.                   *)
(*                                                                           *)
(* A long-run job. For every plan, tranche, account and number of processes:   *)
(* the invariants LongRunJob checks. What the inductive invariant adds is what *)
(* a driver knows while a call is out: its process is up, nobody else drives   *)
(* (unless a deploy overlapped), its unit is not complete, and the fuse had    *)
(* something left when the unit began.                                         *)
(***************************************************************************)
EXTENDS IdeJobs, LongRun, WellFoundedInduction, TLAPS

-----------------------------------------------------------------------------
(* The build.                                                                *)

(* The instance neither runs the build nor is about to. *)
Quiet(i) == i.runner = "none" /\ i.resume = "no"

(* What an instance's entry may be: only a live process has one, and a follower or a creator *)
(* has not seen the end.                                                                     *)
Sane(i, n) ==
  /\ i.up # "up" => ~i.known
  /\ ~i.known => Quiet(i) /\ ~i.follow /\ ~i.beats /\ ~Done(i)
  /\ i.follow => Quiet(i) /\ ~i.beats /\ ~Done(i) /\ i.attempt = 0 /\ i.cursor <= n
  /\ i.beats => ~Done(i)

(* The records of journal j that follower p has not read and did not write. *)
Unseen(p, i, j) == { k \in DOMAIN j : k > i.cursor /\ j[k].writer # p }

(* The end of a build is news to whoever follows it. *)
EndIsNews(p, i, j) ==
  i.follow => \A k \in DOMAIN j : IsTerminal(j[k]) => k \in Unseen(p, i, j)

(* The longest that passes between two of the creator's records. *)
Span(u) == (u.missed + 1) * Beat

(* A journal without an end has a record no older than that. *)
Recent(j, a, span, beat) == j = <<>> \/ FirstTerminal(j) # 0 \/ a + beat <= span

(* A follower has news to read, or its lease lasts until the creator's next record is late. *)
Leased(p, i, j, span, beat) ==
  i.follow => i.leased \/ Unseen(p, i, j) # {} \/ i.left + span >= Grace + beat

(* While the heartbeats of p come in time nobody else acts. *)
Alone(p, j, a, is, span) ==
  /\ Recent(j, a, span, is[p].beat)
  /\ \A q \in Instances \ {p} : Quiet(is[q]) /\ Leased(q, is[q], j, span, is[p].beat)

Founded(p, j) == \E k \in DOMAIN j : j[k] = [type |-> "job", writer |-> p]

(* An instance that has only followed either follows still or knows the journal's outcome. *)
Decided(p, i, j) ==
  i.known /\ ~Founded(p, j) /\ i.attempt = 0 =>
    IF Done(i) THEN i.unread < MaxReadFailures => i.outcome = Outcome(j)
    ELSE i.follow

Counts == [asks : Nat, kills : Nat, unread : Nat, lost : Nat, missed : Nat]

(* The inductive invariant: at most one process heartbeats, and the conditions above. *)
Good(j, a, is, u) ==
  /\ j \in Seq(Record) /\ a \in 0 .. Grace /\ is \in [Instances -> Instance] /\ u \in Counts
  /\ \A p \in Instances : Sane(is[p], Len(j)) /\ EndIsNews(p, is[p], j)
  /\ \A p, q \in Instances : is[p].beats /\ is[q].beats => p = q
  /\ Span(u) < Grace => \A p \in Instances : is[p].beats => Alone(p, j, a, is, Span(u))
  /\ u.lost = 0 => \A p \in Instances : Decided(p, is[p], j)

IInv == Good(journal, age, inst, used)

-----------------------------------------------------------------------------
(* A set of numbers has a least one. *)
LEMMA LeastNumber ==
  ASSUME NEW S \in SUBSET Nat, S # {}
  PROVE  \E x \in S : \A y \in S : x <= y
<1> DEFINE R == { ss \in Nat \X Nat : ss[1] < ss[2] }
<1>1. IsWellFoundedOn(R, Nat)
  BY NatLessThanWellFounded DEF OpToRel
<1>2. \A x, y \in Nat : <<y, x>> \notin R => x <= y
  OBVIOUS
<1>3. S \subseteq Nat
  OBVIOUS
<1> HIDE DEF R
<1>4. \E x \in S : \A y \in S : ~(<<y, x>> \in R)
  BY <1>1, <1>3, WFMin
<1> QED
  BY <1>2, <1>3, <1>4

(* The first terminal record is the least of them. *)
LEMMA FirstIs ==
  ASSUME NEW s \in Seq(Record)
  PROVE  /\ FirstTerminal(s) = 0 => \A k \in DOMAIN s : ~IsTerminal(s[k])
         /\ FirstTerminal(s) # 0 =>
              /\ FirstTerminal(s) \in DOMAIN s /\ IsTerminal(s[FirstTerminal(s)])
              /\ \A k \in DOMAIN s : IsTerminal(s[k]) => FirstTerminal(s) <= k
<1> DEFINE ends == { k \in DOMAIN s : IsTerminal(s[k]) }
<1>1. ends \in SUBSET Nat /\ 0 \notin ends
  OBVIOUS
<1>2. CASE ends = {}
  BY <1>2 DEF FirstTerminal
<1>3. CASE ends # {}
  <2>1. \E k \in ends : \A l \in ends : k <= l
    BY <1>1, <1>3, LeastNumber
  <2>2. FirstTerminal(s) \in ends /\ \A l \in ends : FirstTerminal(s) <= l
    BY <1>3, <2>1 DEF FirstTerminal
  <2> QED
    BY <1>1, <2>2
<1> QED
  BY <1>2, <1>3

(* Whatever is written behind the first terminal record, it stays the first. *)
LEMMA EndStands ==
  ASSUME NEW s \in Seq(Record), NEW r \in Record, FirstTerminal(s) # 0
  PROVE  FirstTerminal(Append(s, r)) # 0 /\ Outcome(Append(s, r)) = Outcome(s)
<1> DEFINE t == Append(s, r)
           k == FirstTerminal(s)
           l == FirstTerminal(t)
<1>1. t \in Seq(Record) /\ DOMAIN s \subseteq DOMAIN t /\ \A x \in DOMAIN s : t[x] = s[x]
  OBVIOUS
<1>2. k \in DOMAIN s /\ IsTerminal(s[k]) /\ \A x \in DOMAIN s : IsTerminal(s[x]) => k <= x
  BY FirstIs
<1>3. l # 0
  BY <1>1, <1>2, FirstIs
<1>4. l \in DOMAIN t /\ IsTerminal(t[l]) /\ l <= k
  BY <1>1, <1>2, <1>3, FirstIs
<1>5. l = k
  <2>1. k \in Nat /\ l \in Nat /\ k \in 1 .. Len(s) /\ l \in 1 .. Len(s)
    BY <1>1, <1>2, <1>4
  <2> QED
    BY <1>1, <1>2, <1>4, <2>1
<1> HIDE DEF k, l
<1> QED
  BY <1>1, <1>2, <1>3, <1>5 DEF Outcome, k, l

(* A terminal record that is written behind none is the first. *)
LEMMA EndComes ==
  ASSUME NEW s \in Seq(Record), NEW r \in Record, FirstTerminal(s) = 0, IsTerminal(r)
  PROVE  Outcome(Append(s, r)) = r.type
<1> DEFINE t == Append(s, r)
           l == FirstTerminal(t)
<1>1. t \in Seq(Record) /\ DOMAIN t = 1 .. Len(s) + 1 /\ t[Len(s) + 1] = r
      /\ \A x \in DOMAIN s : t[x] = s[x]
  OBVIOUS
<1>2. \A x \in DOMAIN s : ~IsTerminal(s[x])
  BY FirstIs
<1>3. l # 0
  <2>1. Len(s) + 1 \in DOMAIN t /\ IsTerminal(t[Len(s) + 1])
    BY <1>1
  <2> QED
    BY <1>1, <2>1, FirstIs
<1>4. l \in DOMAIN t /\ IsTerminal(t[l])
  BY <1>1, <1>3, FirstIs
<1>5. l = Len(s) + 1
  BY <1>1, <1>2, <1>4
<1> HIDE DEF l
<1> QED
  BY <1>1, <1>3, <1>5 DEF Outcome, l

(* The outcome of a journal is none, or terminal. *)
LEMMA OutcomeIs ==
  ASSUME NEW s \in Seq(Record)
  PROVE  /\ Outcome(s) \in Terminal \cup {"none"}
         /\ Outcome(s) = "none" <=> FirstTerminal(s) = 0
<1>1. "none" \notin Terminal
  BY DEF Terminal
<1> QED
  BY <1>1, FirstIs DEF Outcome, IsTerminal

-----------------------------------------------------------------------------
(* f holds what is picked of the first k records of s, for every k up to n. *)
IsPick(f, s, ks, n) ==
  f = [k \in 0 .. n |-> IF k = 0 THEN <<>>
                        ELSE IF k \in ks THEN Append(f[k - 1], s[k]) ELSE f[k - 1]]

(* Such a function exists. *)
LEMMA PickExists ==
  ASSUME NEW s, NEW ks, NEW n \in Nat
  PROVE  \E f : IsPick(f, s, ks, n)
<1> DEFINE T == { k \in 0 .. n : ~ \E f : IsPick(f, s, ks, k) }
<1>1. SUFFICES ASSUME T # {} PROVE FALSE
  <2>1. n \notin T
    BY <1>1
  <2> QED
    BY <2>1
<1>2. PICK k \in T : \A j \in T : k <= j
  <2>1. T \in SUBSET Nat
    OBVIOUS
  <2> HIDE DEF T
  <2> QED
    BY <1>1, <2>1, LeastNumber
<1>3. k \in 0 .. n /\ ~ \E f : IsPick(f, s, ks, k)
  BY <1>2
<1>4. CASE k = 0
  <2> DEFINE f == [i \in 0 .. 0 |-> <<>>]
  <2>1. IsPick(f, s, ks, 0)
    BY DEF IsPick
  <2> QED
    BY <1>3, <1>4, <2>1
<1>5. CASE k # 0
  <2>1. k - 1 \in 0 .. n /\ k - 1 \notin T
    BY <1>2, <1>3, <1>5
  <2>2. PICK g : IsPick(g, s, ks, k - 1)
    BY <2>1
  <2> DEFINE last == IF k \in ks THEN Append(g[k - 1], s[k]) ELSE g[k - 1]
             f == [i \in 0 .. k |-> IF i = k THEN last ELSE g[i]]
  <2>3. \A i \in 0 .. k - 1 :
          g[i] = IF i = 0 THEN <<>>
                 ELSE IF i \in ks THEN Append(g[i - 1], s[i]) ELSE g[i - 1]
    BY <2>2 DEF IsPick
  <2>4. (\A i \in 0 .. k - 1 : f[i] = g[i]) /\ f[k] = last
    BY <1>3
  <2>5. DOMAIN f = 0 .. k /\ f = [i \in 0 .. k |-> f[i]]
    OBVIOUS
  <2> HIDE DEF f
  <2>6. ASSUME NEW i \in 0 .. k
        PROVE  f[i] = IF i = 0 THEN <<>>
                      ELSE IF i \in ks THEN Append(f[i - 1], s[i]) ELSE f[i - 1]
    <3>1. CASE i = k
      <4>1. f[k - 1] = g[k - 1]
        BY <1>3, <1>5, <2>4
      <4> QED
        BY <1>5, <2>4, <3>1, <4>1
    <3>2. CASE i = 0
      BY <1>3, <1>5, <2>3, <2>4, <3>2
    <3>3. CASE i \in 1 .. k - 1
      <4>1. i - 1 \in 0 .. k - 1 /\ i \in 0 .. k - 1 /\ i # 0
        BY <1>3, <3>3
      <4>2. f[i] = g[i] /\ f[i - 1] = g[i - 1]
        BY <2>4, <4>1
      <4>3. g[i] = IF i \in ks THEN Append(g[i - 1], s[i]) ELSE g[i - 1]
        BY <2>3, <4>1
      <4> QED
        BY <4>1, <4>2, <4>3
    <3> QED
      BY <1>3, <3>1, <3>2, <3>3
  <2>7. IsPick(f, s, ks, k)
    BY <2>5, <2>6 DEF IsPick
  <2> QED
    BY <1>3, <2>7
<1> QED
  BY <1>4, <1>5

(* What is picked of the first k records ends with the last of those picked. *)
PickGood(x, s, ks, k) ==
  /\ x \in Seq(Record)
  /\ (\A l \in 1 .. k : l \notin ks) => x = <<>>
  /\ \A m \in 1 .. k : m \in ks /\ (\A l \in 1 .. k : l \in ks => l <= m)
                         => x # <<>> /\ x[Len(x)] = s[m]
  /\ x # <<>> => \E m \in 1 .. k : m \in ks /\ x[Len(x)] = s[m]

(* Picking yields records, and the last one picked comes last. *)
LEMMA PickedIs ==
  ASSUME NEW s \in Seq(Record), NEW ks
  PROVE  PickGood(Picked(s, ks), s, ks, Len(s))
<1> DEFINE n == Len(s)
           f == CHOOSE g : IsPick(g, s, ks, n)
<1>1. n \in Nat
  OBVIOUS
<1>2. Picked(s, ks) = f[n]
  BY DEF Picked, IsPick
<1>3. IsPick(f, s, ks, n)
  BY <1>1, PickExists
<1>4. \A k \in 0 .. n :
        f[k] = IF k = 0 THEN <<>>
               ELSE IF k \in ks THEN Append(f[k - 1], s[k]) ELSE f[k - 1]
  <2> HIDE DEF f, n
  <2> QED
    BY <1>3 DEF IsPick
<1> HIDE DEF f
<1> DEFINE T == { k \in 0 .. n : ~PickGood(f[k], s, ks, k) }
<1>5. SUFFICES ASSUME T # {} PROVE FALSE
  BY <1>1, <1>2, <1>5
<1>6. PICK k \in T : \A j \in T : k <= j
  <2>1. T \in SUBSET Nat
    BY <1>1
  <2> HIDE DEF T
  <2> QED
    BY <1>5, <2>1, LeastNumber
<1>7. k \in 0 .. n /\ ~PickGood(f[k], s, ks, k)
  BY <1>6
<1>8. k # 0
  <2>1. f[0] = <<>> /\ <<>> \in Seq(Record)
    BY <1>1, <1>4
  <2>2. PickGood(f[0], s, ks, 0)
    BY <2>1 DEF PickGood
  <2> QED
    BY <1>7, <2>2
<1>9. PickGood(f[k - 1], s, ks, k - 1) /\ k \in 1 .. n
  <2>1. k - 1 \in 0 .. n /\ k - 1 \notin T /\ k \in 1 .. n
    BY <1>1, <1>6, <1>7, <1>8
  <2> QED
    BY <2>1
<1> DEFINE x == f[k - 1]
<1>10. x \in Seq(Record) /\ s[k] \in Record
  BY <1>9 DEF PickGood
<1>11. CASE k \in ks
  <2>1. f[k] = Append(x, s[k])
    BY <1>4, <1>7, <1>8, <1>11
  <2> HIDE DEF x
  <2>2. f[k] \in Seq(Record) /\ f[k] # <<>> /\ f[k][Len(f[k])] = s[k]
    BY <1>10, <2>1
  <2>3. \A m \in 1 .. k : m \in ks /\ (\A l \in 1 .. k : l \in ks => l <= m) => m = k
    BY <1>9, <1>11
  <2>4. PickGood(f[k], s, ks, k)
    BY <1>9, <1>11, <2>2, <2>3 DEF PickGood
  <2> QED
    BY <1>7, <2>4
<1>12. CASE k \notin ks
  <2>1. f[k] = x
    BY <1>4, <1>7, <1>8, <1>12
  <2>2. 1 .. k = (1 .. k - 1) \cup {k}
    BY <1>9
  <2>3. PickGood(f[k], s, ks, k)
    BY <1>9, <1>12, <2>1, <2>2 DEF PickGood
  <2> QED
    BY <1>7, <2>3
<1> QED
  BY <1>11, <1>12

-----------------------------------------------------------------------------
(* Appending moves no record and adds one at the end. *)
LEMMA AppendIs ==
  ASSUME NEW s \in Seq(Record), NEW r \in Record
  PROVE  /\ Append(s, r) \in Seq(Record) /\ Len(s) \in Nat /\ Len(Append(s, r)) = Len(s) + 1
         /\ DOMAIN s = 1 .. Len(s) /\ DOMAIN Append(s, r) = 1 .. Len(s) + 1
         /\ \A k \in DOMAIN s : Append(s, r)[k] = s[k]
         /\ Append(s, r)[Len(s) + 1] = r
OBVIOUS

(* The span is a number, and no shorter than a beat. *)
LEMMA SpanIs ==
  ASSUME NEW u \in Counts
  PROVE  Span(u) \in Nat /\ Span(u) >= Beat
<1>1. u.missed \in Nat /\ Beat \in Nat
  BY IdeJobsConstants DEF Counts
<1>2. (u.missed + 1) * Beat = u.missed * Beat + Beat
  BY <1>1
<1>3. u.missed * Beat \in Nat
  BY <1>1
<1> QED
  BY <1>1, <1>2, <1>3 DEF Span

(* What an appended record of p leaves true of another instance. *)
LEMMA OthersStand ==
  ASSUME NEW j \in Seq(Record), NEW r \in Record, NEW q \in Instances, r.writer # q,
         NEW i \in Instance, Sane(i, Len(j)), EndIsNews(q, i, j)
  PROVE  /\ Sane(i, Len(Append(j, r))) /\ EndIsNews(q, i, Append(j, r))
         /\ \A span, beat : Leased(q, i, j, span, beat) => Leased(q, i, Append(j, r), span, beat)
         /\ Decided(q, i, j) => Decided(q, i, Append(j, r))
<1> DEFINE t == Append(j, r)
<1>1. /\ t \in Seq(Record) /\ Len(j) \in Nat /\ Len(t) = Len(j) + 1
      /\ DOMAIN j = 1 .. Len(j) /\ DOMAIN t = 1 .. Len(j) + 1
      /\ (\A k \in DOMAIN j : t[k] = j[k]) /\ t[Len(j) + 1] = r
  BY AppendIs
<1> HIDE DEF t
<1>2. i.cursor \in Nat
  BY DEF Instance
<1>3. Sane(i, Len(t))
  BY <1>1, <1>2 DEF Sane
<1>4. Unseen(q, i, j) \subseteq Unseen(q, i, t)
  BY <1>1 DEF Unseen
<1>5. EndIsNews(q, i, t)
  <2> SUFFICES ASSUME i.follow, NEW k \in DOMAIN t, IsTerminal(t[k]) PROVE k \in Unseen(q, i, t)
    BY DEF EndIsNews
  <2>1. CASE k \in DOMAIN j
    BY <1>1, <1>4, <2>1 DEF EndIsNews
  <2>2. CASE k = Len(j) + 1
    BY <1>1, <1>2, <2>2 DEF Unseen, Sane
  <2> QED
    BY <1>1, <2>1, <2>2
<1>6. \A span, beat : Leased(q, i, j, span, beat) => Leased(q, i, t, span, beat)
  BY <1>4 DEF Leased
<1>7. ASSUME Decided(q, i, j) PROVE Decided(q, i, t)
  <2>1. Founded(q, j) => Founded(q, t)
    BY <1>1 DEF Founded
  <2>2. Done(i) /\ i.outcome = Outcome(j) => i.outcome = Outcome(t)
    <3>1. Done(i) /\ i.outcome = Outcome(j) => FirstTerminal(j) # 0
      BY OutcomeIs DEF Done
    <3> QED
      BY <3>1, EndStands DEF t
  <2> QED
    BY <1>7, <2>1, <2>2 DEF Decided
<1> QED
  BY <1>3, <1>5, <1>6, <1>7 DEF t

(* What a step of p may write: nothing, or one record of its own. *)
Wrote(p, j, a, j2, a2) ==
  \/ j2 = j /\ a2 = a
  \/ \E r \in Record : /\ r.writer = p /\ j2 = Append(j, r)
                       /\ a2 = IF FirstTerminal(j) = 0 THEN 0 ELSE a

(* Where only p moves, writes no more than a record and its own entry keeps to the rules, *)
(* the invariant is kept.                                                                 *)
LEMMA OneMoves ==
  ASSUME IInv,
         NEW p \in Instances, NEW you \in Instance,
         inst' = [inst EXCEPT ![p] = you], used' \in Counts,
         Wrote(p, journal, age, journal', age'), used'.missed = used.missed, used'.lost = 0 => used.lost = 0,
         Sane(you, Len(journal')), EndIsNews(p, you, journal'),
         you.beats => \/ inst[p].beats /\ you.beat = inst[p].beat
                      \/ journal = <<>> /\ \A q \in Instances : ~inst[q].known,
         \A q \in Instances \ {p} : inst[q].beats /\ Span(used) < Grace =>
           Quiet(you) /\ Leased(p, you, journal', Span(used), inst[q].beat),
         used'.lost = 0 => Decided(p, you, journal')
  PROVE  IInv'
<1>0. /\ journal \in Seq(Record) /\ age \in 0 .. Grace /\ inst \in [Instances -> Instance] /\ used \in Counts
      /\ \A q \in Instances : Sane(inst[q], Len(journal)) /\ EndIsNews(q, inst[q], journal)
      /\ \A q, r \in Instances : inst[q].beats /\ inst[r].beats => q = r
      /\ Span(used) < Grace => \A q \in Instances : inst[q].beats => Alone(q, journal, age, inst, Span(used))
      /\ used.lost = 0 => \A q \in Instances : Decided(q, inst[q], journal)
  BY DEF IInv, Good
<1>1. /\ inst' \in [Instances -> Instance] /\ inst'[p] = you
      /\ \A q \in Instances \ {p} : inst'[q] = inst[q]
  BY <1>0
<1>2. journal' \in Seq(Record) /\ age' \in 0 .. Grace
  <2>1. 0 \in 0 .. Grace
    BY IdeJobsConstants
  <2>2. CASE \E r \in Record : journal' = Append(journal, r) /\ age' = IF FirstTerminal(journal) = 0 THEN 0 ELSE age
    <3>1. journal' \in Seq(Record)
      BY <1>0, <2>2, AppendIs
    <3> QED
      BY <1>0, <2>1, <2>2, <3>1
  <2> QED
    BY <1>0, <2>2 DEF Wrote
<1>3. ASSUME NEW q \in Instances \ {p}
      PROVE  /\ Sane(inst[q], Len(journal')) /\ EndIsNews(q, inst[q], journal')
             /\ \A span, beat : Leased(q, inst[q], journal, span, beat) => Leased(q, inst[q], journal', span, beat)
             /\ Decided(q, inst[q], journal) => Decided(q, inst[q], journal')
  <2>1. CASE journal' = journal
    BY <1>0, <2>1
  <2>2. ASSUME NEW r \in Record, r.writer = p, journal' = Append(journal, r) PROVE <1>3!2
    BY <1>0, <2>2, OthersStand
  <2> QED
    BY <2>1, <2>2 DEF Wrote
<1>4. Span(used') = Span(used) /\ Span(used) \in Nat /\ Span(used) >= Beat
  BY <1>0, SpanIs DEF Span
<1>5. \A q \in Instances : Sane(inst'[q], Len(journal')) /\ EndIsNews(q, inst'[q], journal')
  BY <1>1, <1>3
<1>6. \A q, r \in Instances : inst'[q].beats /\ inst'[r].beats => q = r
  <2>1. \A q \in Instances : ~inst[q].known => ~inst[q].beats
    BY <1>0 DEF Sane
  <2> QED
    BY <1>0, <1>1, <2>1
<1>7. ASSUME Span(used) < Grace, NEW q \in Instances, inst'[q].beats
      PROVE  Alone(q, journal', age', inst', Span(used))
  <2>1. inst'[q].beat \in 0 .. Beat
    BY <1>1 DEF Instance
  <2>2. CASE inst[q].beats /\ inst'[q].beat = inst[q].beat
    <3>1. Alone(q, journal, age, inst, Span(used))
      BY <1>0, <1>7, <2>2
    <3>2. Recent(journal', age', Span(used), inst'[q].beat)
      <4>1. CASE journal' = journal /\ age' = age
        BY <2>2, <3>1, <4>1 DEF Alone
      <4>2. CASE \E r \in Record : journal' = Append(journal, r) /\ age' = IF FirstTerminal(journal) = 0 THEN 0 ELSE age
        <5>1. FirstTerminal(journal) # 0 => FirstTerminal(journal') # 0
          BY <1>0, <4>2, EndStands
        <5>2. FirstTerminal(journal) = 0 => age' = 0
          BY <4>2
        <5> QED
          BY <1>4, <2>1, <5>1, <5>2, IdeJobsConstants DEF Recent
      <4> QED
        BY <4>1, <4>2 DEF Wrote
    <3>3. \A r \in Instances \ {q} : Quiet(inst'[r]) /\ Leased(r, inst'[r], journal', Span(used), inst'[q].beat)
      <4> SUFFICES ASSUME NEW r \in Instances \ {q}
                   PROVE  Quiet(inst'[r]) /\ Leased(r, inst'[r], journal', Span(used), inst'[q].beat)
        OBVIOUS
      <4>1. CASE r = p
        BY <1>1, <1>7, <2>2, <4>1
      <4>2. CASE r # p
        BY <1>1, <1>3, <2>2, <3>1, <4>2 DEF Alone
      <4> QED
        BY <4>1, <4>2
    <3> QED
      BY <3>2, <3>3 DEF Alone
  <2>3. CASE q = p /\ journal = <<>> /\ \A r \in Instances : ~inst[r].known
    <3>1. \A r \in Instances \ {q} : Quiet(inst'[r]) /\ ~inst'[r].follow
      BY <1>0, <1>1, <2>3 DEF Sane
    <3>2. Recent(journal', age', Span(used), inst'[q].beat)
      <4>1. FirstTerminal(<<>>) = 0
        BY DEF FirstTerminal
      <4> QED
        BY <1>4, <2>1, <2>3, <4>1, IdeJobsConstants DEF Recent, Wrote
    <3> QED
      BY <3>1, <3>2 DEF Alone, Leased
  <2> QED
    BY <1>1, <1>7, <2>2, <2>3
<1>8. ASSUME used'.lost = 0, NEW q \in Instances PROVE Decided(q, inst'[q], journal')
  BY <1>0, <1>1, <1>3, <1>8
<1> QED
  BY <1>1, <1>2, <1>4, <1>5, <1>6, <1>7, <1>8 DEF Good, IInv

-----------------------------------------------------------------------------
(* The fields of an entry, by name. *)
LEMMA EntryIs ==
  ASSUME NEW i \in Instance
  PROVE  /\ i.events \in Seq(Record) /\ i.outcome \in Terminal \cup {"none"}
         /\ i.follow \in BOOLEAN /\ i.leased \in BOOLEAN /\ i.beats \in BOOLEAN /\ i.known \in BOOLEAN
         /\ i.cursor \in Nat /\ i.left \in 0 .. Grace /\ i.unread \in Nat /\ i.attempt \in Nat
         /\ i.beat \in 0 .. Beat
BY DEF Instance

(* The parts of an entry that no message of its own changes. *)
Same(i, o) ==
  /\ i.up = o.up /\ i.known = o.known /\ i.resume = o.resume /\ i.attempt = o.attempt
  /\ i.runner = o.runner /\ i.aborted = o.aborted

(* An entry without its follower. *)
LEMMA NotFollowingIs ==
  ASSUME NEW i \in Instance
  PROVE  LET n == NotFollowing(i)
         IN /\ n \in Instance /\ Same(n, i) /\ n.outcome = i.outcome /\ n.unread = i.unread
            /\ n.beat = i.beat /\ n.beats = i.beats /\ n.events = i.events
            /\ ~n.follow /\ n.left = 0 /\ ~n.leased /\ n.cursor = 0
<1>1. 0 \in 0 .. Grace /\ 0 \in Nat
  BY IdeJobsConstants
<1> QED
  BY <1>1 DEF NotFollowing, Instance, Same

(* A record that is pushed and published: a terminal one seals the entry. *)
LEMMA PushedIs ==
  ASSUME NEW i \in Instance, NEW r \in Record
  PROVE  LET y == Pushed(i, r)
         IN /\ y \in Instance /\ Same(y, i) /\ y.unread = i.unread
            /\ IsTerminal(r) => /\ y.outcome = r.type /\ Done(y) /\ ~y.follow /\ ~y.beats
            /\ ~IsTerminal(r) => /\ y.outcome = i.outcome /\ y.follow = i.follow
                                 /\ y.cursor = i.cursor /\ y.left = i.left /\ y.leased = i.leased
                                 /\ y.beat = i.beat /\ y.beats = i.beats
<1> DEFINE e == [i EXCEPT !.events = Append(@, r)]
<1>1. Append(i.events, r) \in Seq(Record)
  BY EntryIs, AppendIs
<1>2. /\ e \in Instance /\ Same(e, i) /\ e.unread = i.unread /\ e.outcome = i.outcome
      /\ e.follow = i.follow /\ e.cursor = i.cursor /\ e.left = i.left /\ e.leased = i.leased
      /\ e.beat = i.beat /\ e.beats = i.beats
  BY <1>1 DEF Instance, Same
<1> DEFINE n == NotFollowing(e)
<1>3. n \in Instance /\ Same(n, e) /\ n.unread = e.unread /\ ~n.follow
  BY <1>2, NotFollowingIs
<1>4. Pushed(i, r) = IF IsTerminal(r)
                     THEN [n EXCEPT !.outcome = r.type, !.beats = FALSE, !.beat = 0] ELSE e
  BY DEF Pushed, publish
<1> HIDE DEF e, n
<1>5. CASE IsTerminal(r)
  <2> DEFINE y == [n EXCEPT !.outcome = r.type, !.beats = FALSE, !.beat = 0]
  <2>1. r.type \in Terminal /\ r.type # "none" /\ 0 \in 0 .. Beat
    BY <1>5, IdeJobsConstants DEF IsTerminal, Terminal
  <2>2. /\ y \in Instance /\ Same(y, n) /\ y.unread = n.unread
        /\ y.outcome = r.type /\ ~y.follow /\ ~y.beats
    BY <1>3, <2>1 DEF Instance, Same
  <2> HIDE DEF y
  <2> QED
    BY <1>2, <1>3, <1>4, <1>5, <2>1, <2>2 DEF Same, Done, y
<1>6. CASE ~IsTerminal(r)
  BY <1>2, <1>4, <1>6
<1> QED
  BY <1>5, <1>6

(* What a follower makes of a journal it can read: at the journal's end it knows the outcome, *)
(* before that it has read everything and any news has renewed its lease.                     *)
LEMMA AdoptedIs ==
  ASSUME journal \in Seq(Record), NEW p \in Instances, NEW i \in Instance,
         i.follow, EndIsNews(p, i, journal), ~Done(i)
  PROVE  LET a == Adopted(p, i)
         IN /\ a \in Instance /\ Same(a, i) /\ a.unread = 0 /\ a.beat = i.beat /\ a.beats = i.beats
            /\ FirstTerminal(journal) # 0 => ~a.follow /\ Done(a) /\ a.outcome = Outcome(journal)
            /\ FirstTerminal(journal) = 0 =>
                 /\ a.follow /\ ~Done(a) /\ a.cursor = Len(journal)
                 /\ a.left = IF i.leased \/ Unseen(p, i, journal) # {} THEN Grace ELSE i.left
<1> DEFINE new  == NewForeign(p, i)
           more == Picked(journal, Taken(new))
           read == [i EXCEPT !.events = @ \o more, !.unread = 0]
<1>1. new = Unseen(p, i, journal)
  <2>1. i.cursor \in Nat /\ DOMAIN journal = 1 .. Len(journal) /\ Len(journal) \in Nat
    BY EntryIs
  <2> QED
    BY <2>1 DEF NewForeign, Unseen
<1>2. more \in Seq(Record)
  BY PickedIs DEF PickGood
<1>3. i.events \o more \in Seq(Record)
  BY <1>2, EntryIs
<1>4. /\ read \in Instance /\ Same(read, i) /\ read.unread = 0 /\ read.outcome = i.outcome
      /\ read.follow = i.follow /\ read.left = i.left
      /\ read.beat = i.beat /\ read.beats = i.beats
  <2> HIDE DEF more
  <2> QED
    BY <1>3 DEF Instance, Same
<1>5. new \subseteq DOMAIN journal /\ new \subseteq Nat
  BY <1>1 DEF Unseen
<1>6. Ends(new) = { k \in DOMAIN journal : IsTerminal(journal[k]) }
  BY <1>1, <1>5 DEF Ends, EndIsNews
<1> DEFINE first == CHOOSE k \in Ends(new) : \A l \in Ends(new) : k <= l
           n == NotFollowing(read)
           sealed == [n EXCEPT !.outcome = journal[first].type]
           rest  == IF new # {} \/ i.leased THEN Grace ELSE read.left
           going == [read EXCEPT !.cursor = Len(journal), !.leased = FALSE, !.left = rest]
<1>7. Adopted(p, i) = IF Ends(new) # {} THEN sealed ELSE going
  BY DEF Adopted
<1>8. n \in Instance /\ Same(n, read) /\ n.unread = read.unread /\ ~n.follow
      /\ n.beat = read.beat /\ n.beats = read.beats
  BY <1>4, NotFollowingIs
<1> HIDE DEF new, more, read, n
<1>9. CASE Ends(new) # {}
  <2>1. FirstTerminal(journal) # 0 /\ first = FirstTerminal(journal)
    <3>1. Ends(new) \subseteq Nat /\ 0 \notin Ends(new)
      BY <1>6
    <3>2. \E k \in Ends(new) : \A l \in Ends(new) : k <= l
      BY <1>9, <3>1, LeastNumber
    <3>3. FirstTerminal(journal) = first
      BY <1>6, <1>9 DEF FirstTerminal
    <3>4. first \in Ends(new)
      BY <3>2
    <3> QED
      BY <3>1, <3>3, <3>4
  <2>2. journal[first].type = Outcome(journal)
    <3> HIDE DEF first
    <3> QED
      BY <2>1 DEF Outcome
  <2>3. Outcome(journal) \in Terminal /\ Outcome(journal) # "none"
    BY <2>1, OutcomeIs
  <2> HIDE DEF first
  <2>4. /\ sealed \in Instance /\ Same(sealed, n) /\ sealed.unread = n.unread /\ ~sealed.follow
        /\ sealed.outcome = Outcome(journal) /\ sealed.beat = n.beat /\ sealed.beats = n.beats
    BY <1>8, <2>2, <2>3 DEF Instance, Same
  <2> HIDE DEF sealed
  <2> QED
    BY <1>4, <1>7, <1>8, <1>9, <2>1, <2>3, <2>4 DEF Same, Done
<1>10. CASE Ends(new) = {}
  <2>1. FirstTerminal(journal) = 0
    BY <1>6, <1>10 DEF FirstTerminal
  <2>2. rest \in 0 .. Grace /\ Len(journal) \in Nat
    BY <1>4, EntryIs, IdeJobsConstants
  <2> HIDE DEF rest
  <2>3. /\ going \in Instance /\ Same(going, read) /\ going.unread = read.unread
        /\ going.follow = read.follow /\ going.outcome = read.outcome
        /\ going.cursor = Len(journal)
        /\ going.left = rest
        /\ going.beat = read.beat /\ going.beats = read.beats
    BY <1>4, <2>2 DEF Instance, Same
  <2> HIDE DEF going
  <2> QED
    BY <1>1, <1>4, <1>7, <1>10, <2>1, <2>3 DEF Same, Done, rest
<1> QED
  BY <1>9, <1>10

-----------------------------------------------------------------------------
(* A record of p's own goes to its stream and to the file, or is lost on the way to the file. *)
Filed(r) ==
  \/ journal' = journal /\ age' = age /\ used'.lost # 0
  \/ journal' = Append(journal, r) /\ age' = IF FirstTerminal(journal) = 0 THEN 0 ELSE age

Logged(p, i, type) ==
  /\ \E r \in Record : /\ r.writer = p /\ r.type = type
                       /\ inst' = [inst EXCEPT ![p] = Pushed(i, r)] /\ Filed(r)
  /\ used' \in Counts /\ used'.missed = used.missed /\ (used'.lost = 0 => used.lost = 0)

(* A kept or lost append is at most one record of p. *)
LEMMA AppendFiles ==
  ASSUME NEW p \in Instances, NEW type \in RecordTypes, NEW kept \in BOOLEAN,
         append([type |-> type, writer |-> p], kept), used'.lost = 0 => kept
  PROVE  /\ [type |-> type, writer |-> p] \in Record
         /\ Filed([type |-> type, writer |-> p])
<1> DEFINE r == [type |-> type, writer |-> p]
<1>1. r \in Record
  BY DEF Record
<1> HIDE DEF r
<1>2. /\ journal' = IF kept THEN Append(journal, r) ELSE journal
      /\ age' = IF kept /\ FirstTerminal(journal) = 0 THEN 0 ELSE age
  BY DEF append, r
<1>3. Filed(r)
  BY <1>2 DEF Filed
<1> QED
  BY <1>1, <1>3 DEF r

(* What is filed is p's. *)
LEMMA FiledWrites ==
  ASSUME NEW p \in Instances, NEW r \in Record, r.writer = p, Filed(r)
  PROVE  Wrote(p, journal, age, journal', age')
BY DEF Filed, Wrote

(* Writes logs a record. *)
LEMMA WritesLogs ==
  ASSUME used \in Counts, NEW p \in Instances, NEW i, NEW type \in RecordTypes,
         NEW n \in Nat, Writes(p, i, type, n)
  PROVE  Logged(p, i, type)
<1> DEFINE r == [type |-> type, writer |-> p]
<1>1. PICK kept \in BOOLEAN :
        /\ append(r, kept) /\ inst' = [inst EXCEPT ![p] = Pushed(i, r)]
        /\ used' = [used EXCEPT !.asks = @ + n, !.lost = @ + (IF kept THEN 0 ELSE 1)]
  BY DEF Writes
<1>3. r.writer = p /\ r.type = type
  OBVIOUS
<1> HIDE DEF r
<1> DEFINE more == IF kept THEN 0 ELSE 1
<1>4. more \in Nat /\ (more = 0 => kept)
  OBVIOUS
<1>5. used' = [used EXCEPT !.asks = @ + n, !.lost = @ + more]
  BY <1>1
<1> HIDE DEF more
<1>7. used.lost \in Nat /\ used.asks \in Nat
  BY DEF Counts
<1> DEFINE x == used.asks + n
           y == used.lost + more
<1>6. used' \in Counts /\ used'.missed = used.missed /\ used'.lost = used.lost + more
  <2>1. x \in Nat /\ y \in Nat
    BY <1>4, <1>7
  <2>2. used' = [used EXCEPT !.asks = x, !.lost = y]
    BY <1>5
  <2>3. used' \in Counts /\ used'.missed = used.missed /\ used'.lost = y
    <3> HIDE DEF x, y
    <3> QED
      BY <2>1, <2>2 DEF Counts
  <2> QED
    BY <2>3
<1>8. used'.lost = 0 => used.lost = 0 /\ kept
  BY <1>4, <1>6, <1>7
<1>9. r \in Record /\ Filed(r)
  BY <1>1, <1>8, AppendFiles DEF r
<1> QED
  BY <1>1, <1>3, <1>6, <1>8, <1>9 DEF Logged

(* What IInv says, in one place. *)
LEMMA IInvIs ==
  ASSUME IInv
  PROVE  /\ Good(journal, age, inst, used)
         /\ journal \in Seq(Record) /\ age \in 0 .. Grace
         /\ inst \in [Instances -> Instance] /\ used \in Counts
         /\ \A p \in Instances : Sane(inst[p], Len(journal)) /\ EndIsNews(p, inst[p], journal)
         /\ \A p, q \in Instances : inst[p].beats /\ inst[q].beats => p = q
         /\ \A p, q \in Instances : p # q /\ inst[p].beats /\ Span(used) < Grace =>
              /\ Recent(journal, age, Span(used), inst[p].beat)
              /\ Quiet(inst[q]) /\ Leased(q, inst[q], journal, Span(used), inst[p].beat)
         /\ used.lost = 0 => \A p \in Instances : Decided(p, inst[p], journal)
BY DEF IInv, Good, Alone

(* An entry that only differs in what its process is doing. *)
Kept(i, o) ==
  /\ i.up = o.up /\ i.known = o.known /\ i.outcome = o.outcome /\ i.follow = o.follow
  /\ i.unread = o.unread /\ i.beat = o.beat /\ i.beats = o.beats
  /\ i.attempt = 0 => o.attempt = 0

(* A process that does not follow does something and writes no record. *)
LEMMA OwnChange ==
  ASSUME IInv, NEW p \in Instances, inst[p].known, ~inst[p].follow,
         NEW i \in Instance, Kept(i, inst[p]),
         \A q \in Instances \ {p} : inst[q].beats /\ Span(used) < Grace => Quiet(i),
         OnlyRemembers(p, i)
  PROVE  IInv'
<1> USE IInvIs
<1>1. Wrote(p, journal, age, journal', age') /\ used' = used /\ journal' = journal
      /\ inst' = [inst EXCEPT ![p] = i]
  BY DEF OnlyRemembers, Wrote
<1>2. Sane(i, Len(journal)) /\ EndIsNews(p, i, journal)
  BY DEF Kept, Sane, EndIsNews, Done
<1>3. \A span, beat : Leased(p, i, journal, span, beat)
  BY DEF Leased, Kept
<1>4. used.lost = 0 => Decided(p, i, journal)
  BY DEF Decided, Kept, Done
<1>5. i.beats => inst[p].beats /\ i.beat = inst[p].beat
  BY DEF Kept
<1> QED
  BY <1>1, <1>2, <1>3, <1>4, <1>5, OneMoves

(* A process that does not follow and has not seen the end writes a record. *)
LEMMA OwnRecord ==
  ASSUME IInv, NEW p \in Instances, inst[p].known, ~inst[p].follow, ~Done(inst[p]),
         NEW i \in Instance, Kept(i, inst[p]), NEW type \in RecordTypes,
         \A q \in Instances \ {p} : inst[q].beats /\ Span(used) < Grace => Quiet(i),
         Logged(p, i, type)
  PROVE  IInv'
<1> USE IInvIs
<1>1. PICK r \in Record : /\ r.writer = p /\ r.type = type
                          /\ inst' = [inst EXCEPT ![p] = Pushed(i, r)] /\ Filed(r)
  BY DEF Logged
<1> DEFINE y == Pushed(i, r)
<1>2. /\ y \in Instance /\ Same(y, i) /\ y.unread = i.unread
      /\ IsTerminal(r) => /\ y.outcome = r.type /\ Done(y) /\ ~y.follow /\ ~y.beats
      /\ ~IsTerminal(r) => /\ y.outcome = i.outcome /\ y.follow = i.follow
                           /\ y.beat = i.beat /\ y.beats = i.beats
  BY PushedIs
<1> HIDE DEF y
<1>3. ~y.follow /\ y.known /\ y.up = inst[p].up /\ Quiet(y) = Quiet(i)
  BY <1>2 DEF Kept, Same, Quiet
<1>4. Sane(y, Len(journal')) /\ EndIsNews(p, y, journal')
  <2>1. y.up = "up"
    BY <1>3, EntryIs DEF Sane
  <2>2. y.beats => ~Done(y)
    BY <1>2 DEF Kept, Done
  <2> QED
    BY <1>3, <2>1, <2>2 DEF Sane, EndIsNews
<1>5. \A span, beat : Leased(p, y, journal', span, beat)
  BY <1>3 DEF Leased
<1>6. y.beats => inst[p].beats /\ y.beat = inst[p].beat
  BY <1>2 DEF Kept
<1>7. ASSUME used'.lost = 0 PROVE Decided(p, y, journal')
  <2>1. used.lost = 0 /\ journal' = Append(journal, r)
    BY <1>1, <1>7 DEF Logged, Filed
  <2>2. Founded(p, journal) \/ inst[p].attempt # 0
    BY <2>1 DEF Decided
  <2>3. Founded(p, journal) => Founded(p, journal')
    BY <2>1, AppendIs DEF Founded
  <2>4. inst[p].attempt # 0 => y.attempt # 0
    BY <1>2 DEF Same, Kept
  <2> QED
    BY <2>2, <2>3, <2>4 DEF Decided
<1>8. inst' = [inst EXCEPT ![p] = y]
  BY <1>1 DEF y
<1>9. /\ Wrote(p, journal, age, journal', age') /\ used' \in Counts
      /\ used'.missed = used.missed /\ (used'.lost = 0 => used.lost = 0)
  BY <1>1, FiledWrites DEF Logged
<1> QED
  BY <1>2, <1>3, <1>4, <1>5, <1>6, <1>7, <1>8, <1>9, OneMoves

-----------------------------------------------------------------------------
(* A follower that has reconciled knows the outcome, follows on with some of its lease left, *)
(* or sets out to resume the build, and that never while another process heartbeats in time. *)
LEMMA ReconcileIs ==
  ASSUME IInv, NEW p \in Instances, inst[p].follow
  PROVE  LET i == reconcileOne(p, inst[p])
         IN /\ i \in Instance /\ i.up = "up" /\ i.known /\ i.runner = "none" /\ ~i.beats
            /\ Done(i) => ~i.follow /\ Quiet(i) /\ i.outcome = Outcome(journal)
            /\ ~Done(i) => FirstTerminal(journal) = 0
            /\ i.follow => /\ Quiet(i) /\ ~Done(i) /\ i.attempt = 0 /\ i.cursor = Len(journal)
                           /\ \A q \in Instances \ {p} : inst[q].beats /\ Span(used) < Grace =>
                                i.left + Span(used) >= Grace + inst[q].beat
            /\ ~Done(i) /\ ~i.follow => i.attempt = 1
            /\ \A q \in Instances \ {p} : inst[q].beats /\ Span(used) < Grace => Quiet(i)
<1> USE IInvIs
<1> DEFINE o == inst[p]
           a == Adopted(p, o)
           b == attemptResume(a, 1)
<1>1. /\ o \in Instance /\ o.up = "up" /\ o.known /\ Quiet(o) /\ ~o.beats /\ ~Done(o)
      /\ o.attempt = 0 /\ o.cursor <= Len(journal)
  BY EntryIs DEF Sane
<1>2. /\ a \in Instance /\ Same(a, o) /\ a.unread = 0 /\ a.beat = o.beat /\ a.beats = o.beats
      /\ FirstTerminal(journal) # 0 => ~a.follow /\ Done(a) /\ a.outcome = Outcome(journal)
      /\ FirstTerminal(journal) = 0 =>
           /\ a.follow /\ ~Done(a) /\ a.cursor = Len(journal)
           /\ a.left = IF o.leased \/ Unseen(p, o, journal) # {} THEN Grace ELSE o.left
  BY <1>1, AdoptedIs
<1>3. reconcileOne(p, o) = IF a.follow /\ a.left = 0 THEN b ELSE a
  BY DEF reconcileOne
<1>4. /\ b \in Instance /\ b.up = a.up /\ b.known = a.known /\ b.runner = a.runner
      /\ b.beats = a.beats /\ b.outcome = a.outcome /\ ~b.follow /\ b.attempt = 1
  <2> DEFINE n == NotFollowing(a)
  <2>1. n \in Instance /\ Same(n, a) /\ n.outcome = a.outcome /\ n.beats = a.beats /\ ~n.follow
    BY <1>2, NotFollowingIs
  <2> HIDE DEF n, a
  <2>2. b = [n EXCEPT !.resume = "asked", !.attempt = 1]
    BY DEF attemptResume, n
  <2> HIDE DEF b
  <2> QED
    BY <2>1, <2>2 DEF Instance, Same
<1> HIDE DEF a, b
<1>5. ASSUME NEW q \in Instances \ {p}, inst[q].beats, Span(used) < Grace, a.follow
      PROVE  a.left + Span(used) >= Grace + inst[q].beat /\ a.left # 0
  <2>1. Leased(p, o, journal, Span(used), inst[q].beat)
    BY <1>5
  <2>2. inst[q].beat \in 0 .. Beat /\ Span(used) \in Nat /\ Span(used) >= Beat
        /\ o.left \in 0 .. Grace /\ Grace \in Nat /\ Beat \in Nat
    BY <1>1, EntryIs, SpanIs, IdeJobsConstants
  <2>3. a.left = IF o.leased \/ Unseen(p, o, journal) # {} THEN Grace ELSE o.left
    BY <1>2, <1>5
  <2>4. a.left + Span(used) >= Grace + inst[q].beat
    BY <2>1, <2>2, <2>3 DEF Leased
  <2> QED
    BY <1>5, <2>2, <2>4
<1>6. CASE a.follow /\ a.left = 0
  <2>1. reconcileOne(p, o) = b /\ FirstTerminal(journal) = 0 /\ ~Done(b)
    BY <1>2, <1>3, <1>4, <1>6 DEF Done
  <2>2. \A q \in Instances \ {p} : ~(inst[q].beats /\ Span(used) < Grace)
    BY <1>5, <1>6
  <2> QED
    BY <1>1, <1>2, <1>4, <2>1, <2>2 DEF Same, Quiet
<1>7. CASE ~(a.follow /\ a.left = 0)
  <2>1. reconcileOne(p, o) = a
    BY <1>3, <1>7
  <2>2. Quiet(a) /\ a.up = "up" /\ a.known /\ a.attempt = 0 /\ ~a.beats /\ a.runner = "none"
    BY <1>1, <1>2 DEF Same, Quiet
  <2> QED
    BY <1>2, <1>5, <2>1, <2>2
<1> QED
  BY <1>6, <1>7

(* A reader of the journal keeps the invariant. *)
LEMMA ReconcileOk ==
  ASSUME IInv, NEW p \in Instances, inst[p].follow, NEW i, i = reconcileOne(p, inst[p]),
         OnlyRemembers(p, i)
  PROVE  IInv'
<1> USE IInvIs
<1>1. Wrote(p, journal, age, journal', age') /\ used' = used /\ journal' = journal
      /\ inst' = [inst EXCEPT ![p] = i]
  BY DEF OnlyRemembers, Wrote
<1>2. /\ i \in Instance /\ i.up = "up" /\ i.known /\ i.runner = "none" /\ ~i.beats
      /\ Done(i) => ~i.follow /\ Quiet(i) /\ i.outcome = Outcome(journal)
      /\ ~Done(i) => FirstTerminal(journal) = 0
      /\ i.follow => /\ Quiet(i) /\ ~Done(i) /\ i.attempt = 0 /\ i.cursor = Len(journal)
                     /\ \A q \in Instances \ {p} : inst[q].beats /\ Span(used) < Grace =>
                          i.left + Span(used) >= Grace + inst[q].beat
      /\ ~Done(i) /\ ~i.follow => i.attempt = 1
      /\ \A q \in Instances \ {p} : inst[q].beats /\ Span(used) < Grace => Quiet(i)
  BY ReconcileIs
<1>3. Sane(i, Len(journal))
  BY <1>2 DEF Sane
<1>4. EndIsNews(p, i, journal)
  BY <1>2, FirstIs DEF EndIsNews
<1>5. \A q \in Instances \ {p} : inst[q].beats /\ Span(used) < Grace =>
        Quiet(i) /\ Leased(p, i, journal, Span(used), inst[q].beat)
  BY <1>2 DEF Leased
<1>6. Decided(p, i, journal)
  BY <1>2 DEF Decided
<1> QED
  BY <1>1, <1>2, <1>3, <1>4, <1>5, <1>6, OneMoves

(* A user's record that a follower has reconciled before keeps the invariant. *)
LEMMA FollowerRecord ==
  ASSUME IInv, NEW p \in Instances, inst[p].follow, NEW i \in Instance,
         LET o == reconcileOne(p, inst[p])
         IN ~Done(o) /\ i = [o EXCEPT !.runner = i.runner, !.aborted = i.aborted]
            /\ i.runner = o.runner,
         NEW type \in RecordTypes, Logged(p, i, type)
  PROVE  IInv'
<1> USE IInvIs
<1> DEFINE o == reconcileOne(p, inst[p])
<1>1. /\ o \in Instance /\ o.up = "up" /\ o.known /\ o.runner = "none" /\ ~o.beats
      /\ ~Done(o) /\ FirstTerminal(journal) = 0
      /\ o.follow => /\ Quiet(o) /\ o.attempt = 0 /\ o.cursor = Len(journal)
                     /\ \A q \in Instances \ {p} : inst[q].beats /\ Span(used) < Grace =>
                          o.left + Span(used) >= Grace + inst[q].beat
      /\ ~o.follow => o.attempt = 1
      /\ \A q \in Instances \ {p} : inst[q].beats /\ Span(used) < Grace => Quiet(o)
  BY ReconcileIs
<1>2. /\ i = [o EXCEPT !.runner = i.runner, !.aborted = i.aborted] /\ i.runner = o.runner
  OBVIOUS
<1> HIDE DEF o
<1>3. /\ i.up = o.up /\ i.known = o.known /\ i.beats = o.beats /\ i.outcome = o.outcome
      /\ i.follow = o.follow /\ i.attempt = o.attempt /\ i.cursor = o.cursor /\ i.left = o.left
      /\ i.resume = o.resume
  BY <1>1, <1>2 DEF Instance
<1>4. PICK r \in Record : /\ r.writer = p /\ r.type = type
                          /\ inst' = [inst EXCEPT ![p] = Pushed(i, r)] /\ Filed(r)
  BY DEF Logged
<1> DEFINE y == Pushed(i, r)
<1>5. /\ y \in Instance /\ Same(y, i)
      /\ IsTerminal(r) => /\ y.outcome = r.type /\ Done(y) /\ ~y.follow /\ ~y.beats
      /\ ~IsTerminal(r) => /\ y.outcome = i.outcome /\ y.follow = i.follow
                           /\ y.cursor = i.cursor /\ y.left = i.left /\ y.beats = i.beats
  BY PushedIs
<1>6. inst' = [inst EXCEPT ![p] = y]
  BY <1>4
<1> HIDE DEF y
<1>7. /\ y.up = "up" /\ y.known /\ ~y.beats /\ y.runner = o.runner /\ y.resume = o.resume
      /\ y.attempt = o.attempt
      /\ y.follow => ~IsTerminal(r) /\ o.follow /\ ~Done(y) /\ y.cursor = o.cursor /\ y.left = o.left
  BY <1>1, <1>2, <1>3, <1>5 DEF Same, Done
<1>8. \/ journal' = journal /\ used'.lost # 0
      \/ journal' = Append(journal, r)
  BY <1>4 DEF Filed
<1>9. Len(journal) \in Nat /\ Len(journal') \in Nat /\ Len(journal') >= Len(journal)
  BY <1>8, AppendIs
<1>10. Sane(y, Len(journal'))
  BY <1>1, <1>7, <1>9 DEF Sane, Quiet
<1>11. EndIsNews(p, y, journal')
  <2> SUFFICES ASSUME y.follow, NEW k \in DOMAIN journal', IsTerminal(journal'[k]) PROVE FALSE
    BY DEF EndIsNews
  <2>1. \A l \in DOMAIN journal : ~IsTerminal(journal[l])
    BY <1>1, FirstIs
  <2> QED
    BY <1>7, <1>8, <2>1, AppendIs
<1>12. \A q \in Instances \ {p} : inst[q].beats /\ Span(used) < Grace =>
         Quiet(y) /\ Leased(p, y, journal', Span(used), inst[q].beat)
  BY <1>1, <1>7 DEF Leased, Quiet
<1>13. ASSUME used'.lost = 0 PROVE Decided(p, y, journal')
  <2>1. journal' = Append(journal, r)
    BY <1>8, <1>13
  <2>2. CASE IsTerminal(r)
    BY <1>1, <1>5, <2>1, <2>2, EndComes DEF Decided
  <2>3. CASE ~IsTerminal(r)
    BY <1>1, <1>3, <1>5, <1>7, <2>3 DEF Decided, Done
  <2> QED
    BY <2>2, <2>3
<1>14. /\ Wrote(p, journal, age, journal', age') /\ used' \in Counts
       /\ used'.missed = used.missed /\ (used'.lost = 0 => used.lost = 0)
  BY <1>4, FiledWrites DEF Logged
<1> QED
  BY <1>5, <1>6, <1>7, <1>10, <1>11, <1>12, <1>13, <1>14, OneMoves

-----------------------------------------------------------------------------
(* A process that runs the build, or is about to, does not follow it, and none heartbeats beside it. *)
LEMMA Busy ==
  ASSUME IInv, NEW p \in Instances, ~Quiet(inst[p])
  PROVE  /\ inst[p] \in Instance /\ inst[p].known /\ ~inst[p].follow
         /\ \A q \in Instances \ {p} : ~(inst[q].beats /\ Span(used) < Grace)
BY IInvIs, EntryIs DEF Sane

(* emit by such a process. *)
LEMMA EmitOk ==
  ASSUME IInv, NEW p \in Instances, ~Quiet(inst[p]), NEW i \in Instance, Kept(i, inst[p]),
         NEW type \in RecordTypes, NEW n \in Nat, emit(p, i, type, n)
  PROVE  IInv'
<1>1. Caught(p, i) = i
  BY Busy DEF Caught, Kept
<1>2. CASE Done(i)
  BY <1>1, <1>2, Busy, OwnChange DEF emit
<1>3. CASE ~Done(i)
  <2>1. Logged(p, i, type)
    BY <1>1, <1>3, IInvIs, WritesLogs DEF emit
  <2>2. ~Done(inst[p])
    BY <1>3 DEF Kept, Done
  <2> QED
    BY <2>1, <2>2, Busy, OwnRecord
<1> QED
  BY <1>2, <1>3

(* The same for a record that is written without asking whether the build is over. *)
LEMMA SealOk ==
  ASSUME IInv, NEW p \in Instances, ~Quiet(inst[p]), NEW i \in Instance, Kept(i, inst[p]),
         ~Done(i), sealInterrupted(p, i)
  PROVE  IInv'
<1>1. Logged(p, i, "interrupted")
  BY IInvIs, WritesLogs DEF sealInterrupted, RecordTypes, Terminal
<1>2. ~Done(inst[p]) /\ "interrupted" \in RecordTypes
  BY DEF Kept, Done, RecordTypes, Terminal
<1> QED
  BY <1>1, <1>2, Busy, OwnRecord

(* The build's own steps. *)
LEMMA RunnerOk ==
  ASSUME IInv, NEW p \in Instances, RunnerAsks(p) \/ RunnerFinishes(p) \/ RunnerReturns(p)
  PROVE  IInv'
<1>1. ~Quiet(inst[p]) /\ inst[p] \in Instance /\ inst[p].known /\ ~inst[p].follow
      /\ \A q \in Instances \ {p} : ~(inst[q].beats /\ Span(used) < Grace)
  BY Busy DEF Quiet, RunnerAsks, RunnerFinishes, RunnerReturns
<1>2. ASSUME NEW x \in {"none", "ask"}
      PROVE  [inst[p] EXCEPT !.runner = x] \in Instance /\ Kept([inst[p] EXCEPT !.runner = x], inst[p])
  BY <1>1 DEF Instance, Kept
<1>3. {"need_input", "done"} \subseteq RecordTypes /\ {0, 1} \subseteq Nat
  BY DEF RecordTypes, Terminal
<1>4. CASE RunnerAsks(p)
  <2> DEFINE x == IF Done(inst[p]) THEN "none" ELSE "ask"
  <2>1. x \in {"none", "ask"}
    OBVIOUS
  <2>2. emit(p, [inst[p] EXCEPT !.runner = x], "need_input", 1)
    BY <1>4 DEF RunnerAsks
  <2> HIDE DEF x
  <2> QED
    BY <1>1, <1>2, <1>3, <2>1, <2>2, EmitOk
<1>5. CASE RunnerFinishes(p)
  <2>1. emit(p, [inst[p] EXCEPT !.runner = "none"], "done", 0)
    BY <1>5 DEF RunnerFinishes
  <2> QED
    BY <1>1, <1>2, <1>3, <2>1, EmitOk
<1>6. CASE RunnerReturns(p)
  <2>1. OnlyRemembers(p, [inst[p] EXCEPT !.runner = "none"])
    BY <1>6 DEF RunnerReturns
  <2> QED
    BY <1>1, <1>2, <2>1, OwnChange
<1> QED
  BY <1>4, <1>5, <1>6

(* The answers of resume(). *)
LEMMA ResumeOk ==
  ASSUME IInv, NEW p \in Instances,
         ResumeLaunches(p) \/ ResumePauses(p) \/ ResumeRefuses(p) \/ ResumeRetries(p)
  PROVE  IInv'
<1>1. ~Quiet(inst[p]) /\ inst[p] \in Instance /\ inst[p].known /\ ~inst[p].follow
      /\ \A q \in Instances \ {p} : ~(inst[q].beats /\ Span(used) < Grace)
  BY Busy DEF Quiet, ResumeLaunches, ResumePauses, ResumeRefuses, ResumeRetries
<1> DEFINE n == [inst[p] EXCEPT !.resume = "no"]
           l == [inst[p] EXCEPT !.resume = "no", !.runner = "run", !.aborted = FALSE]
           r == [n EXCEPT !.resume = "retry"]
           t == attemptResume(inst[p], inst[p].attempt + 1)
<1>2. n \in Instance /\ Kept(n, inst[p])
  BY <1>1 DEF Instance, Kept
<1>3. l \in Instance /\ Kept(l, inst[p])
  BY <1>1 DEF Instance, Kept
<1>4. r \in Instance /\ Kept(r, inst[p])
  BY <1>1 DEF Instance, Kept
<1>5. t \in Instance /\ Kept(t, inst[p])
  <2> DEFINE y == NotFollowing(inst[p])
             z == inst[p].attempt + 1
  <2>1. /\ y \in Instance /\ Same(y, inst[p]) /\ y.outcome = inst[p].outcome
        /\ y.unread = inst[p].unread /\ y.beat = inst[p].beat /\ y.beats = inst[p].beats /\ ~y.follow
    BY <1>1, NotFollowingIs
  <2>2. z \in Nat /\ z # 0
    BY <1>1, EntryIs
  <2>3. t = [y EXCEPT !.resume = "asked", !.attempt = z]
    BY DEF attemptResume
  <2> HIDE DEF y, z, t
  <2>4. t \in Instance /\ t.up = y.up /\ t.known = y.known /\ t.outcome = y.outcome
        /\ t.follow = y.follow /\ t.unread = y.unread /\ t.beat = y.beat /\ t.beats = y.beats
        /\ t.attempt = z
    BY <2>1, <2>2, <2>3 DEF Instance
  <2>5. y.follow = inst[p].follow
    BY <1>1, <2>1, EntryIs
  <2> QED
    BY <2>1, <2>2, <2>4, <2>5 DEF Kept, Same
<1>6. {"resumed", "paused"} \subseteq RecordTypes /\ 0 \in Nat
  BY DEF RecordTypes
<1> HIDE DEF t
<1>7. CASE ResumeLaunches(p)
  <2>1. emit(p, l, "resumed", 0)
    BY <1>7 DEF ResumeLaunches
  <2> HIDE DEF l
  <2> QED
    BY <1>1, <1>3, <1>6, <2>1, EmitOk
<1>8. CASE ResumePauses(p)
  <2>1. \/ OnlyRemembers(p, n) \/ emit(p, r, "paused", 0) \/ (~Done(n) /\ sealInterrupted(p, n))
    BY <1>8 DEF ResumePauses
  <2> HIDE DEF n, r
  <2>2. CASE OnlyRemembers(p, n)
    BY <1>1, <1>2, <2>2, OwnChange
  <2>3. CASE emit(p, r, "paused", 0)
    BY <1>1, <1>4, <1>6, <2>3, EmitOk
  <2>4. CASE ~Done(n) /\ sealInterrupted(p, n)
    BY <1>1, <1>2, <2>4, SealOk
  <2> QED
    BY <2>1, <2>2, <2>3, <2>4
<1>9. CASE ResumeRefuses(p)
  <2>1. OnlyRemembers(p, n) \/ (~Done(n) /\ sealInterrupted(p, n))
    BY <1>9 DEF ResumeRefuses
  <2> HIDE DEF n
  <2> QED
    BY <1>1, <1>2, <2>1, OwnChange, SealOk
<1>10. CASE ResumeRetries(p)
  <2>1. OnlyRemembers(p, n) \/ OnlyRemembers(p, t)
    BY <1>10 DEF ResumeRetries, t
  <2> HIDE DEF n
  <2> QED
    BY <1>1, <1>2, <1>5, <2>1, OwnChange
<1> QED
  BY <1>7, <1>8, <1>9, <1>10

(* The user's answer and stop. *)
LEMMA UserOk ==
  ASSUME IInv, NEW p \in Instances, answerJob(p) \/ stopJob(p)
  PROVE  IInv'
<1> USE IInvIs
<1> DEFINE o == reconcileOne(p, inst[p])
           x == IF o.runner = "ask" THEN "run" ELSE o.runner
           w == [o EXCEPT !.runner = IF @ = "ask" THEN "run" ELSE @]
           s == [o EXCEPT !.aborted = o.runner # "none"]
<1>1. /\ inst[p] \in Instance /\ inst[p].known /\ ~Done(inst[p])
      /\ \/ OnlyRemembers(p, o) /\ Done(o)
         \/ ~Done(o) /\ Writes(p, w, "answer", 1)
         \/ ~Done(o) /\ Writes(p, s, "stopped", 0)
  BY DEF answerJob, stopJob
<1>2. {"answer", "stopped"} \subseteq RecordTypes /\ {0, 1} \subseteq Nat
  BY DEF RecordTypes, Terminal
<1>3. o \in Instance
  BY <1>1, ReconcileIs DEF reconcileOne
<1>4. w \in Instance /\ s \in Instance
  <2> HIDE DEF o
  <2> QED
    BY <1>3 DEF Instance
<1>5. \/ OnlyRemembers(p, o) /\ Done(o)
      \/ ~Done(o) /\ (Logged(p, w, "answer") \/ Logged(p, s, "stopped"))
  <2> HIDE DEF o, w, s
  <2> QED
    BY <1>1, <1>2, <1>4, WritesLogs
<1>6. CASE inst[p].follow
  <2>1. o.runner = "none"
    BY <1>6, ReconcileIs
  <2>2. w.runner = o.runner /\ w = [o EXCEPT !.runner = w.runner, !.aborted = w.aborted]
    <3> HIDE DEF o
    <3> QED
      BY <1>3, <2>1 DEF Instance
  <2>3. s.runner = o.runner /\ s = [o EXCEPT !.runner = s.runner, !.aborted = s.aborted]
    <3> HIDE DEF o
    <3> QED
      BY <1>3, <2>1 DEF Instance
  <2> HIDE DEF w, s
  <2>4. CASE OnlyRemembers(p, o)
    BY <1>6, <2>4, ReconcileOk
  <2>5. CASE ~Done(o) /\ Logged(p, w, "answer")
    BY <1>2, <1>4, <1>6, <2>2, <2>5, FollowerRecord
  <2>6. CASE ~Done(o) /\ Logged(p, s, "stopped")
    BY <1>2, <1>4, <1>6, <2>3, <2>6, FollowerRecord
  <2> QED
    BY <1>5, <2>4, <2>5, <2>6
<1>7. CASE ~inst[p].follow
  <2>1. o = inst[p]
    BY <1>7 DEF reconcileOne
  <2>2. Kept(w, inst[p]) /\ Kept(s, inst[p])
    BY <1>1, <2>1 DEF Kept, Instance
  <2>3. Quiet(inst[p]) => Quiet(w) /\ Quiet(s)
    BY <1>1, <2>1 DEF Quiet, Instance
  <2>4. \A q \in Instances \ {p} : inst[q].beats /\ Span(used) < Grace => Quiet(w) /\ Quiet(s)
    BY <2>3
  <2> HIDE DEF w, s
  <2>5. Logged(p, w, "answer") \/ Logged(p, s, "stopped")
    BY <1>1, <1>5, <2>1
  <2> QED
    BY <1>1, <1>2, <1>4, <1>7, <2>2, <2>4, <2>5, OwnRecord
<1> QED
  BY <1>6, <1>7

-----------------------------------------------------------------------------
(* create: nobody else knows the job. *)
LEMMA CreateOk ==
  ASSUME IInv, NEW p \in Instances, Create(p)
  PROVE  IInv'
<1> USE IInvIs
<1> DEFINE i == [inst[p] EXCEPT !.known = TRUE, !.beats = TRUE, !.beat = Beat, !.runner = "opening"]
<1>1. journal = <<>> /\ inst[p].up = "up" /\ (\A q \in Instances : ~inst[q].known)
      /\ Writes(p, i, "job", 0)
  BY DEF Create, Up
<1>2. inst[p] \in Instance /\ ~inst[p].follow /\ ~Done(inst[p])
  BY <1>1 DEF Sane
<1>3. Beat \in 0 .. Beat
  BY IdeJobsConstants
<1>4. /\ i \in Instance /\ i.up = "up" /\ i.known /\ i.beats /\ i.follow = inst[p].follow
      /\ i.outcome = inst[p].outcome
  BY <1>1, <1>2, <1>3 DEF Instance
<1>5. "job" \in RecordTypes
  BY DEF RecordTypes
<1> HIDE DEF i
<1>6. Logged(p, i, "job")
  BY <1>1, <1>4, <1>5, WritesLogs
<1>7. PICK r \in Record : /\ r.writer = p /\ r.type = "job"
                          /\ inst' = [inst EXCEPT ![p] = Pushed(i, r)] /\ Filed(r)
  BY <1>6 DEF Logged
<1> DEFINE y == Pushed(i, r)
<1>8. /\ y \in Instance /\ Same(y, i) /\ y.outcome = i.outcome /\ y.follow = i.follow
  BY <1>4, <1>7, PushedIs DEF IsTerminal, Terminal
<1>9. inst' = [inst EXCEPT ![p] = y]
  BY <1>7
<1> HIDE DEF y
<1>10. Sane(y, Len(journal')) /\ EndIsNews(p, y, journal')
  BY <1>2, <1>4, <1>8 DEF Sane, EndIsNews, Same, Done
<1>11. \A q \in Instances \ {p} : ~inst[q].beats
  BY <1>1 DEF Sane
<1>12. ASSUME used'.lost = 0 PROVE Decided(p, y, journal')
  <2>1. journal' = Append(journal, r)
    BY <1>7, <1>12 DEF Filed
  <2>2. r = [type |-> "job", writer |-> p]
    BY <1>7 DEF Record
  <2>3. Founded(p, journal')
    BY <2>1, <2>2, AppendIs DEF Founded
  <2> QED
    BY <2>3 DEF Decided
<1>13. Wrote(p, journal, age, journal', age')
  BY <1>7, FiledWrites
<1> QED
  BY <1>1, <1>6, <1>8, <1>9, <1>10, <1>11, <1>12, <1>13, OneMoves DEF Logged

(* recordRequest: on the file only. *)
LEMMA RequestOk ==
  ASSUME IInv, NEW p \in Instances, RecordRequest(p)
  PROVE  IInv'
<1> USE IInvIs
<1> DEFINE i == [inst[p] EXCEPT !.runner = "run"]
           r == [type |-> "_request", writer |-> p]
<1>1. PICK kept \in BOOLEAN :
        append(r, kept) /\ used' = [used EXCEPT !.lost = @ + (IF kept THEN 0 ELSE 1)]
  BY DEF RecordRequest
<1>2. ~Quiet(inst[p]) /\ inst' = [inst EXCEPT ![p] = i]
  BY DEF RecordRequest, Quiet
<1>3. inst[p] \in Instance /\ inst[p].known /\ ~inst[p].follow
      /\ \A q \in Instances \ {p} : ~(inst[q].beats /\ Span(used) < Grace)
  BY <1>2, Busy
<1>4. i \in Instance /\ Kept(i, inst[p])
  BY <1>3 DEF Instance, Kept
<1> DEFINE more == IF kept THEN 0 ELSE 1
           y == used.lost + more
<1>5. more \in Nat /\ (more = 0 => kept) /\ used.lost \in Nat
  BY DEF Counts
<1>6. y \in Nat /\ (y = 0 => kept /\ used.lost = 0)
  BY <1>5
<1>7. used' = [used EXCEPT !.lost = y]
  BY <1>1
<1> HIDE DEF more, y, i
<1>8. used' \in Counts /\ used'.missed = used.missed /\ used'.lost = y
  BY <1>6, <1>7 DEF Counts
<1>9. r \in Record /\ Filed(r)
  BY <1>1, <1>6, <1>8, AppendFiles DEF RecordTypes
<1>10. r.writer = p
  OBVIOUS
<1> HIDE DEF r
<1>11. Wrote(p, journal, age, journal', age')
  BY <1>9, <1>10, FiledWrites
<1>12. i.known /\ ~i.follow /\ i.up = inst[p].up /\ i.outcome = inst[p].outcome
       /\ i.beats = inst[p].beats /\ i.beat = inst[p].beat
  BY <1>3, <1>4 DEF Kept
<1>13. Sane(i, Len(journal')) /\ EndIsNews(p, i, journal')
  BY <1>3, <1>12 DEF Sane, EndIsNews, Done
<1>14. ASSUME used'.lost = 0 PROVE Decided(p, i, journal')
  <2>1. used.lost = 0 /\ journal' = Append(journal, r)
    BY <1>6, <1>8, <1>9, <1>14 DEF Filed
  <2>2. Founded(p, journal) => Founded(p, journal')
    BY <1>9, <2>1, AppendIs DEF Founded
  <2>3. Done(inst[p]) /\ inst[p].outcome = Outcome(journal) => inst[p].outcome = Outcome(journal')
    <3>1. Done(inst[p]) /\ inst[p].outcome = Outcome(journal) => FirstTerminal(journal) # 0
      BY OutcomeIs DEF Done
    <3> QED
      BY <1>9, <2>1, <3>1, EndStands
  <2>4. Decided(p, inst[p], journal)
    BY <2>1
  <2> QED
    BY <1>3, <1>4, <2>2, <2>3, <2>4 DEF Decided, Kept, Done
<1> QED
  BY <1>2, <1>3, <1>4, <1>6, <1>8, <1>11, <1>12, <1>13, <1>14, OneMoves

(* A process that dies leaves nothing but its records. *)
LEMMA KillOk ==
  ASSUME IInv, NEW p \in Instances, Kill(p)
  PROVE  IInv'
<1> USE IInvIs
<1> DEFINE d == [NotStarted EXCEPT !.up = "dead"]
           y == used.kills + 1
<1>1. inst' = [inst EXCEPT ![p] = d] /\ used' = [used EXCEPT !.kills = y]
      /\ journal' = journal /\ age' = age
  BY DEF Kill
<1>2. y \in Nat
  BY DEF Counts
<1> HIDE DEF y
<1>3. used' \in Counts /\ used'.missed = used.missed /\ used'.lost = used.lost
  BY <1>1, <1>2 DEF Counts
<1>4. 0 \in 0 .. Grace /\ 0 \in 0 .. Beat /\ <<>> \in Seq(Record)
  BY IdeJobsConstants
<1>5. /\ d \in Instance /\ d.up = "dead" /\ ~d.known /\ ~d.follow /\ ~d.beats /\ ~Done(d) /\ Quiet(d)
  BY <1>4 DEF NotStarted, Instance, Done, Quiet
<1> HIDE DEF d
<1>6. Sane(d, Len(journal)) /\ EndIsNews(p, d, journal) /\ Decided(p, d, journal)
      /\ \A span, beat : Leased(p, d, journal, span, beat)
  BY <1>5 DEF Sane, EndIsNews, Decided, Leased
<1>7. Wrote(p, journal, age, journal', age')
  BY <1>1 DEF Wrote
<1> QED
  BY <1>1, <1>3, <1>5, <1>6, <1>7, OneMoves

(* A journal that cannot be read: the failure is counted, and the build sealed after enough. *)
LEMMA UnreadableOk ==
  ASSUME IInv, NEW p \in Instances, ReconcileUnreadable(p)
  PROVE  IInv'
<1> USE IInvIs
<1> DEFINE o == inst[p]
           u == o.unread + 1
           i == [o EXCEPT !.unread = u]
           r == [type |-> "interrupted", writer |-> p]
<1>1. /\ o.follow
      /\ \/ /\ u >= MaxReadFailures
            /\ \E kept \in BOOLEAN :
                 /\ append(r, kept) /\ inst' = [inst EXCEPT ![p] = Pushed(i, r)]
                 /\ used' = [used EXCEPT !.unread = @ + 1, !.lost = @ + (IF kept THEN 0 ELSE 1)]
         \/ /\ inst' = [inst EXCEPT ![p] = i] /\ used' = [used EXCEPT !.unread = @ + 1]
            /\ journal' = journal /\ age' = age
  <2>1. i.unread = u
    BY DEF Instance
  <2> QED
    BY <2>1 DEF ReconcileUnreadable
<1>2. /\ o \in Instance /\ o.up = "up" /\ o.known /\ Quiet(o) /\ ~o.beats /\ ~Done(o)
      /\ o.attempt = 0 /\ o.cursor <= Len(journal)
  BY <1>1, EntryIs DEF Sane
<1>3. u \in Nat
  BY <1>2, EntryIs
<1> HIDE DEF u
<1>4. /\ i \in Instance /\ Same(i, o) /\ i.unread = u /\ i.outcome = o.outcome
      /\ i.follow = o.follow /\ i.cursor = o.cursor /\ i.left = o.left /\ i.leased = o.leased
      /\ i.beats = o.beats
  BY <1>2, <1>3 DEF Instance, Same
<1> HIDE DEF i
<1> DEFINE n == used.unread + 1
<1>5. n \in Nat /\ used.lost \in Nat
  BY DEF Counts
<1>6. CASE inst' = [inst EXCEPT ![p] = i] /\ used' = [used EXCEPT !.unread = @ + 1]
           /\ journal' = journal /\ age' = age
  <2>1. used' = [used EXCEPT !.unread = n]
    BY <1>6
  <2> HIDE DEF n
  <2>2. used' \in Counts /\ used'.missed = used.missed /\ used'.lost = used.lost
    BY <1>5, <2>1 DEF Counts
  <2>3. Sane(i, Len(journal)) /\ EndIsNews(p, i, journal) /\ Quiet(i) /\ ~i.beats
        /\ Decided(p, i, journal)
        /\ \A span, beat : Leased(p, o, journal, span, beat) => Leased(p, i, journal, span, beat)
    BY <1>1, <1>2, <1>4 DEF Sane, EndIsNews, Same, Done, Quiet, Decided, Leased, Unseen
  <2>4. Wrote(p, journal, age, journal', age')
    BY <1>6 DEF Wrote
  <2>5. \A q \in Instances \ {p} : inst[q].beats /\ Span(used) < Grace =>
          Quiet(i) /\ Leased(p, i, journal', Span(used), inst[q].beat)
    BY <1>6, <2>3
  <2> QED
    BY <1>4, <1>6, <2>2, <2>3, <2>4, <2>5, OneMoves
<1>7. CASE /\ u >= MaxReadFailures
           /\ \E kept \in BOOLEAN :
                /\ append(r, kept) /\ inst' = [inst EXCEPT ![p] = Pushed(i, r)]
                /\ used' = [used EXCEPT !.unread = @ + 1, !.lost = @ + (IF kept THEN 0 ELSE 1)]
  <2>1. PICK kept \in BOOLEAN :
          /\ append(r, kept) /\ inst' = [inst EXCEPT ![p] = Pushed(i, r)]
          /\ used' = [used EXCEPT !.unread = @ + 1, !.lost = @ + (IF kept THEN 0 ELSE 1)]
    BY <1>7
  <2> DEFINE more == IF kept THEN 0 ELSE 1
             z == used.lost + more
  <2>2. z \in Nat /\ (z = 0 => kept /\ used.lost = 0)
    BY <1>5
  <2>3. used' = [used EXCEPT !.unread = n, !.lost = z]
    BY <2>1
  <2> HIDE DEF z, n
  <2>4. used' \in Counts /\ used'.missed = used.missed /\ used'.lost = z
    BY <1>5, <2>2, <2>3 DEF Counts
  <2>5. r \in Record /\ Filed(r)
    BY <2>1, <2>2, <2>4, AppendFiles DEF RecordTypes, Terminal
  <2>6. r.writer = p /\ r.type = "interrupted" /\ IsTerminal(r)
    BY DEF IsTerminal, Terminal
  <2> HIDE DEF r
  <2>7. Wrote(p, journal, age, journal', age')
    BY <2>5, <2>6, FiledWrites
  <2> DEFINE y == Pushed(i, r)
  <2>8. /\ y \in Instance /\ Same(y, i) /\ y.unread = i.unread /\ Done(y) /\ ~y.follow /\ ~y.beats
    BY <1>4, <2>5, <2>6, PushedIs
  <2>9. inst' = [inst EXCEPT ![p] = y]
    BY <2>1
  <2> HIDE DEF y
  <2>10. Sane(y, Len(journal')) /\ EndIsNews(p, y, journal') /\ Quiet(y)
         /\ \A span, beat : Leased(p, y, journal', span, beat)
    BY <1>2, <1>4, <2>8 DEF Sane, EndIsNews, Same, Quiet, Leased
  <2>11. Decided(p, y, journal')
    <3>1. ~(y.unread < MaxReadFailures)
      BY <1>3, <1>4, <1>7, <2>8, IdeJobsConstants
    <3> QED
      BY <2>8, <3>1 DEF Decided
  <2> QED
    BY <2>2, <2>4, <2>7, <2>8, <2>9, <2>10, <2>11, OneMoves
<1> QED
  BY <1>1, <1>6, <1>7

(* The end of what is loaded is the journal's end. *)
LEMMA LoadedEnd ==
  ASSUME journal \in Seq(Record), NEW e, e = publicEvents(journal), e # <<>>
  PROVE  /\ e \in Seq(Record) /\ journal # <<>>
         /\ IsTerminal(e[Len(e)]) => e[Len(e)].type = Outcome(journal) /\ FirstTerminal(journal) # 0
         /\ ~IsTerminal(e[Len(e)]) => FirstTerminal(journal) = 0
<1> DEFINE ks == { k \in DOMAIN journal :
                     NotRequest(journal[k]) /\ \A l \in 1 .. k - 1 : ~IsTerminal(journal[l]) }
           n == Len(journal)
           f == FirstTerminal(journal)
<1>1. e = Picked(journal, ks)
  BY DEF publicEvents
<1>2. n \in Nat /\ DOMAIN journal = 1 .. n
  OBVIOUS
<1>3. /\ f = 0 => \A k \in DOMAIN journal : ~IsTerminal(journal[k])
      /\ f # 0 => /\ f \in DOMAIN journal /\ IsTerminal(journal[f])
                  /\ \A k \in DOMAIN journal : IsTerminal(journal[k]) => f <= k
  BY FirstIs
<1> HIDE DEF f
<1>4. f # 0 => f \in 1 .. n /\ f \in ks /\ \A l \in 1 .. n : l \in ks => l <= f
  <2> SUFFICES ASSUME f # 0 PROVE f \in 1 .. n /\ f \in ks /\ \A l \in 1 .. n : l \in ks => l <= f
    OBVIOUS
  <2>1. f \in 1 .. n /\ f \in DOMAIN journal
    BY <1>2, <1>3
  <2>2. NotRequest(journal[f])
    BY <1>3 DEF NotRequest, IsTerminal, Terminal
  <2>3. \A l \in 1 .. f - 1 : ~IsTerminal(journal[l])
    BY <1>2, <1>3, <2>1
  <2>4. ASSUME NEW l \in 1 .. n, l \in ks PROVE l <= f
    <3>1. f \notin 1 .. l - 1
      BY <1>3, <2>4
    <3> QED
      BY <2>1, <3>1
  <2> QED
    BY <2>1, <2>2, <2>3, <2>4
<1>5. PickGood(e, journal, ks, n)
  BY <1>1, PickedIs
<1> HIDE DEF ks
<1>6. /\ e \in Seq(Record)
      /\ \A m \in 1 .. n : m \in ks /\ (\A l \in 1 .. n : l \in ks => l <= m) => e[Len(e)] = journal[m]
      /\ \E m \in 1 .. n : m \in ks /\ e[Len(e)] = journal[m]
  BY <1>5 DEF PickGood
<1>7. journal # <<>>
  BY <1>6
<1>8. CASE f = 0
  BY <1>2, <1>3, <1>6, <1>7, <1>8 DEF f
<1>9. CASE f # 0
  <2>1. e[Len(e)] = journal[f] /\ Outcome(journal) = journal[f].type
    BY <1>4, <1>6, <1>9 DEF Outcome, f
  <2> QED
    BY <1>3, <1>6, <1>7, <1>9, <2>1 DEF f
<1> QED
  BY <1>8, <1>9

(* A process boots, at a moment when the creator's last record may be as old as its next is late. *)
LEMMA BootOk ==
  ASSUME IInv, NEW p \in Instances, Boot(p)
  PROVE  IInv'
<1> USE IInvIs
<1> DEFINE e == publicEvents(journal)
           last == e[Len(e)]
           fresh == [NotStarted EXCEPT !.up = "up"]
           out == IF IsTerminal(last) THEN last.type ELSE "none"
           rest == Grace - age
           i == [fresh EXCEPT !.known = TRUE, !.events = e, !.outcome = out,
                              !.cursor = Len(journal), !.left = rest]
           fl == [i EXCEPT !.follow = TRUE]
           at == attemptResume(i, 1)
<1>1. OnlyRemembers(p, loadFromDisk)
  BY DEF Boot
<1>2. loadFromDisk = IF e = <<>> THEN fresh ELSE IF Done(i) THEN i ELSE IF age < Grace THEN fl ELSE at
  BY DEF loadFromDisk
<1>3. Wrote(p, journal, age, journal', age') /\ used' = used /\ journal' = journal
      /\ inst' = [inst EXCEPT ![p] = loadFromDisk]
  BY <1>1 DEF OnlyRemembers, Wrote
<1>4. ASSUME NEW y \in Instance, y = loadFromDisk, Sane(y, Len(journal)), EndIsNews(p, y, journal),
             ~y.beats, Decided(p, y, journal),
             \A q \in Instances \ {p} : inst[q].beats /\ Span(used) < Grace =>
               Quiet(y) /\ Leased(p, y, journal, Span(used), inst[q].beat)
      PROVE  IInv'
  BY <1>3, <1>4, OneMoves
<1>5. 0 \in 0 .. Grace /\ 0 \in 0 .. Beat /\ <<>> \in Seq(Record)
  BY IdeJobsConstants
<1>6. /\ fresh \in Instance /\ fresh.up = "up" /\ ~fresh.known /\ ~fresh.follow /\ ~fresh.beats
      /\ ~Done(fresh) /\ Quiet(fresh) /\ fresh.attempt = 0 /\ ~fresh.leased
  BY <1>5 DEF NotStarted, Instance, Done, Quiet
<1> HIDE DEF fresh, out, rest, e
<1>7. CASE e = <<>>
  <2>1. Sane(fresh, Len(journal)) /\ EndIsNews(p, fresh, journal) /\ Decided(p, fresh, journal)
        /\ \A span, beat : Leased(p, fresh, journal, span, beat)
    BY <1>6 DEF Sane, EndIsNews, Decided, Leased
  <2> QED
    BY <1>2, <1>4, <1>6, <1>7, <2>1
<1>8. CASE e # <<>>
  <2>1. /\ e \in Seq(Record) /\ journal # <<>>
        /\ IsTerminal(last) => last.type = Outcome(journal) /\ FirstTerminal(journal) # 0
        /\ ~IsTerminal(last) => FirstTerminal(journal) = 0
    BY <1>8, LoadedEnd DEF e
  <2>2. out = Outcome(journal) /\ out \in Terminal \cup {"none"}
    BY <2>1, OutcomeIs DEF out
  <2>3. rest \in 0 .. Grace /\ Len(journal) \in Nat
    BY IdeJobsConstants DEF rest
  <2>4. /\ i \in Instance /\ i.up = "up" /\ i.known /\ ~i.follow /\ ~i.beats /\ Quiet(i)
        /\ i.attempt = 0 /\ i.outcome = Outcome(journal) /\ i.cursor = Len(journal) /\ i.left = rest
    BY <1>6, <2>1, <2>2, <2>3 DEF Instance, Quiet
  <2> HIDE DEF i
  <2>5. /\ fl \in Instance /\ fl.up = "up" /\ fl.known /\ fl.follow /\ ~fl.beats /\ Quiet(fl)
        /\ fl.attempt = 0 /\ fl.outcome = i.outcome /\ fl.cursor = Len(journal) /\ fl.left = rest
    BY <2>4 DEF Instance, Quiet
  <2>6. /\ at \in Instance /\ at.up = "up" /\ at.known /\ ~at.follow /\ ~at.beats /\ at.attempt = 1
    <3> DEFINE n == NotFollowing(i)
    <3>1. n \in Instance /\ Same(n, i) /\ n.beats = i.beats /\ ~n.follow
      BY <2>4, NotFollowingIs
    <3>2. at = [n EXCEPT !.resume = "asked", !.attempt = 1]
      BY DEF attemptResume
    <3> HIDE DEF n, at
    <3> QED
      BY <2>4, <3>1, <3>2 DEF Instance, Same
  <2> HIDE DEF fl, at
  <2>7. CASE Done(i)
    <3>1. Sane(i, Len(journal)) /\ EndIsNews(p, i, journal) /\ Decided(p, i, journal)
          /\ \A span, beat : Leased(p, i, journal, span, beat)
      BY <2>4, <2>7 DEF Sane, EndIsNews, Decided, Leased
    <3> QED
      BY <1>2, <1>4, <1>8, <2>4, <2>7, <3>1
  <2>8. CASE ~Done(i)
    <3>1. FirstTerminal(journal) = 0
      BY <2>4, <2>8, OutcomeIs DEF Done
    <3>2. ASSUME NEW q \in Instances \ {p}, inst[q].beats, Span(used) < Grace
          PROVE  /\ age + inst[q].beat <= Span(used) /\ inst[q].beat \in 0 .. Beat
                 /\ Span(used) \in Nat
      BY <2>1, <3>1, <3>2, EntryIs, SpanIs DEF Recent
    <3>3. CASE age < Grace
      <4>1. ~Done(fl)
        BY <2>5, <2>8 DEF Done
      <4>2. Sane(fl, Len(journal)) /\ EndIsNews(p, fl, journal) /\ Decided(p, fl, journal)
        BY <2>3, <2>5, <3>1, <4>1, FirstIs DEF Sane, EndIsNews, Decided
      <4>3. \A q \in Instances \ {p} : inst[q].beats /\ Span(used) < Grace =>
              Quiet(fl) /\ Leased(p, fl, journal, Span(used), inst[q].beat)
        <5> SUFFICES ASSUME NEW q \in Instances \ {p}, inst[q].beats, Span(used) < Grace
                     PROVE  fl.left + Span(used) >= Grace + inst[q].beat
          BY <2>5 DEF Leased
        <5>1. age + inst[q].beat <= Span(used) /\ inst[q].beat \in Nat /\ Span(used) \in Nat
          BY <3>2, IdeJobsConstants
        <5> QED
          BY SMTT(60), <2>5, <5>1, IdeJobsConstants DEF rest
      <4> QED
        BY <1>2, <1>4, <1>8, <2>5, <2>8, <3>3, <4>2, <4>3
    <3>4. CASE ~(age < Grace)
      <4>1. \A q \in Instances \ {p} : ~(inst[q].beats /\ Span(used) < Grace)
        BY <3>2, <3>4, IdeJobsConstants
      <4>2. Sane(at, Len(journal)) /\ EndIsNews(p, at, journal) /\ Decided(p, at, journal)
        BY <2>6 DEF Sane, EndIsNews, Decided
      <4> QED
        BY <1>2, <1>4, <1>8, <2>6, <2>8, <3>4, <4>1, <4>2
    <3> QED
      BY <3>3, <3>4
  <2> QED
    BY <2>7, <2>8
<1> QED
  BY <1>7, <1>8

-----------------------------------------------------------------------------
(* An entry in which time has passed or a lease record has come. *)
Aged(i, o) ==
  /\ i \in Instance /\ Same(i, o) /\ i.outcome = o.outcome /\ i.follow = o.follow
  /\ i.cursor = o.cursor /\ i.unread = o.unread /\ i.beats = o.beats

(* Where entries only age and the journal stands, the creator's lease is all there is to see to. *)
LEMMA AllAge ==
  ASSUME IInv, journal' = journal, age' \in 0 .. Grace, used' \in Counts, used'.lost = used.lost,
         inst' \in [Instances -> Instance], \A p \in Instances : Aged(inst'[p], inst[p]),
         Span(used') < Grace => \A p \in Instances : inst[p].beats =>
           Alone(p, journal, age', inst', Span(used'))
  PROVE  IInv'
<1> USE IInvIs
<1>1. ASSUME NEW p \in Instances
      PROVE  /\ Sane(inst'[p], Len(journal)) /\ EndIsNews(p, inst'[p], journal)
             /\ Decided(p, inst[p], journal) => Decided(p, inst'[p], journal)
             /\ inst'[p].beats = inst[p].beats
  BY DEF Aged, Same, Sane, EndIsNews, Unseen, Decided, Done, Quiet
<1> QED
  BY <1>1 DEF IInv, Good

(* A heartbeat renews the lease; a missed one lengthens the span. *)
LEMMA HeartbeatOk ==
  ASSUME IInv, NEW p \in Instances, NEW kept \in BOOLEAN, Heartbeat(p, kept)
  PROVE  IInv'
<1> USE IInvIs
<1>1. inst[p].beats /\ inst[p].beat = 0 /\ journal' = journal
      /\ age' = (IF kept /\ FirstTerminal(journal) = 0 THEN 0 ELSE age)
      /\ inst' = [q \in Instances |->
                   IF q = p THEN [inst[q] EXCEPT !.beat = Beat]
                   ELSE [inst[q] EXCEPT !.leased = @ \/ (kept /\ inst[q].follow)]]
      /\ used' = [used EXCEPT !.missed = @ + (IF kept THEN 0 ELSE 1)]
  BY DEF Heartbeat
<1>2. Beat \in 0 .. Beat /\ 0 \in 0 .. Grace /\ Beat \in Nat /\ Grace \in Nat
  BY IdeJobsConstants
<1>3. age' \in 0 .. Grace
  BY <1>1, <1>2
<1>4. ASSUME NEW q \in Instances
      PROVE  /\ Aged(inst'[q], inst[q]) /\ inst'[q].left = inst[q].left
             /\ q = p => inst'[q].beat = Beat
             /\ q # p => inst'[q].leased = (inst[q].leased \/ (kept /\ inst[q].follow))
  <2>1. inst[q] \in Instance /\ inst[q].leased \in BOOLEAN /\ inst[q].follow \in BOOLEAN
    BY EntryIs
  <2>2. CASE q = p
    <3>1. inst'[q] = [inst[q] EXCEPT !.beat = Beat]
      BY <1>1, <2>2
    <3> QED
      BY <1>2, <2>1, <2>2, <3>1 DEF Aged, Same, Instance
  <2>3. CASE q # p
    <3> DEFINE l == inst[q].leased \/ (kept /\ inst[q].follow)
    <3>1. inst'[q] = [inst[q] EXCEPT !.leased = l]
      BY <1>1, <2>3
    <3>2. l \in BOOLEAN
      BY <2>1
    <3> HIDE DEF l
    <3>3. Aged(inst'[q], inst[q]) /\ inst'[q].left = inst[q].left /\ inst'[q].leased = l
      BY <2>1, <3>1, <3>2 DEF Aged, Same, Instance
    <3> QED
      BY <2>3, <3>3 DEF l
  <2> QED
    BY <2>2, <2>3
<1>5. inst' \in [Instances -> Instance]
  <2>1. DOMAIN inst' = Instances /\ inst' = [q \in DOMAIN inst' |-> inst'[q]]
    BY <1>1
  <2> QED
    BY <1>4, <2>1 DEF Aged
<1> DEFINE more == IF kept THEN 0 ELSE 1
           m == used.missed + more
<1>6. used.missed \in Nat /\ more \in Nat /\ m \in Nat
  BY DEF Counts
<1>7. used' \in Counts /\ used'.lost = used.lost /\ used'.missed = m
  <2>1. used' = [used EXCEPT !.missed = m]
    BY <1>1
  <2> HIDE DEF m
  <2> QED
    BY <1>6, <2>1 DEF Counts
<1>8. Span(used') = Span(used) + (IF kept THEN 0 ELSE Beat) /\ Span(used) \in Nat /\ Span(used) >= Beat
  <2>1. (used.missed + 1) * Beat + Beat = (used.missed + 1 + 1) * Beat
    BY <1>2, <1>6
  <2>2. CASE kept
    BY <1>6, <1>7, <2>2, SpanIs DEF Span
  <2>3. CASE ~kept
    BY <1>6, <1>7, <2>1, <2>3, SpanIs DEF Span
  <2> QED
    BY <2>2, <2>3
<1> DEFINE s == Span(used')
           t == Span(used)
<1>9. ASSUME s < Grace, NEW q \in Instances, inst[q].beats
      PROVE  Alone(q, journal, age', inst', s)
  <2>1. q = p /\ inst'[p].beat = Beat
    BY <1>1, <1>4, <1>9
  <2>2. t < Grace /\ t \in Nat /\ t >= Beat /\ s = t + (IF kept THEN 0 ELSE Beat)
    BY <1>2, <1>8, <1>9
  <2>3. Alone(p, journal, age, inst, t)
    BY <1>1, <2>2 DEF IInv, Good
  <2> HIDE DEF s, t
  <2>4. Recent(journal, age', s, Beat)
    BY <1>1, <1>2, <2>2, <2>3 DEF Alone, Recent
  <2>5. ASSUME NEW r \in Instances \ {p}
        PROVE  Quiet(inst'[r]) /\ Leased(r, inst'[r], journal, s, Beat)
    <3>1. Quiet(inst[r]) /\ Leased(r, inst[r], journal, t, 0)
      BY <1>1, <2>3 DEF Alone
    <3>2. Quiet(inst'[r]) /\ Unseen(r, inst'[r], journal) = Unseen(r, inst[r], journal)
      BY <1>4, <3>1 DEF Quiet, Aged, Same, Unseen
    <3>3. inst[r].left \in 0 .. Grace
      BY EntryIs
    <3>4. CASE kept
      BY <1>4, <3>2, <3>4 DEF Leased, Aged
    <3>5. CASE ~kept
      <4>1. inst'[r].left = inst[r].left /\ inst'[r].follow = inst[r].follow
            /\ (inst[r].leased => inst'[r].leased)
        BY <1>4 DEF Aged
      <4>2. inst[r].left + t >= Grace + 0 => inst'[r].left + s >= Grace + Beat
        BY SMTT(60), <1>2, <2>2, <3>3, <3>5, <4>1
      <4> QED
        BY <3>1, <3>2, <4>1, <4>2 DEF Leased
    <3> QED
      BY <3>2, <3>4, <3>5
  <2> QED
    BY <2>1, <2>4, <2>5 DEF Alone
<1> QED
  BY <1>1, <1>3, <1>4, <1>5, <1>7, <1>9, AllAge

(* Time passes: the creator's next record comes as much nearer as the leases grow shorter. *)
LEMMA TickOk ==
  ASSUME IInv, Tick
  PROVE  IInv'
<1>1. /\ \A p \in Instances : inst[p].up = "up" /\ inst[p].beats => inst[p].beat > 0
      /\ age' = (IF age < Grace /\ FirstTerminal(journal) = 0 THEN age + 1 ELSE age)
      /\ inst' = [p \in Instances |->
                   [inst[p] EXCEPT !.beat = IF @ > 0 /\ inst[p].beats THEN @ - 1 ELSE @,
                                   !.left = IF @ > 0 THEN @ - 1 ELSE @]]
      /\ journal' = journal /\ used' = used
  BY DEF Tick, Up
<1>2. Grace \in Nat /\ Beat \in Nat
  BY IdeJobsConstants
<1>3. age' \in 0 .. Grace
  <2>1. age \in 0 .. Grace
    BY IInvIs
  <2>2. age' = age \/ (age < Grace /\ age' = age + 1)
    BY <1>1
  <2> QED
    BY <1>2, <2>1, <2>2
<1>4. ASSUME NEW q \in Instances
      PROVE  /\ Aged(inst'[q], inst[q]) /\ inst'[q].leased = inst[q].leased
             /\ inst[q].beats => inst'[q].beat = inst[q].beat - 1 /\ inst[q].beat > 0
             /\ inst'[q].left = IF inst[q].left > 0 THEN inst[q].left - 1 ELSE inst[q].left
  <2> DEFINE o == inst[q]
             b == IF o.beat > 0 /\ o.beats THEN o.beat - 1 ELSE o.beat
             l == IF o.left > 0 THEN o.left - 1 ELSE o.left
  <2>1. o \in Instance /\ o.beat \in 0 .. Beat /\ o.left \in 0 .. Grace
    BY IInvIs, EntryIs
  <2>2. b \in 0 .. Beat /\ l \in 0 .. Grace
    BY <1>2, <2>1
  <2>3. inst'[q] = [o EXCEPT !.beat = b, !.left = l]
    BY <1>1
  <2>4. o.beats => o.beat > 0
    BY <1>1, <2>1, IInvIs, EntryIs DEF Sane
  <2> HIDE DEF b, l, o
  <2>5. Aged(inst'[q], o) /\ inst'[q].leased = o.leased /\ inst'[q].beat = b /\ inst'[q].left = l
    BY <2>1, <2>2, <2>3 DEF Aged, Same, Instance
  <2> QED
    BY <2>4, <2>5 DEF b, l, o
<1>5. inst' \in [Instances -> Instance]
  <2>1. DOMAIN inst' = Instances /\ inst' = [q \in DOMAIN inst' |-> inst'[q]]
    BY <1>1
  <2> QED
    BY <1>4, <2>1 DEF Aged
<1> DEFINE s == Span(used)
<1>6. ASSUME s < Grace, NEW p \in Instances, inst[p].beats
      PROVE  Alone(p, journal, age', inst', s)
  <2>1. Alone(p, journal, age, inst, s)
    BY <1>6 DEF IInv, Good
  <2>2. s \in Nat
    BY IInvIs, SpanIs
  <2> HIDE DEF s
  <2>3. inst[p].beat \in 0 .. Beat /\ inst[p].beat > 0 /\ inst'[p].beat = inst[p].beat - 1
    BY <1>4, <1>6, IInvIs, EntryIs
  <2>4. Recent(journal, age', s, inst'[p].beat)
    <3>1. age \in 0 .. Grace
      BY IInvIs
    <3>2. age' = age + 1 \/ age' = age
      BY <1>1
    <3>3. Recent(journal, age, s, inst[p].beat)
      BY <2>1 DEF Alone
    <3> QED
      BY <1>2, <2>2, <2>3, <3>1, <3>2, <3>3 DEF Recent
  <2>5. ASSUME NEW r \in Instances \ {p}
        PROVE  Quiet(inst'[r]) /\ Leased(r, inst'[r], journal, s, inst'[p].beat)
    <3>1. Quiet(inst[r]) /\ Leased(r, inst[r], journal, s, inst[p].beat)
      BY <2>1 DEF Alone
    <3>2. Quiet(inst'[r]) /\ Unseen(r, inst'[r], journal) = Unseen(r, inst[r], journal)
      BY <1>4, <3>1 DEF Quiet, Aged, Same, Unseen
    <3>3. inst[r].left \in 0 .. Grace
      BY IInvIs, EntryIs
    <3>4. inst[r].left + s >= Grace + inst[p].beat => inst'[r].left + s >= Grace + inst'[p].beat
      BY <1>2, <1>4, <1>6, <2>2, <2>3, <3>3
    <3> QED
      BY <1>4, <3>1, <3>2, <3>4 DEF Leased, Aged
  <2> QED
    BY <2>4, <2>5 DEF Alone
<1> QED
  BY <1>1, <1>3, <1>4, <1>5, <1>6, IInvIs, AllAge

-----------------------------------------------------------------------------
(* Before the first boot there is nothing. *)
LEMMA InitOk ==
  ASSUME Init
  PROVE  IInv
<1>1. 0 \in 0 .. Grace /\ 0 \in 0 .. Beat /\ <<>> \in Seq(Record) /\ Grace \in 0 .. Grace
  BY IdeJobsConstants
<1>2. NotStarted \in Instance /\ ~NotStarted.known /\ ~NotStarted.follow /\ ~NotStarted.beats
      /\ NotStarted.outcome = "none" /\ Quiet(NotStarted)
  BY <1>1 DEF NotStarted, Instance, Quiet
<1>3. used \in Counts
  BY DEF Init, Counts
<1>4. inst \in [Instances -> Instance] /\ \A p \in Instances : inst[p] = NotStarted
  BY <1>2 DEF Init
<1> HIDE DEF NotStarted
<1>5. \A p \in Instances : /\ Sane(inst[p], Len(journal)) /\ EndIsNews(p, inst[p], journal)
                           /\ Decided(p, inst[p], journal) /\ ~inst[p].beats
  BY <1>2, <1>4 DEF Sane, EndIsNews, Decided, Done
<1> QED
  BY <1>1, <1>3, <1>4, <1>5 DEF Init, IInv, Good

(* Every step keeps the invariant. *)
LEMMA StepOk ==
  ASSUME IInv, [Next]_vars
  PROVE  IInv'
<1>1. CASE Tick
  BY <1>1, TickOk
<1>2. ASSUME NEW p \in Instances, Boot(p) PROVE IInv'
  BY <1>2, BootOk
<1>3. ASSUME NEW p \in Instances, Kill(p) PROVE IInv'
  BY <1>3, KillOk
<1>4. ASSUME NEW p \in Instances, NEW kept \in BOOLEAN, Heartbeat(p, kept) PROVE IInv'
  BY <1>4, HeartbeatOk
<1>5. ASSUME NEW p \in Instances, Create(p) PROVE IInv'
  BY <1>5, CreateOk
<1>6. ASSUME NEW p \in Instances, RecordRequest(p) PROVE IInv'
  BY <1>6, RequestOk
<1>7. ASSUME NEW p \in Instances, RunnerAsks(p) \/ RunnerFinishes(p) \/ RunnerReturns(p) PROVE IInv'
  BY <1>7, RunnerOk
<1>8. ASSUME NEW p \in Instances, answerJob(p) \/ stopJob(p) PROVE IInv'
  BY <1>8, UserOk
<1>9. ASSUME NEW p \in Instances, Reconcile(p) PROVE IInv'
  BY <1>9, ReconcileOk DEF Reconcile
<1>10. ASSUME NEW p \in Instances, ReconcileUnreadable(p) PROVE IInv'
  BY <1>10, UnreadableOk
<1>11. ASSUME NEW p \in Instances,
              ResumeLaunches(p) \/ ResumePauses(p) \/ ResumeRefuses(p) \/ ResumeRetries(p)
       PROVE  IInv'
  BY <1>11, ResumeOk
<1>12. CASE UNCHANGED vars
  BY <1>12 DEF vars, IInv
<1> QED
  BY <1>1, <1>2, <1>3, <1>4, <1>5, <1>6, <1>7, <1>8, <1>9, <1>10, <1>11, <1>12 DEF Next

(* The inductive invariant holds of every reachable state. *)
LEMMA Invariance == Spec => []IInv
<1>1. Init => IInv
  BY InitOk
<1>2. IInv /\ [Next]_vars => IInv'
  BY StepOk
<1> QED
  BY <1>1, <1>2, PTL DEF Spec

(* Every field of every instance's entry keeps to its range (INDEX, FOLLOWERS, HEARTBEATS). *)
THEOREM JobTyping == Spec => []TypeOK
<1>1. IInv => TypeOK
  BY DEF IInv, Good, TypeOK, Counts
<1> QED
  BY <1>1, Invariance, PTL

(* While the creator of a build is alive and heartbeats in time nobody else runs the build or *)
(* sets out to, for any number of instances, any lease and any beat that fits in it.          *)
THEOREM LeaseHolds == Spec => []CreatorRunsAlone
<1>1. IInv => CreatorRunsAlone
  <2> SUFFICES ASSUME IInv, (used.missed + 1) * Beat < Grace, NEW p \in Instances, NEW q \in Instances,
                      p # q, inst[p].beats
               PROVE  inst[q].runner = "none" /\ inst[q].resume = "no"
    BY DEF CreatorRunsAlone
  <2>1. Span(used) < Grace
    BY DEF Span
  <2> QED
    BY <2>1, IInvIs DEF Quiet
<1> QED
  BY <1>1, Invariance, PTL

(* A process that has only ever followed a build and calls it finished names the outcome of the *)
(* journal's first terminal record, whatever slower writers put behind it.                      *)
THEOREM OutcomeShared == Spec => []FollowersAgree
<1>1. IInv => FollowersAgree
  <2> SUFFICES ASSUME IInv, used.lost = 0, NEW p \in Instances, Done(inst[p]), ~Creator(p),
                      inst[p].attempt = 0, inst[p].unread < MaxReadFailures
               PROVE  inst[p].outcome = Outcome(journal)
    BY DEF FollowersAgree
  <2>1. Decided(p, inst[p], journal) /\ Sane(inst[p], Len(journal))
    BY IInvIs
  <2>2. ~Founded(p, journal) /\ inst[p].known
    BY <2>1 DEF Creator, Founded, Sane
  <2> QED
    BY <2>1, <2>2 DEF Decided
<1> QED
  BY <1>1, Invariance, PTL

-----------------------------------------------------------------------------
(* The long-run job.                                                         *)

DriverLives == \A i \in Procs : driver[i].on => i \in up

OneDriver ==
  ~seen.shared => \A i, j \in Procs : driver[i].on /\ driver[j].on => i = j

UnitIsOpen ==
  ~seen.shared => \A i \in Procs : driver[i].on => driver[i].unit \in Remaining(ledger)

FuseHeld ==
  ~seen.shared =>
    \A i \in Procs : driver[i].on => spent - seen.late <= approved - 2 + driver[i].attempt

LongRunIInv ==
  /\ LongRunTypeOK /\ DriverLives /\ OneDriver /\ UnitIsOpen /\ FuseHeld
  /\ DoneIsComplete /\ CompletedOnce /\ FuseBounded /\ RunningIsDriven

Drivers == {Off} \cup [on : {TRUE}, unit : Plan, attempt : 1 .. 2]
DoneLine(u) == [unit |-> u, outcome |-> "done"]

-----------------------------------------------------------------------------
(* A line added to the ledger completes its own unit and disturbs no other (progress). *)
LEMMA RemainingAfter ==
  ASSUME NEW lines \in Seq(Lines), NEW line \in Lines
  PROVE  /\ Append(lines, line) \in Seq(Lines)
         /\ Remaining(Append(lines, line)) = { u \in Remaining(lines) : line # DoneLine(u) }
<1>1. Append(lines, line) \in Seq(Lines)
  OBVIOUS
<1>2. ASSUME NEW u \in Plan
      PROVE  u \in Remaining(Append(lines, line)) <=> u \in Remaining(lines) /\ line # DoneLine(u)
  <2>1. DOMAIN Append(lines, line) = 1 .. (Len(lines) + 1) /\ DOMAIN lines = 1 .. Len(lines)
        /\ Len(lines) \in Nat
    OBVIOUS
  <2>2. Append(lines, line)[Len(lines) + 1] = line
    OBVIOUS
  <2>3. \A k \in 1 .. Len(lines) : Append(lines, line)[k] = lines[k]
    OBVIOUS
  <2> QED
    BY <2>1, <2>2, <2>3 DEF Remaining, DoneLine
<1> QED
  BY <1>1, <1>2 DEF Remaining

(* Complete means that nothing remains (progress, runJob's exit). *)
LEMMA CompleteIsEmpty ==
  ASSUME NEW lines \in Seq(Lines)
  PROVE  Remaining(lines) = {}
           <=> \A u \in Plan : \E k \in DOMAIN lines : lines[k] = DoneLine(u)
  BY DEF Remaining, DoneLine

(* Where runJob's loop comes to rest or calls its model: a driver goes on only with an open     *)
(* unit and an unspent tranche, it stops in a state that says so, and done means nothing is left. *)
LEMMA LoopTopFacts ==
  ASSUME NEW state \in States, NEW lines \in Seq(Lines), NEW paid \in Nat, approved \in Nat,
         NEW top \in LoopTop(state, lines, paid)
  PROVE  /\ top[1] \in States /\ top[2] \in Drivers
         /\ top[2].on => /\ top[1] = state /\ top[2].attempt = 1
                         /\ top[2].unit \in Remaining(lines) /\ paid < approved
         /\ ~top[2].on => /\ top[1] # "running"
                          /\ top[1] = "done" => Remaining(lines) = {}
<1>0. Off \in Drivers /\ ~Off.on
  BY DEF Off, Drivers
<1>1. CASE state = "paused"
  <2>1. top = <<"paused", Off>>
    BY <1>1 DEF LoopTop
  <2> QED
    BY <2>1, <1>0 DEF States
<1>2. CASE state # "paused" /\ Remaining(lines) = {}
  <2>1. top = <<"done", Off>>
    BY <1>2 DEF LoopTop
  <2> QED
    BY <2>1, <1>0, <1>2 DEF States
<1>3. CASE state # "paused" /\ Remaining(lines) # {}
  <2>1. PICK verdict \in Verdicts(lines), u \in Firsts(Remaining(lines)) :
          top = IF verdict = "halt" THEN <<"halted", Off>>
                ELSE IF FuseBlown(paid) THEN <<"paused", Off>>
                ELSE <<state, [on |-> TRUE, unit |-> u, attempt |-> 1]>>
    BY <1>3 DEF LoopTop
  <2>2. u \in Remaining(lines) /\ u \in Plan
    BY DEF Firsts, Remaining
  <2> DEFINE on == [on |-> TRUE, unit |-> u, attempt |-> 1]
  <2>3. on \in Drivers /\ on.on /\ on.unit = u /\ on.attempt = 1
    BY <2>2 DEF Drivers
  <2>4. CASE verdict = "halt" \/ FuseBlown(paid)
    BY <2>1, <2>4, <1>0 DEF States
  <2>5. CASE ~(verdict = "halt" \/ FuseBlown(paid))
    <3>1. top = <<state, on>>
      BY <2>1, <2>5
    <3>2. paid < approved
      BY <2>5 DEF FuseBlown
    <3> QED
      BY <3>1, <3>2, <2>2, <2>3
  <2> QED
    BY <2>4, <2>5
<1> QED
  BY <1>1, <1>2, <1>3

(* A failed unit's line and a substituted model's complete nothing (appendLedger). *)
LEMMA OtherLine ==
  ASSUME NEW lines \in Seq(Lines), NEW line \in Lines, line.outcome # "done"
  PROVE  Remaining(Append(lines, line)) = Remaining(lines)
<1>1. \A u : line # DoneLine(u)
  BY DEF DoneLine
<1> QED
  BY <1>1, RemainingAfter DEF Remaining

(* The ledger of completions stays free of repetitions when a line is added that completes   *)
(* nothing, or a unit that was open.                                                         *)
LEMMA OnceAfter ==
  ASSUME NEW lines \in Seq(Lines), NEW line \in Lines,
         \A j, k \in DOMAIN lines : lines[j] = lines[k] /\ lines[j].outcome = "done" => j = k,
         line.outcome = "done" => line.unit \in Remaining(lines) /\ line = DoneLine(line.unit),
         NEW j \in DOMAIN Append(lines, line), NEW k \in DOMAIN Append(lines, line),
         Append(lines, line)[j] = Append(lines, line)[k],
         Append(lines, line)[j].outcome = "done"
  PROVE  j = k
<1>1. DOMAIN Append(lines, line) = 1 .. (Len(lines) + 1) /\ DOMAIN lines = 1 .. Len(lines)
      /\ Len(lines) \in Nat
  OBVIOUS
<1>2. Append(lines, line)[Len(lines) + 1] = line
  OBVIOUS
<1>3. \A m \in 1 .. Len(lines) : Append(lines, line)[m] = lines[m]
  OBVIOUS
<1>4. line.outcome = "done" => \A m \in DOMAIN lines : lines[m] # line
  BY DEF Remaining, DoneLine
<1> QED
  BY <1>1, <1>2, <1>3, <1>4

(* What is complete stays complete as the ledger grows. *)
LEMMA StaysComplete ==
  ASSUME NEW lines \in Seq(Lines), NEW line \in Lines, Remaining(lines) = {}
  PROVE  Remaining(Append(lines, line)) = {}
  BY RemainingAfter

(* A driver that is on has a unit of the plan and an attempt (runJob). *)
LEMMA DriverFields ==
  ASSUME LongRunTypeOK, NEW i \in Procs, driver[i].on
  PROVE  /\ driver[i].unit \in Plan /\ driver[i].attempt \in 1 .. 2
         /\ driver[i] = [on |-> TRUE, unit |-> driver[i].unit, attempt |-> driver[i].attempt]
<1>1. driver[i] # Off
  BY DEF Off
<1>2. driver[i] \in [on : {TRUE}, unit : Plan, attempt : 1 .. 2]
  BY <1>1 DEF LongRunTypeOK
<1> QED
  BY <1>2

-----------------------------------------------------------------------------
(* The invariant holds of a job that was just created. *)
LEMMA LongRunInitOk == LongRunInit => LongRunIInv
<1> SUFFICES ASSUME LongRunInit PROVE LongRunIInv
  OBVIOUS
<1>1. LongRunTypeOK
  BY LongRunConstants DEF LongRunInit, LongRunTypeOK, States, Off, Procs
<1>2. \A i \in Procs : ~driver[i].on
  BY DEF LongRunInit, Off
<1>3. DriverLives /\ OneDriver /\ UnitIsOpen /\ FuseHeld
  BY <1>2 DEF DriverLives, OneDriver, UnitIsOpen, FuseHeld
<1>4. DoneIsComplete /\ CompletedOnce /\ RunningIsDriven
  BY DEF LongRunInit, DoneIsComplete, CompletedOnce, RunningIsDriven
<1>5. FuseBounded
  BY LongRunConstants DEF LongRunInit, FuseBounded
<1> QED
  BY <1>1, <1>3, <1>4, <1>5 DEF LongRunIInv

(* A driver that stops, with what it cost and at most a failed line, keeps the invariant       *)
(* (runJob's halts and pauses, startLongRun's catch).                                          *)
LEMMA ComesToRest ==
  ASSUME LongRunIInv, NEW i \in Procs, driver[i].on,
         driver' = [driver EXCEPT ![i] = Off],
         meta' \in {"paused", "halted"},
         ledger' = ledger \/ (\E line \in Lines : line.outcome # "done"
                                                   /\ ledger' = Append(ledger, line)),
         spent' \in {spent, spent + 1}, charged' \in Nat,
         adrift' \in [Procs -> Nat],
         UNCHANGED <<approved, up, seen, tally>>
  PROVE  LongRunIInv'
<1>1. \A j \in Procs : driver'[j].on => driver[j].on /\ j # i /\ driver'[j] = driver[j]
  BY DEF LongRunIInv, LongRunTypeOK, Off
<1>2. Remaining(ledger') = Remaining(ledger) /\ ledger' \in Seq(Lines)
  BY OtherLine, RemainingAfter DEF LongRunIInv, LongRunTypeOK
<1>3. LongRunTypeOK'
  <2>1. driver' \in [Procs -> Drivers]
    BY DEF LongRunIInv, LongRunTypeOK, Drivers
  <2>2. spent' \in Nat /\ meta' \in States
    BY DEF LongRunIInv, LongRunTypeOK, States
  <2> QED
    BY <1>2, <2>1, <2>2 DEF LongRunIInv, LongRunTypeOK, Drivers
<1>4. DriverLives' /\ OneDriver' /\ UnitIsOpen' /\ FuseHeld'
  <2>1. ~seen.shared => \A j \in Procs : ~driver'[j].on
    BY <1>1 DEF LongRunIInv, OneDriver
  <2>2. DriverLives'
    BY <1>1 DEF LongRunIInv, DriverLives
  <2> QED
    BY <2>1, <2>2 DEF OneDriver, UnitIsOpen, FuseHeld
<1>5. DoneIsComplete' /\ RunningIsDriven'
  BY DEF DoneIsComplete, RunningIsDriven
<1>6. CompletedOnce'
  <2>1. CASE ledger' = ledger
    BY <2>1 DEF LongRunIInv, CompletedOnce
  <2>2. CASE ledger' # ledger
    <3>1. PICK line \in Lines : line.outcome # "done" /\ ledger' = Append(ledger, line)
      BY <2>2
    <3> QED
      BY <3>1, OnceAfter DEF LongRunIInv, LongRunTypeOK, CompletedOnce
  <2> QED
    BY <2>1, <2>2
<1>7. FuseBounded'
  <2>1. driver[i].attempt \in 1 .. 2
    BY DriverFields DEF LongRunIInv
  <2>2. ~seen.shared => spent - seen.late <= approved - 2 + driver[i].attempt
    BY DEF LongRunIInv, FuseHeld
  <2>3. approved \in Nat /\ spent \in Nat /\ seen.late \in Nat
    BY DEF LongRunIInv, LongRunTypeOK
  <2> QED
    BY SMTT(60), <2>1, <2>2, <2>3 DEF FuseBounded
<1> QED
  BY <1>3, <1>4, <1>5, <1>6, <1>7 DEF LongRunIInv

(* A step that leaves the drivers and the ledger alone keeps the invariant: it may raise the  *)
(* approval, pay for an abandoned call, boot a process, and move the job to a state that       *)
(* claims no more than before.                                                                 *)
LEMMA DriversUndisturbed ==
  ASSUME LongRunIInv, LongRunTypeOK', driver' = driver, ledger' = ledger, up \subseteq up',
         seen'.shared = seen.shared, seen'.orphaned = seen.orphaned,
         spent' - seen'.late = spent - seen.late, approved <= approved',
         meta' = "done" => meta = "done",
         meta' = "running" => meta = "running" /\ up' = up
  PROVE  LongRunIInv'
<1>1. DriverLives' /\ OneDriver' /\ UnitIsOpen' /\ CompletedOnce' /\ DoneIsComplete'
  BY DEF LongRunIInv, DriverLives, OneDriver, UnitIsOpen, CompletedOnce, DoneIsComplete
<1>2. approved \in Int /\ approved' \in Int /\ spent - seen.late \in Int
  BY DEF LongRunIInv, LongRunTypeOK
<1>3. ASSUME NEW i \in Procs, driver[i].on PROVE driver[i].attempt \in Int
  <2>1. driver[i].attempt \in 1 .. 2
    BY <1>3, DriverFields DEF LongRunIInv
  <2> QED
    BY <2>1
<1>4. FuseHeld' /\ FuseBounded'
  BY <1>2, <1>3 DEF LongRunIInv, FuseHeld, FuseBounded
<1>5. RunningIsDriven'
  BY DEF LongRunIInv, RunningIsDriven, Driven
<1> QED
  BY <1>1, <1>4, <1>5 DEF LongRunIInv

(* Starting a driver keeps the invariant, whichever request it comes from (startLongRun). *)
LEMMA StartKeeps ==
  ASSUME LongRunIInv, NEW i \in up, NEW state \in States,
         state = "done" => meta = "done", state = "running" => meta = "running",
         startLongRun(i, state),
         tally' \in [boots : Nat, requests : Nat],
         UNCHANGED <<approved, spent, charged, up, adrift>>
  PROVE  LongRunIInv'
<1>0. i \in Procs
  BY DEF LongRunIInv, LongRunTypeOK
<1>1. CASE meta' = state /\ UNCHANGED <<ledger, driver, seen>>
  <2>1. LongRunTypeOK'
    BY <1>1 DEF LongRunIInv, LongRunTypeOK
  <2>2. approved <= approved' /\ spent' - seen'.late = spent - seen.late
    BY <1>1 DEF LongRunIInv, LongRunTypeOK
  <2> QED
    BY <1>1, <2>1, <2>2, DriversUndisturbed
<1>2. CASE meta' = "ready" /\ UNCHANGED <<ledger, driver, seen>>
  <2>1. LongRunTypeOK'
    BY <1>2 DEF LongRunIInv, LongRunTypeOK, States
  <2>2. approved <= approved' /\ spent' - seen'.late = spent - seen.late
    BY <1>2 DEF LongRunIInv, LongRunTypeOK
  <2> QED
    BY <1>2, <2>1, <2>2, DriversUndisturbed
<1>3. CASE /\ ~driver[i].on
           /\ ledger' \in {ledger, Append(ledger, Fallback)}
           /\ \E top \in LoopTop("running", ledger', spent) :
                /\ meta' = top[1]
                /\ driver' = [driver EXCEPT ![i] = top[2]]
                /\ seen' = [seen EXCEPT !.shared = @ \/ (top[2].on /\ Driven # {})]
  <2>1. Fallback \in Lines /\ Fallback.outcome # "done"
    BY DEF Fallback, Lines
  <2>2. ledger \in Seq(Lines) /\ ledger' \in Seq(Lines) /\ Remaining(ledger') = Remaining(ledger)
    <3>1. ledger \in Seq(Lines)
      BY DEF LongRunIInv, LongRunTypeOK
    <3>2. /\ Append(ledger, Fallback) \in Seq(Lines)
          /\ Remaining(Append(ledger, Fallback)) = Remaining(ledger)
      BY <2>1, <3>1, OtherLine, RemainingAfter
    <3> QED
      BY <1>3, <3>1, <3>2
  <2>3. PICK top \in LoopTop("running", ledger', spent) :
          /\ meta' = top[1]
          /\ driver' = [driver EXCEPT ![i] = top[2]]
          /\ seen' = [seen EXCEPT !.shared = @ \/ (top[2].on /\ Driven # {})]
    BY <1>3
  <2>4. /\ top[1] \in States /\ top[2] \in Drivers
        /\ top[2].on => /\ top[1] = "running" /\ top[2].attempt = 1
                        /\ top[2].unit \in Remaining(ledger') /\ spent < approved
        /\ ~top[2].on => /\ top[1] # "running"
                         /\ top[1] = "done" => Remaining(ledger') = {}
    <3>1. "running" \in States /\ spent \in Nat /\ approved \in Nat
      BY DEF States, LongRunIInv, LongRunTypeOK
    <3> QED
      BY <2>2, <3>1, LoopTopFacts
  <2>5. LongRunTypeOK'
    <3>1. driver' \in [Procs -> Drivers]
      BY <2>3, <2>4 DEF LongRunIInv, LongRunTypeOK, Drivers
    <3>2. seen' \in [shared : BOOLEAN, orphaned : BOOLEAN, late : Nat, cut : Nat]
      BY <2>3 DEF LongRunIInv, LongRunTypeOK
    <3> QED
      BY <2>2, <2>3, <2>4, <3>1, <3>2 DEF LongRunIInv, LongRunTypeOK, Drivers
  <2>6. /\ driver'[i] = top[2]
        /\ \A j \in Procs \ {i} : driver'[j] = driver[j]
        /\ seen'.late = seen.late /\ seen'.orphaned = seen.orphaned
        /\ ~seen'.shared => ~seen.shared /\ (top[2].on => Driven = {})
    BY <1>0, <2>3 DEF LongRunIInv, LongRunTypeOK
  <2>7. ~seen'.shared /\ top[2].on => \A j \in Procs \ {i} : ~driver[j].on
    BY <2>6 DEF LongRunIInv, DriverLives, Driven
  <2>8. DriverLives'
    BY <2>6 DEF LongRunIInv, DriverLives
  <2>9. OneDriver'
    BY <2>6, <2>7 DEF LongRunIInv, OneDriver
  <2>10. UnitIsOpen'
    BY <2>2, <2>4, <2>6 DEF LongRunIInv, UnitIsOpen
  <2>11. FuseHeld' /\ FuseBounded'
    <3>1. approved \in Nat /\ spent \in Nat /\ seen.late \in Nat
      BY DEF LongRunIInv, LongRunTypeOK
    <3>2. FuseBounded'
      BY <2>6, <3>1 DEF LongRunIInv, FuseBounded
    <3>3. FuseHeld'
      BY <2>4, <2>6, <3>1 DEF LongRunIInv, FuseHeld
    <3> QED
      BY <3>2, <3>3
  <2>12. DoneIsComplete'
    BY <2>2, <2>3, <2>4, CompleteIsEmpty DEF DoneIsComplete, DoneLine
  <2>13. CompletedOnce'
    <3>1. CASE ledger' = ledger
      BY <2>6, <3>1 DEF LongRunIInv, CompletedOnce
    <3>2. CASE ledger' = Append(ledger, Fallback)
      BY <2>1, <2>2, <2>6, <3>2, OnceAfter DEF LongRunIInv, CompletedOnce
    <3> QED
      BY <1>3, <3>1, <3>2
  <2>14. RunningIsDriven'
    BY <1>0, <2>3, <2>4, <2>6 DEF RunningIsDriven, Driven
  <2> QED
    BY <2>5, <2>8, <2>9, <2>10, <2>11, <2>12, <2>13, <2>14 DEF LongRunIInv
<1> QED
  BY <1>1, <1>2, <1>3 DEF startLongRun

(* Completing a unit keeps the invariant: the driver goes on from what it just wrote (runJob). *)
LEMMA UnitDoneKeeps == ASSUME LongRunIInv, NEW i \in Procs, UnitDone(i) PROVE LongRunIInv'
<1> DEFINE line == DoneLine(driver[i].unit)
<1>1. /\ driver[i].on /\ driver[i].unit \in Plan /\ driver[i].attempt \in 1 .. 2
      /\ ledger \in Seq(Lines) /\ meta \in States
      /\ approved \in Nat /\ spent \in Nat /\ charged \in Nat /\ seen.late \in Nat
  BY DriverFields DEF UnitDone, LongRunIInv, LongRunTypeOK
<1>2. line \in Lines /\ line.unit = driver[i].unit /\ line.outcome = "done"
  BY <1>1 DEF DoneLine, Lines
<1>3. PICK cost \in {0, 1} :
        /\ charged' = charged + cost /\ spent' = spent + cost
        /\ ledger' = Append(ledger, line)
        /\ \E top \in LoopTop(meta, ledger', spent + cost) :
             meta' = top[1] /\ driver' = [driver EXCEPT ![i] = top[2]]
  BY DEF UnitDone, Metered, Line, DoneLine
<1>4. PICK top \in LoopTop(meta, ledger', spent + cost) :
        meta' = top[1] /\ driver' = [driver EXCEPT ![i] = top[2]]
  BY <1>3
<1>5. UNCHANGED <<approved, up, adrift, seen, tally>>
  BY DEF UnitDone
<1>6. /\ ledger' \in Seq(Lines)
      /\ Remaining(ledger') = { u \in Remaining(ledger) : line # DoneLine(u) }
  BY <1>1, <1>2, <1>3, RemainingAfter
<1>7. /\ top[1] \in States /\ top[2] \in Drivers
      /\ top[2].on => /\ top[1] = meta /\ top[2].attempt = 1
                      /\ top[2].unit \in Remaining(ledger') /\ spent + cost < approved
      /\ ~top[2].on => /\ top[1] # "running"
                       /\ top[1] = "done" => Remaining(ledger') = {}
  <2>1. spent + cost \in Nat
    BY <1>1
  <2> QED
    BY <1>1, <1>6, <2>1, LoopTopFacts
<1>8. LongRunTypeOK'
  <2>1. driver' \in [Procs -> Drivers]
    BY <1>4, <1>7 DEF LongRunIInv, LongRunTypeOK, Drivers
  <2>2. meta' \in States /\ spent' \in Nat /\ charged' \in Nat
    BY <1>1, <1>3, <1>4, <1>7
  <2> QED
    BY <1>5, <1>6, <2>1, <2>2 DEF LongRunIInv, LongRunTypeOK, Drivers
<1>9. driver'[i] = top[2] /\ \A j \in Procs \ {i} : driver'[j] = driver[j]
  BY <1>4 DEF LongRunIInv, LongRunTypeOK
<1>10. DriverLives' /\ OneDriver'
  BY <1>1, <1>5, <1>9 DEF LongRunIInv, DriverLives, OneDriver
<1>11. ~seen.shared => \A j \in Procs \ {i} : ~driver'[j].on
  BY <1>1, <1>9 DEF LongRunIInv, OneDriver
<1>12. UnitIsOpen'
  BY <1>5, <1>7, <1>9, <1>11 DEF UnitIsOpen
<1>13. FuseHeld'
  BY <1>1, <1>3, <1>5, <1>7, <1>9, <1>11 DEF FuseHeld
<1>14. FuseBounded'
  <2>1. ~seen.shared => spent - seen.late <= approved - 2 + driver[i].attempt
    BY <1>1 DEF LongRunIInv, FuseHeld
  <2>2. approved \in Nat /\ spent \in Nat /\ seen.late \in Nat /\ driver[i].attempt <= 2
    BY <1>1
  <2>3. ~seen.shared => spent - seen.late <= approved
    BY SMTT(60), <1>1, <2>1, <2>2
  <2>4. spent' = spent \/ spent' = spent + 1
    BY <1>3, <2>2
  <2>5. seen' = seen /\ approved' = approved
    BY <1>5
  <2>6. ~seen.shared => spent' - seen.late <= approved + 1
    BY <2>2, <2>3, <2>4
  <2> QED
    BY <2>5, <2>6 DEF FuseBounded
<1>15. DoneIsComplete'
  <2>1. meta = "done" => Remaining(ledger) = {}
    BY <1>1, CompleteIsEmpty DEF LongRunIInv, DoneIsComplete, DoneLine
  <2>2. meta' = "done" => Remaining(ledger') = {}
    BY <1>4, <1>6, <1>7, <2>1
  <2> QED
    BY <1>6, <2>2, CompleteIsEmpty DEF DoneIsComplete, DoneLine
<1>16. CompletedOnce'
  <2>1. ~seen.shared => driver[i].unit \in Remaining(ledger)
    BY <1>1 DEF LongRunIInv, UnitIsOpen
  <2> QED
    BY <1>1, <1>2, <1>3, <1>5, <2>1, OnceAfter DEF LongRunIInv, CompletedOnce
<1>17. RunningIsDriven'
  <2>1. i \in up
    BY <1>1 DEF LongRunIInv, DriverLives
  <2> QED
    BY <1>4, <1>5, <1>7, <1>9, <2>1 DEF RunningIsDriven, Driven
<1> QED
  BY <1>8, <1>10, <1>12, <1>13, <1>14, <1>15, <1>16, <1>17 DEF LongRunIInv

(* The second attempt at a unit keeps the invariant, the fuse unchecked (runJob). *)
LEMMA UnitRetriedKeeps == ASSUME LongRunIInv, NEW i \in Procs, UnitRetried(i) PROVE LongRunIInv'
<1>1. /\ driver[i].on /\ driver[i].unit \in Plan /\ driver[i].attempt = 1
      /\ driver[i] = [on |-> TRUE, unit |-> driver[i].unit, attempt |-> 1]
  BY DriverFields DEF UnitRetried, LongRunIInv
<1>2. /\ driver' = [driver EXCEPT ![i].attempt = 2]
      /\ UNCHANGED <<meta, ledger, approved, up, adrift, seen, tally>>
  BY DEF UnitRetried
<1>3. /\ spent' \in {spent, spent + 1} /\ charged' \in Nat
      /\ approved \in Nat /\ spent \in Nat /\ seen.late \in Nat
  BY DEF UnitRetried, Metered, LongRunIInv, LongRunTypeOK
<1>4. /\ driver'[i] = [on |-> TRUE, unit |-> driver[i].unit, attempt |-> 2]
      /\ \A j \in Procs \ {i} : driver'[j] = driver[j]
  BY <1>1, <1>2 DEF LongRunIInv, LongRunTypeOK
<1>5. LongRunTypeOK'
  <2>1. [on |-> TRUE, unit |-> driver[i].unit, attempt |-> 2] \in Drivers
    BY <1>1 DEF Drivers
  <2>2. driver' \in [Procs -> Drivers]
    BY <1>2, <1>4, <2>1 DEF LongRunIInv, LongRunTypeOK, Drivers
  <2>3. spent' \in Nat
    BY <1>3
  <2> QED
    BY <1>2, <1>3, <2>2, <2>3 DEF LongRunIInv, LongRunTypeOK, Drivers
<1>6. DriverLives' /\ OneDriver' /\ UnitIsOpen'
  BY <1>1, <1>2, <1>4 DEF LongRunIInv, DriverLives, OneDriver, UnitIsOpen
<1>7. FuseHeld' /\ FuseBounded'
  <2>1. ~seen.shared => spent - seen.late <= approved - 1
    BY <1>1, <1>3 DEF LongRunIInv, FuseHeld
  <2>2. ~seen.shared => \A j \in Procs \ {i} : ~driver'[j].on
    BY <1>1, <1>4 DEF LongRunIInv, OneDriver
  <2> QED
    BY <1>2, <1>3, <1>4, <2>1, <2>2 DEF FuseHeld, FuseBounded
<1>8. DoneIsComplete' /\ CompletedOnce'
  BY <1>2 DEF LongRunIInv, DoneIsComplete, CompletedOnce
<1>9. RunningIsDriven'
  <2>1. i \in up
    BY <1>1 DEF LongRunIInv, DriverLives
  <2> QED
    BY <1>2, <1>4, <2>1 DEF RunningIsDriven, Driven
<1> QED
  BY <1>5, <1>6, <1>7, <1>8, <1>9 DEF LongRunIInv

(* The death of a process keeps the invariant: its driver goes with it, and the one left       *)
(* running is nobody's or the history says so.                                                 *)
LEMMA DiesKeeps == ASSUME LongRunIInv, NEW i \in Procs, Dies(i) PROVE LongRunIInv'
<1>1. PICK half \in {0, 1} :
        /\ charged' = charged + half
        /\ seen' = [seen EXCEPT !.orphaned = @ \/ up' # {}, !.cut = @ + half]
  BY DEF Dies
<1>2. /\ up' = up \ {i}
      /\ driver' = [driver EXCEPT ![i] = Off] /\ adrift' = [adrift EXCEPT ![i] = 0]
      /\ UNCHANGED <<meta, ledger, approved, spent, tally>>
  BY DEF Dies
<1>3. LongRunTypeOK'
  <2>1. driver' \in [Procs -> Drivers] /\ adrift' \in [Procs -> Nat]
    BY <1>2 DEF LongRunIInv, LongRunTypeOK, Drivers
  <2>2. seen' \in [shared : BOOLEAN, orphaned : BOOLEAN, late : Nat, cut : Nat] /\ charged' \in Nat
    <3>1. seen \in [shared : BOOLEAN, orphaned : BOOLEAN, late : Nat, cut : Nat] /\ charged \in Nat
      BY DEF LongRunIInv, LongRunTypeOK
    <3>2. (seen.orphaned \/ up' # {}) \in BOOLEAN
      OBVIOUS
    <3>3. seen.cut + half \in Nat /\ charged + half \in Nat
      BY <3>1
    <3> QED
      BY <1>1, <3>1, <3>2, <3>3
  <2> QED
    BY <1>2, <2>1, <2>2 DEF LongRunIInv, LongRunTypeOK, Drivers
<1>4. \A j \in Procs : driver'[j].on => driver[j].on /\ j # i /\ driver'[j] = driver[j]
  BY <1>2 DEF LongRunIInv, LongRunTypeOK, Off
<1>5. /\ seen'.shared = seen.shared /\ seen'.late = seen.late
      /\ seen'.orphaned \/ up' = {}
  BY <1>1 DEF LongRunIInv, LongRunTypeOK
<1>6. DriverLives' /\ OneDriver' /\ UnitIsOpen' /\ FuseHeld'
  BY <1>2, <1>4, <1>5 DEF LongRunIInv, DriverLives, OneDriver, UnitIsOpen, FuseHeld
<1>7. DoneIsComplete' /\ CompletedOnce' /\ FuseBounded' /\ RunningIsDriven'
  BY <1>2, <1>5 DEF LongRunIInv, DoneIsComplete, CompletedOnce, FuseBounded, RunningIsDriven
<1> QED
  BY <1>3, <1>6, <1>7 DEF LongRunIInv

(* Every step keeps the invariant. *)
LEMMA LongRunStepOk == LongRunIInv /\ [LongRunNext]_longRunVars => LongRunIInv'
<1> SUFFICES ASSUME LongRunIInv, [LongRunNext]_longRunVars PROVE LongRunIInv'
  OBVIOUS
<1>0. /\ tally \in [boots : Nat, requests : Nat] /\ approved \in Nat /\ spent \in Nat
      /\ charged \in Nat /\ Tranche \in Nat /\ meta \in States
      /\ seen \in [shared : BOOLEAN, orphaned : BOOLEAN, late : Nat, cut : Nat]
      /\ adrift \in [Procs -> Nat] /\ up \subseteq Procs
  BY LongRunConstants DEF LongRunIInv, LongRunTypeOK
<1>1. ASSUME NEW i \in Procs, Request(i)
      PROVE  i \in up /\ tally' \in [boots : Nat, requests : Nat]
  BY <1>0, <1>1 DEF Request
<1>2. ASSUME NEW i \in Procs, Start(i) PROVE LongRunIInv'
  BY <1>0, <1>1, <1>2, StartKeeps DEF Start
<1>3. ASSUME NEW i \in Procs, Resume(i) PROVE LongRunIInv'
  <2>1. (IF meta = "done" THEN "done" ELSE "ready") \in States
    BY DEF States
  <2> QED
    BY <1>1, <1>3, <2>1, StartKeeps DEF Resume
<1>4. ASSUME NEW i \in Procs, Pause(i) PROVE LongRunIInv'
  <2>1. LongRunTypeOK'
    BY <1>1, <1>4 DEF Pause, LongRunIInv, LongRunTypeOK, States
  <2>2. approved <= approved' /\ spent' - seen'.late = spent - seen.late
    BY <1>0, <1>4 DEF Pause
  <2> QED
    BY <1>4, <2>1, <2>2, DriversUndisturbed DEF Pause
<1>5. ASSUME NEW i \in Procs, Approve(i) PROVE LongRunIInv'
  <2>1. approved' \in Nat /\ approved <= approved'
    BY <1>0, <1>5 DEF Approve
  <2>2. LongRunTypeOK'
    BY <1>1, <1>5, <2>1 DEF Approve, LongRunIInv, LongRunTypeOK
  <2> QED
    BY <1>0, <1>5, <2>1, <2>2, DriversUndisturbed DEF Approve
<1>6. ASSUME NEW i \in Procs, UnitFails(i) PROVE LongRunIInv'
  <2> DEFINE line == [unit |-> driver[i].unit, outcome |-> "failed"]
  <2>1. driver[i].on /\ driver[i].unit \in Plan
    BY <1>6, DriverFields DEF UnitFails, LongRunIInv
  <2>2. line \in Lines /\ line.outcome # "done" /\ ledger' = Append(ledger, line)
    BY <1>6, <2>1 DEF UnitFails, Line, Lines
  <2>3. spent' \in {spent, spent + 1} /\ charged' \in Nat
    BY <1>0, <1>6 DEF UnitFails, Metered
  <2> QED
    BY <1>0, <1>6, <2>1, <2>2, <2>3, ComesToRest DEF UnitFails
<1>7. ASSUME NEW i \in Procs, Stalls(i) PROVE LongRunIInv'
  <2>1. spent' \in {spent, spent + 1} /\ charged' \in Nat /\ adrift' \in [Procs -> Nat]
    BY <1>0, <1>7 DEF Stalls
  <2> QED
    BY <1>7, <2>1, ComesToRest DEF Stalls
<1>8. ASSUME NEW i \in Procs, Throws(i) PROVE LongRunIInv'
  <2>1. spent' \in {spent, spent + 1} /\ charged' \in Nat
    BY <1>0, <1>8 DEF Throws, Metered
  <2> QED
    BY <1>0, <1>8, <2>1, ComesToRest DEF Throws
<1>9. ASSUME NEW i \in Procs, LateAnswer(i) PROVE LongRunIInv'
  <2>1. PICK cost \in {0, 1} :
          /\ charged' = charged + cost /\ spent' = spent + cost
          /\ seen' = [seen EXCEPT !.late = @ + cost]
    BY <1>9 DEF LateAnswer, Metered
  <2>2. adrift' \in [Procs -> Nat]
    BY <1>0, <1>9 DEF LateAnswer
  <2>3. /\ charged' \in Nat /\ spent' \in Nat
        /\ seen' \in [shared : BOOLEAN, orphaned : BOOLEAN, late : Nat, cut : Nat]
        /\ seen'.shared = seen.shared /\ seen'.orphaned = seen.orphaned
        /\ spent' - seen'.late = spent - seen.late
    BY <1>0, <2>1
  <2>4. LongRunTypeOK'
    BY <1>9, <2>2, <2>3 DEF LateAnswer, LongRunIInv, LongRunTypeOK
  <2> QED
    BY <1>0, <1>9, <2>3, <2>4, DriversUndisturbed DEF LateAnswer
<1>10. ASSUME Boots PROVE LongRunIInv'
  <2>1. tally.boots + 1 \in Procs /\ up' \subseteq Procs
    BY <1>0, <1>10, LongRunConstants DEF Boots, Procs
  <2>2. tally' \in [boots : Nat, requests : Nat] /\ meta' \in States
    BY <1>0, <1>10 DEF Boots, States
  <2>3. LongRunTypeOK'
    BY <1>10, <2>1, <2>2 DEF Boots, LongRunIInv, LongRunTypeOK
  <2>4. approved <= approved' /\ spent' - seen'.late = spent - seen.late
    BY <1>0, <1>10 DEF Boots
  <2> QED
    BY <1>10, <2>3, <2>4, DriversUndisturbed DEF Boots
<1>11. ASSUME UNCHANGED longRunVars PROVE LongRunIInv'
  BY <1>11 DEF longRunVars, LongRunIInv, LongRunTypeOK, DriverLives, OneDriver, UnitIsOpen, FuseHeld, DoneIsComplete,
               CompletedOnce, FuseBounded, RunningIsDriven, Driven
<1> QED
  BY <1>2, <1>3, <1>4, <1>5, <1>6, <1>7, <1>8, <1>9, <1>10, <1>11,
     UnitDoneKeeps, UnitRetriedKeeps, DiesKeeps DEF LongRunNext, Runs

(* The inductive invariant holds throughout. *)
LEMMA LongRunInvariance == LongRunSpec => []LongRunIInv
  BY LongRunInitOk, LongRunStepOk, PTL DEF LongRunSpec

(* Whatever the plan, the money and the processes: a job that says it is done has every unit's   *)
(* completion in its ledger (runJob, progress).                                                  *)
THEOREM DoneMeansDone == LongRunSpec => []DoneIsComplete
<1>1. LongRunIInv => DoneIsComplete
  BY DEF LongRunIInv
<1> QED
  BY LongRunInvariance, <1>1, PTL

(* No unit is completed twice as long as no two drivers ran at once, abandoned calls, restarts    *)
(* and pauses notwithstanding (LONGRUN_ACTIVE, raceUnit).                                         *)
THEOREM UnitsCompleteOnce == LongRunSpec => []CompletedOnce
<1>1. LongRunIInv => CompletedOnce
  BY DEF LongRunIInv
<1> QED
  BY LongRunInvariance, <1>1, PTL

(* The fuse overshoots by at most the two calls of one unit, apart from abandoned calls            *)
(* (budget.remaining in runJob).                                                                   *)
THEOREM FuseOvershootBounded == LongRunSpec => []FuseBounded
<1>1. LongRunIInv => FuseBounded
  BY DEF LongRunIInv
<1> QED
  BY LongRunInvariance, <1>1, PTL

(* A job that says running is driven, unless no process is up or one died beside another            *)
(* (sealInterrupted at boot, startLongRun).                                                         *)
THEOREM RunningMeansDriven == LongRunSpec => []RunningIsDriven
<1>1. LongRunIInv => RunningIsDriven
  BY DEF LongRunIInv
<1> QED
  BY LongRunInvariance, <1>1, PTL
===============================================================================
