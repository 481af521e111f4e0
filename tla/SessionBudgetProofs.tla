--------------------------- MODULE SessionBudgetProofs ---------------------------
(***************************************************************************)
(* The spending gate for any number of conversations, any amounts and any    *)
(* number of parallel turns: what SessionBudgetGate checks of two sessions.   *)
(* The first part is about sums, which the gate computes over the sessions     *)
(* table; the second is the inductive invariant.                               *)
(***************************************************************************)
EXTENDS SessionBudget, FiniteSetTheorems, WellFoundedInduction, TLAPS

Sum(h, S) == SumFunctionOnSet(h, S)
Pick(S) == CHOOSE x \in S : TRUE

(* f holds the sum of h over every part of D, taken one element at a time. *)
IsSumOn(f, h, D) ==
  f = [U \in SUBSET D |-> IF U = {} THEN 0 ELSE h[Pick(U)] + f[U \ {Pick(U)}]]

-----------------------------------------------------------------------------
(* The sum of the table is such a function's value (holdOf, summed by available). *)
LEMMA SumIsFold ==
  ASSUME NEW h, NEW S
  PROVE  Sum(h, S) = (CHOOSE f : IsSumOn(f, h, S))[S]
  BY DEF Sum, SumFunctionOnSet, FoldFunctionOnSet, MapThenFoldSet, IsSumOn, Pick

(* Among finite sets there is one that contains no other: induction over a table's rows.       *)
LEMMA MinimalSubset ==
  ASSUME NEW D, IsFiniteSet(D), NEW T \in SUBSET (SUBSET D), T # {}
  PROVE  \E U \in T : \A V \in T : V \subseteq U => V = U
<1>1. IsWellFoundedOn(StrictSubsetOrdering(D), SUBSET D)
  BY FS_StrictSubsetOrderingWellFounded, FS_FiniteSubsetsOfFinite
<1>2. PICK U \in T : \A V \in T : <<V, U>> \notin StrictSubsetOrdering(D)
  BY <1>1, WFMin
<1>3. ASSUME NEW V \in T, V \subseteq U
      PROVE  V = U
  BY <1>2, <1>3 DEF StrictSubsetOrdering
<1> QED
  BY <1>3

(* An element is picked from a set that has one. *)
LEMMA PickIsMember ==
  ASSUME NEW S, S # {}
  PROVE  Pick(S) \in S
  BY DEF Pick

(* Two such functions agree wherever both are defined. *)
LEMMA SumUnique ==
  ASSUME NEW h, NEW D, NEW E, IsFiniteSet(D), NEW f, NEW g,
         IsSumOn(f, h, D), IsSumOn(g, h, E), NEW U \in SUBSET D, U \subseteq E
  PROVE  f[U] = g[U]
<1> DEFINE T == { V \in SUBSET D : V \subseteq E /\ f[V] # g[V] }
<1>1. SUFFICES ASSUME T # {}
               PROVE  FALSE
  BY <1>1
<1>2. PICK V \in T : \A W \in T : W \subseteq V => W = V
  <2>1. T \in SUBSET (SUBSET D)
    OBVIOUS
  <2> HIDE DEF T
  <2> QED
    BY <2>1, <1>1, MinimalSubset
<1>3. V # {}
  BY <1>2 DEF IsSumOn
<1>4. Pick(V) \in V
  BY <1>3, PickIsMember
<1>5. /\ V \ {Pick(V)} \in SUBSET D /\ V \ {Pick(V)} \subseteq E /\ V \in SUBSET D /\ V \in SUBSET E
      /\ V \ {Pick(V)} # V
  BY <1>2, <1>4
<1>6. f[V \ {Pick(V)}] = g[V \ {Pick(V)}]
  BY <1>2, <1>5
<1>7. f[V] = h[Pick(V)] + f[V \ {Pick(V)}] /\ g[V] = h[Pick(V)] + g[V \ {Pick(V)}]
  BY <1>3, <1>5 DEF IsSumOn
<1> QED
  BY <1>2, <1>6, <1>7

(* Such a function exists on every finite set. *)
LEMMA SumExists ==
  ASSUME NEW h, NEW D, IsFiniteSet(D)
  PROVE  \E f : IsSumOn(f, h, D)
<1> DEFINE T == { V \in SUBSET D : ~ \E f : IsSumOn(f, h, V) }
           F(V) == CHOOSE f : IsSumOn(f, h, V)
           s(V) == IF V = {} THEN 0 ELSE h[Pick(V)] + F(V \ {Pick(V)})[V \ {Pick(V)}]
<1>1. SUFFICES ASSUME T # {}
               PROVE  FALSE
  BY <1>1
<1>2. PICK U \in T : \A W \in T : W \subseteq U => W = U
  <2>1. T \in SUBSET (SUBSET D)
    OBVIOUS
  <2> HIDE DEF T
  <2> QED
    BY <2>1, <1>1, MinimalSubset
<1>3. ASSUME NEW W \in SUBSET U, W # U
      PROVE  IsSumOn(F(W), h, W)
  <2>1. \E f : IsSumOn(f, h, W)
    BY <1>2, <1>3
  <2> QED
    BY <2>1
<1>4. ASSUME NEW W \in SUBSET U, W # U
      PROVE  F(W)[W] = s(W)
  <2>1. CASE W = {}
    <3>1. IsSumOn(F(W), h, W) /\ W \in SUBSET W
      BY <1>3, <1>4
    <3> HIDE DEF F
    <3> QED
      BY <3>1, <2>1 DEF IsSumOn
  <2>2. CASE W # {}
    <3> DEFINE V == W \ {Pick(W)}
    <3>1. Pick(W) \in W
      BY <2>2, PickIsMember
    <3>2. V \in SUBSET U /\ V # U /\ V \in SUBSET W /\ W \in SUBSET W
      BY <3>1, <1>4
    <3>3. IsSumOn(F(W), h, W) /\ IsSumOn(F(V), h, V)
      BY <1>3, <1>4, <3>2
    <3>4. IsFiniteSet(W)
      BY <1>2, FS_Subset
    <3>5. F(W)[V] = F(V)[V]
      <4> HIDE DEF F, V
      <4> QED
        BY <3>2, <3>3, <3>4, SumUnique
    <3>6. F(W)[W] = h[Pick(W)] + F(W)[V]
      <4> HIDE DEF F
      <4> QED
        BY <3>3, <3>2, <2>2 DEF IsSumOn
    <3> QED
      BY <3>5, <3>6, <2>2
  <2> QED
    BY <2>1, <2>2
<1>5. IsSumOn([V \in SUBSET U |-> s(V)], h, U)
  <2> DEFINE f == [V \in SUBSET U |-> s(V)]
  <2>1. ASSUME NEW V \in SUBSET U, V # {}
        PROVE  f[V] = h[Pick(V)] + f[V \ {Pick(V)}]
    <3>1. Pick(V) \in V
      BY <2>1, PickIsMember
    <3>2. V \ {Pick(V)} \in SUBSET U /\ V \ {Pick(V)} # U
      BY <3>1
    <3>3. F(V \ {Pick(V)})[V \ {Pick(V)}] = s(V \ {Pick(V)})
      BY <3>2, <1>4
    <3> HIDE DEF F
    <3> QED
      BY <2>1, <3>2, <3>3
  <2>2. f[{}] = 0
    OBVIOUS
  <2>3. f = [V \in SUBSET U |-> f[V]]
    OBVIOUS
  <2>4. IsSumOn(f, h, U)
    <3> HIDE DEF f
    <3> QED
      BY <2>1, <2>2, <2>3 DEF IsSumOn
  <2> QED
    BY <2>4
<1> QED
  BY <1>2, <1>5

(* Nothing sums to zero, and one element of a set is summed before the rest. *)
LEMMA SumStep ==
  ASSUME NEW h, NEW D, IsFiniteSet(D)
  PROVE  /\ D = {} => Sum(h, D) = 0
         /\ D # {} => Sum(h, D) = h[Pick(D)] + Sum(h, D \ {Pick(D)})
<1> DEFINE F(V) == CHOOSE f : IsSumOn(f, h, V)
<1>1. \A V \in SUBSET D : IsSumOn(F(V), h, V)
  BY SumExists, FS_Subset
<1>2. \A V : Sum(h, V) = F(V)[V]
  BY SumIsFold
<1> HIDE DEF F
<1>3. D \in SUBSET D /\ IsSumOn(F(D), h, D)
  BY <1>1
<1>4. ASSUME D = {}
      PROVE  Sum(h, D) = 0
  BY <1>2, <1>3, <1>4 DEF IsSumOn
<1>5. ASSUME D # {}
      PROVE  Sum(h, D) = h[Pick(D)] + Sum(h, D \ {Pick(D)})
  <2> DEFINE V == D \ {Pick(D)}
  <2>1. V \in SUBSET D /\ V \subseteq V
    OBVIOUS
  <2>2. F(D)[V] = F(V)[V]
    <3>1. IsSumOn(F(V), h, V)
      BY <1>1, <2>1
    <3> HIDE DEF V
    <3> QED
      BY <1>3, <2>1, <3>1, SumUnique
  <2>3. F(D)[D] = h[Pick(D)] + F(D)[V]
    BY <1>3, <1>5 DEF IsSumOn
  <2> QED
    BY <1>2, <2>2, <2>3
<1> QED
  BY <1>4, <1>5

(* A sum of amounts is an amount. *)
LEMMA SumNat ==
  ASSUME NEW D, IsFiniteSet(D), NEW h \in [D -> Nat], NEW S \in SUBSET D
  PROVE  Sum(h, S) \in Nat
<1> DEFINE T == { V \in SUBSET D : Sum(h, V) \notin Nat }
<1>1. SUFFICES ASSUME T # {}
               PROVE  FALSE
  BY <1>1
<1>2. PICK V \in T : \A W \in T : W \subseteq V => W = V
  <2>1. T \in SUBSET (SUBSET D)
    OBVIOUS
  <2> HIDE DEF T
  <2> QED
    BY <2>1, <1>1, MinimalSubset
<1>3. V \in SUBSET D /\ Sum(h, V) \notin Nat /\ IsFiniteSet(V)
  BY <1>2, FS_Subset
<1>4. V # {}
  <2>1. V = {} => Sum(h, V) = 0
    BY <1>3, SumStep
  <2> QED
    BY <2>1, <1>3
<1>5. Pick(V) \in V /\ Sum(h, V) = h[Pick(V)] + Sum(h, V \ {Pick(V)})
  BY <1>3, <1>4, SumStep, PickIsMember
<1>6. Sum(h, V \ {Pick(V)}) \in Nat
  BY <1>2, <1>3, <1>5
<1> QED
  BY <1>3, <1>5, <1>6

(* Any element may be taken out of a sum: the order of the rows does not matter. *)
LEMMA SumSplit ==
  ASSUME NEW D, IsFiniteSet(D), NEW h \in [D -> Nat], NEW S \in SUBSET D, NEW x \in S
  PROVE  Sum(h, S) = h[x] + Sum(h, S \ {x})
<1> DEFINE Differs(V) == \E y \in V : Sum(h, V) # h[y] + Sum(h, V \ {y})
           T == { V \in SUBSET D : Differs(V) }
<1>1. SUFFICES ASSUME T # {}
               PROVE  FALSE
  BY <1>1
<1>2. PICK V \in T : \A W \in T : W \subseteq V => W = V
  <2>1. T \in SUBSET (SUBSET D)
    OBVIOUS
  <2> HIDE DEF T
  <2> QED
    BY <2>1, <1>1, MinimalSubset
<1>3. V \in SUBSET D /\ IsFiniteSet(V)
  BY <1>2, FS_Subset
<1>4. PICK y \in V : Sum(h, V) # h[y] + Sum(h, V \ {y})
  BY <1>2
<1> DEFINE c == Pick(V)
<1>5. c \in V /\ Sum(h, V) = h[c] + Sum(h, V \ {c})
  BY <1>3, <1>4, SumStep, PickIsMember
<1> HIDE DEF c
<1>6. c # y
  BY <1>4, <1>5
<1>7. ASSUME NEW W \in SUBSET V, W # V, NEW z \in W
      PROVE  Sum(h, W) = h[z] + Sum(h, W \ {z})
  BY <1>2, <1>3, <1>7
<1>8. Sum(h, V \ {c}) = h[y] + Sum(h, (V \ {c}) \ {y})
  BY <1>7, <1>5, <1>6
<1>9. Sum(h, V \ {y}) = h[c] + Sum(h, (V \ {y}) \ {c})
  BY <1>7, <1>5, <1>6
<1>10. (V \ {y}) \ {c} = (V \ {c}) \ {y}
  OBVIOUS
<1>11. Sum(h, (V \ {c}) \ {y}) \in Nat /\ h[c] \in Nat /\ h[y] \in Nat
  BY <1>3, <1>5, SumNat
<1> QED
  BY <1>4, <1>5, <1>8, <1>9, <1>10, <1>11

(* Where no amount grows, the sum does not. *)
LEMMA SumMono ==
  ASSUME NEW D, IsFiniteSet(D), NEW h \in [D -> Nat], NEW g \in [D -> Nat], NEW S \in SUBSET D,
         \A x \in S : h[x] <= g[x]
  PROVE  Sum(h, S) <= Sum(g, S)
<1> DEFINE T == { V \in SUBSET S : ~(Sum(h, V) <= Sum(g, V)) }
<1>1. SUFFICES ASSUME T # {}
               PROVE  FALSE
  BY <1>1
<1>2. PICK V \in T : \A W \in T : W \subseteq V => W = V
  <2>1. T \in SUBSET (SUBSET S) /\ IsFiniteSet(S)
    BY FS_Subset
  <2> HIDE DEF T
  <2> QED
    BY <2>1, <1>1, MinimalSubset
<1>3. V \in SUBSET S /\ V \in SUBSET D /\ IsFiniteSet(V)
  BY <1>2, FS_Subset
<1>4. V # {}
  <2>1. V = {} => Sum(h, V) = 0 /\ Sum(g, V) = 0
    BY <1>3, SumStep
  <2> QED
    BY <2>1, <1>2
<1>5. PICK c \in V : TRUE
  BY <1>4
<1>6. V \ {c} \in SUBSET S /\ V \ {c} \in SUBSET D /\ V \ {c} # V
  BY <1>3
<1>7. Sum(h, V \ {c}) <= Sum(g, V \ {c})
  BY <1>2, <1>6
<1>8. Sum(h, V) = h[c] + Sum(h, V \ {c}) /\ Sum(g, V) = g[c] + Sum(g, V \ {c})
  BY <1>3, SumSplit
<1>9. Sum(h, V \ {c}) \in Nat /\ Sum(g, V \ {c}) \in Nat /\ h[c] \in Nat /\ g[c] \in Nat
      /\ h[c] <= g[c]
  BY <1>3, <1>6, SumNat
<1> QED
  BY <1>2, <1>7, <1>8, <1>9

(* Amounts that agree on a set have the same sum over it. *)
LEMMA SumSame ==
  ASSUME NEW D, IsFiniteSet(D), NEW h \in [D -> Nat], NEW g \in [D -> Nat], NEW S \in SUBSET D,
         \A x \in S : h[x] = g[x]
  PROVE  Sum(h, S) = Sum(g, S)
<1>1. Sum(h, S) <= Sum(g, S) /\ Sum(g, S) <= Sum(h, S)
  BY SumMono
<1> QED
  BY <1>1, SumNat

-----------------------------------------------------------------------------
(* The inductive invariant. A row that runs is a row that exists; until the exceptions of    *)
(* NeverTwice happen, a session's one turn is in flight exactly while its row runs, and the   *)
(* holds are covered.                                                                        *)
RunningExists == \A s \in Sessions : rows[s].running => rows[s].exists

OneTurnHolds ==
  ~strayed => \A s \in Sessions : InFlight(s) <= 1 /\ (InFlight(s) > 0 => rows[s].running)

HoldsCovered == ~strayed => Held <= balance

IInv == TypeOK /\ NoGhostHold /\ RunningExists /\ OneTurnHolds /\ HoldsCovered

Table == [Sessions -> SessionRow]
Others(R, s) == Sum(Holds(R), Sessions \ {s})

(* Q differs from R at most in the budget of s, and in whether its row is written. *)
Rebudgeted(Q, R, s) ==
  /\ Q \in Table
  /\ \A o \in Sessions \ {s} : Q[o] = R[o]
  /\ Q[s].running = R[s].running /\ Q[s].spent = R[s].spent

(* Flooring to whole credits never raises an amount, and keeps the order (setBudget's floor). *)
LEMMA WholeCreditsFacts ==
  ASSUME NEW n \in Nat
  PROVE  /\ WholeCredits(n) \in Nat /\ WholeCredits(n) <= n
         /\ \A m \in Nat : m <= n => WholeCredits(m) <= WholeCredits(n)
<1>1. Unit \in Nat /\ Unit > 0
  BY SessionBudgetConstants
<1>2. ASSUME NEW m \in Nat
      PROVE  m \div Unit \in Nat /\ Unit * (m \div Unit) <= m /\ m < Unit * (m \div Unit) + Unit
  BY <1>1
<1>3. ASSUME NEW m \in Nat, m <= n
      PROVE  m \div Unit <= n \div Unit
  BY <1>1, <1>2, <1>3
<1>4. ASSUME NEW i \in Nat, NEW j \in Nat, i <= j
      PROVE  Unit * i \in Nat /\ Unit * i <= Unit * j
  BY <1>1, <1>4
<1> QED
  BY <1>2, <1>3, <1>4 DEF WholeCredits

(* What a row holds is an amount, and a row that does not run holds nothing (holdOf). *)
LEMMA HoldsType ==
  ASSUME NEW R \in Table
  PROVE  /\ Holds(R) \in [Sessions -> Nat]
         /\ \A s \in Sessions : /\ Remaining(R[s]) \in Nat
                               /\ Holds(R)[s] = IF R[s].running THEN Remaining(R[s]) ELSE 0
  BY DEF Table, SessionRow, Holds, holdOf, Remaining, AtLeastZero

(* What is free for a session is what the others leave of the balance (available). *)
LEMMA AvailableFacts ==
  ASSUME NEW R \in Table, NEW s \in Sessions, balance \in Nat
  PROVE  /\ Others(R, s) \in Nat
         /\ available(R, s) = IF balance - Others(R, s) > 0 THEN balance - Others(R, s) ELSE 0
         /\ available(R, s) \in Nat
<1>1. Others(R, s) \in Nat
  BY HoldsType, SumNat, SessionBudgetConstants DEF Others
<1>2. available(R, s) = AtLeastZero(balance - Others(R, s))
  BY DEF available, Others, Sum
<1> QED
  BY <1>1, <1>2 DEF AtLeastZero

(* A change to one row leaves what the others hold, and what is free for it. *)
LEMMA HeldAfter ==
  ASSUME NEW R \in Table, NEW Q \in Table, NEW s \in Sessions,
         \A o \in Sessions \ {s} : Q[o] = R[o]
  PROVE  /\ Others(Q, s) = Others(R, s)
         /\ Sum(Holds(Q), Sessions) = Holds(Q)[s] + Others(R, s)
         /\ available(Q, s) = available(R, s)
<1>1. Others(Q, s) = Others(R, s)
  <2>1. \A o \in Sessions \ {s} : Holds(Q)[o] = Holds(R)[o]
    BY DEF Holds
  <2> QED
    BY <2>1, HoldsType, SumSame, SessionBudgetConstants DEF Others
<1>2. Sum(Holds(Q), Sessions) = Holds(Q)[s] + Others(Q, s)
  BY HoldsType, SumSplit, SessionBudgetConstants DEF Others
<1>3. available(Q, s) = available(R, s)
  BY <1>1 DEF available, Others, Sum
<1> QED
  BY <1>1, <1>2, <1>3

(* ensure writes the row of a session that has none and leaves every other one. *)
LEMMA EnsureFacts ==
  ASSUME NEW R \in Table, NEW s \in Sessions, balance \in Nat
  PROVE  /\ Rebudgeted(ensure(R, s), R, s)
         /\ ensure(R, s)[s].exists
         /\ R[s].exists => ensure(R, s) = R
<1>1. available(R, s) \in Nat
  BY AvailableFacts
<1> QED
  BY <1>1, SessionBudgetConstants DEF ensure, Rebudgeted, Table, SessionRow

(* A budget that is set never exceeds what is asked for or spent, nor, once it changed, what    *)
(* is free, and never falls below the whole credits spent (setBudget).                         *)
LEMMA SetBudgetFacts ==
  ASSUME NEW R \in Table, NEW s \in Sessions, balance \in Nat, NEW want \in Nat
  PROVE  LET Q == setBudget(R, s, want)
         IN /\ Rebudgeted(Q, R, s) /\ Q[s].exists = R[s].exists
            /\ Q # R => /\ Remaining(Q[s]) <= available(R, s)
                        /\ Q[s].budget >= WholeCredits(R[s].spent)
            /\ want = R[s].spent + available(R, s) => Remaining(Q[s]) <= available(R, s)
<1>1. available(R, s) \in Nat
  BY AvailableFacts
<1>2. R[s] \in SessionRow /\ R[s].spent \in Nat
  BY DEF Table, SessionRow
<1>3. Larger(want, R[s].spent) \in Nat /\ R[s].spent <= Larger(want, R[s].spent)
  BY <1>2 DEF Larger
<1>4. /\ BudgetFor(R[s], want) \in Nat /\ BudgetFor(R[s], want) <= Larger(want, R[s].spent)
      /\ BudgetFor(R[s], want) >= WholeCredits(R[s].spent)
  BY <1>2, <1>3, WholeCreditsFacts DEF BudgetFor
<1>5. CASE Affordable(R, s, want)
  <2> DEFINE Q == [R EXCEPT ![s].budget = BudgetFor(R[s], want)]
  <2>1. setBudget(R, s, want) = Q
    BY <1>5 DEF setBudget
  <2>2. /\ Rebudgeted(Q, R, s) /\ Q[s].exists = R[s].exists
        /\ Q[s].budget = BudgetFor(R[s], want) /\ Q[s].spent = R[s].spent
    BY <1>2, <1>4 DEF Rebudgeted, Table, SessionRow
  <2>3. Remaining(Q[s]) <= available(R, s)
    <3>1. BudgetFor(R[s], want) - R[s].spent <= available(R, s)
      BY <1>5 DEF Affordable
    <3> QED
      BY <3>1, <2>2, <1>1, <1>2, <1>4 DEF Remaining, AtLeastZero
  <2> QED
    BY <2>1, <2>2, <2>3, <1>4
<1>6. CASE ~Affordable(R, s, want)
  <2>1. setBudget(R, s, want) = R
    BY <1>6 DEF setBudget
  <2>2. want # R[s].spent + available(R, s)
    BY <1>6, <1>1, <1>2, <1>4 DEF Affordable, Larger
  <2> QED
    BY <2>1, <2>2 DEF Rebudgeted
<1> QED
  BY <1>5, <1>6

(* What the gate leaves: a session with something left to spend has no more than is free now. *)
LEMMA GatedFacts ==
  ASSUME NEW s \in Sessions, balance \in Nat, rows \in Table
  PROVE  /\ Rebudgeted(Gated(s), rows, s) /\ Gated(s)[s].exists
         /\ Remaining(Gated(s)[s]) <= available(rows, s) \/ Remaining(Gated(s)[s]) = 0
<1> DEFINE R == ensure(rows, s)
<1>1. Rebudgeted(R, rows, s) /\ R[s].exists
  BY EnsureFacts
<1>2. R \in Table /\ available(R, s) = available(rows, s) /\ available(R, s) \in Nat
  BY <1>1, HeldAfter, AvailableFacts DEF Rebudgeted
<1>3. Gated(s) = Revalidated(R, s)
  BY DEF Gated
<1> HIDE DEF R
<1>4. R[s].spent \in Nat /\ Remaining(R[s]) \in Nat
  BY <1>2, HoldsType DEF Table, SessionRow
<1>5. CASE Remaining(R[s]) > 0 /\ Remaining(R[s]) > available(R, s)
  <2> DEFINE want == R[s].spent + available(R, s)
             Q == setBudget(R, s, want)
  <2>1. Gated(s) = Q
    BY <1>3, <1>5 DEF Revalidated
  <2>2. want \in Nat
    BY <1>2, <1>4
  <2>3. Rebudgeted(Q, R, s) /\ Q[s].exists = R[s].exists /\ Remaining(Q[s]) <= available(R, s)
    BY <1>2, <2>2, SetBudgetFacts
  <2> QED
    BY <2>1, <2>3, <1>1, <1>2 DEF Rebudgeted
<1>6. CASE ~(Remaining(R[s]) > 0 /\ Remaining(R[s]) > available(R, s))
  <2>1. Gated(s) = R
    BY <1>3, <1>6 DEF Revalidated
  <2> QED
    BY <2>1, <1>1, <1>2, <1>4, <1>6
<1> QED
  BY <1>5, <1>6

-----------------------------------------------------------------------------
(* What a step that changes one row does to the invariant, given what the row holds then. *)
LEMMA OneRowStep ==
  ASSUME TypeOK, NEW s \in Sessions, rows' \in Table, \A o \in Sessions \ {s} : rows'[o] = rows[o]
  PROVE  /\ Held = Holds(rows)[s] + Others(rows, s)
         /\ Held' = Holds(rows')[s] + Others(rows, s)
         /\ Holds(rows)[s] \in Nat /\ Holds(rows')[s] \in Nat /\ Others(rows, s) \in Nat
<1>1. rows \in Table /\ balance \in Nat
  BY DEF TypeOK, Table
<1>2. Sum(Holds(rows), Sessions) = Holds(rows)[s] + Others(rows, s)
  BY <1>1, HeldAfter
<1>3. Sum(Holds(rows'), Sessions) = Holds(rows')[s] + Others(rows, s)
  BY <1>1, HeldAfter
<1>4. Held = Sum(Holds(rows), Sessions) /\ Held' = Sum(Holds(rows'), Sessions)
  BY DEF Held, Sum
<1> QED
  BY <1>1, <1>2, <1>3, <1>4, HoldsType, AvailableFacts

(* The sessions' holds before anything runs, and after a restart, are nothing. *)
LEMMA NothingHeld ==
  ASSUME NEW R \in Table, \A s \in Sessions : ~R[s].running
  PROVE  Sum(Holds(R), Sessions) = 0
<1> DEFINE zero == [s \in Sessions |-> 0]
<1>1. Holds(R) = zero
  BY DEF Holds, holdOf
<1>2. Sum(zero, Sessions) = 0
  <2> DEFINE T == { V \in SUBSET Sessions : Sum(zero, V) # 0 }
  <2>1. SUFFICES ASSUME T # {}
                 PROVE  FALSE
    BY <2>1
  <2>2. PICK V \in T : \A W \in T : W \subseteq V => W = V
    <3>1. T \in SUBSET (SUBSET Sessions)
      OBVIOUS
    <3> HIDE DEF T
    <3> QED
      BY <3>1, <2>1, MinimalSubset, SessionBudgetConstants
  <2>3. V \in SUBSET Sessions /\ IsFiniteSet(V) /\ Sum(zero, V) # 0
    BY <2>2, FS_Subset, SessionBudgetConstants
  <2>4. V # {}
    <3>1. V = {} => Sum(zero, V) = 0
      BY <2>3, SumStep
    <3> QED
      BY <3>1, <2>3
  <2>5. Pick(V) \in V /\ Sum(zero, V) = zero[Pick(V)] + Sum(zero, V \ {Pick(V)})
    <3> HIDE DEF zero
    <3> QED
      BY <2>3, <2>4, SumStep, PickIsMember
  <2>6. Sum(zero, V \ {Pick(V)}) = 0
    BY <2>2, <2>3, <2>5
  <2> QED
    BY <2>3, <2>5, <2>6
<1> QED
  BY <1>1, <1>2

(* A fresh table satisfies the invariant (createSessionBudgets). *)
LEMMA InitInv == Init => IInv
<1> SUFFICES ASSUME Init
             PROVE  IInv
  OBVIOUS
<1>1. TypeOK
  <2>1. [exists |-> FALSE, budget |-> 0, spent |-> 0, running |-> FALSE] \in SessionRow
    BY DEF SessionRow
  <2>2. rows \in [Sessions -> SessionRow]
    BY <2>1 DEF Init
  <2>3. balance \in Nat /\ turns \in [Sessions -> [open : Nat, settled : Nat]]
    BY SessionBudgetConstants DEF Init
  <2> QED
    BY <2>2, <2>3 DEF Init, TypeOK
<1>2. NoGhostHold /\ RunningExists /\ OneTurnHolds
  BY DEF Init, NoGhostHold, RunningExists, OneTurnHolds, InFlight
<1>3. HoldsCovered
  <2>1. Sum(Holds(rows), Sessions) = 0
    BY <1>1, NothingHeld DEF Init, TypeOK, Table
  <2> QED
    BY <2>1, <1>1 DEF HoldsCovered, Held, Sum, TypeOK
<1> QED
  BY <1>1, <1>2, <1>3 DEF IInv

(* A rebudgeted table under the same turns and balance: /budget, and the gate that refuses. *)
LEMMA RebudgetStep ==
  ASSUME IInv, NEW s \in Sessions, Rebudgeted(rows', rows, s), UNCHANGED <<balance, turns, strayed>>,
         rows'[s].running => /\ rows'[s].exists
                             /\ \/ rows'[s] = rows[s]
                                \/ Remaining(rows'[s]) <= available(rows, s)
                                \/ Remaining(rows'[s]) = 0
  PROVE  IInv' /\ (Held' > Held => Held' <= balance')
<1>1. TypeOK'
  BY DEF IInv, TypeOK, Rebudgeted, Table
<1>2. NoGhostHold' /\ RunningExists' /\ OneTurnHolds'
  BY DEF IInv, NoGhostHold, RunningExists, OneTurnHolds, InFlight, Rebudgeted
<1>3. /\ Held = Holds(rows)[s] + Others(rows, s) /\ Held' = Holds(rows')[s] + Others(rows, s)
      /\ Holds(rows)[s] \in Nat /\ Holds(rows')[s] \in Nat /\ Others(rows, s) \in Nat
  BY OneRowStep DEF IInv, Rebudgeted
<1>4. balance \in Nat /\ rows \in Table /\ rows' \in Table
  BY DEF IInv, TypeOK, Table, Rebudgeted
<1>5. available(rows, s) = IF balance - Others(rows, s) > 0 THEN balance - Others(rows, s) ELSE 0
  BY <1>4, AvailableFacts
<1>6. /\ Holds(rows')[s] = IF rows'[s].running THEN Remaining(rows'[s]) ELSE 0
      /\ Holds(rows)[s] = IF rows[s].running THEN Remaining(rows[s]) ELSE 0
  BY <1>4, HoldsType
<1>7. Holds(rows')[s] <= Holds(rows)[s] \/ Holds(rows')[s] = 0 \/ Holds(rows')[s] <= available(rows, s)
  BY <1>3, <1>6 DEF Rebudgeted
<1>8. Held' <= Held \/ Held' <= balance
  BY <1>3, <1>4, <1>5, <1>7
<1>9. HoldsCovered'
  BY <1>3, <1>4, <1>8 DEF IInv, HoldsCovered
<1>10. Held' > Held => Held' <= balance'
  BY <1>3, <1>4, <1>8
<1> QED
  BY <1>1, <1>2, <1>9, <1>10 DEF IInv

(* Every step keeps the invariant, and takes on no hold the balance does not cover. *)
LEMMA StepInv ==
  ASSUME IInv, [Next]_vars
  PROVE  IInv' /\ (Held' > Held => Held' <= balance')
<1>0. balance \in Nat /\ rows \in Table /\ strayed \in BOOLEAN
      /\ turns \in [Sessions -> [open : Nat, settled : Nat]]
  BY DEF IInv, TypeOK, Table
<1>1. ASSUME NEW s \in Sessions, GateRefuses(s)
      PROVE  IInv' /\ (Held' > Held => Held' <= balance')
  <2>1. Rebudgeted(rows', rows, s) /\ rows'[s].exists /\ Remaining(rows'[s]) = 0
    BY <1>0, <1>1, GatedFacts DEF GateRefuses
  <2> QED
    BY <1>1, <2>1, RebudgetStep DEF GateRefuses
<1>2. ASSUME NEW s \in Sessions, ReadBudget(s)
      PROVE  IInv' /\ (Held' > Held => Held' <= balance')
  <2>1. Rebudgeted(rows', rows, s)
    BY <1>0, <1>2, EnsureFacts DEF ReadBudget
  <2>2. ~rows'[s].running
    BY <1>2, <2>1 DEF ReadBudget, Rebudgeted, IInv, RunningExists
  <2> QED
    BY <1>2, <2>1, <2>2, RebudgetStep DEF ReadBudget
<1>3. ASSUME NEW s \in Sessions, NEW want \in 0 .. MaxBalance, WriteBudget(s, want)
      PROVE  IInv' /\ (Held' > Held => Held' <= balance')
  <2> DEFINE R == ensure(rows, s)
  <2>1. Rebudgeted(R, rows, s) /\ R[s].exists /\ (rows[s].exists => R = rows)
    BY <1>0, EnsureFacts
  <2>2. R \in Table /\ available(R, s) = available(rows, s)
    BY <2>1, <1>0, HeldAfter DEF Rebudgeted
  <2>3. want \in Nat /\ rows' = setBudget(R, s, want)
    BY <1>3, SessionBudgetConstants DEF WriteBudget
  <2> HIDE DEF R
  <2>4. /\ Rebudgeted(rows', R, s) /\ rows'[s].exists
        /\ rows' # R => Remaining(rows'[s]) <= available(rows, s)
    BY <2>1, <2>2, <2>3, <1>0, SetBudgetFacts
  <2>5. rows'[s].running => R = rows
    BY <2>1, <2>4 DEF Rebudgeted, IInv, RunningExists
  <2>6. Rebudgeted(rows', rows, s)
    BY <2>1, <2>4 DEF Rebudgeted
  <2> QED
    BY <1>3, <2>4, <2>5, <2>6, RebudgetStep DEF WriteBudget
<1>4. ASSUME NEW s \in Sessions, GateAdmits(s)
      PROVE  IInv' /\ (Held' > Held => Held' <= balance')
  <2>1. /\ Rebudgeted(Gated(s), rows, s) /\ Gated(s)[s].exists
        /\ Remaining(Gated(s)[s]) <= available(rows, s) /\ Remaining(Gated(s)[s]) > 0
    BY <1>0, <1>4, GatedFacts DEF GateAdmits
  <2>2. /\ rows' \in Table /\ \A o \in Sessions \ {s} : rows'[o] = rows[o]
        /\ rows'[s].running /\ rows'[s].exists /\ Remaining(rows'[s]) = Remaining(Gated(s)[s])
    BY <1>4, <2>1 DEF GateAdmits, Rebudgeted, Table, SessionRow, Remaining
  <2>3. TypeOK'
    BY <1>0, <1>4, <2>2 DEF GateAdmits, TypeOK, Table
  <2>4. NoGhostHold' /\ RunningExists' /\ OneTurnHolds'
    <3>1. /\ InFlight(s)' = InFlight(s) + 1 /\ \A o \in Sessions \ {s} : InFlight(o)' = InFlight(o)
          /\ \A o \in Sessions : InFlight(o) \in Nat
      BY <1>0, <1>4 DEF GateAdmits, InFlight
    <3>2. strayed' = (strayed \/ InFlight(s) > 0)
      BY <1>4 DEF GateAdmits
    <3>3. NoGhostHold' /\ RunningExists'
      BY <2>2, <3>1 DEF IInv, NoGhostHold, RunningExists
    <3>4. OneTurnHolds'
      <4>1. SUFFICES ASSUME ~strayed', NEW o \in Sessions
                     PROVE  InFlight(o)' <= 1 /\ (InFlight(o)' > 0 => rows'[o].running)
        BY DEF OneTurnHolds
      <4>2. ~strayed /\ ~(InFlight(s) > 0)
        BY <3>2, <4>1
      <4>3. CASE o = s
        BY <4>2, <4>3, <2>2, <3>1
      <4>4. CASE o # s
        BY <4>2, <4>4, <2>2, <3>1 DEF IInv, OneTurnHolds
      <4> QED
        BY <4>3, <4>4
    <3> QED
      BY <3>3, <3>4
  <2>5. /\ Held' = Holds(rows')[s] + Others(rows, s) /\ Others(rows, s) \in Nat
        /\ Holds(rows')[s] = Remaining(rows'[s]) /\ Holds(rows')[s] \in Nat
    BY <1>0, <2>2, OneRowStep, HoldsType DEF IInv
  <2>6. Held' <= balance'
    BY <1>0, <1>4, <2>1, <2>2, <2>5, AvailableFacts DEF GateAdmits
  <2> QED
    BY <2>3, <2>4, <2>6 DEF IInv, HoldsCovered
<1>5. ASSUME NEW s \in Sessions, endStream(s)
      PROVE  IInv' /\ (Held' > Held => Held' <= balance')
  <2>1. rows' \in Table /\ (\A o \in Sessions \ {s} : rows'[o] = rows[o]) /\ ~rows'[s].running
    BY <1>0, <1>5 DEF endStream, Table, SessionRow
  <2>2. TypeOK'
    BY <1>0, <1>5, <2>1 DEF endStream, TypeOK, Table
  <2>3. NoGhostHold' /\ RunningExists'
    BY <1>0, <1>5, <2>1 DEF endStream, IInv, NoGhostHold, RunningExists, InFlight
  <2>4. OneTurnHolds'
    BY <1>0, <1>5, <2>1 DEF endStream, IInv, OneTurnHolds, InFlight
  <2>5. Held' <= Held /\ Held \in Nat /\ Held' \in Nat
    BY <1>0, <2>1, OneRowStep, HoldsType DEF IInv
  <2> QED
    BY <1>0, <1>5, <2>2, <2>3, <2>4, <2>5 DEF IInv, HoldsCovered, endStream
<1>6. ASSUME NEW s \in Sessions, NEW cost \in 0 .. MaxCost, settleTurnSpend(s, cost)
      PROVE  IInv' /\ (Held' > Held => Held' <= balance')
  <2>1. /\ rows' \in Table /\ \A o \in Sessions \ {s} : rows'[o] = rows[o]
        /\ rows'[s] = [rows[s] EXCEPT !.spent = @ + cost] /\ cost \in Nat
    BY <1>0, <1>6, SessionBudgetConstants DEF settleTurnSpend, recordSpend, Table, SessionRow
  <2>2. TypeOK'
    BY <1>0, <1>6, <2>1 DEF settleTurnSpend, TypeOK, Table, AtLeastZero
  <2>3. NoGhostHold' /\ RunningExists'
    BY <1>0, <1>6, <2>1 DEF settleTurnSpend, IInv, NoGhostHold, RunningExists, InFlight, Table, SessionRow
  <2>4. OneTurnHolds'
    BY <1>0, <1>6, <2>1 DEF settleTurnSpend, IInv, OneTurnHolds, InFlight, Table, SessionRow
  <2>5. /\ Held = Holds(rows)[s] + Others(rows, s) /\ Held' = Holds(rows')[s] + Others(rows, s)
        /\ Holds(rows)[s] \in Nat /\ Holds(rows')[s] \in Nat /\ Others(rows, s) \in Nat
    BY <2>1, OneRowStep DEF IInv
  <2>6. /\ rows[s].running => Holds(rows)[s] = Remaining(rows[s])
        /\ Holds(rows')[s] = IF rows[s].running THEN Remaining(rows'[s]) ELSE 0
        /\ Holds(rows)[s] = IF rows[s].running THEN Remaining(rows[s]) ELSE 0
    BY <1>0, <2>1, HoldsType DEF Table, SessionRow
  <2>7. /\ Remaining(rows'[s]) <= Remaining(rows[s])
        /\ cost <= Remaining(rows[s]) => Remaining(rows'[s]) = Remaining(rows[s]) - cost
        /\ Remaining(rows[s]) \in Nat /\ Remaining(rows'[s]) \in Nat
    BY <1>0, <2>1 DEF Remaining, AtLeastZero, Table, SessionRow
  <2>8. Held' <= Held /\ Held \in Nat /\ Held' \in Nat
    BY <2>5, <2>6, <2>7
  <2>9. ASSUME ~strayed'
        PROVE  Held' <= balance'
    <3>1. ~strayed /\ cost <= Remaining(rows[s])
      BY <1>0, <1>6, <2>1, <2>7, <2>9 DEF settleTurnSpend
    <3>2. rows[s].running
      BY <1>0, <1>6, <3>1 DEF settleTurnSpend, IInv, OneTurnHolds, InFlight
    <3>3. Held <= balance /\ Held' = Held - cost
      BY <2>5, <2>6, <2>7, <2>1, <3>1, <3>2 DEF IInv, HoldsCovered
    <3> QED
      BY <1>0, <1>6, <2>1, <2>8, <3>3 DEF settleTurnSpend, AtLeastZero
  <2> QED
    BY <2>2, <2>3, <2>4, <2>8, <2>9 DEF IInv, HoldsCovered
<1>7. ASSUME NEW cost \in 1 .. MaxCost, meterOcr(cost)
      PROVE  IInv' /\ (Held' > Held => Held' <= balance')
  <2>1. balance' \in Nat /\ rows' = rows /\ turns' = turns /\ strayed' = TRUE
    BY <1>0, <1>7, SessionBudgetConstants DEF meterOcr, AtLeastZero
  <2>2. Held' = Held /\ Held \in Nat
    BY <1>0, <2>1, HoldsType, SumNat, SessionBudgetConstants DEF Held, Sum
  <2> QED
    BY <2>1, <2>2 DEF IInv, TypeOK, NoGhostHold, RunningExists, OneTurnHolds, HoldsCovered, InFlight
<1>8. ASSUME NEW n \in 1 .. MaxBalance, TopUp(n)
      PROVE  IInv' /\ (Held' > Held => Held' <= balance')
  <2>1. balance' = balance + n /\ n \in Nat /\ rows' = rows /\ turns' = turns /\ strayed' = strayed
    BY <1>8, SessionBudgetConstants DEF TopUp
  <2>2. Held' = Held /\ Held \in Nat
    BY <1>0, <2>1, HoldsType, SumNat, SessionBudgetConstants DEF Held, Sum
  <2> QED
    BY <1>0, <2>1, <2>2 DEF IInv, TypeOK, NoGhostHold, RunningExists, OneTurnHolds, HoldsCovered, InFlight
<1>9. ASSUME Restart
      PROVE  IInv' /\ (Held' > Held => Held' <= balance')
  <2>1. rows' \in Table /\ \A s \in Sessions : ~rows'[s].running
    BY <1>0, <1>9 DEF Restart, sweepRunning, Table, SessionRow
  <2>2. Held' = 0
    BY <2>1, NothingHeld DEF Held, Sum
  <2>3. TypeOK'
    BY <1>0, <1>9, <2>1 DEF Restart, TypeOK, Table
  <2>4. NoGhostHold' /\ RunningExists' /\ OneTurnHolds'
    BY <1>9, <2>1 DEF Restart, NoGhostHold, RunningExists, OneTurnHolds, InFlight
  <2> QED
    BY <1>0, <1>9, <2>2, <2>3, <2>4 DEF IInv, HoldsCovered, Restart
<1>10. CASE UNCHANGED vars
  <2>1. balance' = balance /\ rows' = rows /\ turns' = turns /\ strayed' = strayed
    BY <1>10 DEF vars
  <2>2. Held' = Held /\ Held \in Nat
    BY <1>0, <2>1, HoldsType, SumNat, SessionBudgetConstants DEF Held, Sum
  <2> QED
    BY <2>1, <2>2 DEF IInv, TypeOK, NoGhostHold, RunningExists, OneTurnHolds, HoldsCovered, InFlight
<1> QED
  BY <1>1, <1>2, <1>3, <1>4, <1>5, <1>6, <1>7, <1>8, <1>9, <1>10 DEF Next

(* The invariant of the session budgets. *)
THEOREM Invariant == Spec => []IInv
<1>1. Init => IInv
  BY InitInv
<1>2. IInv /\ [Next]_vars => IInv'
  BY StepInv
<1> QED
  BY <1>1, <1>2, PTL DEF Spec

(* The types hold in every reachable state. *)
THEOREM Typing == Spec => []TypeOK
<1>1. IInv => TypeOK
  BY DEF IInv
<1> QED
  BY <1>1, Invariant, PTL

(* No ghost earmark: neither an exit path of a turn nor a crash leaves a hold without a turn in  *)
(* flight (endStream, sweepRunning), for any number of sessions and of turns at once.           *)
THEOREM HoldsBelongToTurns == Spec => []NoGhostHold
<1>1. IInv => NoGhostHold
  BY DEF IInv
<1> QED
  BY <1>1, Invariant, PTL

(* The same credits are never committed to two sessions: what the turns in flight may still     *)
(* spend is covered by the balance, until one of the exceptions NeverTwice names has happened.  *)
THEOREM CreditsCommittedOnce == Spec => []NeverTwice
<1>1. ASSUME IInv
      PROVE  NeverTwice
  <2> SUFFICES ASSUME ~strayed
               PROVE  Committed <= balance
    BY DEF NeverTwice
  <2>1. rows \in Table
    BY <1>1 DEF IInv, TypeOK, Table
  <2>2. ASSUME NEW s \in Sessions
        PROVE  (IF InFlight(s) > 0 THEN Remaining(rows[s]) ELSE 0) = holdOf(rows[s])
    BY <1>1 DEF IInv, OneTurnHolds, NoGhostHold, holdOf
  <2>3. Holds(rows)
          = [s \in Sessions |-> IF InFlight(s) > 0 THEN Remaining(rows[s]) ELSE 0]
    BY <2>2 DEF Holds
  <2>4. Committed = Held
    BY <2>3 DEF Committed, Held
  <2> QED
    BY <1>1, <2>4 DEF IInv, HoldsCovered
<1> QED
  BY <1>1, Invariant, PTL

(* No step takes on a hold that the balance does not cover, whatever was overspent or charged   *)
(* elsewhere before (the gate's re-validation, setBudget's refusal).                            *)
THEOREM NewHoldsAreBacked == Spec => CommitBacked
<1>1. IInv /\ [Next]_vars => [Held' > Held => Held' <= balance']_vars
  BY StepInv
<1> QED
  BY <1>1, Invariant, PTL DEF Spec, CommitBacked
=============================================================================
