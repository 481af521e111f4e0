----------------------------- MODULE SessionBudget -----------------------------
(***************************************************************************)
(* The per-conversation spending gate of one credit account: the sessions   *)
(* table of sessionbudget.mjs, the gate a send passes in handleChat, the     *)
(* settlement that mirrors a turn's deduction, the /budget endpoint and the  *)
(* boot sweep.                                                               *)
(*                                                                           *)
(* Amounts are counted in fractions of a credit: a deduction is exact, a      *)
(* budget the user asks for is floored to whole credits. Every gate and every *)
(* settlement is synchronous, so each is one action; the turn itself, between *)
(* its gate and its settlement, is not.                                       *)
(***************************************************************************)
EXTENDS Integers, FiniteSets, Functions

CONSTANTS
  Sessions,     \* the account's conversations
  Unit,         \* fractions in a whole credit
  Default,      \* GUEST_DEFAULT_CREDITS, in fractions
  MaxBalance,   \* bound: what top-ups bring the balance to, and what one session spends
  MaxCost,      \* bound: the most one charge deducts
  MaxParallel   \* bound: turns of one conversation in flight at once

ASSUME SessionBudgetConstants ==
  /\ IsFiniteSet(Sessions)
  /\ Unit \in Nat \ {0} /\ Default \in Nat /\ MaxBalance \in Nat
  /\ MaxCost \in Nat /\ MaxParallel \in Nat \ {0}

VARIABLES
  balance,   \* credits.balance of the account (billing.mjs)
  rows,      \* the sessions table: budget, spent, running per conversation
  turns,     \* turns past the gate: not yet settled, settled and not yet ended
  strayed    \* history: two turns of one conversation at once, a turn above its budget,
             \* or a charge no budget covers

vars == <<balance, rows, turns, strayed>>

SessionRow == [exists : BOOLEAN, budget : Nat, spent : Nat, running : BOOLEAN]

TypeOK ==
  /\ balance \in Nat
  /\ rows \in [Sessions -> SessionRow]
  /\ turns \in [Sessions -> [open : Nat, settled : Nat]]
  /\ strayed \in BOOLEAN

InFlight(s) == turns[s].open + turns[s].settled

Init ==
  /\ balance \in 0 .. MaxBalance
  /\ rows = [s \in Sessions |->
               [exists |-> FALSE, budget |-> 0, spent |-> 0, running |-> FALSE]]
  /\ turns = [s \in Sessions |-> [open |-> 0, settled |-> 0]]
  /\ strayed = FALSE

-----------------------------------------------------------------------------
AtLeastZero(n) == IF n > 0 THEN n ELSE 0
Larger(m, n) == IF m > n THEN m ELSE n
WholeCredits(n) == Unit * (n \div Unit)

Remaining(r) == AtLeastZero(r.budget - r.spent)

(* holdOf: a session holds its unspent budget, but only while it runs.       *)
holdOf(r) == IF r.running THEN Remaining(r) ELSE 0

Holds(R) == [s \in Sessions |-> holdOf(R[s])]

(* Seeded fault: what the other sessions hold is not deducted.               *)
available_WholeBalance(R, s) == balance

(* available: the balance minus what the other sessions hold.                *)
available(R, s) ==
  AtLeastZero(balance - SumFunctionOnSet(Holds(R), Sessions \ {s}))

(* ensure: a new session starts at the default, or at what is free.          *)
ensure(R, s) ==
  IF R[s].exists THEN R
  ELSE [R EXCEPT ![s].exists = TRUE,
                 ![s].budget = IF available(R, s) < Default
                               THEN available(R, s) ELSE Default]

(* Seeded fault: no floor at what is spent.                                  *)
BudgetFor_NoFloor(r, want) == WholeCredits(want)

(* setBudget: floored at what is spent, then to whole credits; refused when  *)
(* the unspent part is more than is free.                                    *)
BudgetFor(r, want) == WholeCredits(Larger(want, r.spent))
Affordable(R, s, want) == BudgetFor(R[s], want) - R[s].spent <= available(R, s)

setBudget(R, s, want) ==
  IF Affordable(R, s, want)
  THEN [R EXCEPT ![s].budget = BudgetFor(R[s], want)]
  ELSE R

(* Seeded fault: a send trusts the budget that was planned.                  *)
Revalidated_Skipped(R, s) == R

(* The re-validation at send: a plan larger than what is free now shrinks.   *)
Revalidated(R, s) ==
  IF Remaining(R[s]) > 0 /\ Remaining(R[s]) > available(R, s)
  THEN setBudget(R, s, R[s].spent + available(R, s))
  ELSE R

Gated(s) == Revalidated(ensure(rows, s), s)

-----------------------------------------------------------------------------
(* The gate of a send. A spent-out session is refused (its clamped budget    *)
(* stays written); any other is marked running and its turn starts.          *)
GateRefuses(s) ==
  /\ balance > 0 /\ Remaining(Gated(s)[s]) = 0
  /\ rows' = Gated(s)
  /\ UNCHANGED <<balance, turns, strayed>>

GateAdmits(s) ==
  /\ balance > 0 /\ Remaining(Gated(s)[s]) > 0
  /\ InFlight(s) < MaxParallel
  /\ rows' = [Gated(s) EXCEPT ![s].running = TRUE]
  /\ turns' = [turns EXCEPT ![s].open = @ + 1]
  /\ strayed' = (strayed \/ InFlight(s) > 0)
  /\ UNCHANGED balance

(* settleTurnSpend: chargeTurn clamps the balance at zero; recordSpend adds  *)
(* the whole deduction. Nothing stops a turn that outgrows its session's     *)
(* budget before it settles.                                                 *)
recordSpend(R, s, credits) == [R EXCEPT ![s].spent = @ + credits]

settleTurnSpend(s, cost) ==
  /\ turns[s].open > 0
  /\ balance' = AtLeastZero(balance - cost)
  /\ rows' = recordSpend(rows, s, cost)
  /\ turns' = [turns EXCEPT ![s].open = @ - 1, ![s].settled = @ + 1]
  /\ strayed' = (strayed \/ cost > Remaining(rows[s]))

(* Seeded fault: a second endStream of the same turn is not recognised.      *)
endStream_Twice(s) ==
  /\ turns' = [turns EXCEPT ![s].settled = @ - 1]
  /\ rows' = [rows EXCEPT ![s].running = FALSE]
  /\ UNCHANGED <<balance, strayed>>

(* endStream's budgetTurnEnd, on every exit of the turn: settled, or one that *)
(* had nothing to settle.                                                     *)
endStream(s) ==
  /\ \/ /\ turns[s].settled > 0
        /\ turns' = [turns EXCEPT ![s].settled = @ - 1]
     \/ /\ turns[s].open > 0
        /\ turns' = [turns EXCEPT ![s].open = @ - 1]
  /\ rows' = [rows EXCEPT ![s].running = FALSE]
  /\ UNCHANGED <<balance, strayed>>

(* GET and POST /budget. *)
ReadBudget(s) ==
  /\ ~rows[s].exists
  /\ rows' = ensure(rows, s)
  /\ UNCHANGED <<balance, turns, strayed>>

WriteBudget(s, want) ==
  /\ rows' = setBudget(ensure(rows, s), s, want)
  /\ UNCHANGED <<balance, turns, strayed>>

(* A charge no session budget covers: an image, a Crucible move, Altana, OCR, *)
(* a chat request without a chat id.                                          *)
meterOcr(cost) ==
  /\ balance > 0
  /\ balance' = AtLeastZero(balance - cost)
  /\ strayed' = TRUE
  /\ UNCHANGED <<rows, turns>>

TopUp(n) ==
  /\ balance + n <= MaxBalance
  /\ balance' = balance + n
  /\ UNCHANGED <<rows, turns, strayed>>

(* Seeded fault: no sweep at boot.                                           *)
sweepRunning_Skipped(R) == R

(* The process dies with its turns and boots again; sweepRunning runs before *)
(* any request is served.                                                    *)
sweepRunning(R) == [s \in Sessions |-> [R[s] EXCEPT !.running = FALSE]]

Restart ==
  /\ rows' = sweepRunning(rows)
  /\ turns' = [s \in Sessions |-> [open |-> 0, settled |-> 0]]
  /\ UNCHANGED <<balance, strayed>>

Next ==
  \/ \E s \in Sessions :
       \/ GateRefuses(s) \/ GateAdmits(s) \/ endStream(s) \/ ReadBudget(s)
       \/ \E cost \in 0 .. MaxCost : rows[s].spent + cost <= MaxBalance /\ settleTurnSpend(s, cost)
       \/ \E want \in 0 .. MaxBalance : WriteBudget(s, want)
  \/ \E cost \in 1 .. MaxCost : meterOcr(cost)
  \/ \E n \in 1 .. MaxBalance : TopUp(n)
  \/ Restart

Spec == Init /\ [][Next]_vars

-----------------------------------------------------------------------------
Held == SumFunctionOnSet(Holds(rows), Sessions)

(* What the turns in flight may still spend of their sessions' budgets.      *)
Committed ==
  SumFunctionOnSet([s \in Sessions |-> IF InFlight(s) > 0 THEN Remaining(rows[s]) ELSE 0],
                   Sessions)

(* The same credits are never committed to two sessions at once: the budgets *)
(* of all sessions with a turn in flight are covered by the balance together,*)
(* until two turns share a conversation, a turn outgrows its budget or a      *)
(* charge comes in from outside.                                              *)
NeverTwice == ~strayed => Committed <= balance

(* The same with none of the exceptions, as the header states it. *)
NeverTwiceAtAll == Committed <= balance

(* No step takes on a new hold that the balance does not cover, whatever was *)
(* overspent or charged elsewhere before: the gate and setBudget measure     *)
(* against live numbers.                                                     *)
CommitBacked == [][ Held' > Held => Held' <= balance' ]_vars

(* A hold belongs to a turn in flight: neither an exit path nor a crash      *)
(* leaves a ghost earmark behind.                                            *)
NoGhostHold == \A s \in Sessions : rows[s].running => InFlight(s) > 0

(* Money already gone is never released: a budget is never lowered below the  *)
(* whole credits its session has spent.                                       *)
SpentIsFloor ==
  [][ \A s \in Sessions :
        rows'[s].budget < rows[s].budget
          => rows'[s].budget >= WholeCredits(rows[s].spent) ]_vars

(* The same to the fraction of a credit. *)
SpentIsExactFloor ==
  [][ \A s \in Sessions :
        rows'[s].budget < rows[s].budget => rows'[s].budget >= rows[s].spent ]_vars
=============================================================================
