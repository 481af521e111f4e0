-------------------------------- MODULE Billing --------------------------------
(***************************************************************************)
(* The credit account of one user: the ledger of billing.mjs, paid Checkout  *)
(* sessions arriving by the browser's return, by Stripe's webhook or by both, *)
(* welcome bonuses held by invite codes, and the auto-recharge and lock state *)
(* machine. A card charge is an await: autoRecharge reads the account row,    *)
(* waits for Stripe, and then writes what it computed from the row it read.   *)
(***************************************************************************)
EXTENDS Integers, FiniteSets

CONSTANTS
  Threshold,         \* RECHARGE_THRESHOLD
  Topup,             \* credits one auto-recharge buys
  Purchase,          \* credits one Checkout session buys
  Promo,             \* credits attached to a code
  MaxRechargeFails,  \* MAX_RECHARGE_FAILS
  Checkouts,         \* Checkout sessions the user may pay
  InviteCodes,       \* codes minted with type "invite"
  FreeCodes,         \* codes minted with type "free"
  Calls,             \* card charges that may be in flight at once
  Costs,             \* what a turn may cost, in credits
  MaxTurns,          \* bound: metered turns
  MaxAdjusts,        \* bound: owner adjustments
  MaxSwitches,       \* bound: uses of the auto top-off switch
  MaxCrashes         \* bound: process deaths

ASSUME BillingConstants ==
  /\ Threshold \in Nat /\ Topup \in Nat /\ Purchase \in Nat /\ Promo \in Nat
  /\ MaxRechargeFails \in Nat \ {0}
  /\ IsFiniteSet(Checkouts) /\ IsFiniteSet(InviteCodes) /\ IsFiniteSet(FreeCodes)
  /\ InviteCodes \cap FreeCodes = {}
  /\ Costs \subseteq Nat
  /\ MaxTurns \in Nat /\ MaxAdjusts \in Nat /\ MaxSwitches \in Nat /\ MaxCrashes \in Nat

VARIABLES
  acct,       \* the credits row
  ledger,     \* the sum of the ledger table's deltas
  status,     \* users.status
  role,       \* users.role
  paid,       \* the paid_sessions table
  codes,      \* codes redeemed
  settled,    \* Checkout sessions paid at Stripe (external)
  calls,      \* autoRecharge calls awaiting Stripe, with the row's fail count they read
  open,       \* turns past the door and not yet metered
  hist,       \* history: credits granted by purchases, bonus credits released
  used        \* how much of each bound has been spent

vars == <<acct, ledger, status, role, paid, codes, settled, calls, open, hist, used>>

(* nextRetryAt: none, in the future, or due. *)
RetryTimes == {"none", "later", "due"}

Account ==
  [ balance : Nat, autorecharge : BOOLEAN, topOffOptOut : BOOLEAN,
    card : BOOLEAN,          \* stripeCustomer and defaultPm are both set
    rechargeFails : Nat, nextRetryAt : RetryTimes, pendingPromo : Nat ]

Idle == [live |-> FALSE, force |-> FALSE, fails |-> 0]
Call == [live : BOOLEAN, force : BOOLEAN, fails : Nat]

TypeOK ==
  /\ acct \in Account
  /\ ledger \in Int
  /\ status \in {"active", "locked"}
  /\ role \in {"credit", "sponsored"}
  /\ paid \subseteq Checkouts
  /\ codes \subseteq InviteCodes \cup FreeCodes
  /\ settled \subseteq Checkouts
  /\ calls \in [Calls -> Call]
  /\ open \in Nat
  /\ hist \in [granted : Nat, released : Nat]
  /\ used \in [turns : Nat, adjusts : Nat, switches : Nat, crashes : Nat]

Init ==
  /\ acct = [ balance |-> 0, autorecharge |-> TRUE, topOffOptOut |-> FALSE,
              card |-> FALSE, rechargeFails |-> 0, nextRetryAt |-> "none",
              pendingPromo |-> 0 ]
  /\ ledger = 0
  /\ status = "active" /\ role = "credit"
  /\ paid = {} /\ codes = {} /\ settled = {}
  /\ calls = [c \in Calls |-> Idle]
  /\ open = 0
  /\ hist = [granted |-> 0, released |-> 0]
  /\ used = [turns |-> 0, adjusts |-> 0, switches |-> 0, crashes |-> 0]

-----------------------------------------------------------------------------
(* Seeded fault: no clamp.                                                   *)
AtLeastZero_Signed(n) == n

AtLeastZero(n) == IF n > 0 THEN n ELSE 0

(* apply: the balance is clamped at zero, the ledger takes the whole delta.  *)
Moved(a, delta) == [a EXCEPT !.balance = AtLeastZero(@ + delta)]

(* Seeded fault: a deduction that empties the account is not recorded.       *)
apply_UnrecordedLast(a, delta) ==
  /\ acct' = Moved(a, delta)
  /\ ledger' = IF a.balance + delta <= 0 THEN ledger ELSE ledger + delta

apply(a, delta) == acct' = Moved(a, delta) /\ ledger' = ledger + delta

Low(a) == a.balance <= Threshold

-----------------------------------------------------------------------------
(* autoRecharge up to its await: it gives up at once when switched off, locks *)
(* the account when there is no card, honours the backoff unless forced, and  *)
(* otherwise calls Stripe with the row as it is now.                          *)
Attempts(a, force) ==
  a.autorecharge /\ a.card /\ (force \/ a.nextRetryAt # "later")

autoRecharge(a, force) ==
  IF Attempts(a, force)
  THEN /\ \E c \in Calls :
            /\ ~calls[c].live
            /\ calls' = [calls EXCEPT ![c] =
                           [live |-> TRUE, force |-> force, fails |-> a.rechargeFails]]
       /\ UNCHANGED status
  ELSE /\ status' = IF a.autorecharge /\ ~a.card THEN "locked" ELSE status
       /\ UNCHANGED calls

(* ... and after it, on the row it read before. *)
ChargeSucceeds(c) ==
  /\ calls[c].live
  /\ apply([acct EXCEPT !.rechargeFails = 0, !.nextRetryAt = "none"], Topup)
  /\ status' = "active"
  /\ calls' = [calls EXCEPT ![c] = Idle]
  /\ UNCHANGED <<role, paid, codes, settled, open, hist, used>>

ChargeDeclined(c) ==
  LET fails == calls[c].fails + 1
  IN /\ calls[c].live
     /\ acct' = [acct EXCEPT !.rechargeFails = fails,
                             !.nextRetryAt = IF fails >= MaxRechargeFails
                                             THEN "none" ELSE "later"]
     /\ status' = IF fails >= MaxRechargeFails THEN "locked" ELSE status
     /\ calls' = [calls EXCEPT ![c] = Idle]
     /\ UNCHANGED <<ledger, role, paid, codes, settled, open, hist, used>>

(* Seeded fault: only accounts already locked are retried.                   *)
dueForRetry_LockedOnly ==
  /\ acct.autorecharge /\ acct.card
  /\ acct.nextRetryAt = "due" /\ status = "locked"
  /\ acct.rechargeFails > 0 /\ acct.rechargeFails < MaxRechargeFails

(* dueForRetry and the hourly sweep that charges the accounts it lists, one   *)
(* after the other.                                                           *)
dueForRetry ==
  /\ acct.autorecharge /\ acct.card
  /\ acct.nextRetryAt = "due"
  /\ acct.rechargeFails > 0 /\ acct.rechargeFails < MaxRechargeFails

retryDueRecharges ==
  /\ dueForRetry
  /\ \A c \in Calls : ~(calls[c].live /\ calls[c].force)
  /\ autoRecharge(acct, TRUE)
  /\ UNCHANGED <<acct, ledger, role, paid, codes, settled, open, hist, used>>

RetryComesDue ==
  /\ acct.nextRetryAt = "later"
  /\ acct' = [acct EXCEPT !.nextRetryAt = "due"]
  /\ UNCHANGED <<ledger, status, role, paid, codes, settled, calls, open, hist, used>>

-----------------------------------------------------------------------------
(* A turn passes the door while the account is active and has credits ...    *)
StartTurn ==
  /\ status = "active" /\ role = "credit" /\ acct.balance > 0
  /\ used.turns < MaxTurns
  /\ open' = open + 1
  /\ used' = [used EXCEPT !.turns = @ + 1]
  /\ UNCHANGED <<acct, ledger, status, role, paid, codes, settled, calls, hist>>

(* ... and is metered when it ends, whatever has happened to the account:     *)
(* chargeTurn deducts, and a low balance fires a recharge nobody waits for.   *)
meterTurn(cost) ==
  LET a == Moved(acct, -cost)
  IN /\ open > 0
     /\ open' = open - 1
     /\ apply(acct, -cost)
     /\ IF Low(a) THEN autoRecharge(a, FALSE) ELSE UNCHANGED <<status, calls>>
     /\ UNCHANGED <<role, paid, codes, settled, hist, used>>

-----------------------------------------------------------------------------
(* Seeded fault: a purchase re-arms over the user's choice.                  *)
Armed_Always(a) == [a EXCEPT !.autorecharge = TRUE]

(* grantSession: once per Checkout session; the first purchase releases the  *)
(* held bonus, and a purchase arms auto top-off unless it was switched off.  *)
Armed(a) == IF a.topOffOptOut THEN a ELSE [a EXCEPT !.autorecharge = TRUE]

(* Seeded fault: the paid_sessions table is not consulted.                   *)
grantSession_Again(a, id) ==
  /\ paid' = paid \cup {id}
  /\ apply(Armed([a EXCEPT !.pendingPromo = 0]), Purchase + a.pendingPromo)
  /\ hist' = [ granted  |-> hist.granted + Purchase,
               released |-> hist.released + a.pendingPromo ]

grantSession(a, id) ==
  IF id \in paid
  THEN acct' = a /\ UNCHANGED <<ledger, paid, hist>>
  ELSE /\ paid' = paid \cup {id}
       /\ apply(Armed([a EXCEPT !.pendingPromo = 0]), Purchase + a.pendingPromo)
       /\ hist' = [ granted  |-> hist.granted + Purchase,
                    released |-> hist.released + a.pendingPromo ]

(* The user pays on Stripe's page. *)
PayCheckout(id) ==
  /\ id \notin settled
  /\ settled' = settled \cup {id}
  /\ UNCHANGED <<acct, ledger, status, role, paid, codes, calls, open, hist, used>>

(* GET /billing/return: saves the card, grants, unlocks. A refreshed page     *)
(* repeats it.                                                                *)
handleBillingReturn(id) ==
  /\ id \in settled
  /\ grantSession([acct EXCEPT !.card = TRUE], id)
  /\ status' = "active"
  /\ UNCHANGED <<role, codes, settled, calls, open, used>>

(* checkout.session.completed: grants, then setStripe with an empty payment   *)
(* method. Stripe may deliver it again.                                       *)
handleStripeWebhook(id) ==
  /\ id \in settled
  /\ grantSession([acct EXCEPT !.card = FALSE], id)
  /\ UNCHANGED <<status, role, codes, settled, calls, open, used>>

(* The switch: Setup, Altana's confirmation, the arm button in Engineer.      *)
setAutorecharge(on) ==
  /\ used.switches < MaxSwitches
  /\ used' = [used EXCEPT !.switches = @ + 1]
  /\ acct' = [acct EXCEPT !.autorecharge = on, !.topOffOptOut = ~on]
  /\ UNCHANGED <<ledger, status, role, paid, codes, settled, calls, open, hist>>

(* redeem: burns the code, sets the role, activates the account; an invite's  *)
(* credits are held as a bonus, a free code's are granted.                    *)
redeem(code) ==
  /\ code \in (InviteCodes \cup FreeCodes) \ codes
  /\ codes' = codes \cup {code}
  /\ status' = "active"
  /\ \/ /\ code \in InviteCodes
        /\ role' = "credit"
        /\ acct' = [acct EXCEPT !.pendingPromo = @ + Promo]
        /\ UNCHANGED ledger
     \/ /\ code \in FreeCodes
        /\ role' = "sponsored"
        /\ apply(acct, Promo)
  /\ UNCHANGED <<paid, settled, calls, open, hist, used>>

adminAdjust(delta) ==
  /\ used.adjusts < MaxAdjusts
  /\ used' = [used EXCEPT !.adjusts = @ + 1]
  /\ apply(acct, delta)
  /\ UNCHANGED <<status, role, paid, codes, settled, calls, open, hist>>

(* The process dies with its turns and its pending charges. *)
Crash ==
  /\ used.crashes < MaxCrashes
  /\ used' = [used EXCEPT !.crashes = @ + 1]
  /\ calls' = [c \in Calls |-> Idle]
  /\ open' = 0
  /\ UNCHANGED <<acct, ledger, status, role, paid, codes, settled, hist>>

-----------------------------------------------------------------------------
StripeAnswers == \E c \in Calls : ChargeSucceeds(c) \/ ChargeDeclined(c)

Next ==
  \/ StripeAnswers \/ retryDueRecharges \/ RetryComesDue
  \/ StartTurn \/ \E cost \in Costs : meterTurn(cost)
  \/ \E id \in Checkouts :
       PayCheckout(id) \/ handleBillingReturn(id) \/ handleStripeWebhook(id)
  \/ \E on \in BOOLEAN : setAutorecharge(on)
  \/ \E code \in InviteCodes \cup FreeCodes : redeem(code)
  \/ \E delta \in {-1, 1} : adminAdjust(delta)
  \/ Crash

Spec == Init /\ [][Next]_vars

(* Time passes, the hourly sweep runs, and Stripe answers every call.        *)
FairSpec ==
  Spec /\ WF_vars(RetryComesDue) /\ WF_vars(retryDueRecharges) /\ WF_vars(StripeAnswers)

-----------------------------------------------------------------------------
ChargeStarts == \E c \in Calls : ~calls[c].live /\ calls'[c].live

(* Credits are granted exactly once per paid Checkout session, by whichever  *)
(* of the return handler and the webhook comes first and however often they  *)
(* are repeated; bonus credits are conserved between the code that held them *)
(* and the purchase that released them, and none is released before one.     *)
GrantsExact ==
  /\ hist.granted = Purchase * Cardinality(paid)
  /\ hist.released + acct.pendingPromo = Promo * Cardinality(codes \cap InviteCodes)
  /\ hist.released > 0 => paid # {}
  /\ paid \subseteq settled

(* autorecharge and the opt-out never disagree about whether a human turned  *)
(* it off, and once it is off only the switch turns it on: no purchase, retry *)
(* or late answer of Stripe does, and no card charge starts meanwhile.        *)
OptOutSticks ==
  [][ /\ acct.topOffOptOut <=> ~acct.autorecharge
      /\ acct.topOffOptOut => /\ acct'.topOffOptOut \/ setAutorecharge(TRUE)
                              /\ ~ChargeStarts ]_vars

(* Between the first decline and the verdict on the card. *)
Retrying ==
  /\ acct.autorecharge /\ acct.card
  /\ acct.rechargeFails > 0 /\ acct.rechargeFails < MaxRechargeFails

(* A declined card is never left in limbo: the retries recover it or lock the *)
(* account, unless the user switches top-off off or the card is replaced.     *)
RetriesConclude == Retrying ~> ~Retrying

(* No balance without an entry, whatever was clamped: the ledger never sums   *)
(* to more than the account holds, so no recorded credit is ever missing.     *)
LedgerCovered == ledger <= acct.balance

-----------------------------------------------------------------------------
(* Statements of the repository that this code does not keep; the README says *)
(* how each one fails.                                                        *)

(* What the ledger records is what the balance moved by. *)
LedgerTruth == acct.balance = ledger

(* After MAX_RECHARGE_FAILS declines the app stops trying the card.          *)
StopsTrying == [][ ChargeStarts => acct.rechargeFails < MaxRechargeFails ]_vars

(* A card is charged only at or below the threshold. *)
ChargedOnlyWhenLow == [][ ChargeStarts => Low(acct') ]_vars

(* An account is locked only when it is low: a top-off that arrived while a   *)
(* charge was in flight is not answered with a lock.                          *)
LockedOnlyWhenLow == [][ status = "active" /\ status' = "locked" => Low(acct') ]_vars

(* Topping off manually unlocks the account. *)
TopOffUnlocks == [][ paid' # paid => status' = "active" ]_vars

(* The card a purchase saved for auto-recharge stays saved. *)
CardKept == [][ acct.card => acct'.card ]_vars
=============================================================================
