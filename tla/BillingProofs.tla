----------------------------- MODULE BillingProofs -----------------------------
(***************************************************************************)
(* For every value of the constants: the account is well typed, Checkout     *)
(* sessions are granted exactly once and welcome bonuses conserved            *)
(* (GrantsExact), a switched-off auto top-off stays off (OptOutSticks), and   *)
(* the ledger never runs ahead of the balance (LedgerCovered).                *)
(***************************************************************************)
EXTENDS Billing, FiniteSetTheorems, TLAPS

USE BillingConstants

(* The inductive invariant: types, the two flags of the switch agree, and     *)
(* GrantsExact itself.                                                        *)
SwitchAgrees == acct.topOffOptOut <=> ~acct.autorecharge

Inv == TypeOK /\ SwitchAgrees /\ GrantsExact

(* apply leaves a well-typed account and the switch and promo as they were.   *)
LEMMA MovedAccount ==
  ASSUME NEW a \in Account, NEW delta \in Int
  PROVE  LET m == Moved(a, delta)
         IN /\ m \in Account
            /\ m.autorecharge = a.autorecharge /\ m.topOffOptOut = a.topOffOptOut
            /\ m.pendingPromo = a.pendingPromo
<1>1. AtLeastZero(a.balance + delta) \in Nat
  BY DEF AtLeastZero, Account
<1> QED
  BY <1>1 DEF Moved, Account

(* A call to autoRecharge touches only the calls in flight and the status. *)
LEMMA RechargeTyped ==
  ASSUME TypeOK, NEW a \in Account, NEW force \in BOOLEAN, autoRecharge(a, force)
  PROVE  /\ calls' \in [Calls -> Call] /\ status' \in {"active", "locked"}
         /\ ~a.autorecharge => calls' = calls
<1>1. CASE Attempts(a, force)
  <2>1. PICK c \in Calls :
           calls' = [calls EXCEPT ![c] =
                       [live |-> TRUE, force |-> force, fails |-> a.rechargeFails]]
    BY <1>1 DEF autoRecharge
  <2>2. [live |-> TRUE, force |-> force, fails |-> a.rechargeFails] \in Call
    BY DEF Call, Account
  <2>3. a.autorecharge /\ status' = status
    BY <1>1 DEF autoRecharge, Attempts
  <2> QED
    BY <2>1, <2>2, <2>3 DEF TypeOK
<1>2. CASE ~Attempts(a, force)
  BY <1>2 DEF autoRecharge, TypeOK
<1> QED
  BY <1>1, <1>2

(* Marking a Checkout session as granted adds exactly one to the count.       *)
LEMMA OneMore ==
  ASSUME NEW S, IsFiniteSet(S), NEW T \in SUBSET S, NEW x \in S, x \notin T
  PROVE  /\ Cardinality(T) \in Nat
         /\ Cardinality(T \cup {x}) = Cardinality(T) + 1
<1>1. IsFiniteSet(T)
  BY FS_Subset
<1> QED
  BY <1>1, FS_AddElement, FS_CardinalityType

(* grantSession, called with the account after setStripe. *)
LEMMA GrantKeeps ==
  ASSUME Inv, NEW id \in settled, NEW card \in BOOLEAN,
         grantSession([acct EXCEPT !.card = card], id), codes' = codes, settled' = settled
  PROVE  /\ acct' \in Account /\ ledger' \in Int /\ paid' \subseteq Checkouts
         /\ hist' \in [granted : Nat, released : Nat]
         /\ acct'.topOffOptOut = acct.topOffOptOut
         /\ SwitchAgrees' /\ GrantsExact'
<1> DEFINE a == [acct EXCEPT !.card = card]
<1>1. /\ a \in Account /\ a.topOffOptOut = acct.topOffOptOut
      /\ a.autorecharge = acct.autorecharge /\ a.pendingPromo = acct.pendingPromo
      /\ a.pendingPromo \in Nat
  BY DEF Inv, TypeOK, Account
<1> HIDE DEF a
<1>2. CASE id \in paid
  <2>1. acct' = a /\ ledger' = ledger /\ paid' = paid /\ hist' = hist
    BY <1>2 DEF grantSession, a
  <2> QED
    BY <1>1, <2>1 DEF Inv, TypeOK, SwitchAgrees, GrantsExact
<1>3. CASE id \notin paid
  <2> DEFINE b == Armed([a EXCEPT !.pendingPromo = 0])
             delta == Purchase + a.pendingPromo
  <2>1. /\ paid' = paid \cup {id} /\ acct' = Moved(b, delta) /\ ledger' = ledger + delta
        /\ hist' = [granted |-> hist.granted + Purchase, released |-> hist.released + a.pendingPromo]
    BY <1>3 DEF grantSession, apply, a
  <2>2. /\ b \in Account /\ b.topOffOptOut = a.topOffOptOut /\ b.pendingPromo = 0
        /\ b.topOffOptOut <=> ~b.autorecharge
    <3>1. a.topOffOptOut <=> ~a.autorecharge
      BY <1>1 DEF Inv, SwitchAgrees
    <3> QED
      BY <1>1, <3>1 DEF Armed, Account
  <2>3. delta \in Int
    BY <1>1
  <2> HIDE DEF b, delta
  <2>4. /\ acct' \in Account /\ acct'.topOffOptOut = b.topOffOptOut
        /\ acct'.autorecharge = b.autorecharge /\ acct'.pendingPromo = 0
    BY <2>1, <2>2, <2>3, MovedAccount
  <2>5. /\ Cardinality(paid) \in Nat
        /\ Cardinality(paid') = Cardinality(paid) + 1
    <3>1. paid \in SUBSET Checkouts /\ id \in Checkouts /\ IsFiniteSet(Checkouts)
      BY DEF Inv, TypeOK
    <3> QED
      BY <1>3, <2>1, <3>1, OneMore
  <2>6. hist.granted \in Nat /\ hist.released \in Nat /\ ledger \in Int
    BY DEF Inv, TypeOK
  <2>7. /\ hist'.granted = hist.granted + Purchase
        /\ hist'.released = hist.released + acct.pendingPromo
        /\ hist' \in [granted : Nat, released : Nat]
    BY <1>1, <2>1, <2>6
  <2>8. GrantsExact'
    <3>1. hist'.granted = Purchase * Cardinality(paid')
      <4>1. hist.granted = Purchase * Cardinality(paid)
        BY DEF Inv, GrantsExact
      <4>2. \A m, n \in Nat : m * (n + 1) = m * n + m
        OBVIOUS
      <4> QED
        BY <2>5, <2>7, <4>1, <4>2
    <3>2. hist'.released + acct'.pendingPromo = Promo * Cardinality(codes' \cap InviteCodes)
      BY <1>1, <2>4, <2>6, <2>7 DEF Inv, GrantsExact
    <3> QED
      BY <2>1, <3>1, <3>2 DEF Inv, GrantsExact
  <2> QED
    BY <1>1, <2>1, <2>2, <2>3, <2>4, <2>6, <2>7, <2>8 DEF Inv, TypeOK, SwitchAgrees
<1> QED
  BY <1>2, <1>3

-----------------------------------------------------------------------------
(* What OptOutSticks asks of a step. *)
SwitchStep ==
  acct.topOffOptOut => /\ acct'.topOffOptOut \/ setAutorecharge(TRUE)
                       /\ ~ChargeStarts

(* A new account satisfies the invariant.                                     *)
LEMMA InitInv == Init => Inv
<1>1. SUFFICES ASSUME Init PROVE Inv
  OBVIOUS
<1>2. TypeOK /\ SwitchAgrees
  BY <1>1 DEF Init, TypeOK, SwitchAgrees, Account, RetryTimes, Idle, Call
<1>3. Cardinality({}) = 0 /\ {} \cap InviteCodes = {}
  BY FS_EmptySet
<1>4. GrantsExact
  BY <1>1, <1>3 DEF Init, GrantsExact
<1> QED
  BY <1>2, <1>4 DEF Inv

(* Steps that grant nothing keep the books as they are. *)
LEMMA BooksKept ==
  ASSUME Inv, paid' = paid, codes' = codes, settled \subseteq settled', hist' = hist,
         acct'.pendingPromo = acct.pendingPromo
  PROVE  GrantsExact'
BY DEF Inv, GrantsExact

(* autoRecharge before and after its await, and the hourly sweep.             *)
LEMMA RechargeSteps ==
  ASSUME Inv
  PROVE  /\ \A c \in Calls : ChargeSucceeds(c) => Inv' /\ SwitchStep
         /\ \A c \in Calls : ChargeDeclined(c) => Inv' /\ SwitchStep
         /\ retryDueRecharges => Inv' /\ SwitchStep
         /\ RetryComesDue => Inv' /\ SwitchStep
<1>1. acct \in Account /\ calls \in [Calls -> Call] /\ Idle \in Call
  BY DEF Inv, TypeOK, Idle, Call
<1>2. ASSUME NEW c \in Calls, ChargeSucceeds(c) PROVE Inv' /\ SwitchStep
  <2> DEFINE a == [acct EXCEPT !.rechargeFails = 0, !.nextRetryAt = "none"]
  <2>1. /\ acct' = Moved(a, Topup) /\ ledger' = ledger + Topup /\ status' = "active"
        /\ calls' = [calls EXCEPT ![c] = Idle]
        /\ UNCHANGED <<role, paid, codes, settled, open, hist, used>>
    BY <1>2 DEF ChargeSucceeds, apply
  <2>2. /\ a \in Account /\ a.autorecharge = acct.autorecharge
        /\ a.topOffOptOut = acct.topOffOptOut /\ a.pendingPromo = acct.pendingPromo
    BY <1>1 DEF Account, RetryTimes
  <2> HIDE DEF a
  <2>3. /\ acct' \in Account /\ acct'.autorecharge = acct.autorecharge
        /\ acct'.topOffOptOut = acct.topOffOptOut /\ acct'.pendingPromo = acct.pendingPromo
    BY <2>1, <2>2, MovedAccount
  <2>4. calls' \in [Calls -> Call] /\ ~ChargeStarts
    BY <1>1, <2>1 DEF ChargeStarts, Idle
  <2>5. TypeOK' /\ SwitchAgrees'
    BY <2>1, <2>3, <2>4 DEF Inv, TypeOK, SwitchAgrees
  <2>6. GrantsExact'
    BY <2>1, <2>3, BooksKept
  <2> QED
    BY <2>3, <2>4, <2>5, <2>6 DEF Inv, SwitchStep
<1>3. ASSUME NEW c \in Calls, ChargeDeclined(c) PROVE Inv' /\ SwitchStep
  <2> DEFINE fails == calls[c].fails + 1
             next == IF fails >= MaxRechargeFails THEN "none" ELSE "later"
  <2>1. /\ acct' = [acct EXCEPT !.rechargeFails = fails, !.nextRetryAt = next]
        /\ status' = IF fails >= MaxRechargeFails THEN "locked" ELSE status
        /\ calls' = [calls EXCEPT ![c] = Idle]
        /\ UNCHANGED <<ledger, role, paid, codes, settled, open, hist, used>>
    BY <1>3 DEF ChargeDeclined
  <2>2. fails \in Nat /\ next \in RetryTimes
    BY <1>1 DEF Call, RetryTimes
  <2>3. status' \in {"active", "locked"}
    BY <2>1 DEF Inv, TypeOK
  <2> HIDE DEF fails, next
  <2>4. /\ acct' \in Account /\ acct'.autorecharge = acct.autorecharge
        /\ acct'.topOffOptOut = acct.topOffOptOut /\ acct'.pendingPromo = acct.pendingPromo
    BY <1>1, <2>1, <2>2 DEF Account
  <2>5. calls' \in [Calls -> Call] /\ ~ChargeStarts
    BY <1>1, <2>1 DEF ChargeStarts, Idle
  <2>6. TypeOK' /\ SwitchAgrees'
    BY <2>1, <2>3, <2>4, <2>5 DEF Inv, TypeOK, SwitchAgrees
  <2>7. GrantsExact'
    BY <2>1, <2>4, BooksKept
  <2> QED
    BY <2>4, <2>5, <2>6, <2>7 DEF Inv, SwitchStep
<1>4. ASSUME retryDueRecharges PROVE Inv' /\ SwitchStep
  <2>1. /\ autoRecharge(acct, TRUE) /\ acct.autorecharge
        /\ UNCHANGED <<acct, ledger, role, paid, codes, settled, open, hist, used>>
    BY <1>4 DEF retryDueRecharges, dueForRetry
  <2>2. calls' \in [Calls -> Call] /\ status' \in {"active", "locked"}
    BY <1>1, <2>1, RechargeTyped DEF Inv
  <2>3. TypeOK' /\ SwitchAgrees'
    BY <2>1, <2>2 DEF Inv, TypeOK, SwitchAgrees
  <2>4. GrantsExact'
    BY <2>1, BooksKept
  <2> QED
    BY <2>1, <2>3, <2>4 DEF Inv, SwitchStep, SwitchAgrees
<1>5. ASSUME RetryComesDue PROVE Inv' /\ SwitchStep
  <2>1. /\ acct' = [acct EXCEPT !.nextRetryAt = "due"]
        /\ UNCHANGED <<ledger, status, role, paid, codes, settled, calls, open, hist, used>>
    BY <1>5 DEF RetryComesDue
  <2>2. /\ acct' \in Account /\ acct'.autorecharge = acct.autorecharge
        /\ acct'.topOffOptOut = acct.topOffOptOut /\ acct'.pendingPromo = acct.pendingPromo
    BY <1>1, <2>1 DEF Account, RetryTimes
  <2>3. TypeOK' /\ SwitchAgrees'
    BY <2>1, <2>2 DEF Inv, TypeOK, SwitchAgrees
  <2>4. GrantsExact'
    BY <2>1, <2>2, BooksKept
  <2> QED
    BY <2>1, <2>2, <2>3, <2>4 DEF Inv, SwitchStep, ChargeStarts
<1> QED
  BY <1>2, <1>3, <1>4, <1>5

(* A turn through the door, its metering, an admin adjustment and a crash.    *)
LEMMA TurnSteps ==
  ASSUME Inv
  PROVE  /\ StartTurn => Inv' /\ SwitchStep
         /\ \A cost \in Costs : meterTurn(cost) => Inv' /\ SwitchStep
         /\ \A delta \in {-1, 1} : adminAdjust(delta) => Inv' /\ SwitchStep
         /\ Crash => Inv' /\ SwitchStep
<1>1. acct \in Account /\ calls \in [Calls -> Call] /\ Idle \in Call
  BY DEF Inv, TypeOK, Idle, Call
<1>2. ASSUME StartTurn PROVE Inv' /\ SwitchStep
  <2>1. /\ open' = open + 1 /\ used' = [used EXCEPT !.turns = @ + 1]
        /\ UNCHANGED <<acct, ledger, status, role, paid, codes, settled, calls, hist>>
    BY <1>2 DEF StartTurn
  <2>2. TypeOK' /\ SwitchAgrees'
    BY <2>1 DEF Inv, TypeOK, SwitchAgrees
  <2>3. GrantsExact'
    BY <2>1, BooksKept
  <2> QED
    BY <2>1, <2>2, <2>3 DEF Inv, SwitchStep, ChargeStarts
<1>3. ASSUME NEW cost \in Costs, meterTurn(cost) PROVE Inv' /\ SwitchStep
  <2> DEFINE a == Moved(acct, -cost)
  <2>1. -cost \in Int
    OBVIOUS
  <2>2. /\ a \in Account /\ a.autorecharge = acct.autorecharge
        /\ a.topOffOptOut = acct.topOffOptOut /\ a.pendingPromo = acct.pendingPromo
    BY <1>1, <2>1, MovedAccount
  <2>3. /\ acct' = a /\ ledger' = ledger - cost /\ open > 0 /\ open' = open - 1
        /\ UNCHANGED <<role, paid, codes, settled, hist, used>>
        /\ autoRecharge(a, FALSE) \/ UNCHANGED <<status, calls>>
    BY <1>3 DEF meterTurn, apply
  <2> HIDE DEF a
  <2>4. /\ calls' \in [Calls -> Call] /\ status' \in {"active", "locked"}
        /\ ~acct.autorecharge => calls' = calls
    <3>1. CASE autoRecharge(a, FALSE)
      BY <2>2, <3>1, RechargeTyped DEF Inv
    <3>2. CASE UNCHANGED <<status, calls>>
      BY <3>2 DEF Inv, TypeOK
    <3> QED
      BY <2>3, <3>1, <3>2
  <2>5. TypeOK'
    BY <2>2, <2>3, <2>4 DEF Inv, TypeOK
  <2>6. SwitchAgrees'
    BY <2>2, <2>3 DEF Inv, SwitchAgrees
  <2>7. GrantsExact'
    BY <2>2, <2>3, BooksKept
  <2> QED
    BY <2>2, <2>3, <2>4, <2>5, <2>6, <2>7 DEF Inv, SwitchStep, SwitchAgrees, ChargeStarts
<1>4. ASSUME NEW delta \in {-1, 1}, adminAdjust(delta) PROVE Inv' /\ SwitchStep
  <2>1. /\ acct' = Moved(acct, delta) /\ ledger' = ledger + delta
        /\ used' = [used EXCEPT !.adjusts = @ + 1]
        /\ UNCHANGED <<status, role, paid, codes, settled, calls, open, hist>>
    BY <1>4 DEF adminAdjust, apply
  <2>2. delta \in Int
    OBVIOUS
  <2>3. /\ acct' \in Account /\ acct'.autorecharge = acct.autorecharge
        /\ acct'.topOffOptOut = acct.topOffOptOut /\ acct'.pendingPromo = acct.pendingPromo
    BY <1>1, <2>1, <2>2, MovedAccount
  <2>4. TypeOK' /\ SwitchAgrees'
    BY <2>1, <2>2, <2>3 DEF Inv, TypeOK, SwitchAgrees
  <2>5. GrantsExact'
    BY <2>1, <2>3, BooksKept
  <2> QED
    BY <2>1, <2>3, <2>4, <2>5 DEF Inv, SwitchStep, ChargeStarts
<1>5. ASSUME Crash PROVE Inv' /\ SwitchStep
  <2>1. /\ used' = [used EXCEPT !.crashes = @ + 1] /\ open' = 0
        /\ calls' = [c \in Calls |-> Idle]
        /\ UNCHANGED <<acct, ledger, status, role, paid, codes, settled, hist>>
    BY <1>5 DEF Crash
  <2>2. calls' \in [Calls -> Call] /\ ~ChargeStarts
    BY <1>1, <2>1 DEF ChargeStarts, Idle
  <2>3. TypeOK' /\ SwitchAgrees'
    BY <2>1, <2>2 DEF Inv, TypeOK, SwitchAgrees
  <2>4. GrantsExact'
    BY <2>1, BooksKept
  <2> QED
    BY <2>1, <2>2, <2>3, <2>4 DEF Inv, SwitchStep
<1> QED
  BY <1>2, <1>3, <1>4, <1>5

(* Purchases by return and webhook, the switch and codes.                     *)
LEMMA AccountSteps ==
  ASSUME Inv
  PROVE  /\ \A id \in Checkouts : PayCheckout(id) => Inv' /\ SwitchStep
         /\ \A id \in Checkouts : handleBillingReturn(id) => Inv' /\ SwitchStep
         /\ \A id \in Checkouts : handleStripeWebhook(id) => Inv' /\ SwitchStep
         /\ \A on \in BOOLEAN : setAutorecharge(on) => Inv' /\ SwitchStep
         /\ \A code \in InviteCodes \cup FreeCodes : redeem(code) => Inv' /\ SwitchStep
<1>1. acct \in Account
  BY DEF Inv, TypeOK
<1>2. ASSUME NEW id \in Checkouts, PayCheckout(id) PROVE Inv' /\ SwitchStep
  <2>1. /\ settled' = settled \cup {id}
        /\ UNCHANGED <<acct, ledger, status, role, paid, codes, calls, open, hist, used>>
    BY <1>2 DEF PayCheckout
  <2>2. TypeOK' /\ SwitchAgrees'
    BY <2>1 DEF Inv, TypeOK, SwitchAgrees
  <2>3. GrantsExact'
    BY <2>1, BooksKept
  <2> QED
    BY <2>1, <2>2, <2>3 DEF Inv, SwitchStep, ChargeStarts
<1>3. ASSUME NEW id \in settled, NEW card \in BOOLEAN,
             grantSession([acct EXCEPT !.card = card], id),
             status' \in {"active", "locked"},
             UNCHANGED <<role, codes, settled, calls, open, used>>
      PROVE  Inv' /\ SwitchStep
  <2>1. /\ acct' \in Account /\ ledger' \in Int /\ paid' \subseteq Checkouts
        /\ hist' \in [granted : Nat, released : Nat]
        /\ acct'.topOffOptOut = acct.topOffOptOut /\ SwitchAgrees' /\ GrantsExact'
    BY <1>3, GrantKeeps
  <2>2. TypeOK'
    BY <1>3, <2>1 DEF Inv, TypeOK
  <2> QED
    BY <1>3, <2>1, <2>2 DEF Inv, SwitchStep, ChargeStarts
<1>4. ASSUME NEW id \in Checkouts, handleBillingReturn(id) PROVE Inv' /\ SwitchStep
  BY <1>3, <1>4 DEF handleBillingReturn
<1>5. ASSUME NEW id \in Checkouts, handleStripeWebhook(id) PROVE Inv' /\ SwitchStep
  BY <1>3, <1>5 DEF handleStripeWebhook, Inv, TypeOK
<1>6. ASSUME NEW on \in BOOLEAN, setAutorecharge(on) PROVE Inv' /\ SwitchStep
  <2>1. /\ acct' = [acct EXCEPT !.autorecharge = on, !.topOffOptOut = ~on]
        /\ used' = [used EXCEPT !.switches = @ + 1]
        /\ UNCHANGED <<ledger, status, role, paid, codes, settled, calls, open, hist>>
    BY <1>6 DEF setAutorecharge
  <2>2. /\ acct' \in Account /\ acct'.autorecharge = on /\ acct'.topOffOptOut = ~on
        /\ acct'.pendingPromo = acct.pendingPromo
    BY <1>1, <2>1 DEF Account
  <2>3. TypeOK' /\ SwitchAgrees'
    <3>1. SwitchAgrees'
      BY <2>2, Zenon DEF SwitchAgrees
    <3>2. TypeOK'
      BY <2>1, <2>2 DEF Inv, TypeOK
    <3> QED
      BY <3>1, <3>2
  <2>4. GrantsExact'
    BY <2>1, <2>2, BooksKept
  <2>5. SwitchStep
    BY <1>6, <2>1, <2>2 DEF SwitchStep, ChargeStarts
  <2> QED
    BY <2>3, <2>4, <2>5 DEF Inv
<1>7. ASSUME NEW code \in InviteCodes \cup FreeCodes, redeem(code) PROVE Inv' /\ SwitchStep
  <2>1. /\ code \notin codes /\ codes' = codes \cup {code} /\ status' = "active"
        /\ UNCHANGED <<paid, settled, calls, open, hist, used>>
    BY <1>7 DEF redeem
  <2>2. CASE /\ code \in InviteCodes /\ role' = "credit" /\ ledger' = ledger
             /\ acct' = [acct EXCEPT !.pendingPromo = @ + Promo]
    <3>1. /\ acct' \in Account /\ acct'.autorecharge = acct.autorecharge
          /\ acct'.topOffOptOut = acct.topOffOptOut
          /\ acct'.pendingPromo = acct.pendingPromo + Promo /\ acct.pendingPromo \in Nat
      BY <1>1, <2>2 DEF Account
    <3>2. TypeOK' /\ SwitchAgrees'
      BY <2>1, <2>2, <3>1 DEF Inv, TypeOK, SwitchAgrees
    <3>3. /\ Cardinality(codes \cap InviteCodes) \in Nat
          /\ Cardinality(codes' \cap InviteCodes) = Cardinality(codes \cap InviteCodes) + 1
      <4>1. codes' \cap InviteCodes = (codes \cap InviteCodes) \cup {code}
        BY <2>1, <2>2
      <4>2. codes \cap InviteCodes \in SUBSET InviteCodes /\ code \notin codes \cap InviteCodes
        BY <2>1
      <4> QED
        BY <2>2, <4>1, <4>2, OneMore
    <3>4. \A m, n \in Nat : m * (n + 1) = m * n + m
      OBVIOUS
    <3>5. hist.released \in Nat
      BY DEF Inv, TypeOK
    <3>6. GrantsExact'
      BY <2>1, <3>1, <3>3, <3>4, <3>5 DEF Inv, GrantsExact
    <3> QED
      BY <2>1, <3>1, <3>2, <3>6 DEF Inv, SwitchStep, ChargeStarts
  <2>3. CASE /\ code \in FreeCodes /\ role' = "sponsored"
             /\ acct' = Moved(acct, Promo) /\ ledger' = ledger + Promo
    <3>1. /\ acct' \in Account /\ acct'.autorecharge = acct.autorecharge
          /\ acct'.topOffOptOut = acct.topOffOptOut
          /\ acct'.pendingPromo = acct.pendingPromo
      BY <1>1, <2>3, MovedAccount
    <3>2. TypeOK' /\ SwitchAgrees'
      BY <2>1, <2>3, <3>1 DEF Inv, TypeOK, SwitchAgrees
    <3>3. codes' \cap InviteCodes = codes \cap InviteCodes
      BY <2>1, <2>3
    <3>4. GrantsExact'
      BY <2>1, <3>1, <3>3 DEF Inv, GrantsExact
    <3> QED
      BY <2>1, <3>1, <3>2, <3>4 DEF Inv, SwitchStep, ChargeStarts
  <2> QED
    BY <1>7, <2>2, <2>3 DEF redeem, apply
<1> QED
  BY <1>2, <1>4, <1>5, <1>6, <1>7

(* Every step of Billing keeps the invariant and an opt-out.                  *)
LEMMA NextStep ==
  ASSUME Inv, [Next]_vars
  PROVE  Inv' /\ (SwitchStep \/ UNCHANGED vars)
<1>1. CASE UNCHANGED vars
  BY <1>1 DEF vars, Inv, TypeOK, SwitchAgrees, GrantsExact
<1>2. CASE Next
  BY <1>2, RechargeSteps, TurnSteps, AccountSteps DEF Next, StripeAnswers
<1> QED
  BY <1>1, <1>2

(* Whatever the interleaving of returns, webhooks, redemptions, turns, card   *)
(* charges and crashes, the account row stays well typed, each paid Checkout  *)
(* session is granted exactly once and bonus credits are conserved.           *)
THEOREM GrantedOnce == Spec => [](TypeOK /\ GrantsExact)
<1>1. Init => Inv
  BY InitInv
<1>2. Inv /\ [Next]_vars => Inv'
  BY NextStep
<1>3. Inv => TypeOK /\ GrantsExact
  BY DEF Inv
<1> QED
  BY <1>1, <1>2, <1>3, PTL DEF Spec

(* Once auto top-off is switched off only the switch turns it on, and no card *)
(* charge starts until it does.                                               *)
THEOREM SwitchedOffStaysOff == Spec => OptOutSticks
<1>1. Init => Inv
  BY InitInv
<1>2. Inv /\ [Next]_vars => Inv'
  BY NextStep
<1>3. Inv /\ [Next]_vars =>
        [ /\ acct.topOffOptOut <=> ~acct.autorecharge
          /\ acct.topOffOptOut => /\ acct'.topOffOptOut \/ setAutorecharge(TRUE)
                                  /\ ~ChargeStarts ]_vars
  BY NextStep DEF Inv, SwitchAgrees, SwitchStep
<1> QED
  BY <1>1, <1>2, <1>3, PTL DEF Spec, OptOutSticks
-----------------------------------------------------------------------------
(* A movement keeps the balance at or above the ledger: the clamp only raises *)
(* the balance.                                                               *)
LEMMA MoveCovered ==
  ASSUME TypeOK, LedgerCovered, NEW a \in Account, a.balance = acct.balance,
         NEW delta \in Int, apply(a, delta)
  PROVE  LedgerCovered'
<1>1. /\ acct'.balance = AtLeastZero(acct.balance + delta) /\ ledger' = ledger + delta
      /\ acct.balance \in Nat /\ ledger \in Int
  BY DEF apply, Moved, Account, TypeOK
<1> QED
  BY <1>1 DEF AtLeastZero, LedgerCovered

(* grantSession moves at most once, whatever became of the card.              *)
LEMMA GrantCovered ==
  ASSUME TypeOK, LedgerCovered, NEW id, NEW card \in BOOLEAN,
         grantSession([acct EXCEPT !.card = card], id)
  PROVE  LedgerCovered'
<1> DEFINE a == [acct EXCEPT !.card = card]
           b == Armed([a EXCEPT !.pendingPromo = 0])
<1>1. a \in Account /\ a.balance = acct.balance /\ a.pendingPromo \in Nat
  BY DEF TypeOK, Account
<1> HIDE DEF a
<1>2. CASE id \in paid
  <2>1. acct' = a /\ ledger' = ledger
    BY <1>2 DEF grantSession, a
  <2> QED
    BY <1>1, <2>1 DEF LedgerCovered
<1>3. CASE id \notin paid
  <2>1. apply(b, Purchase + a.pendingPromo)
    BY <1>3 DEF grantSession, a
  <2>2. b \in Account /\ b.balance = acct.balance
    BY <1>1 DEF Armed, Account
  <2>3. Purchase + a.pendingPromo \in Int
    BY <1>1
  <2> HIDE DEF b
  <2> QED
    BY <2>1, <2>2, <2>3, MoveCovered
<1> QED
  BY <1>2, <1>3

(* Every step keeps the ledger covered: it moves both or neither.             *)
LEMMA CoveredStep ==
  ASSUME TypeOK, LedgerCovered, [Next]_vars
  PROVE  LedgerCovered'
<1>1. acct \in Account /\ acct.balance \in Nat /\ ledger \in Int
  BY DEF TypeOK, Account
<1>2. ASSUME acct' = acct \/ acct'.balance = acct.balance, ledger' = ledger
      PROVE  LedgerCovered'
  BY <1>2 DEF LedgerCovered
<1>3. ASSUME NEW c \in Calls, ChargeSucceeds(c) PROVE LedgerCovered'
  <2> DEFINE a == [acct EXCEPT !.rechargeFails = 0, !.nextRetryAt = "none"]
  <2>1. a \in Account /\ a.balance = acct.balance
    <3>1. 0 \in Nat /\ "none" \in RetryTimes
      BY DEF RetryTimes
    <3> QED
      BY <1>1, <3>1 DEF Account
  <2>2. apply(a, Topup)
    BY <1>3 DEF ChargeSucceeds
  <2>3. Topup \in Int
    OBVIOUS
  <2> HIDE DEF a
  <2> QED
    BY <2>1, <2>2, <2>3, MoveCovered
<1>4. ASSUME NEW c \in Calls, ChargeDeclined(c) PROVE LedgerCovered'
  BY <1>1, <1>2, <1>4 DEF ChargeDeclined, Account
<1>5. ASSUME retryDueRecharges \/ StartTurn \/ Crash
             \/ \E id \in Checkouts : PayCheckout(id)
      PROVE  LedgerCovered'
  BY <1>2, <1>5 DEF retryDueRecharges, StartTurn, Crash, PayCheckout
<1>6. ASSUME RetryComesDue \/ \E on \in BOOLEAN : setAutorecharge(on)
      PROVE  LedgerCovered'
  BY <1>1, <1>2, <1>6 DEF RetryComesDue, setAutorecharge, Account
<1>7. ASSUME NEW cost \in Costs, meterTurn(cost) PROVE LedgerCovered'
  <2>1. apply(acct, -cost) /\ -cost \in Int
    BY <1>7 DEF meterTurn
  <2> QED
    BY <1>1, <2>1, MoveCovered
<1>8. ASSUME NEW delta \in {-1, 1}, adminAdjust(delta) PROVE LedgerCovered'
  <2>1. apply(acct, delta) /\ delta \in Int
    BY <1>8 DEF adminAdjust
  <2> QED
    BY <1>1, <2>1, MoveCovered
<1>9. ASSUME NEW id \in Checkouts, handleBillingReturn(id) \/ handleStripeWebhook(id)
      PROVE  LedgerCovered'
  <2>1. PICK card \in BOOLEAN : grantSession([acct EXCEPT !.card = card], id)
    BY <1>9 DEF handleBillingReturn, handleStripeWebhook
  <2> QED
    BY <2>1, GrantCovered
<1>10. ASSUME NEW code \in InviteCodes \cup FreeCodes, redeem(code) PROVE LedgerCovered'
  <2>1. CASE ledger' = ledger /\ acct' = [acct EXCEPT !.pendingPromo = @ + Promo]
    BY <1>1, <1>2, <2>1 DEF Account
  <2>2. CASE apply(acct, Promo)
    BY <1>1, <2>2, MoveCovered
  <2> QED
    BY <1>10, <2>1, <2>2 DEF redeem
<1>11. CASE UNCHANGED vars
  BY <1>2, <1>11 DEF vars
<1> QED
  BY <1>3, <1>4, <1>5, <1>6, <1>7, <1>8, <1>9, <1>10, <1>11 DEF Next, StripeAnswers

(* No recorded credit is missing: through every clamp, grant, late charge and *)
(* crash the ledger never sums to more than apply left on the balance.        *)
THEOREM LedgerNeverAhead == Spec => []LedgerCovered
<1>1. Init => LedgerCovered
  BY DEF Init, LedgerCovered
<1>2. TypeOK /\ LedgerCovered /\ [Next]_vars => LedgerCovered'
  BY CoveredStep
<1>3. Spec => []TypeOK
  BY GrantedOnce, PTL
<1> QED
  BY <1>1, <1>2, <1>3, PTL DEF Spec
=============================================================================
