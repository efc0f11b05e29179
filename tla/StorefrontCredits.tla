------------------------- MODULE StorefrontCredits -------------------------
(***************************************************************************)
(* Proofs about the credits: they are neither made nor destroyed, and the  *)
(* handlers implement CreditsLedger.                                       *)
(***************************************************************************)
EXTENDS StorefrontProofs, StorefrontLedger, Sums

-----------------------------------------------------------------------------
(* Conservation.  A step of a handler moves credits between an account, what *)
(* the handler holds and what is lost; the sums over all accounts and all    *)
(* handlers follow.                                                          *)

\* What a handler at label l holds.
HeldAt(l, j) ==
    IF \/ l \in {"creditProvider", "confirmCredits", "refund", "refundCredit", "giveBack"}
       \/ l = "recordTx" /\ j.flow = "credits"
       \/ l = "issue" /\ j.flow = "credits" /\ ~HasPayment
    THEN j.amt ELSE 0

LEMMA HeldIs == \A w \in Workers : Held(w) = HeldAt(pc[w], job[w])
BY DEF Held, HeldAt, Direct

LEMMA HeldBecomes == \A w \in Workers : Held(w)' = HeldAt(pc'[w], job'[w])
BY DEF Held, HeldAt, Direct

LEMMA GotoHeld ==
  ASSUME Workforce, NEW w \in Workers, NEW l, Goto(w, l), job' = job
  PROVE  Held(w)' = HeldAt(l, job[w])
<1>1. pc'[w] = l /\ job'[w] = job[w]
  BY DEF Goto, Workforce
<1> QED
  BY <1>1, HeldBecomes

\* What a step of a handler can do to the credits.
Quiet(w) == UNCHANGED <<balance, lost, minted>> /\ Held(w)' = Held(w)

Debits(w, p) ==
    /\ balance' = UpdateCreditsBalance(p, -job[w].amt)
    /\ Held(w) = 0 /\ Held(w)' = job[w].amt
    /\ UNCHANGED <<lost, minted>>

Credits(w, p) ==
    /\ balance' = UpdateCreditsBalance(p, job[w].amt)
    /\ Held(w) = job[w].amt /\ Held(w)' = 0
    /\ UNCHANGED <<lost, minted>>

Loses(w) ==
    /\ lost' = Lose(w)
    /\ Held(w) = job[w].amt /\ Held(w)' = 0
    /\ UNCHANGED <<balance, minted>>

Withdraws(w) ==
    /\ balance' = UpdateCreditsBalance(job[w].peer, -job[w].amt)
    /\ minted' = minted - job[w].amt
    /\ Held(w)' = Held(w)
    /\ UNCHANGED lost

\* A handler that starts holds nothing, and the call changes no account.
LEMMA ArrivesQuiet ==
  ASSUME TypeOK, NEW w \in Workers, Arrive(w)
  PROVE  Quiet(w)
<1>0. Workforce
  BY WorkforceType
<1>1. ASSUME NEW l, NEW j, StartJob(w, l, j), HeldAt(l, j) = 0
      PROVE  Held(w)' = Held(w)
  <2>1. pc'[w] = l /\ job'[w] = j /\ pc[w] = "idle"
    BY <1>0, <1>1 DEF StartJob, Goto, Workforce
  <2>2. Held(w) = 0
    BY <2>1 DEF Held
  <2> QED
    BY <1>1, <2>1, <2>2, HeldBecomes
<1>2. \A j : \A l \in {"createStore", "verify", "confirm", "deduct", "fiatPending",
                       "webhookCheck", "withdraw"} : HeldAt(l, j) = 0
  BY DEF HeldAt
<1>3. \A r, a : HeldAt("recordTx", Job("refundCredits", r, a)) = 0
  BY DEF HeldAt, Job
<1>4. Held(w)' = Held(w)
  BY <1>1, <1>2, <1>3, ZenonT(60), Arrive(w) DEF Arrive, CreatePurchaseRequest, ConfirmPayment,
     PayWithCredits, CreateFiatPaymentIntent, StripeWebhook, RefundCredits, WithdrawCredits
<1>5. UNCHANGED <<balance, lost, minted>>
  BY Arrive(w), ZenonT(60) DEF Arrive, CreatePurchaseRequest, ConfirmPayment, PayWithCredits,
     CreateFiatPaymentIntent, StripeWebhook, RefundCredits, WithdrawCredits, storeVars,
     historyVars
<1> QED
  BY <1>4, <1>5 DEF Quiet

\* A step of a handler that goes from one label to another.
LEMMA StepsCredits ==
  ASSUME TypeOK, HandlerOrder, NEW w \in Workers, Step(w)
  PROVE  \/ Quiet(w)
         \/ Loses(w)
         \/ ApplyWithdrawal(w) /\ Withdraws(w)
         \/ AtomicDeductCredits(w) /\ Debits(w, job[w].peer)
         \/ DeductFromProvider(w) /\ Debits(w, ProviderOf[ListingOf[job[w].req]])
         \/ Credits(w, job[w].peer) \/ Credits(w, ProviderOf[ListingOf[job[w].req]])
<1>0. Workforce /\ RunsAs(pc[w], job[w].flow) /\ Held(w) = HeldAt(pc[w], job[w])
  BY WorkforceType, HeldIs DEF HandlerOrder
<1>1. ASSUME NEW l, Goto(w, l), job' = job PROVE Held(w)' = HeldAt(l, job[w])
  BY <1>0, <1>1, GotoHeld
<1>2. ASSUME NEW l, Goto(w, l), job' = job, UNCHANGED <<balance, lost, minted>>,
             HeldAt(l, job[w]) = HeldAt(pc[w], job[w])
      PROVE  Quiet(w)
  BY <1>0, <1>1, <1>2 DEF Quiet
<1>3. \A l \in {"idle", "confirm", "attach", "complete", "refundDebit", "createStore", "verify",
                "deduct", "fiatPending", "webhookCheck", "withdraw"} : HeldAt(l, job[w]) = 0
  BY DEF HeldAt
<1>4. CASE \/ StorePurchaseRequest(w) \/ NotVerified(w) \/ InsufficientCredits(w)
           \/ StripeError(w) \/ CheckoutCreated(w) \/ VerifyTransaction(w) \/ AttachGrant(w)
  <2>1. \E l \in {"idle", "confirm", "complete"} : Goto(w, l)
    BY <1>4, Zenon DEF StorePurchaseRequest, NotVerified, InsufficientCredits, StripeError,
       CheckoutCreated, VerifyTransaction, AttachGrant, Stop
  <2>2. pc[w] \in {"createStore", "verify", "deduct", "fiatPending", "attach"}
    BY <1>4, Zenon DEF StorePurchaseRequest, NotVerified, InsufficientCredits, StripeError,
       CheckoutCreated, VerifyTransaction, AttachGrant
  <2>3. job' = job /\ UNCHANGED <<balance, lost, minted>>
    BY <1>4, Zenon DEF StorePurchaseRequest, NotVerified, InsufficientCredits, StripeError,
       CheckoutCreated, VerifyTransaction, AttachGrant, storeVars, historyVars
  <2> QED
    BY <1>2, <1>3, <2>1, <2>2, <2>3, Zenon
<1>5. CASE PaymentConfirmed(w) \/ CompleteStripeCheckout(w) \/ CreditsDeducted(w)
  <2>1. Goto(w, "issue") /\ pc[w] \in {"confirm", "webhookCheck", "confirmCredits"}
    BY <1>5 DEF PaymentConfirmed, CompleteStripeCheckout, CreditsDeducted
  <2>2. job' = job /\ UNCHANGED <<balance, lost, minted>>
    BY <1>5 DEF PaymentConfirmed, CompleteStripeCheckout, CreditsDeducted, historyVars
  <2>3. HeldAt("issue", job[w]) = HeldAt(pc[w], job[w])
    BY <1>0, <2>1, Zenon DEF HeldAt, RunsAs
  <2> QED
    BY <1>2, <2>1, <2>2, <2>3, Zenon
<1>6. CASE TierNotFound(w)
  <2>1. Goto(w, IssueFailed(w)) /\ pc[w] = "issue" /\ job' = job
        /\ UNCHANGED <<balance, lost, minted>>
    BY <1>6 DEF TierNotFound, storeVars, historyVars
  <2>2. HeldAt(IssueFailed(w), job[w]) = HeldAt(pc[w], job[w])
    BY <2>1 DEF HeldAt, IssueFailed, Direct
  <2> QED
    BY <1>2, <2>1, <2>2, Zenon
<1>7. CASE CreateCreditsTransaction(w)
  <2>1. /\ Goto(w, IF job[w].flow = "credits" THEN "creditProvider" ELSE "refundDebit")
        /\ pc[w] = "recordTx" /\ job' = job /\ UNCHANGED <<balance, lost, minted>>
    BY <1>7 DEF CreateCreditsTransaction, historyVars
  <2>2. HeldAt(IF job[w].flow = "credits" THEN "creditProvider" ELSE "refundDebit", job[w])
          = HeldAt(pc[w], job[w])
    BY <2>1 DEF HeldAt
  <2> QED
    BY <1>2, <2>1, <2>2, Zenon
<1>8. CASE IssueGrant(w)
  <2>1. /\ pc'[w] = AfterIssue(w) /\ pc[w] = "issue"
        /\ balance' = balance /\ minted' = minted
        /\ lost' = IF Direct(w) THEN Lose(w) ELSE lost
    BY <1>0, <1>8 DEF IssueGrant, Goto, Workforce
  <2>2. AfterIssue(w) \in {"attach", "idle"}
    BY DEF AfterIssue
  <2>3. Held(w)' = 0
    BY <2>1, <2>2 DEF Held
  <2>4. Held(w) = IF Direct(w) THEN job[w].amt ELSE 0
    BY <2>1 DEF Held
  <2> QED
    BY <2>1, <2>3, <2>4, Zenon DEF Quiet, Loses
<1>9. ASSUME Finish(w), pc[w] \in {"complete", "webhookCheck"}, UNCHANGED <<balance, lost, minted>>
      PROVE  Quiet(w)
  <2>1. Held(w) = 0
    BY <1>9 DEF Held
  <2>2. CASE Direct(w)
    <3>1. pc'[w] = "issue" /\ job'[w] = [job[w] EXCEPT !.flow = "again"]
      BY <1>0, <1>9, <2>2 DEF Finish, Goto, Workforce
    <3>2. job'[w].flow = "again"
      BY <1>0, <3>1 DEF Workforce, Jobs
    <3>3. HeldAt(pc'[w], job'[w]) = 0
      BY <3>1, <3>2 DEF HeldAt
    <3> QED
      BY <1>9, <2>1, <3>3, HeldBecomes DEF Quiet
  <2>3. CASE ~Direct(w)
    <3>1. Goto(w, "idle") /\ job' = job
      BY <1>9, <2>3 DEF Finish
    <3> QED
      BY <1>2, <1>3, <1>9, <3>1
  <2> QED
    BY <2>2, <2>3
<1>10. CASE CompletePurchase(w) \/ DuplicateDelivery(w)
  BY <1>9, <1>10, Zenon DEF CompletePurchase, DuplicateDelivery, storeVars
<1>11. CASE AtomicDeductCredits(w)
  <2>1. /\ Goto(w, IF HasPayment THEN "recordTx" ELSE "confirmCredits")
        /\ pc[w] = "deduct" /\ job' = job /\ UNCHANGED <<lost, minted>>
        /\ balance' = UpdateCreditsBalance(job[w].peer, -job[w].amt)
    BY <1>11, Zenon DEF AtomicDeductCredits
  <2>2. HeldAt(IF HasPayment THEN "recordTx" ELSE "confirmCredits", job[w]) = job[w].amt
    BY <1>0, <2>1, Zenon DEF HeldAt, RunsAs
  <2>3. Held(w)' = job[w].amt
    BY <1>1, <2>1, <2>2, Zenon
  <2> QED
    BY <1>0, <1>3, <1>11, <2>1, <2>3, Zenon DEF Debits
<1>12. CASE DeductFromProvider(w)
  <2>1. /\ Goto(w, "refundCredit") /\ pc[w] = "refundDebit" /\ job' = job
        /\ UNCHANGED <<lost, minted>>
        /\ balance' = UpdateCreditsBalance(ProviderOf[ListingOf[job[w].req]], -job[w].amt)
    BY <1>12 DEF DeductFromProvider, historyVars
  <2>2. HeldAt("refundCredit", job[w]) = job[w].amt
    BY Zenon DEF HeldAt
  <2>3. Held(w)' = job[w].amt
    BY <1>1, <2>1, <2>2, Zenon
  <2> QED
    BY <1>0, <1>3, <1>12, <2>1, <2>3, Zenon DEF Debits
<1>13. CASE CreditProvider(w)
  <2>1. /\ Goto(w, "issue") /\ pc[w] = "creditProvider" /\ job' = job
        /\ UNCHANGED <<lost, minted>>
        /\ balance' = UpdateCreditsBalance(ProviderOf[ListingOf[job[w].req]], job[w].amt)
    BY <1>13, Zenon DEF CreditProvider, historyVars
  <2>2. HeldAt("issue", job[w]) = 0 /\ HeldAt(pc[w], job[w]) = job[w].amt
    BY <1>0, <2>1, Zenon DEF HeldAt, RunsAs
  <2> QED
    BY <1>0, <1>1, <2>1, <2>2, Zenon DEF Credits
<1>14. CASE RefundBuyer(w) \/ CreditBuyer(w)
  <2>1. /\ Goto(w, "idle") /\ pc[w] \in {"refund", "refundCredit"} /\ job' = job
        /\ UNCHANGED <<lost, minted>>
        /\ balance' = UpdateCreditsBalance(job[w].peer, job[w].amt)
    BY <1>14, Zenon DEF RefundBuyer, CreditBuyer, historyVars, Stop
  <2>2. HeldAt(pc[w], job[w]) = job[w].amt
    BY <2>1, Zenon DEF HeldAt
  <2> QED
    BY <1>0, <1>1, <1>3, <2>1, <2>2, Zenon DEF Credits
<1>15. CASE GiveBack(w)
  <2>1. /\ Goto(w, "idle") /\ pc[w] = "giveBack" /\ job' = job
        /\ UNCHANGED <<lost, minted>>
        /\ balance' = UpdateCreditsBalance(ProviderOf[ListingOf[job[w].req]], job[w].amt)
    BY <1>15, Zenon DEF GiveBack, historyVars, Stop
  <2>2. HeldAt(pc[w], job[w]) = job[w].amt
    BY <2>1, Zenon DEF HeldAt
  <2> QED
    BY <1>0, <1>1, <1>3, <2>1, <2>2, Zenon DEF Credits
<1>16. CASE ApplyWithdrawal(w)
  <2>1. /\ Goto(w, "idle") /\ pc[w] = "withdraw" /\ job' = job
        /\ lost' = lost /\ minted' = minted - job[w].amt
        /\ balance' = UpdateCreditsBalance(job[w].peer, -job[w].amt)
    BY <1>16, Zenon DEF ApplyWithdrawal, Stop
  <2>2. Held(w)' = 0 /\ Held(w) = 0
    BY <1>0, <1>1, <1>3, <2>1, Zenon
  <2> QED
    BY <1>16, <2>1, <2>2, Zenon DEF Withdraws
<1>17. CASE StoreError(w)
  <2>1. /\ Goto(w, OnError(w)) /\ job' = job /\ balance' = balance /\ minted' = minted
        /\ lost' = IF pc[w] \in {"refund", "giveBack"} THEN Lose(w) ELSE lost
    BY <1>17, Zenon DEF StoreError, storeVars
  <2>2. CASE pc[w] \in {"refund", "giveBack"}
    <3>1. OnError(w) = "idle" /\ HeldAt(pc[w], job[w]) = job[w].amt
      BY <2>2 DEF OnError, HeldAt
    <3> QED
      BY <1>0, <1>1, <1>3, <2>1, <2>2, <3>1, Zenon DEF Loses
  <2>3. CASE pc[w] \notin {"refund", "giveBack"}
    <3>1. HeldAt(OnError(w), job[w]) = HeldAt(pc[w], job[w])
      BY <2>3, Zenon DEF OnError, HeldAt, IssueFailed, Direct
    <3> QED
      BY <1>2, <2>1, <2>3, <3>1, Zenon
  <2> QED
    BY <2>2, <2>3
<1>18. CASE IgnoredError(w)
  <2>0. UNCHANGED <<balance, lost, minted>>
    BY <1>18, Zenon DEF IgnoredError, storeVars
  <2>1. CASE pc[w] = "attach" /\ Goto(w, "complete") /\ job' = job
    BY <1>2, <1>3, <2>0, <2>1, Zenon
  <2>2. CASE pc[w] = "complete" /\ Finish(w)
    BY <1>9, <2>0, <2>2, Zenon
  <2>3. CASE pc[w] = "fiatPending" /\ Stop(w) /\ job' = job
    BY <1>2, <1>3, <2>0, <2>3, Zenon DEF Stop
  <2>4. CASE pc[w] = "webhookCheck" /\ pc' = pc
    BY <2>0, <2>4, Zenon DEF Quiet, Held
  <2> QED
    BY <1>18, <2>1, <2>2, <2>3, <2>4, Zenon DEF IgnoredError
<1> QED
  BY <1>4, <1>5, <1>6, <1>7, <1>8, <1>10, <1>11, <1>12, <1>13, <1>14, <1>15, <1>16, <1>17, <1>18,
     Step(w), ZenonT(60) DEF Step

-----------------------------------------------------------------------------
(* The sums. *)

LEMMA SumTypes ==
  ASSUME TypeOK
  PROVE  /\ SumFunctionOnSet(balance, Peers) \in Int
         /\ Escrow \in Nat /\ Lost \in Nat /\ minted \in Int
<1>1. \A p \in Peers : balance[p] \in Int
  BY DEF TypeOK
<1>2. \A w \in Workers : [v \in Workers |-> Held(v)][w] \in Nat /\ lost[w] \in Nat
  BY HeldType DEF TypeOK
<1>3. Escrow \in Nat
  BY <1>2, SumNat, StorefrontAssumption DEF Escrow
<1>4. Lost \in Nat
  BY <1>2, SumNat, StorefrontAssumption DEF Lost
<1>5. SumFunctionOnSet(balance, Peers) \in Int
  BY <1>1, SumType, StorefrontAssumption
<1> QED
  BY <1>3, <1>4, <1>5 DEF TypeOK

\* An amount that goes to an account, or that is taken from it.
LEMMA BalancesMove ==
  ASSUME TypeOK, NEW p \in Peers, NEW d \in Int, balance' = UpdateCreditsBalance(p, d)
  PROVE  SumFunctionOnSet(balance', Peers) = SumFunctionOnSet(balance, Peers) + d
<1>1. \A q \in Peers : balance[q] \in Int
  BY DEF TypeOK
<1>2. \A q \in Peers : balance'[q] = IF q = p THEN balance[q] + d ELSE balance[q]
  BY AddToBalance
<1>3. Shifted(balance', balance, Peers, p, d)
  BY <1>1, <1>2 DEF Shifted
<1> QED
  BY <1>3, SumShift, StorefrontAssumption

\* The step of a handler changes what that handler holds.
LEMMA EscrowMoves ==
  ASSUME TypeOK, TypeOK', NEW w \in Workers, Arrive(w) \/ Step(w)
  PROVE  Escrow' = Escrow - Held(w) + Held(w)'
<1> DEFINE f == [v \in Workers |-> Held(v)]
           g == [v \in Workers |-> Held(v)']
<1>1. \A v \in Workers : f[v] \in Int
  BY HeldType
<1>2. \A v \in Workers : Held(v)' \in Int
  <2>1. ASSUME NEW v \in Workers PROVE Held(v)' \in Int
    <3>1. job'[v] \in Jobs
      BY DEF TypeOK
    <3>2. job'[v].amt \in Int
      BY <3>1 DEF Jobs
    <3> QED
      BY <3>2, HeldBecomes DEF HeldAt
  <2> QED
    BY <2>1
<1>3. \A v \in Workers \ {w} : pc'[v] = pc[v] /\ job'[v] = job[v]
  BY OthersStay, WorkforceType, Zenon
<1>4. \A v \in Workers \ {w} : f[v] = g[v]
  BY <1>3, HeldIs, HeldBecomes
<1>5. \A v \in Workers : f[v] \in Int /\ g[v] \in Int
  BY <1>1, <1>2
<1>6. f[w] = Held(w) /\ g[w] = Held(w)'
  OBVIOUS
<1>7. Escrow = SumFunctionOnSet(f, Workers) /\ Escrow' = SumFunctionOnSet(g, Workers)
  BY DEF Escrow
<1> HIDE DEF f, g
<1>8. SumFunctionOnSet(g, Workers) = SumFunctionOnSet(f, Workers) - f[w] + g[w]
  BY <1>4, <1>5, SumUpdate, StorefrontAssumption
<1> QED
  BY <1>6, <1>7, <1>8

\* What a handler holds is part of the escrow.
LEMMA HeldInEscrow ==
  ASSUME TypeOK, NEW w \in Workers
  PROVE  Held(w) <= Escrow
<1> DEFINE f == [v \in Workers |-> Held(v)]
<1>1. \A v \in Workers : f[v] \in Nat
  BY HeldType
<1>2. IsFiniteSet(Workers \ {w})
  BY StorefrontAssumption, FS_RemoveElement
<1>3. f[w] = Held(w) /\ Escrow = SumFunctionOnSet(f, Workers)
  BY DEF Escrow
<1> HIDE DEF f
<1>4. SumFunctionOnSet(f, Workers) = f[w] + SumFunctionOnSet(f, Workers \ {w})
  BY <1>1, SumRemove, StorefrontAssumption
<1>5. SumFunctionOnSet(f, Workers \ {w}) \in Nat
  BY <1>1, <1>2, SumNat, Zenon
<1> QED
  BY <1>1, <1>3, <1>4, <1>5

LEMMA LostMoves ==
  ASSUME TypeOK, NEW w \in Workers, lost' = Lose(w)
  PROVE  Lost' = Lost + job[w].amt
<1>1. job[w].amt \in Int
  BY JobFields
<1>2. \A v \in Workers : lost[v] \in Int
  BY DEF TypeOK
<1>3. \A v \in Workers : lost'[v] = IF v = w THEN lost[v] + job[w].amt ELSE lost[v]
  BY DEF Lose, TypeOK
<1>4. Shifted(lost', lost, Workers, w, job[w].amt)
  BY <1>2, <1>3 DEF Shifted
<1> QED
  BY <1>1, <1>4, SumShift, StorefrontAssumption DEF Lost

\* A crash loses what the handlers held.
LEMMA CrashMoves ==
  ASSUME TypeOK, Crash
  PROVE  /\ balance' = balance /\ minted' = minted
         /\ Escrow' = 0 /\ Lost' = Lost + Escrow
<1> DEFINE f == [v \in Workers |-> Held(v)]
           g == [v \in Workers |-> Held(v)']
<1>1. \A v \in Workers : f[v] \in Int /\ lost[v] \in Int
  BY HeldType DEF TypeOK
<1>2. \A v \in Workers : lost'[v] = lost[v] + f[v]
  BY DEF Crash
<1>3. \A v \in Workers : g[v] = 0
  BY DEF Crash, Held
<1>4. Escrow = SumFunctionOnSet(f, Workers) /\ Escrow' = SumFunctionOnSet(g, Workers)
  BY DEF Escrow
<1> HIDE DEF f, g
<1>5. SumFunctionOnSet(lost', Workers) = SumFunctionOnSet(lost, Workers) + SumFunctionOnSet(f, Workers)
  BY <1>1, <1>2, SumPlus, StorefrontAssumption, Zenon
<1>6. SumFunctionOnSet(g, Workers) = 0
  BY <1>3, SumZero, StorefrontAssumption
<1> QED
  BY <1>4, <1>5, <1>6, Zenon DEF Lost, Crash, storeVars

\* Steps that no handler takes.
LEMMA StandStill ==
  ASSUME UNCHANGED <<pc, job, lost>>
  PROVE  Escrow' = Escrow /\ Lost' = Lost
<1>1. \A w \in Workers : Held(w)' = Held(w)
  BY DEF Held, Direct
<1>2. [w \in Workers |-> Held(w)'] = [w \in Workers |-> Held(w)]
  BY <1>1
<1>3. Escrow' = SumFunctionOnSet([w \in Workers |-> Held(w)'], Workers)
  BY DEF Escrow
<1>4. SumFunctionOnSet([w \in Workers |-> Held(w)'], Workers) = Escrow
  BY <1>2 DEF Escrow
<1> QED
  BY <1>3, <1>4 DEF Lost

LEMMA NothingYet == Init => Escrow = 0 /\ Lost = 0 /\ SumFunctionOnSet(balance, Peers) = 0
<1> SUFFICES ASSUME Init
             PROVE  Escrow = 0 /\ Lost = 0 /\ SumFunctionOnSet(balance, Peers) = 0
  OBVIOUS
<1>1. \A w \in Workers : [v \in Workers |-> Held(v)][w] = 0
  BY DEF Init, Held
<1>2. \A w \in Workers : lost[w] = 0
  BY DEF Init
<1>3. \A p \in Peers : balance[p] = 0
  BY DEF Init
<1>4. Escrow = 0
  BY <1>1, SumZero, StorefrontAssumption DEF Escrow
<1>5. Lost = 0
  BY <1>2, SumZero, StorefrontAssumption DEF Lost
<1>6. SumFunctionOnSet(balance, Peers) = 0
  BY <1>3, SumZero, StorefrontAssumption
<1> QED
  BY <1>4, <1>5, <1>6

\* Credits are neither made nor destroyed, whichever payments, refunds, deposits,
\* withdrawals, store errors and crashes interleave: the accounts, what the handlers
\* hold and what was lost add up to what was deposited less what was withdrawn.
THEOREM NoCreditsFromNothing == Spec => []CreditsConserved
<1>1. Init => CreditsConserved
  <2> SUFFICES ASSUME Init PROVE CreditsConserved
    OBVIOUS
  <2>1. Escrow = 0 /\ Lost = 0 /\ SumFunctionOnSet(balance, Peers) = 0
    BY NothingYet
  <2>2. minted = 0
    BY DEF Init
  <2> QED
    BY <2>1, <2>2 DEF CreditsConserved
<1>2. TypeOK /\ HandlerOrder /\ CreditsConserved /\ [Next]_vars => CreditsConserved'
  <2> SUFFICES ASSUME TypeOK, TypeOK', HandlerOrder, CreditsConserved, [Next]_vars
               PROVE  CreditsConserved'
    BY StepType
  <2> DEFINE B == SumFunctionOnSet(balance, Peers)
  <2>0. B \in Int /\ Escrow \in Int /\ Lost \in Int /\ minted \in Int /\ B + Escrow + Lost = minted
    BY SumTypes DEF CreditsConserved
  <2>1. SUFFICES B' + Escrow' + Lost' = minted'
    BY DEF CreditsConserved
  <2>2. ASSUME NEW w \in Workers, Arrive(w) \/ Step(w) PROVE B' + Escrow' + Lost' = minted'
    <3>1. Escrow' = Escrow - Held(w) + Held(w)'
      BY <2>2, EscrowMoves
    <3>2. Held(w) \in Int /\ job[w].amt \in Int /\ -job[w].amt \in Int
          /\ job[w].peer \in Peers /\ ProviderOf[ListingOf[job[w].req]] \in Peers
      BY HeldType, JobFields, SMTT(60)
    <3>3. CASE Quiet(w)
      <4>1. B' = B /\ Lost' = Lost /\ minted' = minted
        BY <3>3, Zenon DEF Quiet, Lost
      <4> QED
        BY <2>0, <3>1, <3>2, <3>3, <4>1, SMTT(60) DEF Quiet
    <3>4. CASE Loses(w)
      <4>1. B' = B /\ Lost' = Lost + job[w].amt
        BY <3>4, LostMoves, Zenon DEF Loses
      <4> QED
        BY <2>0, <3>1, <3>2, <3>4, <4>1, SMTT(60) DEF Loses
    <3>5. CASE Withdraws(w)
      <4>1. B' = B + (-job[w].amt) /\ Lost' = Lost
        BY <3>2, <3>5, BalancesMove, Zenon DEF Withdraws, Lost
      <4> QED
        BY <2>0, <3>1, <3>2, <3>5, <4>1, SMTT(60) DEF Withdraws
    <3>6. ASSUME NEW p \in Peers, Debits(w, p) PROVE B' + Escrow' + Lost' = minted'
      <4>1. B' = B + (-job[w].amt) /\ Lost' = Lost
        BY <3>2, <3>6, BalancesMove, Zenon DEF Debits, Lost
      <4> QED
        BY <2>0, <3>1, <3>2, <3>6, <4>1, SMTT(60) DEF Debits
    <3>7. ASSUME NEW p \in Peers, Credits(w, p) PROVE B' + Escrow' + Lost' = minted'
      <4>1. B' = B + job[w].amt /\ Lost' = Lost
        BY <3>2, <3>7, BalancesMove, Zenon DEF Credits, Lost
      <4> QED
        BY <2>0, <3>1, <3>2, <3>7, <4>1, SMTT(60) DEF Credits
    <3>8. \/ Quiet(w) \/ Loses(w) \/ Withdraws(w)
          \/ \E p \in Peers : Debits(w, p) \/ Credits(w, p)
      BY <2>2, <3>2, ArrivesQuiet, StepsCredits, ZenonT(60)
    <3> QED
      BY <3>3, <3>4, <3>5, <3>6, <3>7, <3>8
  <2>3. ASSUME NEW p \in Peers, NEW a \in Amounts, DepositCredits(p, a)
        PROVE  B' + Escrow' + Lost' = minted'
    <3>1. a \in Int
      BY ConstantTypes, SMTT(60)
    <3>2. /\ balance' = UpdateCreditsBalance(p, a) /\ minted' = minted + a
          /\ UNCHANGED <<pc, job, lost>>
      BY <2>3 DEF DepositCredits
    <3>3. B' = B + a
      BY <3>1, <3>2, BalancesMove
    <3>4. Escrow' = Escrow /\ Lost' = Lost
      BY <3>2, StandStill
    <3> QED
      BY <2>0, <3>1, <3>2, <3>3, <3>4, SMTT(60)
  <2>4. CASE Crash
    <3>1. B' = B /\ minted' = minted /\ Escrow' = 0 /\ Lost' = Lost + Escrow
      BY <2>4, CrashMoves
    <3> QED
      BY <2>0, <3>1
  <2>5. CASE \/ \E l \in Listings : ReplaceListing(l)
             \/ \E r \in Requests : BuyerPays(r)
             \/ UNCHANGED vars
    <3>1. UNCHANGED <<balance, minted, pc, job, lost>>
      BY <2>5, ZenonT(60) DEF ReplaceListing, BuyerPays, vars, storeVars, historyVars
    <3>2. Escrow' = Escrow /\ Lost' = Lost
      BY <3>1, StandStill
    <3> QED
      BY <2>0, <3>1, <3>2
  <2> QED
    BY <2>2, <2>3, <2>4, <2>5 DEF Next
<1> QED
  BY <1>1, <1>2, OrderInit, OrderStep, TypeCorrect, PTL DEF Spec

-----------------------------------------------------------------------------
(* The ledger.  A payment takes an amount that a listing asked for, or the   *)
(* fixed price; the handlers that take it are those of pay-credits.          *)

Priced ==
    /\ \A r \in Requests : Exists(r) => purchase[r].amount \in Prices
    /\ \A w \in Workers : pc[w] # "idle" =>
         /\ job[w].flow = "create" => job[w].amt \in Prices
         /\ job[w].flow = "credits" => job[w].amt \in Prices \cup {FixedPrice}

\* A row that appears is the one of a purchase that is being created.
LEMMA RowAppears ==
  ASSUME TypeOK, [Next]_vars, NEW r \in Requests, ~Exists(r), Exists(r)'
  PROVE  \E w \in Workers : StorePurchaseRequest(w) /\ purchase'[r].amount = job[w].amt
<1>0. purchase' # purchase
  BY DEF Exists
<1>1. ASSUME NEW q \in Requests, NEW s, purchase' = UpdatePurchaseStatus(q, s) PROVE FALSE
  BY <1>1 DEF TypeOK, UpdatePurchaseStatus, Exists
<1>2. ASSUME NEW q \in Requests, NEW g, purchase' = UpdatePurchaseGrant(q, g) PROVE FALSE
  BY <1>2 DEF TypeOK, UpdatePurchaseGrant, Exists
<1>3. ASSUME NEW w \in Workers, Arrive(w) PROVE FALSE
  BY <1>0, <1>1, <1>3, ZenonT(60) DEF Arrive, CreatePurchaseRequest, ConfirmPayment,
     PayWithCredits, CreateFiatPaymentIntent, StripeWebhook, RefundCredits, WithdrawCredits,
     storeVars
<1>4. ASSUME NEW w \in Workers, Step(w), ~StorePurchaseRequest(w) PROVE FALSE
  <2>1. job[w].req \in Requests
    BY JobFields
  <2> QED
    BY <1>0, <1>1, <1>2, <1>4, <2>1, ZenonT(60) DEF Step, NotVerified, VerifyTransaction,
       PaymentConfirmed, IssueGrant, TierNotFound, AttachGrant, CompletePurchase,
       AtomicDeductCredits, InsufficientCredits, CreateCreditsTransaction, CreditProvider,
       CreditsDeducted, RefundBuyer, StripeError, CheckoutCreated, DuplicateDelivery,
       CompleteStripeCheckout, DeductFromProvider, CreditBuyer, GiveBack, ApplyWithdrawal,
       StoreError, IgnoredError, storeVars
<1>5. ~(\/ \E l \in Listings : ReplaceListing(l)
        \/ \E q \in Requests : BuyerPays(q)
        \/ \E p \in Peers, a \in Amounts : DepositCredits(p, a)
        \/ Crash \/ UNCHANGED vars)
  BY <1>0, ZenonT(60) DEF ReplaceListing, BuyerPays, DepositCredits, Crash, vars, storeVars
<1>6. PICK w \in Workers : StorePurchaseRequest(w)
  BY <1>3, <1>4, <1>5, Zenon DEF Next
<1>7. purchase'[r].amount = job[w].amt
  <2>1. purchase' = [purchase EXCEPT ![job[w].req] =
                       [status |-> "Pending", grant |-> NoGrant, amount |-> job[w].amt]]
    BY <1>0, <1>6 DEF StorePurchaseRequest
  <2>2. purchase'[r] = IF r = job[w].req
                       THEN [status |-> "Pending", grant |-> NoGrant, amount |-> job[w].amt]
                       ELSE purchase[r]
    BY <2>1, Zenon DEF TypeOK
  <2> QED
    BY <2>2, SMTT(60) DEF Exists
<1> QED
  BY <1>6, <1>7

\* A handler on its way keeps the amount it started with.
LEMMA AmountKept ==
  ASSUME Workforce, NEW w \in Workers, Step(w)
  PROVE  /\ pc[w] # "idle" /\ job'[w].amt = job[w].amt
         /\ job'[w].flow \in {job[w].flow, "again"}
<1>1. CASE IssueGrant(w)
  BY <1>1 DEF IssueGrant, Workforce, Jobs
<1>2. ASSUME Finish(w)
      PROVE  job'[w].amt = job[w].amt /\ job'[w].flow \in {job[w].flow, "again"}
  BY <1>2 DEF Finish, Workforce, Jobs
<1>3. CASE IgnoredError(w)
  <2>1. pc[w] # "idle"
    BY <1>3 DEF IgnoredError
  <2>2. Finish(w) \/ job' = job \/ job' = [job EXCEPT ![w].seen = FALSE]
    BY <1>3 DEF IgnoredError
  <2>3. CASE job' = [job EXCEPT ![w].seen = FALSE]
    BY <2>1, <2>3, Zenon DEF Workforce, Jobs
  <2> QED
    BY <1>2, <2>1, <2>2, <2>3
<1>4. CASE CompletePurchase(w) \/ DuplicateDelivery(w)
  BY <1>2, <1>4, ZenonT(60) DEF CompletePurchase, DuplicateDelivery
<1>5. CASE ~(IssueGrant(w) \/ IgnoredError(w) \/ CompletePurchase(w) \/ DuplicateDelivery(w))
  <2>1. pc[w] # "idle" /\ job' = job
    BY <1>5, Step(w), ZenonT(60) DEF Step, StorePurchaseRequest, NotVerified,
       VerifyTransaction, PaymentConfirmed, TierNotFound, AttachGrant, AtomicDeductCredits,
       InsufficientCredits, CreateCreditsTransaction, CreditProvider, CreditsDeducted,
       RefundBuyer, StripeError, CheckoutCreated, CompleteStripeCheckout,
       DeductFromProvider, CreditBuyer, GiveBack, ApplyWithdrawal, StoreError
  <2> QED
    BY <2>1
<1> QED
  BY <1>1, <1>3, <1>4, <1>5

\* A handler starts with the price the listing has or the purchase was quoted.
LEMMA ArrivesPriced ==
  ASSUME TypeOK, Priced, NEW w \in Workers, Arrive(w)
  PROVE  /\ job'[w].flow = "create" => job'[w].amt \in Prices
         /\ job'[w].flow = "credits" => job'[w].amt \in Prices \cup {FixedPrice}
<1>0. Workforce
  BY WorkforceType
<1>1. ASSUME NEW l, NEW j, StartJob(w, l, j) PROVE job'[w] = j
  BY <1>0, <1>1 DEF StartJob, Workforce
<1>2. \A f, r, a : Job(f, r, a).flow = f /\ Job(f, r, a).amt = a
  BY DEF Job
<1>3. ASSUME NEW r \in Requests, CreatePurchaseRequest(w, r)
      PROVE  job'[w].flow = "create" /\ job'[w].amt \in Prices
  <2>1. job'[w] = Job("create", r, TierPrice(r)) /\ TierPrice(r) # NoOffer
    BY <1>1, <1>3, Zenon DEF CreatePurchaseRequest, HasTier
  <2>2. TierPrice(r) \in Prices
    BY <2>1, StorefrontAssumption, Zenon DEF TierPrice, TypeOK
  <2> QED
    BY <1>2, <2>1, <2>2
<1>4. ASSUME NEW r \in Requests, PayWithCredits(w, r)
      PROVE  job'[w].flow = "credits" /\ job'[w].amt \in Prices \cup {FixedPrice}
  <2>1. /\ job'[w] = Job("credits", r, IF HasPayment THEN purchase[r].amount ELSE FixedPrice)
        /\ Exists(r)
    BY <1>1, <1>4, Zenon DEF PayWithCredits
  <2>2. purchase[r].amount \in Prices
    BY <2>1, Zenon DEF Priced
  <2> QED
    BY <1>2, <2>1, <2>2
<1>5. ASSUME NEW r \in Requests,
             ConfirmPayment(w, r) \/ CreateFiatPaymentIntent(w, r) \/ RefundCredits(w, r)
      PROVE  job'[w].flow \in {"confirm", "fiat", "refundCredits"}
  BY <1>1, <1>2, <1>5 DEF ConfirmPayment, CreateFiatPaymentIntent, RefundCredits
<1>6. ASSUME NEW r \in Requests, StripeWebhook(w, r) PROVE job'[w].flow = "webhook"
  <2>1. [Job("webhook", r, 0) EXCEPT !.seen = AlreadyCompleted(r)].flow = "webhook"
    BY DEF Job
  <2> QED
    BY <1>1, <1>6, <2>1, Zenon DEF StripeWebhook
<1>7. ASSUME NEW p \in Peers, NEW a \in Amounts, WithdrawCredits(w, p, a)
      PROVE  job'[w].flow = "withdraw"
  <2>1. [NoJob EXCEPT !.flow = "withdraw", !.peer = p, !.amt = a].flow = "withdraw"
    BY DEF NoJob, Job
  <2> QED
    BY <1>1, <1>7, <2>1, ZenonT(60) DEF WithdrawCredits
<1> QED
  BY Arrive(w), <1>3, <1>4, <1>5, <1>6, <1>7, ZenonT(60) DEF Arrive

LEMMA PricedStep == TypeOK /\ HandlerOrder /\ Priced /\ [Next]_vars => Priced'
<1> SUFFICES ASSUME TypeOK, HandlerOrder, Priced, [Next]_vars PROVE Priced'
  OBVIOUS
<1>0. Workforce
  BY WorkforceType
<1>1. ASSUME NEW r \in Requests, Exists(r)' PROVE purchase'[r].amount \in Prices
  <2>1. CASE Exists(r)
    BY <2>1, RowKept DEF Priced
  <2>2. CASE ~Exists(r)
    <3>1. PICK w \in Workers : StorePurchaseRequest(w) /\ purchase'[r].amount = job[w].amt
      BY <1>1, <2>2, RowAppears, Zenon
    <3>2. pc[w] = "createStore" /\ job[w].flow = "create"
      BY <3>1, Zenon DEF StorePurchaseRequest, HandlerOrder, RunsAs
    <3> QED
      BY <3>1, <3>2 DEF Priced
  <2> QED
    BY <2>1, <2>2
<1>2. ASSUME NEW w \in Workers, pc'[w] # "idle"
      PROVE  /\ job'[w].flow = "create" => job'[w].amt \in Prices
             /\ job'[w].flow = "credits" => job'[w].amt \in Prices \cup {FixedPrice}
  <2>1. CASE pc'[w] = pc[w] /\ job'[w] = job[w]
    BY <1>2, <2>1, Zenon DEF Priced
  <2>2. CASE Arrive(w)
    BY <2>2, ArrivesPriced
  <2>3. CASE Step(w)
    <3>1. /\ pc[w] # "idle" /\ job'[w].amt = job[w].amt
          /\ job'[w].flow \in {job[w].flow, "again"}
      BY <1>0, <2>3, AmountKept
    <3> QED
      BY <3>1 DEF Priced
  <2>4. CASE Crash
    BY <1>2, <2>4 DEF Crash
  <2> QED
    BY <1>0, <2>1, <2>2, <2>3, <2>4, Moves, Zenon
<1> QED
  BY <1>1, <1>2 DEF Priced

\* The steps of the ledger.
LEMMA LedgerDeposit ==
  ASSUME NEW p \in Peers, NEW a \in Prices \cup Amounts \cup {FixedPrice},
         balance' = UpdateCreditsBalance(p, a), minted' = minted + a,
         Escrow' = Escrow, Lost' = Lost
  PROVE  Ledger!LedgerNext
BY ZenonT(60) DEF Ledger!LedgerNext, Ledger!Deposit, UpdateCreditsBalance

LEMMA LedgerTake ==
  ASSUME TypeOK, NEW p \in Peers, NEW a \in Prices \cup Amounts \cup {FixedPrice}, balance[p] >= a,
         balance' = UpdateCreditsBalance(p, -a), minted' = minted,
         Escrow' = Escrow + a, Lost' = Lost
  PROVE  Ledger!LedgerNext
<1>1. a \in Int /\ balance[p] \in Int
  BY StorefrontAssumption DEF TypeOK
<1>2. balance[p] + (-a) = balance[p] - a
  BY <1>1
<1>3. balance' = [balance EXCEPT ![p] = balance[p] - a]
  BY <1>2, Zenon DEF UpdateCreditsBalance
<1> QED
  BY <1>3 DEF Ledger!LedgerNext, Ledger!Take

LEMMA LedgerGive ==
  ASSUME NEW p \in Peers, NEW a \in Prices \cup Amounts \cup {FixedPrice}, Escrow >= a,
         balance' = UpdateCreditsBalance(p, a), minted' = minted,
         Escrow' = Escrow - a, Lost' = Lost
  PROVE  Ledger!LedgerNext
BY ZenonT(60) DEF Ledger!LedgerNext, Ledger!Give, UpdateCreditsBalance

LEMMA LedgerRetire ==
  ASSUME NEW a \in 1 .. Escrow, balance' = balance, minted' = minted,
         Escrow' = Escrow - a, Lost' = Lost + a
  PROVE  Ledger!LedgerNext
BY DEF Ledger!LedgerNext, Ledger!Retire

\* The payment handlers implement the ledger: seen through the sums, each of their
\* steps, store errors and crashes included, is a deposit, a payment that the account
\* covers, a credit out of what was taken, a loss of what was taken, or no step at all.
THEOREM PaymentsImplementLedger == PaymentsOnly => (Spec => ImplementsLedger)
<1> SUFFICES ASSUME PaymentsOnly PROVE Spec => ImplementsLedger
  OBVIOUS
<1>1. Init => Ledger!LedgerInit
  <2> SUFFICES ASSUME Init PROVE Ledger!LedgerInit
    OBVIOUS
  <2>1. Escrow = 0 /\ Lost = 0
    BY NothingYet, Zenon
  <2> QED
    BY <2>1 DEF Init, Ledger!LedgerInit
<1>2. Init => Priced
  BY DEF Init, Priced, Exists
<1>3. TypeOK /\ HandlerOrder /\ Priced /\ [Next]_vars => [Ledger!LedgerNext]_(Ledger!ledgerVars)
  <2> SUFFICES ASSUME TypeOK, TypeOK', HandlerOrder, Priced, [Next]_vars,
                      ~UNCHANGED <<balance, Escrow, Lost, minted>>
               PROVE  Ledger!LedgerNext
    BY StepType DEF Ledger!ledgerVars
  <2>0. Escrow \in Nat /\ Lost \in Nat
    BY SumTypes, Zenon
  <2>1. ASSUME NEW w \in Workers, Arrive(w) \/ Step(w) PROVE Ledger!LedgerNext
    <3>1. Escrow' = Escrow - Held(w) + Held(w)'
      BY <2>1, EscrowMoves, Zenon
    <3>2. /\ Held(w) \in Nat /\ job[w].amt \in Nat /\ Held(w) <= Escrow
          /\ job[w].peer \in Peers /\ ProviderOf[ListingOf[job[w].req]] \in Peers
      BY HeldType, JobFields, HeldInEscrow, ZenonT(60)
    <3>3. ~Quiet(w)
      <4> SUFFICES ASSUME Quiet(w) PROVE FALSE
        OBVIOUS
      <4>1. balance' = balance /\ Lost' = Lost /\ minted' = minted
        BY DEF Quiet, Lost
      <4>2. Escrow' = Escrow
        BY <2>0, <3>1, <3>2, SMTT(60) DEF Quiet
      <4> QED
        BY <4>1, <4>2
    <3>4. Step(w) /\ pc[w] # "idle"
      BY <2>1, <3>3, ArrivesQuiet, AmountKept, WorkforceType, Zenon
    <3>5. /\ RunsAs(pc[w], job[w].flow)
          /\ pc[w] \notin {"withdraw", "refundDebit", "refundCredit", "giveBack"}
          /\ job[w].flow # "refundCredits"
      BY <3>4, Zenon DEF HandlerOrder, RunsAs, PaymentsOnly
    <3>6. job[w].amt # 0 /\ Held(w) = job[w].amt => job[w].flow = "credits"
      BY <3>5, HeldIs, Zenon DEF HeldAt, RunsAs
    <3>7. ASSUME job[w].flow = "credits"
          PROVE  job[w].amt \in Prices \cup {FixedPrice} /\ job[w].amt \in Nat \ {0}
      <4>1. job[w].amt \in Prices \cup {FixedPrice}
        BY <3>4, <3>7 DEF Priced
      <4> QED
        BY <4>1, StorefrontAssumption, ZenonT(60)
    <3>8. CASE Loses(w)
      <4>1. balance' = balance /\ minted' = minted /\ Lost' = Lost + job[w].amt
        BY <3>8, LostMoves, Zenon DEF Loses
      <4>2. Escrow' = Escrow - job[w].amt
        BY <2>0, <3>1, <3>2, <3>8, SMTT(60) DEF Loses
      <4>3. job[w].amt # 0
        <5> SUFFICES ASSUME job[w].amt = 0 PROVE FALSE
          OBVIOUS
        <5>1. Escrow' = Escrow /\ Lost' = Lost
          BY <2>0, <4>1, <4>2, SMTT(60)
        <5> QED
          BY <4>1, <5>1
      <4>4. job[w].amt \in 1 .. Escrow
        BY <2>0, <3>2, <3>8, <4>3, SMTT(60) DEF Loses
      <4> QED
        BY <4>1, <4>2, <4>4, LedgerRetire
    <3>9. ASSUME NEW p \in Peers, AtomicDeductCredits(w), p = job[w].peer, Debits(w, p)
          PROVE  Ledger!LedgerNext
      <4>1. job[w].flow = "credits" /\ balance[p] >= job[w].amt
        BY <3>5, <3>9, ZenonT(60) DEF AtomicDeductCredits, RunsAs
      <4>2. Escrow' = Escrow + job[w].amt
        BY <2>0, <3>1, <3>2, <3>9, SMTT(60) DEF Debits
      <4>3. Lost' = Lost
        BY <3>9, Zenon DEF Debits, Lost
      <4> QED
        BY <3>7, <3>9, <4>1, <4>2, <4>3, LedgerTake, Zenon DEF Debits
    <3>10. ASSUME NEW p \in Peers, Credits(w, p) PROVE Ledger!LedgerNext
      <4>1. Escrow' = Escrow - job[w].amt /\ Escrow >= job[w].amt
        BY <2>0, <3>1, <3>2, <3>10, SMTT(60) DEF Credits
      <4>2. Lost' = Lost /\ minted' = minted /\ balance' = UpdateCreditsBalance(p, job[w].amt)
        BY <3>10 DEF Credits, Lost
      <4>3. job[w].amt # 0
        <5> SUFFICES ASSUME job[w].amt = 0 PROVE FALSE
          OBVIOUS
        <5>1. Escrow' = Escrow
          BY <2>0, <4>1, SMTT(60)
        <5>2. balance' = balance
          <6>1. balance[p] + 0 = balance[p]
            BY BalanceInt
          <6>2. balance' = [balance EXCEPT ![p] = balance[p]]
            BY <4>2, <6>1, ZenonT(60) DEF UpdateCreditsBalance
          <6> QED
            BY <6>2, Zenon DEF TypeOK
        <5> QED
          BY <4>2, <5>1, <5>2, Zenon
      <4>4. job[w].flow = "credits"
        BY <3>6, <3>10, <4>3 DEF Credits
      <4> QED
        BY <3>7, <4>1, <4>2, <4>4, LedgerGive, Zenon
    <3>11. ~DeductFromProvider(w) /\ ~ApplyWithdrawal(w)
      BY <3>5, ZenonT(60) DEF DeductFromProvider, ApplyWithdrawal
    <3> QED
      BY <3>2, <3>3, <3>4, <3>8, <3>9, <3>10, <3>11, StepsCredits, ZenonT(60)
  <2>2. ASSUME NEW p \in Peers, NEW a \in Amounts, DepositCredits(p, a)
        PROVE  Ledger!LedgerNext
    <3>1. /\ balance' = UpdateCreditsBalance(p, a) /\ minted' = minted + a
          /\ UNCHANGED <<pc, job, lost>>
      BY <2>2 DEF DepositCredits
    <3>2. Escrow' = Escrow /\ Lost' = Lost
      BY <3>1, StandStill
    <3> QED
      BY <3>1, <3>2, LedgerDeposit, Zenon
  <2>3. CASE Crash
    <3>1. balance' = balance /\ minted' = minted /\ Escrow' = 0 /\ Lost' = Lost + Escrow
      BY <2>3, CrashMoves
    <3>2. Escrow # 0
      BY <2>0, <3>1
    <3>3. Escrow \in 1 .. Escrow /\ Escrow' = Escrow - Escrow
      BY <2>0, <3>1, <3>2
    <3> QED
      BY <3>1, <3>3, LedgerRetire
  <2>4. CASE \/ \E l \in Listings : ReplaceListing(l)
             \/ \E r \in Requests : BuyerPays(r)
             \/ UNCHANGED vars
    <3>1. UNCHANGED <<balance, minted, pc, job, lost>>
      BY <2>4, ZenonT(60) DEF ReplaceListing, BuyerPays, vars, storeVars, historyVars
    <3>2. Escrow' = Escrow /\ Lost' = Lost
      BY <3>1, StandStill
    <3> QED
      BY <3>1, <3>2
  <2> QED
    BY <2>1, <2>2, <2>3, <2>4, Zenon DEF Next
<1> QED
  BY <1>1, <1>2, <1>3, PricedStep, OrderInit, OrderStep, TypeCorrect, PTL
     DEF Spec, ImplementsLedger, Ledger!Spec
=============================================================================
