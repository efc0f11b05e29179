-------------------------- MODULE StorefrontProofs --------------------------
(* Proofs of the properties of Storefront, for any sets of requests, peers,  *)
(* listings and workers, any bounds and any combination of operations.       *)
EXTENDS Storefront, TLAPS

-----------------------------------------------------------------------------
(* The building blocks of the actions keep the types. *)

LEMMA StartJobType ==
  ASSUME TypeOK, NEW w \in Workers, NEW label \in Labels, NEW j \in Jobs,
         StartJob(w, label, j)
  PROVE  /\ pc' \in [Workers -> Labels]
         /\ job' \in [Workers -> Jobs]
BY DEF TypeOK, StartJob, Goto

LEMMA GotoType ==
  ASSUME TypeOK, NEW w \in Workers, NEW label \in Labels, Goto(w, label)
  PROVE  pc' \in [Workers -> Labels]
BY DEF TypeOK, Goto

LEMMA JobType ==
  ASSUME NEW flow \in Handlers, NEW r \in Requests, NEW a \in Nat
  PROVE  Job(flow, r, a) \in Jobs
BY StorefrontAssumption DEF Job, Jobs, NoGrant

LEMMA JobParts ==
  ASSUME NEW flow, NEW r, NEW a, NEW j, j = Job(flow, r, a)
  PROVE  j.flow = flow /\ j.req = r /\ j.peer = BuyerOf[r] /\ j.amt = a
BY DEF Job

LEMMA NoJobType == NoJob \in Jobs
<1>1. (CHOOSE r \in Requests : TRUE) \in Requests
  BY StorefrontAssumption
<1> QED
  BY <1>1, JobType DEF NoJob, Handlers

LEMMA CallType ==
  ASSUME TypeOK, Call
  PROVE  used' \in [calls : Nat, faults : Nat, crashes : Nat, offers : Nat]
<1>1. used \in [calls : Nat, faults : Nat, crashes : Nat, offers : Nat]
  BY DEF TypeOK
<1> QED
  BY <1>1 DEF Call

LEMMA ConstantTypes ==
  /\ Prices \cup {0} \subseteq Nat /\ Amounts \subseteq Nat /\ FixedPrice \in Nat
  /\ \A r \in Requests : /\ BuyerOf[r] \in Peers
                         /\ ListingOf[r] \in Listings
                         /\ ProviderOf[ListingOf[r]] \in Peers
BY StorefrontAssumption

LEMMA TierType ==
  ASSUME TypeOK, NEW r \in Requests
  PROVE  TierPrice(r) \in Nat
<1>1. offer \in [Listings -> Prices \cup {0}]
  BY DEF TypeOK, NoOffer
<1>2. TierPrice(r) \in Prices \cup {0}
  BY <1>1, ConstantTypes DEF TierPrice
<1> QED
  BY <1>2, ConstantTypes

LEMMA JobFields ==
  ASSUME TypeOK, NEW w \in Workers
  PROVE  /\ job[w] \in Jobs
         /\ job[w].flow \in Handlers /\ job[w].req \in Requests
         /\ job[w].peer \in Peers /\ job[w].amt \in Nat /\ job[w].grant \in Nat
         /\ ProviderOf[ListingOf[job[w].req]] \in Peers
<1>1. job[w] \in Jobs
  BY DEF TypeOK
<1> QED
  BY <1>1, ConstantTypes DEF Jobs

LEMMA HeldType ==
  ASSUME TypeOK, NEW w \in Workers
  PROVE  Held(w) \in Nat
BY JobFields DEF Held

LEMMA FinishType ==
  ASSUME TypeOK, NEW w \in Workers, Finish(w)
  PROVE  /\ pc' \in [Workers -> Labels]
         /\ job' \in [Workers -> Jobs]
         /\ acked' \subseteq Requests
<1>1. pc' \in [Workers -> Labels]
  BY DEF TypeOK, Finish, Goto, Labels
<1>2. [job[w] EXCEPT !.flow = "again"] \in Jobs
  BY JobFields DEF Jobs, Handlers
<1>3. job' \in [Workers -> Jobs]
  BY <1>2 DEF TypeOK, Finish
<1> QED
  BY <1>1, <1>3, JobFields DEF TypeOK, Finish

LEMMA FaultType ==
  ASSUME TypeOK, NEW w \in Workers, Fault(w)
  PROVE  /\ used' \in [calls : Nat, faults : Nat, crashes : Nat, offers : Nat]
         /\ disturbed' \subseteq Requests
<1>1. used \in [calls : Nat, faults : Nat, crashes : Nat, offers : Nat]
  BY DEF TypeOK
<1>2. used' \in [calls : Nat, faults : Nat, crashes : Nat, offers : Nat]
  BY <1>1 DEF Fault
<1> QED
  BY <1>2, JobFields, Zenon DEF TypeOK, Fault

LEMMA OpenedType ==
  ASSUME TypeOK, NEW r \in Requests
  PROVE  Opened(r) \in [Requests -> {"none", "open", "paid"}]
BY DEF TypeOK, Opened

LEMMA ChargedType ==
  ASSUME TypeOK, NEW r \in Requests, NEW d \in Int
  PROVE  [charged EXCEPT ![r] = @ + d] \in [Requests -> Int]
BY DEF TypeOK

LEMMA DisturbedType ==
  ASSUME NEW r \in Requests, NEW s
  PROVE  Overlap(r) \subseteq Requests /\ Regress(r, s) \subseteq Requests
BY DEF Overlap, Regress

LEMMA StatusType ==
  ASSUME TypeOK, NEW r \in Requests, NEW s \in Status
  PROVE  UpdatePurchaseStatus(r, s) \in [Requests -> PurchaseRow]
BY ZenonT(60) DEF TypeOK, UpdatePurchaseStatus, PurchaseRow

LEMMA GrantType ==
  ASSUME TypeOK, NEW r \in Requests, NEW g \in Nat
  PROVE  UpdatePurchaseGrant(r, g) \in [Requests -> PurchaseRow]
BY ZenonT(60) DEF TypeOK, UpdatePurchaseGrant, PurchaseRow, Status

LEMMA BalanceType ==
  ASSUME TypeOK, NEW p \in Peers, NEW d \in Int
  PROVE  UpdateCreditsBalance(p, d) \in [Peers -> Int]
BY DEF TypeOK, UpdateCreditsBalance

LEMMA LostType ==
  ASSUME TypeOK, NEW w \in Workers
  PROVE  Lose(w) \in [Workers -> Nat]
BY DEF TypeOK, Lose, Jobs

-----------------------------------------------------------------------------
LEMMA StepType == TypeOK /\ [Next]_vars => TypeOK'
<1> SUFFICES ASSUME TypeOK, [Next]_vars PROVE TypeOK'
  OBVIOUS
<1>1. ASSUME NEW l \in Listings, ReplaceListing(l) PROVE TypeOK'
  <2> USE <1>1
  <2>1. used \in [calls : Nat, faults : Nat, crashes : Nat, offers : Nat]
    BY DEF TypeOK
  <2>2. used' \in [calls : Nat, faults : Nat, crashes : Nat, offers : Nat]
    BY <2>1 DEF ReplaceListing
  <2> QED
    BY <2>2, SMTT(60)
       DEF ReplaceListing, TypeOK, storeVars, externalVars, historyVars
<1>2. ASSUME NEW w \in Workers, NEW r \in Requests, CreatePurchaseRequest(w, r) PROVE TypeOK'
  <2> USE <1>2
  <2>1. "create" \in Handlers /\ "createStore" \in Labels
    BY DEF Handlers, Labels
  <2>2. Job("create", r, TierPrice(r)) \in Jobs
    BY <2>1, JobType, TierType
  <2>3. /\ pc' \in [Workers -> Labels]
        /\ job' \in [Workers -> Jobs]
    BY <2>1, <2>2, StartJobType DEF CreatePurchaseRequest
  <2>4. disturbed' \subseteq Requests
    BY DisturbedType, ZenonT(60) DEF CreatePurchaseRequest, TypeOK
  <2> QED
    BY <2>3, <2>4, CallType, Zenon
       DEF CreatePurchaseRequest, TypeOK, storeVars, externalVars, historyVars
<1>3. ASSUME NEW w \in Workers, StorePurchaseRequest(w) PROVE TypeOK'
  <2> USE <1>3
  <2>1. pc' \in [Workers -> Labels]
    BY GotoType DEF StorePurchaseRequest, Stop, Labels
  <2>2. [status |-> "Pending", grant |-> NoGrant, amount |-> job[w].amt] \in PurchaseRow
    BY JobFields DEF PurchaseRow, Status, NoGrant
  <2>3. purchase' \in [Requests -> PurchaseRow]
    BY <2>2, ZenonT(60) DEF StorePurchaseRequest, TypeOK
  <2> QED
    BY <2>1, <2>3
       DEF StorePurchaseRequest, TypeOK, storeVars, externalVars, historyVars
<1>4. ASSUME NEW w \in Workers, NEW r \in Requests, ConfirmPayment(w, r) PROVE TypeOK'
  <2> USE <1>4
  <2>1. "confirm" \in Handlers /\ "verify" \in Labels /\ "confirm" \in Labels
    BY DEF Handlers, Labels
  <2>2. Job("confirm", r, 0) \in Jobs
    BY <2>1, JobType
  <2>3. /\ pc' \in [Workers -> Labels]
        /\ job' \in [Workers -> Jobs]
    BY <2>1, <2>2, StartJobType DEF ConfirmPayment
  <2>4. purchase' \in [Requests -> PurchaseRow]
    BY StatusType DEF ConfirmPayment, Status
  <2>5. disturbed' \subseteq Requests
    BY DisturbedType, ZenonT(60) DEF ConfirmPayment, TypeOK
  <2> QED
    BY <2>3, <2>4, <2>5, CallType, Zenon
       DEF ConfirmPayment, TypeOK, storeVars, externalVars, historyVars
<1>5. ASSUME NEW w \in Workers, NotVerified(w) PROVE TypeOK'
  <2> USE <1>5
  <2>1. pc' \in [Workers -> Labels]
    BY GotoType DEF NotVerified, Stop, Labels
  <2> QED
    BY <2>1
       DEF NotVerified, TypeOK, storeVars, externalVars, historyVars
<1>6. ASSUME NEW w \in Workers, VerifyTransaction(w) PROVE TypeOK'
  <2> USE <1>6
  <2>1. pc' \in [Workers -> Labels]
    BY GotoType DEF VerifyTransaction, Stop, Labels
  <2>2. purchase' \in [Requests -> PurchaseRow]
    BY JobFields, StatusType, Zenon DEF VerifyTransaction, Status
  <2>3. disturbed' \subseteq Requests
    BY JobFields, DisturbedType DEF VerifyTransaction, TypeOK
  <2> QED
    BY <2>1, <2>2, <2>3, JobFields
       DEF VerifyTransaction, TypeOK, storeVars, externalVars, historyVars
<1>7. ASSUME NEW w \in Workers, PaymentConfirmed(w) PROVE TypeOK'
  <2> USE <1>7
  <2>1. pc' \in [Workers -> Labels]
    BY GotoType DEF PaymentConfirmed, Stop, Labels
  <2>2. purchase' \in [Requests -> PurchaseRow]
    BY JobFields, StatusType DEF PaymentConfirmed, Status
  <2>3. disturbed' \subseteq Requests
    BY JobFields, DisturbedType DEF PaymentConfirmed, TypeOK
  <2> QED
    BY <2>1, <2>2, <2>3
       DEF PaymentConfirmed, TypeOK, storeVars, externalVars, historyVars
<1>8. ASSUME NEW w \in Workers, IssueGrant(w) PROVE TypeOK'
  <2> USE <1>8
  <2>1. pc' \in [Workers -> Labels]
    BY GotoType DEF IssueGrant, Stop, Labels, AfterIssue
  <2>2. Grant(w) \in [request : Requests, flow : Handlers, row : BOOLEAN]
    BY JobFields DEF Grant, Exists
  <2>3. grants' \in Seq([request : Requests, flow : Handlers, row : BOOLEAN])
    BY <2>2 DEF IssueGrant, CreateGrant, TypeOK
  <2>4. Len(grants) + 1 \in Nat
    BY DEF TypeOK
  <2>5. [job[w] EXCEPT !.grant = Len(grants) + 1] \in Jobs
    BY <2>4, JobFields DEF Jobs
  <2>6. job' \in [Workers -> Jobs]
    BY <2>5 DEF IssueGrant, TypeOK
  <2>7. lost' \in [Workers -> Nat]
    BY LostType DEF IssueGrant, TypeOK
  <2> QED
    BY <2>1, <2>3, <2>6, <2>7, Zenon
       DEF IssueGrant, TypeOK, storeVars, externalVars, historyVars
<1>9. ASSUME NEW w \in Workers, TierNotFound(w) PROVE TypeOK'
  <2> USE <1>9
  <2>1. pc' \in [Workers -> Labels]
    BY GotoType DEF TierNotFound, Stop, Labels, IssueFailed
  <2> QED
    BY <2>1
       DEF TierNotFound, TypeOK, storeVars, externalVars, historyVars
<1>10. ASSUME NEW w \in Workers, AttachGrant(w) PROVE TypeOK'
  <2> USE <1>10
  <2>1. pc' \in [Workers -> Labels]
    BY GotoType DEF AttachGrant, Stop, Labels
  <2>2. purchase' \in [Requests -> PurchaseRow]
    BY JobFields, GrantType DEF AttachGrant
  <2> QED
    BY <2>1, <2>2
       DEF AttachGrant, TypeOK, storeVars, externalVars, historyVars
<1>11. ASSUME NEW w \in Workers, CompletePurchase(w) PROVE TypeOK'
  <2> USE <1>11
  <2>1. purchase' \in [Requests -> PurchaseRow]
    BY JobFields, StatusType DEF CompletePurchase, Status
  <2> QED
    BY <2>1, FinishType, Zenon
       DEF CompletePurchase, TypeOK, storeVars, externalVars, historyVars
<1>12. ASSUME NEW w \in Workers, NEW r \in Requests, PayWithCredits(w, r) PROVE TypeOK'
  <2> USE <1>12
  <2>1. "credits" \in Handlers /\ "deduct" \in Labels
    BY DEF Handlers, Labels
  <2>2. purchase[r].amount \in Nat
    BY DEF TypeOK, PurchaseRow
  <2>3. Job("credits", r, IF HasPayment THEN purchase[r].amount ELSE FixedPrice) \in Jobs
    BY <2>1, <2>2, JobType, ConstantTypes
  <2>4. /\ pc' \in [Workers -> Labels]
        /\ job' \in [Workers -> Jobs]
    BY <2>1, <2>3, StartJobType DEF PayWithCredits
  <2>5. disturbed' \subseteq Requests
    BY DisturbedType, ZenonT(60) DEF PayWithCredits, TypeOK
  <2> QED
    BY <2>4, <2>5, CallType, ZenonT(60)
       DEF PayWithCredits, TypeOK, storeVars, externalVars, historyVars
<1>13. ASSUME NEW w \in Workers, AtomicDeductCredits(w) PROVE TypeOK'
  <2> USE <1>13
  <2>1. pc' \in [Workers -> Labels]
    BY GotoType DEF AtomicDeductCredits, Stop, Labels
  <2>2. balance' \in [Peers -> Int]
    BY JobFields, BalanceType DEF AtomicDeductCredits
  <2>3. charged' \in [Requests -> Int]
    BY JobFields, ChargedType DEF AtomicDeductCredits
  <2> QED
    BY <2>1, <2>2, <2>3, Zenon
       DEF AtomicDeductCredits, TypeOK, storeVars, externalVars, historyVars
<1>14. ASSUME NEW w \in Workers, InsufficientCredits(w) PROVE TypeOK'
  <2> USE <1>14
  <2>1. pc' \in [Workers -> Labels]
    BY GotoType DEF InsufficientCredits, Stop, Labels
  <2> QED
    BY <2>1
       DEF InsufficientCredits, TypeOK, storeVars, externalVars, historyVars
<1>15. ASSUME NEW w \in Workers, CreateCreditsTransaction(w) PROVE TypeOK'
  <2> USE <1>15
  <2>1. pc' \in [Workers -> Labels]
    BY GotoType DEF CreateCreditsTransaction, Stop, Labels
  <2>2. txs' \in [Requests -> Nat]
    BY JobFields, SMTT(60) DEF CreateCreditsTransaction, TypeOK
  <2> QED
    BY <2>1, <2>2, Zenon
       DEF CreateCreditsTransaction, TypeOK, storeVars, externalVars, historyVars
<1>16. ASSUME NEW w \in Workers, CreditProvider(w) PROVE TypeOK'
  <2> USE <1>16
  <2>1. pc' \in [Workers -> Labels]
    BY GotoType, Zenon DEF CreditProvider, Stop, Labels
  <2>2. balance' \in [Peers -> Int]
    BY JobFields, BalanceType, SMTT(60) DEF CreditProvider
  <2> QED
    BY <2>1, <2>2, Zenon
       DEF CreditProvider, TypeOK, storeVars, externalVars, historyVars
<1>17. ASSUME NEW w \in Workers, CreditsDeducted(w) PROVE TypeOK'
  <2> USE <1>17
  <2>1. pc' \in [Workers -> Labels]
    BY GotoType DEF CreditsDeducted, Stop, Labels
  <2>2. purchase' \in [Requests -> PurchaseRow]
    BY JobFields, StatusType, Zenon DEF CreditsDeducted, Status
  <2>3. disturbed' \subseteq Requests
    BY JobFields, DisturbedType, Zenon DEF CreditsDeducted, TypeOK
  <2> QED
    BY <2>1, <2>2, <2>3, Zenon
       DEF CreditsDeducted, TypeOK, storeVars, externalVars, historyVars
<1>18. ASSUME NEW w \in Workers, RefundBuyer(w) PROVE TypeOK'
  <2> USE <1>18
  <2>1. pc' \in [Workers -> Labels]
    BY GotoType DEF RefundBuyer, Stop, Labels
  <2>2. balance' \in [Peers -> Int]
    BY JobFields, BalanceType, SMTT(60) DEF RefundBuyer
  <2>3. charged' \in [Requests -> Int]
    BY JobFields, SMTT(60) DEF RefundBuyer, TypeOK
  <2> QED
    BY <2>1, <2>2, <2>3, Zenon
       DEF RefundBuyer, TypeOK, storeVars, externalVars, historyVars
<1>19. ASSUME NEW w \in Workers, NEW r \in Requests, CreateFiatPaymentIntent(w, r) PROVE TypeOK'
  <2> USE <1>19
  <2>1. "fiat" \in Handlers /\ "fiatPending" \in Labels
    BY DEF Handlers, Labels
  <2>2. Job("fiat", r, 0) \in Jobs
    BY <2>1, JobType
  <2>3. /\ pc' \in [Workers -> Labels]
        /\ job' \in [Workers -> Jobs]
    BY <2>1, <2>2, StartJobType DEF CreateFiatPaymentIntent
  <2>4. disturbed' \subseteq Requests
    BY DisturbedType, ZenonT(60) DEF CreateFiatPaymentIntent, TypeOK
  <2> QED
    BY <2>3, <2>4, CallType, ZenonT(60)
       DEF CreateFiatPaymentIntent, TypeOK, storeVars, externalVars, historyVars
<1>20. ASSUME NEW w \in Workers, StripeError(w) PROVE TypeOK'
  <2> USE <1>20
  <2>1. pc' \in [Workers -> Labels]
    BY GotoType DEF StripeError, Stop, Labels
  <2> QED
    BY <2>1
       DEF StripeError, TypeOK, storeVars, externalVars, historyVars
<1>21. ASSUME NEW w \in Workers, CheckoutCreated(w) PROVE TypeOK'
  <2> USE <1>21
  <2>1. pc' \in [Workers -> Labels]
    BY GotoType, Zenon DEF CheckoutCreated, Stop, Labels
  <2>2. purchase' \in [Requests -> PurchaseRow]
    BY JobFields, StatusType, Zenon DEF CheckoutCreated, Status
  <2>3. disturbed' \subseteq Requests
    BY JobFields, DisturbedType, Zenon DEF CheckoutCreated, TypeOK
  <2>4. checkout' \in [Requests -> {"none", "open", "paid"}]
    BY JobFields, OpenedType, Zenon DEF CheckoutCreated
  <2> QED
    BY <2>1, <2>2, <2>3, <2>4, Zenon
       DEF CheckoutCreated, TypeOK, storeVars, externalVars, historyVars
<1>22. ASSUME NEW r \in Requests, BuyerPays(r) PROVE TypeOK'
  <2> QED
    BY <1>22
       DEF BuyerPays, TypeOK, storeVars, externalVars, historyVars
<1>23. ASSUME NEW w \in Workers, NEW r \in Requests, StripeWebhook(w, r) PROVE TypeOK'
  <2> USE <1>23
  <2>1. "webhook" \in Handlers /\ "webhookCheck" \in Labels
    BY DEF Handlers, Labels
  <2>2. AlreadyCompleted(r) \in BOOLEAN
    BY DEF AlreadyCompleted, GrantExists
  <2>3. [Job("webhook", r, 0) EXCEPT !.seen = AlreadyCompleted(r)] \in Jobs
    BY <2>1, <2>2, JobType DEF Jobs
  <2>4. /\ pc' \in [Workers -> Labels]
        /\ job' \in [Workers -> Jobs]
    BY <2>1, <2>3, StartJobType DEF StripeWebhook
  <2>5. disturbed' \subseteq Requests
    BY DisturbedType, ZenonT(60) DEF StripeWebhook, TypeOK
  <2>6. used' \in [calls : Nat, faults : Nat, crashes : Nat, offers : Nat]
    BY CallType DEF StripeWebhook, TypeOK
  <2> QED
    BY <2>4, <2>5, <2>6, Zenon
       DEF StripeWebhook, TypeOK, storeVars, externalVars, historyVars
<1>24. ASSUME NEW w \in Workers, DuplicateDelivery(w) PROVE TypeOK'
  <2> QED
    BY <1>24, FinishType, Zenon
       DEF DuplicateDelivery, TypeOK, storeVars, externalVars, historyVars
<1>25. ASSUME NEW w \in Workers, CompleteStripeCheckout(w) PROVE TypeOK'
  <2> USE <1>25
  <2>1. pc' \in [Workers -> Labels]
    BY GotoType, Zenon DEF CompleteStripeCheckout, Stop, Labels
  <2>2. purchase' \in [Requests -> PurchaseRow]
    BY JobFields, StatusType, Zenon DEF CompleteStripeCheckout, Status
  <2> QED
    BY <2>1, <2>2, Zenon
       DEF CompleteStripeCheckout, TypeOK, storeVars, externalVars, historyVars
<1>26. ASSUME NEW w \in Workers, NEW r \in Requests, RefundCredits(w, r) PROVE TypeOK'
  <2> USE <1>26
  <2>1. "refundCredits" \in Handlers /\ "recordTx" \in Labels
    BY DEF Handlers, Labels
  <2>2. purchase[r].amount \in Nat
    BY DEF TypeOK, PurchaseRow
  <2>3. Job("refundCredits", r, purchase[r].amount) \in Jobs
    BY <2>1, <2>2, JobType
  <2>4. /\ pc' \in [Workers -> Labels]
        /\ job' \in [Workers -> Jobs]
    BY <2>1, <2>3, StartJobType, Zenon DEF RefundCredits
  <2>5. disturbed' \subseteq Requests
    BY DisturbedType, ZenonT(60) DEF RefundCredits, TypeOK
  <2> QED
    BY <2>4, <2>5, CallType, ZenonT(60)
       DEF RefundCredits, TypeOK, storeVars, externalVars, historyVars
<1>27. ASSUME NEW w \in Workers, DeductFromProvider(w) PROVE TypeOK'
  <2> USE <1>27
  <2>1. pc' \in [Workers -> Labels]
    BY GotoType, ZenonT(60) DEF DeductFromProvider, Stop, Labels
  <2>2. balance' \in [Peers -> Int]
    BY JobFields, BalanceType, SMTT(60) DEF DeductFromProvider
  <2> QED
    BY <2>1, <2>2, ZenonT(60)
       DEF DeductFromProvider, TypeOK, storeVars, externalVars, historyVars
<1>28. ASSUME NEW w \in Workers, CreditBuyer(w) PROVE TypeOK'
  <2> USE <1>28
  <2>1. pc' \in [Workers -> Labels]
    BY GotoType, Zenon DEF CreditBuyer, Stop, Labels
  <2>2. balance' \in [Peers -> Int]
    BY JobFields, BalanceType, SMTT(60) DEF CreditBuyer
  <2> QED
    BY <2>1, <2>2, Zenon
       DEF CreditBuyer, TypeOK, storeVars, externalVars, historyVars
<1>29. ASSUME NEW w \in Workers, GiveBack(w) PROVE TypeOK'
  <2> USE <1>29
  <2>1. pc' \in [Workers -> Labels]
    BY GotoType, Zenon DEF GiveBack, Stop, Labels
  <2>2. balance' \in [Peers -> Int]
    BY JobFields, BalanceType, SMTT(60) DEF GiveBack
  <2> QED
    BY <2>1, <2>2, ZenonT(60)
       DEF GiveBack, TypeOK, storeVars, externalVars, historyVars
<1>30. ASSUME NEW p \in Peers, NEW a \in Amounts, DepositCredits(p, a) PROVE TypeOK'
  <2> USE <1>30
  <2>1. a \in Nat
    BY ConstantTypes
  <2>2. balance' \in [Peers -> Int]
    BY <2>1, BalanceType DEF DepositCredits
  <2>3. minted' \in Int
    BY <2>1 DEF DepositCredits, TypeOK
  <2> QED
    BY <2>2, <2>3, CallType, ZenonT(60)
       DEF DepositCredits, TypeOK, storeVars, externalVars, historyVars
<1>31. ASSUME NEW w \in Workers, NEW p \in Peers, NEW a \in Amounts, WithdrawCredits(w, p, a) PROVE TypeOK'
  <2> USE <1>31
  <2>1. "withdraw" \in Handlers /\ "withdraw" \in Labels
    BY DEF Handlers, Labels
  <2>2. a \in Nat
    BY ConstantTypes
  <2>3. [NoJob EXCEPT !.flow = "withdraw", !.peer = p, !.amt = a] \in Jobs
    BY <2>1, <2>2, NoJobType, ZenonT(60) DEF Jobs
  <2>4. /\ pc' \in [Workers -> Labels]
        /\ job' \in [Workers -> Jobs]
    BY <2>1, <2>3, StartJobType DEF WithdrawCredits
  <2> QED
    BY <2>4, CallType, ZenonT(60)
       DEF WithdrawCredits, TypeOK, storeVars, externalVars, historyVars
<1>32. ASSUME NEW w \in Workers, ApplyWithdrawal(w) PROVE TypeOK'
  <2> USE <1>32
  <2>1. pc' \in [Workers -> Labels]
    BY GotoType, Zenon DEF ApplyWithdrawal, Stop, Labels
  <2>2. balance' \in [Peers -> Int]
    BY JobFields, BalanceType, SMTT(60) DEF ApplyWithdrawal
  <2>3. minted' \in Int
    BY JobFields, SMTT(60) DEF ApplyWithdrawal, TypeOK
  <2> QED
    BY <2>1, <2>2, <2>3, Zenon
       DEF ApplyWithdrawal, TypeOK, storeVars, externalVars, historyVars
<1>33. ASSUME NEW w \in Workers, StoreError(w) PROVE TypeOK'
  <2> USE <1>33
  <2>1. OnError(w) \in Labels
    BY DEF OnError, IssueFailed, Labels
  <2>2. pc' \in [Workers -> Labels]
    BY <2>1, GotoType, Zenon DEF StoreError
  <2>3. lost' \in [Workers -> Nat]
    BY LostType, Zenon DEF StoreError, TypeOK
  <2> QED
    BY <2>2, <2>3, FaultType, ZenonT(60)
       DEF StoreError, TypeOK, storeVars, externalVars, historyVars
<1>34. ASSUME NEW w \in Workers, IgnoredError(w) PROVE TypeOK'
  <2> USE <1>34
  <2>1. pc' \in [Workers -> Labels]
    BY GotoType, FinishType, Zenon DEF IgnoredError, Stop, Labels, TypeOK
  <2>2. [job[w] EXCEPT !.seen = FALSE] \in Jobs
    BY JobFields, ZenonT(60) DEF Jobs
  <2>3. job' \in [Workers -> Jobs]
    BY <2>2, FinishType, ZenonT(60) DEF IgnoredError, TypeOK
  <2>4. acked' \subseteq Requests
    BY FinishType, Zenon DEF IgnoredError, TypeOK
  <2>5. checkout' \in [Requests -> {"none", "open", "paid"}]
    BY JobFields, OpenedType, SMTT(60) DEF IgnoredError, TypeOK
  <2> QED
    BY <2>1, <2>3, <2>4, <2>5, FaultType, ZenonT(60)
       DEF IgnoredError, TypeOK, storeVars, externalVars, historyVars
<1>35. CASE Crash
  <2> USE <1>35
  <2>1. pc' \in [Workers -> Labels]
    BY DEF Crash, Labels
  <2>2. used \in [calls : Nat, faults : Nat, crashes : Nat, offers : Nat]
    BY DEF TypeOK
  <2>3. used' \in [calls : Nat, faults : Nat, crashes : Nat, offers : Nat]
    BY <2>2 DEF Crash
  <2>4. lost' \in [Workers -> Nat]
    BY HeldType, SMTT(60) DEF Crash, TypeOK
  <2> QED
    BY <2>1, <2>3, <2>4, Zenon
       DEF Crash, TypeOK, storeVars, externalVars, historyVars
<1>36. CASE UNCHANGED vars
    BY <1>36 DEF vars, TypeOK, storeVars, externalVars, historyVars
<1> QED
  BY <1>1, <1>2, <1>3, <1>4, <1>5, <1>6, <1>7, <1>8, <1>9, <1>10, <1>11,
     <1>12, <1>13, <1>14, <1>15, <1>16, <1>17, <1>18, <1>19, <1>20, <1>21,
     <1>22, <1>23, <1>24, <1>25, <1>26, <1>27, <1>28, <1>29, <1>30, <1>31,
     <1>32, <1>33, <1>34, <1>35, <1>36 DEF Next, Arrive, Step

\* The rows, the handlers' local variables and the history keep their types:
\* a status is always one the code knows and a label one a handler reaches.
THEOREM TypeCorrect == Spec => []TypeOK
<1>1. Init => TypeOK
  BY ConstantTypes, NoJobType, StorefrontAssumption
     DEF Init, TypeOK, PurchaseRow, Status, Labels, NoRow, NoGrant, NoOffer
<1> QED
  BY <1>1, StepType, PTL DEF Spec

-----------------------------------------------------------------------------
(* The row of a purchase keeps its amount. *)

LEMMA StatusKeepsRow ==
  ASSUME TypeOK, NEW q \in Requests, NEW s \in Status \ {NoRow},
         purchase' = UpdatePurchaseStatus(q, s), NEW r \in Requests, Exists(r)
  PROVE  Exists(r)' /\ purchase'[r].amount = purchase[r].amount
BY DEF TypeOK, UpdatePurchaseStatus, Exists, PurchaseRow

LEMMA GrantKeepsRow ==
  ASSUME TypeOK, NEW q \in Requests, NEW g \in Nat,
         purchase' = UpdatePurchaseGrant(q, g), NEW r \in Requests, Exists(r)
  PROVE  Exists(r)' /\ purchase'[r].amount = purchase[r].amount
BY ZenonT(60) DEF TypeOK, UpdatePurchaseGrant, Exists, PurchaseRow, NoRow

\* No handler removes a purchase or changes its amount, a second creation with
\* its id included.
LEMMA RowKept ==
  ASSUME TypeOK, [Next]_vars, NEW r \in Requests, Exists(r)
  PROVE  Exists(r)' /\ purchase'[r].amount = purchase[r].amount
<1> USE JobFields
<1>0. {"Pending", "Detected", "Confirmed", "Completed"} \subseteq Status \ {NoRow}
  BY Zenon DEF Status, NoRow
<1>1. ASSUME purchase' = purchase PROVE Exists(r)' /\ purchase'[r].amount = purchase[r].amount
  BY <1>1, Zenon DEF Exists
<1>2. ASSUME NEW w \in Workers, StorePurchaseRequest(w)
      PROVE  Exists(r)' /\ purchase'[r].amount = purchase[r].amount
  BY <1>2, Zenon DEF StorePurchaseRequest, Exists, TypeOK
<1>3. ASSUME NEW w \in Workers, NEW q \in Requests, ConfirmPayment(w, q)
      PROVE  Exists(r)' /\ purchase'[r].amount = purchase[r].amount
  BY <1>0, <1>3, StatusKeepsRow, Zenon DEF ConfirmPayment
<1>4. ASSUME NEW w \in Workers,
             VerifyTransaction(w) \/ PaymentConfirmed(w) \/ CompletePurchase(w)
               \/ CreditsDeducted(w) \/ CheckoutCreated(w) \/ CompleteStripeCheckout(w)
      PROVE  Exists(r)' /\ purchase'[r].amount = purchase[r].amount
  BY <1>0, <1>4, StatusKeepsRow, ZenonT(60) DEF VerifyTransaction, PaymentConfirmed,
     CompletePurchase, CreditsDeducted, CheckoutCreated, CompleteStripeCheckout
<1>5. ASSUME NEW w \in Workers, AttachGrant(w)
      PROVE  Exists(r)' /\ purchase'[r].amount = purchase[r].amount
  BY <1>5, GrantKeepsRow, ZenonT(60) DEF AttachGrant
<1>6. CASE Crash \/ UNCHANGED vars
  BY <1>1, <1>6 DEF Crash, vars, storeVars
<1>7. CASE \/ \E l \in Listings : ReplaceListing(l)
           \/ \E q \in Requests : BuyerPays(q)
           \/ \E p \in Peers, a \in Amounts : DepositCredits(p, a)
  BY <1>1, <1>7, Zenon DEF ReplaceListing, BuyerPays, DepositCredits, storeVars
<1>8. ASSUME NEW w \in Workers, Arrive(w)
      PROVE  Exists(r)' /\ purchase'[r].amount = purchase[r].amount
  BY <1>1, <1>3, <1>8, ZenonT(60) DEF Arrive, CreatePurchaseRequest, PayWithCredits,
     CreateFiatPaymentIntent, StripeWebhook, RefundCredits, WithdrawCredits, storeVars
<1>9. ASSUME NEW w \in Workers, Step(w)
      PROVE  Exists(r)' /\ purchase'[r].amount = purchase[r].amount
  BY <1>1, <1>2, <1>4, <1>5, <1>9, ZenonT(60) DEF Step, NotVerified, IssueGrant, TierNotFound,
     AtomicDeductCredits, InsufficientCredits, CreateCreditsTransaction,
     CreditProvider, RefundBuyer, StripeError, DuplicateDelivery, DeductFromProvider,
     CreditBuyer, GiveBack, ApplyWithdrawal, StoreError, IgnoredError, storeVars
<1> QED
  BY <1>6, <1>7, <1>8, <1>9, Zenon DEF Next

-----------------------------------------------------------------------------
(* Which handler is at which label. *)

RunsAs(l, f) ==
    /\ l = "createStore" => f = "create"
    /\ l \in {"verify", "confirm"} => f = "confirm"
    /\ l \in {"deduct", "creditProvider", "confirmCredits", "refund"} => f = "credits"
    /\ l = "recordTx" => f \in {"credits", "refundCredits"}
    /\ l \in {"recordTx", "creditProvider"} => HasPayment
    /\ l = "webhookCheck" => f = "webhook"
    /\ l = "withdraw" => f = "withdraw"
    /\ l \in {"refundDebit", "refundCredit", "giveBack"} => f = "refundCredits"
    /\ l \in {"issue", "attach", "complete"} =>
         f \in {"confirm", "webhook", "credits", "again"}
    /\ HasPayment => /\ f # "again" /\ l # "confirmCredits"
                     /\ l \in {"attach", "complete"} => f # "credits"
    /\ l # "idle" /\ f # "again" => f \in Flows

HandlerOrder == \A w \in Workers : RunsAs(pc[w], job[w].flow)

Workforce == pc \in [Workers -> Labels] /\ job \in [Workers -> Jobs]

LEMMA WorkforceType == TypeOK => Workforce
BY DEF TypeOK, Workforce

\* A step of one handler leaves the others where they are.
LEMMA OthersStay ==
  ASSUME Workforce, NEW v \in Workers, NEW w \in Workers, v # w, Arrive(v) \/ Step(v)
  PROVE  pc'[w] = pc[w] /\ job'[w] = job[w]
<1>1. ASSUME NEW l, NEW j, StartJob(v, l, j) PROVE pc'[w] = pc[w] /\ job'[w] = job[w]
  BY <1>1 DEF StartJob, Goto, Workforce
<1>2. ASSUME NEW l, Goto(v, l) PROVE pc'[w] = pc[w]
  BY <1>2, Zenon DEF Goto, Workforce
<1>3. CASE Arrive(v)
  BY <1>1, <1>3, ZenonT(60) DEF Arrive, CreatePurchaseRequest, ConfirmPayment, PayWithCredits,
     CreateFiatPaymentIntent, StripeWebhook, RefundCredits, WithdrawCredits
<1>4. CASE Step(v)
  <2>1. pc'[w] = pc[w]
    BY <1>2, <1>4, ZenonT(60) DEF Step, StorePurchaseRequest, NotVerified, VerifyTransaction,
       PaymentConfirmed, IssueGrant, TierNotFound, AttachGrant, CompletePurchase,
       AtomicDeductCredits, InsufficientCredits, CreateCreditsTransaction,
       CreditProvider, CreditsDeducted, RefundBuyer, StripeError, CheckoutCreated,
       DuplicateDelivery, CompleteStripeCheckout, DeductFromProvider, CreditBuyer,
       GiveBack, ApplyWithdrawal, StoreError, IgnoredError, Finish, Stop
  <2>2. job'[w] = job[w]
    BY <1>4, ZenonT(60) DEF Workforce, Step, StorePurchaseRequest, NotVerified, VerifyTransaction,
       PaymentConfirmed, IssueGrant, TierNotFound, AttachGrant, CompletePurchase,
       AtomicDeductCredits, InsufficientCredits, CreateCreditsTransaction,
       CreditProvider, CreditsDeducted, RefundBuyer, StripeError, CheckoutCreated,
       DuplicateDelivery, CompleteStripeCheckout, DeductFromProvider, CreditBuyer,
       GiveBack, ApplyWithdrawal, StoreError, IgnoredError, Finish
  <2> QED
    BY <2>1, <2>2, Zenon
<1> QED
  BY <1>3, <1>4

\* What can happen to a handler in a step of the system.
LEMMA Moves ==
  ASSUME Workforce, [Next]_vars, NEW w \in Workers
  PROVE  \/ pc'[w] = pc[w] /\ job'[w] = job[w]
         \/ Arrive(w) \/ Step(w) \/ Crash
<1>1. ASSUME NEW v \in Workers, Arrive(v) \/ Step(v), v # w
      PROVE  pc'[w] = pc[w] /\ job'[w] = job[w]
  BY <1>1, OthersStay
<1>2. CASE \/ \E l \in Listings : ReplaceListing(l)
           \/ \E r \in Requests : BuyerPays(r)
           \/ \E p \in Peers, a \in Amounts : DepositCredits(p, a)
           \/ UNCHANGED vars
  BY <1>2 DEF ReplaceListing, BuyerPays, DepositCredits, vars
<1> QED
  BY <1>1, <1>2 DEF Next

LEMMA GotoOrder ==
  ASSUME Workforce, HandlerOrder, NEW w \in Workers, NEW l, Goto(w, l), job' = job,
         RunsAs(l, job[w].flow)
  PROVE  HandlerOrder'
BY DEF Workforce, HandlerOrder, Goto

LEMMA StartOrder ==
  ASSUME Workforce, HandlerOrder, NEW w \in Workers, NEW l, NEW j, StartJob(w, l, j),
         RunsAs(l, j.flow)
  PROVE  HandlerOrder'
BY DEF Workforce, HandlerOrder, Goto, StartJob

LEMMA FinishOrder ==
  ASSUME Workforce, HandlerOrder, NEW w \in Workers, pc[w] # "idle", Finish(w)
  PROVE  HandlerOrder'
<1>1. CASE Direct(w)
  <2>1. job' = [job EXCEPT ![w].flow = "again"] /\ pc' = [pc EXCEPT ![w] = "issue"]
    BY <1>1 DEF Finish, Goto
  <2>2. RunsAs("issue", "again")
    BY <1>1 DEF RunsAs, Direct
  <2>3. \A v \in Workers : job'[v].flow = IF v = w THEN "again" ELSE job[v].flow
    BY <2>1 DEF Workforce, Jobs
  <2>4. \A v \in Workers : pc'[v] = IF v = w THEN "issue" ELSE pc[v]
    BY <2>1 DEF Workforce
  <2> QED
    BY <2>2, <2>3, <2>4 DEF HandlerOrder
<1>2. CASE ~Direct(w)
  BY <1>2, GotoOrder DEF Finish, RunsAs, HandlerOrder
<1> QED
  BY <1>1, <1>2

LEMMA OrderStep == TypeOK /\ HandlerOrder /\ [Next]_vars => HandlerOrder'
<1> SUFFICES ASSUME TypeOK, HandlerOrder, [Next]_vars PROVE HandlerOrder'
  OBVIOUS
<1>0. Workforce
  BY WorkforceType
<1> USE <1>0
<1>1. CASE UNCHANGED <<pc, job>>
  BY <1>1 DEF HandlerOrder
<1>2. CASE Crash
  BY <1>2 DEF Crash, HandlerOrder, Workforce, RunsAs
<1>3. ASSUME NEW w \in Workers, Arrive(w) PROVE HandlerOrder'
  <2> DEFINE Starts(l, f) == f \in Flows => RunsAs(l, f)
  <2>1. ASSUME NEW l, NEW f, NEW j, StartJob(w, l, j), j.flow = f, f \in Flows, Starts(l, f)
        PROVE  HandlerOrder'
    BY <2>1, StartOrder, Zenon
  <2>7. ASSUME NEW l, NEW f \in Flows, NEW r, NEW a, StartJob(w, l, Job(f, r, a)),
               Starts(l, f)
        PROVE  HandlerOrder'
    BY <2>1, <2>7, JobParts
  <2>9. /\ Starts("createStore", "create")
        /\ Starts(IF HasPayment THEN "verify" ELSE "confirm", "confirm")
        /\ Starts("deduct", "credits")
        /\ Starts("fiatPending", "fiat")
        /\ Starts("webhookCheck", "webhook")
        /\ HasPayment => Starts("recordTx", "refundCredits")
        /\ Starts("withdraw", "withdraw")
    BY DEF RunsAs
  <2> HIDE DEF Starts
  <2>2. ASSUME NEW r \in Requests,
               CreatePurchaseRequest(w, r) \/ ConfirmPayment(w, r) \/ PayWithCredits(w, r)
        PROVE  HandlerOrder'
    BY <2>2, <2>7, <2>9, Zenon DEF CreatePurchaseRequest, ConfirmPayment,
       PayWithCredits
  <2>5. ASSUME NEW r \in Requests, CreateFiatPaymentIntent(w, r) \/ RefundCredits(w, r)
        PROVE  HandlerOrder'
    BY <2>5, <2>7, <2>9, Zenon DEF CreateFiatPaymentIntent, RefundCredits
  <2>6. ASSUME NEW r \in Requests, StripeWebhook(w, r) PROVE HandlerOrder'
    <3>1. [Job("webhook", r, 0) EXCEPT !.seen = AlreadyCompleted(r)].flow = "webhook"
      BY DEF Job
    <3> QED
      BY <2>1, <2>6, <2>9, <3>1, Zenon DEF StripeWebhook
  <2>8. ASSUME NEW p \in Peers, NEW a \in Amounts, WithdrawCredits(w, p, a)
        PROVE  HandlerOrder'
    <3>1. [NoJob EXCEPT !.flow = "withdraw", !.peer = p, !.amt = a].flow = "withdraw"
      BY DEF NoJob, Job
    <3> QED
      BY <2>1, <2>8, <2>9, <3>1, Zenon DEF WithdrawCredits
  <2> QED
    BY <1>3, <2>2, <2>5, <2>6, <2>8, Zenon DEF Arrive
<1>4. ASSUME NEW w \in Workers, Step(w) PROVE HandlerOrder'
  <2>0. RunsAs(pc[w], job[w].flow) /\ RunsAs("idle", job[w].flow)
    BY DEF HandlerOrder, RunsAs
  <2>1. ASSUME Stop(w), job' = job PROVE HandlerOrder'
    BY <2>0, <2>1, GotoOrder, Zenon DEF Stop
  <2>2. CASE \/ StorePurchaseRequest(w) \/ NotVerified(w) \/ InsufficientCredits(w)
             \/ RefundBuyer(w) \/ StripeError(w) \/ CheckoutCreated(w)
             \/ CreditBuyer(w) \/ GiveBack(w) \/ ApplyWithdrawal(w)
    <3>1. Stop(w) /\ job' = job
      BY <2>2, Zenon DEF StorePurchaseRequest, NotVerified, InsufficientCredits,
         RefundBuyer, StripeError, CheckoutCreated, CreditBuyer, GiveBack, ApplyWithdrawal
    <3> QED
      BY <2>1, <3>1
  <2>10. ASSUME NEW l, Goto(w, l), job' = job, RunsAs(l, job[w].flow) PROVE HandlerOrder'
    BY <2>10, GotoOrder
  <2>3. CASE \/ VerifyTransaction(w) \/ PaymentConfirmed(w) \/ CreditProvider(w)
             \/ CreditsDeducted(w) \/ CompleteStripeCheckout(w)
             \/ DeductFromProvider(w) \/ AttachGrant(w)
    <3>1. job' = job /\ \/ pc[w] = "verify" /\ Goto(w, "confirm")
                        \/ /\ pc[w] \in {"confirm", "creditProvider", "confirmCredits",
                                         "webhookCheck"}
                           /\ Goto(w, "issue")
                        \/ pc[w] = "refundDebit" /\ Goto(w, "refundCredit")
                        \/ pc[w] = "attach" /\ Goto(w, "complete")
      BY <2>3, ZenonT(60) DEF VerifyTransaction, PaymentConfirmed, CreditProvider,
         CreditsDeducted, CompleteStripeCheckout, DeductFromProvider, AttachGrant
    <3>2. /\ pc[w] = "verify" => RunsAs("confirm", job[w].flow)
          /\ pc[w] \in {"confirm", "creditProvider", "confirmCredits", "webhookCheck"} =>
               RunsAs("issue", job[w].flow)
          /\ pc[w] = "refundDebit" => RunsAs("refundCredit", job[w].flow)
          /\ pc[w] = "attach" => RunsAs("complete", job[w].flow)
      BY <2>0 DEF RunsAs
    <3> QED
      BY <3>1, <3>2, <2>10, Zenon
  <2>4. CASE TierNotFound(w) \/ AtomicDeductCredits(w) \/ CreateCreditsTransaction(w)
    <3> DEFINE Debited == IF HasPayment THEN "recordTx" ELSE "confirmCredits"
               Recorded == IF job[w].flow = "credits" THEN "creditProvider"
                                                      ELSE "refundDebit"
    <3>1. job' = job /\ \/ pc[w] = "issue" /\ Goto(w, IssueFailed(w))
                        \/ pc[w] = "deduct" /\ Goto(w, Debited)
                        \/ pc[w] = "recordTx" /\ Goto(w, Recorded)
      BY <2>4, ZenonT(60) DEF TierNotFound, AtomicDeductCredits, CreateCreditsTransaction
    <3>2. /\ pc[w] = "issue" => RunsAs(IssueFailed(w), job[w].flow)
          /\ pc[w] = "deduct" => RunsAs(Debited, job[w].flow)
          /\ pc[w] = "recordTx" => RunsAs(Recorded, job[w].flow)
      BY <2>0 DEF RunsAs, IssueFailed, Direct
    <3> HIDE DEF Debited, Recorded
    <3> QED
      BY <3>1, <3>2, <2>10, Zenon
  <2>5. CASE IssueGrant(w)
    <3>1. \A v \in Workers : job'[v].flow = job[v].flow
      BY <2>5 DEF IssueGrant, Workforce, Jobs
    <3>2. \A v \in Workers : pc'[v] = IF v = w THEN AfterIssue(w) ELSE pc[v]
      BY <2>5 DEF IssueGrant, Workforce, Goto
    <3>3. RunsAs(AfterIssue(w), job[w].flow)
      BY <2>0, <2>5 DEF IssueGrant, RunsAs, AfterIssue, Direct
    <3> QED
      BY <3>1, <3>2, <3>3 DEF HandlerOrder
  <2>6. CASE CompletePurchase(w) \/ DuplicateDelivery(w)
    BY <2>6, FinishOrder DEF CompletePurchase, DuplicateDelivery
  <2>7. CASE StoreError(w)
    <3>1. RunsAs(OnError(w), job[w].flow)
      BY <2>0, <2>7 DEF StoreError, OnError, RunsAs, IssueFailed, Direct
    <3> QED
      BY <2>7, <3>1, GotoOrder, Zenon DEF StoreError
  <2>8. CASE IgnoredError(w)
    <3>1. CASE pc[w] = "attach" /\ Goto(w, "complete") /\ job' = job
      BY <2>0, <3>1, GotoOrder DEF RunsAs
    <3>2. CASE pc[w] = "complete" /\ Finish(w)
      BY <3>2, FinishOrder
    <3>3. CASE Stop(w) /\ job' = job
      BY <2>1, <3>3
    <3>4. CASE pc' = pc /\ job' = [job EXCEPT ![w].seen = FALSE]
      <4>1. \A v \in Workers : job'[v].flow = job[v].flow
        BY <3>4 DEF Workforce, Jobs
      <4> QED
        BY <3>4, <4>1 DEF HandlerOrder
    <3> QED
      BY <2>8, <3>1, <3>2, <3>3, <3>4, Zenon DEF IgnoredError
  <2> QED
    BY <1>4, <2>2, <2>3, <2>4, <2>5, <2>6, <2>7, <2>8 DEF Step
<1>5. CASE \/ \E l \in Listings : ReplaceListing(l)
           \/ \E r \in Requests : BuyerPays(r)
           \/ \E p \in Peers, a \in Amounts : DepositCredits(p, a)
  BY <1>1, <1>5, Zenon DEF ReplaceListing, BuyerPays, DepositCredits
<1> QED
  BY <1>1, <1>2, <1>3, <1>4, <1>5, Zenon DEF Next, vars

LEMMA OrderInit == Init => HandlerOrder
BY DEF Init, HandlerOrder, RunsAs, NoJob, Job

-----------------------------------------------------------------------------
(* Credits.  WithdrawCredits and RefundCredits take credits with             *)
(* UpdateCreditsBalance, which has no floor; the handlers call neither.      *)

PaymentsOnly == Flows \cap {"withdraw", "refundCredits"} = {}

LEMMA AddToBalance ==
  ASSUME TypeOK, NEW p \in Peers, NEW d \in Int, balance' = UpdateCreditsBalance(p, d)
  PROVE  /\ \A q \in Peers : balance'[q] = IF q = p THEN balance[q] + d ELSE balance[q]
         /\ \A q \in Peers : balance[q] \in Int
BY DEF TypeOK, UpdateCreditsBalance

LEMMA BalanceInt ==
  ASSUME TypeOK, NEW p \in Peers
  PROVE  balance[p] \in Int
BY DEF TypeOK

\* What a step can do to an account.
LEMMA OnlyDeductionTakes ==
  ASSUME PaymentsOnly, TypeOK, HandlerOrder, [Next]_vars,
         NEW p \in Peers, balance'[p] < balance[p]
  PROVE  \E w \in Workers : /\ AtomicDeductCredits(w) /\ p = job[w].peer
                            /\ balance'[p] = balance[p] - job[w].amt
<1>0. balance[p] \in Int /\ balance' # balance
  BY DEF TypeOK
<1>1. ~(Crash \/ UNCHANGED vars)
  BY <1>0 DEF Crash, vars, storeVars
<1>2. ~ \E l \in Listings : ReplaceListing(l)
  BY <1>0 DEF ReplaceListing
<1>3. ~ \E r \in Requests : BuyerPays(r)
  BY <1>0 DEF BuyerPays, storeVars
<1>4. ~ \E q \in Peers, a \in Amounts : DepositCredits(q, a)
  <2> SUFFICES ASSUME NEW q \in Peers, NEW a \in Amounts, DepositCredits(q, a) PROVE FALSE
    OBVIOUS
  <2>1. a \in Nat
    BY ConstantTypes
  <2>2. balance' = UpdateCreditsBalance(q, a)
    BY Zenon DEF DepositCredits
  <2> QED
    BY <2>1, <2>2, <1>0, AddToBalance, SMTT(60)
<1>5. ASSUME NEW w \in Workers, Arrive(w) PROVE FALSE
  BY <1>0, <1>5, ZenonT(60) DEF Arrive, CreatePurchaseRequest, ConfirmPayment, PayWithCredits,
     CreateFiatPaymentIntent, StripeWebhook, RefundCredits, WithdrawCredits, storeVars
<1>6. ASSUME NEW w \in Workers, Step(w), ~AtomicDeductCredits(w) PROVE FALSE
  <2>0. RunsAs(pc[w], job[w].flow)
    BY DEF HandlerOrder
  <2>1. ASSUME NEW q \in Peers, balance' = UpdateCreditsBalance(q, job[w].amt) PROVE FALSE
    <3>1. job[w].amt \in Nat
      BY JobFields, Zenon
    <3> QED
      BY <1>0, <2>1, <3>1, AddToBalance, SMTT(60)
  <2>2. CASE CreditProvider(w) \/ RefundBuyer(w) \/ CreditBuyer(w) \/ GiveBack(w)
    <3>1. job[w].peer \in Peers /\ ProviderOf[ListingOf[job[w].req]] \in Peers
      BY JobFields
    <3>2. \E q \in Peers : balance' = UpdateCreditsBalance(q, job[w].amt)
      BY <2>2, <3>1, Zenon DEF CreditProvider, RefundBuyer, CreditBuyer, GiveBack
    <3> QED
      BY <2>1, <3>2
  <2>3. CASE DeductFromProvider(w) \/ ApplyWithdrawal(w)
    BY <2>0, <2>3 DEF DeductFromProvider, ApplyWithdrawal, RunsAs, PaymentsOnly
  <2>4. CASE balance' = balance
    BY <1>0, <2>4, Zenon
  <2>5. \/ CreditProvider(w) \/ RefundBuyer(w) \/ CreditBuyer(w) \/ GiveBack(w)
        \/ DeductFromProvider(w) \/ ApplyWithdrawal(w) \/ balance' = balance
    BY <1>6, ZenonT(60) DEF Step, StorePurchaseRequest, NotVerified, VerifyTransaction,
       PaymentConfirmed, IssueGrant, TierNotFound, AttachGrant, CompletePurchase,
       InsufficientCredits, CreateCreditsTransaction, CreditsDeducted, StripeError,
       CheckoutCreated, DuplicateDelivery, CompleteStripeCheckout, StoreError,
       IgnoredError, storeVars
  <2> QED
    BY <2>2, <2>3, <2>4, <2>5, Zenon
<1>7. PICK w \in Workers : AtomicDeductCredits(w)
  BY <1>1, <1>2, <1>3, <1>4, <1>5, <1>6, ZenonT(60) DEF Next
<1>8. -job[w].amt \in Int /\ job[w].peer \in Peers
  BY JobFields
<1>9. balance' = UpdateCreditsBalance(job[w].peer, -job[w].amt)
  BY <1>7 DEF AtomicDeductCredits
<1>10. job[w].peer = p /\ balance'[p] = balance[p] - job[w].amt
  <2>1. balance'[p] = IF p = job[w].peer THEN balance[p] + (-job[w].amt) ELSE balance[p]
    BY <1>8, <1>9, AddToBalance, Zenon
  <2>2. job[w].amt \in Int
    BY JobFields
  <2> QED
    BY <1>0, <2>1, <2>2, SMTT(60)
<1> QED
  BY <1>7, <1>10

\* No payment, refund of a failed payment, store error or crash, in whatever
\* order, takes an account below zero: AtomicDeductCredits is the only step of
\* the payment handlers that takes credits, and it looks first.
THEOREM NeverOverdrawn == PaymentsOnly => (Spec => []NoOverdraft)
<1> SUFFICES ASSUME PaymentsOnly PROVE Spec => []NoOverdraft
  OBVIOUS
<1>1. Init => NoOverdraft
  BY DEF Init, NoOverdraft
<1>2. TypeOK /\ HandlerOrder /\ NoOverdraft /\ [Next]_vars => NoOverdraft'
  <2> SUFFICES ASSUME TypeOK, TypeOK', HandlerOrder, NoOverdraft, [Next]_vars,
                      NEW p \in Peers
               PROVE  balance'[p] >= 0
    BY StepType DEF NoOverdraft
  <2>1. balance[p] \in Int /\ balance'[p] \in Int /\ balance[p] >= 0
    BY DEF TypeOK, NoOverdraft
  <2>2. CASE balance'[p] < balance[p]
    <3>1. PICK w \in Workers : /\ AtomicDeductCredits(w) /\ p = job[w].peer
                               /\ balance'[p] = balance[p] - job[w].amt
      BY <2>2, OnlyDeductionTakes, Zenon
    <3>2. balance[p] >= job[w].amt
      BY <3>1, Zenon DEF AtomicDeductCredits
    <3>3. job[w].amt \in Nat
      BY JobFields, Zenon
    <3> QED
      BY <2>1, <3>1, <3>2, <3>3
  <2> QED
    BY <2>1, <2>2
<1> QED
  BY <1>1, <1>2, OrderInit, OrderStep, TypeCorrect, PTL DEF Spec

-----------------------------------------------------------------------------
(* The handler that is about to debit knows the amount of the purchase. *)

Quote(w) ==
    /\ Exists(job[w].req)
    /\ job[w].amt = purchase[job[w].req].amount
    /\ job[w].peer = BuyerOf[job[w].req]

Quotes == \A w \in Workers : pc[w] = "deduct" => Quote(w)

\* Only PayWithCredits brings a handler to the debit, and nothing changes its
\* local variables there.
LEMMA AtDeduct ==
  ASSUME TypeOK, [Next]_vars, NEW w \in Workers, pc'[w] = "deduct"
  PROVE  \/ pc[w] = "deduct" /\ job'[w] = job[w]
         \/ \E r \in Requests : PayWithCredits(w, r)
<1>0. Workforce
  BY WorkforceType
<1>1. ~Crash
  BY Zenon DEF Crash
<1>2. ASSUME Arrive(w) PROVE \E r \in Requests : PayWithCredits(w, r)
  <2>1. ASSUME NEW l, NEW j, StartJob(w, l, j) PROVE l = "deduct"
    BY <1>0, <2>1 DEF StartJob, Goto, Workforce
  <2> QED
    BY <1>2, <2>1, ZenonT(60) DEF Arrive, CreatePurchaseRequest, ConfirmPayment,
       CreateFiatPaymentIntent, StripeWebhook, RefundCredits, WithdrawCredits
<1>3. ASSUME Step(w) PROVE FALSE
  <2>1. ASSUME NEW l, Goto(w, l) PROVE l = "deduct"
    BY <1>0, <2>1 DEF Goto, Workforce
  <2>2. IssueFailed(w) # "deduct" /\ AfterIssue(w) # "deduct" /\ OnError(w) # "deduct"
    BY DEF IssueFailed, AfterIssue, OnError
  <2>3. CASE \/ IssueGrant(w) \/ TierNotFound(w) \/ StoreError(w)
             \/ AtomicDeductCredits(w) \/ CreateCreditsTransaction(w)
    BY <2>1, <2>2, <2>3, Zenon DEF IssueGrant, TierNotFound, StoreError,
       AtomicDeductCredits, CreateCreditsTransaction
  <2>4. CASE CompletePurchase(w) \/ DuplicateDelivery(w) \/ IgnoredError(w)
    BY <2>1, <2>4, Zenon DEF CompletePurchase, DuplicateDelivery, IgnoredError, Finish, Stop
  <2>5. CASE \/ StorePurchaseRequest(w) \/ NotVerified(w) \/ InsufficientCredits(w)
             \/ RefundBuyer(w)
    <3>1. Goto(w, "idle")
      BY <2>5, Zenon DEF StorePurchaseRequest, NotVerified, InsufficientCredits, RefundBuyer, Stop
    <3> QED
      BY <2>1, <3>1
  <2>7. CASE \/ VerifyTransaction(w) \/ PaymentConfirmed(w) \/ AttachGrant(w)
             \/ CreditProvider(w) \/ CreditsDeducted(w)
    <3>1. \E l \in {"confirm", "issue", "complete"} : Goto(w, l)
      BY <2>7, ZenonT(60) DEF VerifyTransaction, PaymentConfirmed, AttachGrant, CreditProvider,
         CreditsDeducted
    <3> QED
      BY <2>1, <3>1
  <2>6. CASE \/ StripeError(w) \/ CheckoutCreated(w) \/ CompleteStripeCheckout(w)
             \/ DeductFromProvider(w) \/ CreditBuyer(w) \/ GiveBack(w)
             \/ ApplyWithdrawal(w)
    BY <2>1, <2>6 DEF StripeError, CheckoutCreated, CompleteStripeCheckout,
       DeductFromProvider, CreditBuyer, GiveBack, ApplyWithdrawal, Stop
  <2> QED
    BY <1>3, <2>3, <2>4, <2>5, <2>6, <2>7, Zenon DEF Step
<1> QED
  BY <1>0, <1>1, <1>2, <1>3, Moves

LEMMA QuotesStep == HasPayment /\ TypeOK /\ Quotes /\ [Next]_vars => Quotes'
<1> SUFFICES ASSUME HasPayment, TypeOK, Quotes, [Next]_vars,
                    NEW w \in Workers, pc'[w] = "deduct"
             PROVE  Quote(w)'
  BY Zenon DEF Quotes
<1>1. CASE pc[w] = "deduct" /\ job'[w] = job[w]
  <2>1. job[w].req \in Requests
    BY JobFields, Zenon
  <2>2. Quote(w)
    BY <1>1 DEF Quotes
  <2>3. Exists(job[w].req)' /\ purchase'[job[w].req].amount = purchase[job[w].req].amount
    <3>1. PICK q \in Requests : q = job[w].req
      BY <2>1, Zenon
    <3>3. Exists(q)
      BY <2>2, <3>1, Zenon DEF Quote
    <3>2. Exists(q)' /\ purchase'[q].amount = purchase[q].amount
      BY <3>3, RowKept, Zenon
    <3> QED
      BY <1>1, <3>1, <3>2 DEF Exists
  <2> QED
    BY <1>1, <2>2, <2>3, Zenon DEF Quote
<1>2. ASSUME NEW r \in Requests, PayWithCredits(w, r) PROVE Quote(w)'
  <2>1. job'[w] = Job("credits", r, purchase[r].amount)
    BY <1>2, WorkforceType, ZenonT(60) DEF PayWithCredits, StartJob, Workforce
  <2>2. job'[w].req = r /\ job'[w].amt = purchase[r].amount /\ job'[w].peer = BuyerOf[r]
    BY <2>1, JobParts
  <2>3. Exists(r) /\ purchase' = purchase
    BY <1>2, Zenon DEF PayWithCredits, storeVars
  <2> QED
    BY <2>2, <2>3, Zenon DEF Exists, Quote
<1> QED
  BY <1>1, <1>2, AtDeduct

\* A purchase keeps the price it was quoted, and the buyer is debited exactly
\* that, whatever becomes of the listing and of other requests with its id.
THEOREM ChargesTheQuote == HasPayment /\ PaymentsOnly => (Spec => QuotedPriceCharged)
<1> SUFFICES ASSUME HasPayment, PaymentsOnly PROVE Spec => QuotedPriceCharged
  OBVIOUS
<1> DEFINE Kept == \A r \in Requests :
                     Exists(r) => Exists(r)' /\ purchase'[r].amount = purchase[r].amount
           Debit == \A p \in Peers :
                      balance'[p] < balance[p] =>
                        \E r \in Requests :
                          /\ Exists(r) /\ BuyerOf[r] = p
                          /\ balance[p] - balance'[p] = purchase[r].amount
<1>1. Init => Quotes
  BY Zenon DEF Init, Quotes
<1>2. TypeOK /\ HandlerOrder /\ Quotes /\ [Next]_vars => [Kept /\ Debit]_vars
  <2> SUFFICES ASSUME TypeOK, HandlerOrder, Quotes, [Next]_vars PROVE Kept /\ Debit
    OBVIOUS
  <2>1. Kept
    BY RowKept, Zenon
  <2>2. ASSUME NEW p \in Peers, balance'[p] < balance[p]
        PROVE  \E r \in Requests : /\ Exists(r) /\ BuyerOf[r] = p
                                   /\ balance[p] - balance'[p] = purchase[r].amount
    <3>1. PICK w \in Workers : /\ AtomicDeductCredits(w) /\ p = job[w].peer
                               /\ balance'[p] = balance[p] - job[w].amt
      BY <2>2, OnlyDeductionTakes, Zenon
    <3>2. /\ Exists(job[w].req) /\ job[w].amt = purchase[job[w].req].amount
          /\ job[w].peer = BuyerOf[job[w].req]
      BY <3>1, Zenon DEF AtomicDeductCredits, Quotes, Quote
    <3>3. job[w].req \in Requests /\ job[w].amt \in Nat
      BY JobFields, Zenon
    <3>5. balance[p] \in Int
      BY BalanceInt, Zenon
    <3>4. balance[p] - balance'[p] = job[w].amt
      BY <3>1, <3>3, <3>5, SMTT(60)
    <3> QED
      BY <3>1, <3>2, <3>3, <3>4, Zenon
  <2> QED
    BY <2>1, <2>2, ZenonT(60)
<1> QED
  BY <1>1, <1>2, QuotesStep, OrderInit, OrderStep, TypeCorrect, PTL
     DEF Spec, QuotedPriceCharged
=============================================================================
