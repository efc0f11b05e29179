-------------------------- MODULE StorefrontGrants --------------------------
(***************************************************************************)
(* Proofs about the grants: a completed purchase has one, each is paid     *)
(* for, and the deliveries of one checkout's event issue one.  Each is     *)
(* strengthened by what the handlers on the way know: evidence of a        *)
(* payment, the debit behind a pay-credits grant, and the single grant of  *)
(* a checkout's deliveries.                                                *)
(***************************************************************************)
EXTENDS StorefrontProofs, FiniteSetTheorems

-----------------------------------------------------------------------------
(* Grants.  A handler that attaches a grant or completes the purchase holds  *)
(* the id of a grant of that purchase.                                       *)

HasGrant(r, g) == g \in 1 .. Len(grants) /\ grants[g].request = r

HoldsGrant ==
    \A w \in Workers :
      pc[w] \in {"attach", "complete"} => HasGrant(job[w].req, job[w].grant)

LEMMA GrantAppended ==
  ASSUME TypeOK, NEW w \in Workers, grants' = CreateGrant(Grant(w))
  PROVE  /\ Len(grants) \in Nat /\ Len(grants') = Len(grants) + 1
         /\ \A i \in 1 .. Len(grants) : grants'[i] = grants[i]
         /\ grants'[Len(grants) + 1] = Grant(w)
<1>1. grants \in Seq([request : Requests, flow : Handlers, row : BOOLEAN])
  BY Zenon DEF TypeOK
<1>2. Grant(w) \in [request : Requests, flow : Handlers, row : BOOLEAN]
  BY JobFields DEF Grant, Exists
<1> QED
  BY <1>1, <1>2, SMTT(60) DEF CreateGrant

\* Only IssueGrant writes the grants table, and it appends.
LEMMA GrantsWritten ==
  ASSUME [Next]_vars
  PROVE  grants' = grants \/ \E w \in Workers : IssueGrant(w)
<1>1. ASSUME NEW w \in Workers, Arrive(w) PROVE grants' = grants
  BY <1>1, ZenonT(60) DEF Arrive, CreatePurchaseRequest, ConfirmPayment, PayWithCredits,
     CreateFiatPaymentIntent, StripeWebhook, RefundCredits, WithdrawCredits, storeVars
<1>2. ASSUME NEW w \in Workers, Step(w), ~IssueGrant(w) PROVE grants' = grants
  BY <1>2, ZenonT(60) DEF Step, StorePurchaseRequest, NotVerified, VerifyTransaction,
     PaymentConfirmed, TierNotFound, AttachGrant, CompletePurchase,
     AtomicDeductCredits, InsufficientCredits, CreateCreditsTransaction,
     CreditProvider, CreditsDeducted, RefundBuyer, StripeError, CheckoutCreated,
     DuplicateDelivery, CompleteStripeCheckout, DeductFromProvider, CreditBuyer,
     GiveBack, ApplyWithdrawal, StoreError, IgnoredError, storeVars
<1>3. CASE \/ \E l \in Listings : ReplaceListing(l)
           \/ \E r \in Requests : BuyerPays(r)
           \/ \E p \in Peers, a \in Amounts : DepositCredits(p, a)
           \/ Crash \/ UNCHANGED vars
  BY <1>3 DEF ReplaceListing, BuyerPays, DepositCredits, Crash, vars, storeVars
<1> QED
  BY <1>1, <1>2, <1>3, Zenon DEF Next

LEMMA GrantsKept ==
  ASSUME TypeOK, [Next]_vars, NEW r, NEW g, HasGrant(r, g)
  PROVE  HasGrant(r, g)'
<1>1. CASE grants' = grants
  BY <1>1 DEF HasGrant
<1>2. ASSUME NEW w \in Workers, IssueGrant(w) PROVE HasGrant(r, g)'
  <2>1. /\ Len(grants) \in Nat /\ Len(grants') = Len(grants) + 1
        /\ \A i \in 1 .. Len(grants) : grants'[i] = grants[i]
    BY <1>2, GrantAppended, Zenon DEF IssueGrant
  <2> QED
    BY <2>1 DEF HasGrant
<1> QED
  BY <1>1, <1>2, GrantsWritten, Zenon

\* How a handler comes to hold a grant.
LEMMA AtAttach ==
  ASSUME TypeOK, [Next]_vars, NEW w \in Workers, pc'[w] \in {"attach", "complete"}
  PROVE  \/ /\ pc[w] \in {"attach", "complete"}
            /\ job'[w] = job[w]
            /\ pc[w] = "complete" => pc'[w] = "complete"
         \/ IssueGrant(w) /\ pc'[w] = "attach"
<1>0. Workforce
  BY WorkforceType
<1>1. ~Crash
  BY DEF Crash
<1>2. ASSUME Arrive(w) PROVE FALSE
  <2>1. ASSUME NEW l, NEW j, StartJob(w, l, j) PROVE l \in {"attach", "complete"}
    BY <1>0, <2>1, Zenon DEF StartJob, Goto, Workforce
  <2>2. ASSUME NEW r \in Requests,
               CreatePurchaseRequest(w, r) \/ ConfirmPayment(w, r) \/ PayWithCredits(w, r)
        PROVE  FALSE
    BY <2>1, <2>2, SMTT(60) DEF CreatePurchaseRequest, ConfirmPayment, PayWithCredits
  <2>3. ASSUME NEW r \in Requests,
               \/ CreateFiatPaymentIntent(w, r) \/ StripeWebhook(w, r) \/ RefundCredits(w, r)
        PROVE  FALSE
    BY <2>1, <2>3 DEF CreateFiatPaymentIntent, StripeWebhook, RefundCredits
  <2>4. ASSUME NEW p \in Peers, NEW a \in Amounts, WithdrawCredits(w, p, a) PROVE FALSE
    BY <2>1, <2>4, SMTT(60) DEF WithdrawCredits
  <2> QED
    BY <1>2, <2>2, <2>3, <2>4, Zenon DEF Arrive
<1>3. ASSUME Step(w), ~IssueGrant(w)
      PROVE  pc[w] = "attach" /\ pc'[w] = "complete" /\ job' = job
  <2>1. ASSUME NEW l, Goto(w, l) PROVE l \in {"attach", "complete"}
    BY <1>0, <2>1 DEF Goto, Workforce
  <2>17. IssueFailed(w) \in {"refund", "idle"}
    BY Zenon DEF IssueFailed
  <2>2. IssueFailed(w) \notin {"attach", "complete"} /\ OnError(w) \notin {"attach", "complete"}
    BY <2>17, Zenon DEF OnError
  <2>3. CASE \/ TierNotFound(w) \/ StoreError(w)
             \/ AtomicDeductCredits(w) \/ CreateCreditsTransaction(w)
    BY <2>1, <2>2, <2>3, SMTT(60) DEF TierNotFound, StoreError,
       AtomicDeductCredits, CreateCreditsTransaction
  <2>4. CASE CompletePurchase(w) \/ DuplicateDelivery(w)
    <3>1. Finish(w)
      BY <2>4, Zenon DEF CompletePurchase, DuplicateDelivery
    <3> QED
      BY <2>1, <3>1 DEF Finish, Stop
  <2>5. CASE StorePurchaseRequest(w) \/ NotVerified(w)
    <3>1. Goto(w, "idle")
      BY <2>5, Zenon DEF StorePurchaseRequest, NotVerified, Stop
    <3> QED
      BY <2>1, <3>1
  <2>9. CASE InsufficientCredits(w)
    <3>1. Goto(w, "idle")
      BY <2>9, Zenon DEF InsufficientCredits, Stop
    <3> QED
      BY <2>1, <3>1
  <2>15. CASE VerifyTransaction(w)
    <3>1. Goto(w, "confirm")
      BY <2>15, Zenon DEF VerifyTransaction
    <3> QED
      BY <2>1, <3>1
  <2>16. CASE PaymentConfirmed(w)
    <3>1. Goto(w, "issue")
      BY <2>16 DEF PaymentConfirmed
    <3> QED
      BY <2>1, <3>1
  <2>11. CASE CreditProvider(w)
    BY <2>1, <2>11, SMTT(60) DEF CreditProvider, Stop
  <2>12. CASE CreditsDeducted(w) \/ RefundBuyer(w)
    BY <2>1, <2>12, SMTT(60) DEF CreditsDeducted, RefundBuyer, Stop
  <2>6. CASE StripeError(w) \/ CheckoutCreated(w)
    BY <2>1, <2>6, SMTT(60) DEF StripeError, CheckoutCreated, Stop
  <2>13. CASE CompleteStripeCheckout(w)
    BY <2>1, <2>13, SMTT(60) DEF CompleteStripeCheckout, Stop
  <2>10. CASE DeductFromProvider(w) \/ CreditBuyer(w)
    BY <2>1, <2>10, SMTT(60) DEF DeductFromProvider, CreditBuyer, Stop
  <2>14. CASE GiveBack(w) \/ ApplyWithdrawal(w)
    BY <2>1, <2>14, SMTT(60) DEF GiveBack, ApplyWithdrawal, Stop
  <2>7. CASE AttachGrant(w)
    BY <1>0, <2>7 DEF AttachGrant, Goto, Workforce
  <2>8. CASE IgnoredError(w)
    <3>1. CASE pc[w] = "attach" /\ Goto(w, "complete") /\ job' = job
      BY <1>0, <3>1 DEF Goto, Workforce
    <3>2. ~Stop(w) /\ ~Finish(w)
      BY <2>1 DEF Finish, Stop
    <3>3. ~(pc[w] = "webhookCheck" /\ pc' = pc)
      OBVIOUS
    <3> QED
      BY <2>8, <3>1, <3>2, <3>3 DEF IgnoredError
  <2> QED
    BY <1>3, <2>3, <2>4, <2>5, <2>6, <2>7, <2>8, <2>9, <2>10, <2>11, <2>12, <2>13,
       <2>14, <2>15, <2>16, ZenonT(60) DEF Step
<1>4. ASSUME IssueGrant(w) PROVE pc'[w] = "attach"
  BY <1>0, <1>4 DEF IssueGrant, Goto, AfterIssue, Workforce
<1> QED
  BY <1>0, <1>1, <1>2, <1>3, <1>4, Moves, Zenon

LEMMA HoldsGrantStep == TypeOK /\ HoldsGrant /\ [Next]_vars => HoldsGrant'
<1> SUFFICES ASSUME TypeOK, HoldsGrant, [Next]_vars, NEW w \in Workers,
                    pc'[w] \in {"attach", "complete"}
             PROVE  HasGrant(job[w].req, job[w].grant)'
  BY DEF HoldsGrant
<1>1. CASE pc[w] \in {"attach", "complete"} /\ job'[w] = job[w]
  <2>1. PICK r, g : r = job[w].req /\ g = job[w].grant
    OBVIOUS
  <2>2. HasGrant(r, g)'
    BY <1>1, <2>1, GrantsKept, Zenon DEF HoldsGrant
  <2> QED
    BY <1>1, <2>1, <2>2, Zenon
<1>2. CASE IssueGrant(w)
  <2>1. /\ Len(grants) \in Nat /\ Len(grants') = Len(grants) + 1
        /\ grants'[Len(grants) + 1] = Grant(w)
    BY <1>2, GrantAppended DEF IssueGrant
  <2>2. job'[w].req = job[w].req /\ job'[w].grant = Len(grants) + 1
    BY <1>2, WorkforceType, Zenon DEF IssueGrant, Workforce, Jobs
  <2>3. Grant(w).request = job[w].req
    BY DEF Grant
  <2> QED
    BY <2>1, <2>2, <2>3 DEF HasGrant
<1> QED
  BY <1>1, <1>2, AtAttach, Zenon

\* The steps that write the purchases table.
LEMMA PurchaseWritten ==
  ASSUME [Next]_vars, purchase' # purchase
  PROVE  \E w \in Workers :
           \/ StorePurchaseRequest(w) \/ AttachGrant(w) \/ CompletePurchase(w)
           \/ (\E r \in Requests : ConfirmPayment(w, r)) \/ VerifyTransaction(w)
           \/ PaymentConfirmed(w) \/ CreditsDeducted(w) \/ CheckoutCreated(w)
           \/ CompleteStripeCheckout(w)
<1>1. ASSUME NEW w \in Workers, Arrive(w) PROVE \E r \in Requests : ConfirmPayment(w, r)
  <2>1. ASSUME NEW r \in Requests, \/ CreatePurchaseRequest(w, r) \/ PayWithCredits(w, r)
                                   \/ CreateFiatPaymentIntent(w, r)
        PROVE  FALSE
    BY <2>1 DEF CreatePurchaseRequest, PayWithCredits, CreateFiatPaymentIntent, storeVars
  <2>2. ASSUME NEW r \in Requests, StripeWebhook(w, r) \/ RefundCredits(w, r) PROVE FALSE
    BY <2>2 DEF StripeWebhook, RefundCredits, storeVars
  <2>3. ASSUME NEW p \in Peers, NEW a \in Amounts, WithdrawCredits(w, p, a) PROVE FALSE
    BY <2>3, ZenonT(60) DEF WithdrawCredits, storeVars
  <2> QED
    BY <1>1, <2>1, <2>2, <2>3, Zenon DEF Arrive
<1>2. ASSUME NEW w \in Workers, Step(w)
      PROVE  \/ StorePurchaseRequest(w) \/ AttachGrant(w) \/ CompletePurchase(w)
             \/ VerifyTransaction(w) \/ PaymentConfirmed(w) \/ CreditsDeducted(w)
             \/ CheckoutCreated(w) \/ CompleteStripeCheckout(w)
  BY <1>2 DEF Step, NotVerified, IssueGrant, TierNotFound,
     AtomicDeductCredits, InsufficientCredits, CreateCreditsTransaction,
     CreditProvider, RefundBuyer, StripeError, DuplicateDelivery, DeductFromProvider,
     CreditBuyer, GiveBack, ApplyWithdrawal, StoreError, IgnoredError, storeVars
<1>3. ~ (\/ \E l \in Listings : ReplaceListing(l)
         \/ \E r \in Requests : BuyerPays(r)
         \/ \E p \in Peers, a \in Amounts : DepositCredits(p, a)
         \/ Crash \/ UNCHANGED vars)
  BY DEF ReplaceListing, BuyerPays, DepositCredits, Crash, vars, storeVars
<1> QED
  BY <1>1, <1>2, <1>3, Zenon DEF Next

\* What a status write does to a row.
LEMMA StatusWrite ==
  ASSUME TypeOK, NEW q \in Requests, NEW s, purchase' = UpdatePurchaseStatus(q, s),
         NEW r \in Requests
  PROVE  /\ purchase'[r].grant = purchase[r].grant
         /\ r # q => purchase'[r] = purchase[r]
         /\ purchase'[q].status = IF Exists(q) THEN s ELSE NoRow
<1>1. purchase \in [Requests -> PurchaseRow]
  BY DEF TypeOK
<1> QED
  BY <1>1 DEF UpdatePurchaseStatus, PurchaseRow, Exists

LEMMA GrantWrite ==
  ASSUME TypeOK, NEW q \in Requests, NEW g, purchase' = UpdatePurchaseGrant(q, g),
         NEW r \in Requests
  PROVE  /\ r # q => purchase'[r] = purchase[r]
         /\ IF Exists(q) THEN purchase'[q].status = "Completed" /\ purchase'[q].grant = g
                         ELSE purchase'[q] = purchase[q]
<1>1. purchase \in [Requests -> PurchaseRow]
  BY DEF TypeOK
<1> QED
  BY <1>1 DEF UpdatePurchaseGrant, PurchaseRow, Exists

GrantOf(r) ==
    /\ purchase[r].status = "Completed" => \E g : HasGrant(r, g)
    /\ purchase[r].grant # NoGrant => HasGrant(r, purchase[r].grant)

LEMMA CompletedHasGrantIs == CompletedHasGrant <=> \A r \in Requests : GrantOf(r)
BY DEF CompletedHasGrant, GrantOf, HasGrant

LEMMA CompletedStep ==
  TypeOK /\ HoldsGrant /\ CompletedHasGrant /\ [Next]_vars => CompletedHasGrant'
<1> SUFFICES ASSUME TypeOK, HoldsGrant, CompletedHasGrant, [Next]_vars, NEW r \in Requests
             PROVE  GrantOf(r)'
  BY CompletedHasGrantIs DEF CompletedHasGrant, GrantOf, HasGrant
<1>1. GrantOf(r)
  BY CompletedHasGrantIs, Zenon
<1>2. ASSUME purchase'[r].status = "Completed" => purchase[r].status = "Completed",
             purchase'[r].grant = purchase[r].grant
      PROVE  GrantOf(r)'
  <2>1. purchase'[r].status = "Completed" => \E g : HasGrant(r, g)'
    BY <1>1, <1>2, GrantsKept, Zenon DEF GrantOf
  <2>2. ASSUME purchase[r].grant # NoGrant PROVE HasGrant(r, purchase[r].grant)'
    <3>1. PICK g : g = purchase[r].grant
      OBVIOUS
    <3>2. HasGrant(r, g)'
      BY <1>1, <2>2, <3>1, GrantsKept, Zenon DEF GrantOf
    <3> QED
      BY <1>2, <3>1, <3>2
  <2> QED
    BY <1>2, <2>1, <2>2, Zenon DEF GrantOf
<1>3. CASE purchase' = purchase
  BY <1>2, <1>3
<1>4. ASSUME NEW w \in Workers, StorePurchaseRequest(w) PROVE GrantOf(r)'
  <2>1. CASE r = job[w].req /\ ~Exists(r)
    <3>1. purchase'[r] = [status |-> "Pending", grant |-> NoGrant, amount |-> job[w].amt]
      BY <1>4, <2>1, Zenon DEF StorePurchaseRequest, TypeOK
    <3> QED
      BY <3>1, SMTT(60) DEF GrantOf, NoGrant
  <2>2. CASE ~(r = job[w].req /\ ~Exists(r))
    <3>1. purchase'[r] = purchase[r]
      BY <1>4, <2>2, Zenon DEF StorePurchaseRequest, TypeOK
    <3> QED
      BY <1>2, <3>1, Zenon
  <2> QED
    BY <2>1, <2>2, Zenon
<1>5. ASSUME NEW q \in Requests, NEW s \in {"Pending", "Detected", "Confirmed"},
             purchase' = UpdatePurchaseStatus(q, s)
      PROVE  GrantOf(r)'
  <2>1. /\ purchase'[r].grant = purchase[r].grant
        /\ r # q => purchase'[r] = purchase[r]
        /\ purchase'[q].status = IF Exists(q) THEN s ELSE NoRow
    BY <1>5, StatusWrite, Zenon
  <2> QED
    BY <1>2, <2>1, Zenon DEF NoRow
<1>6. ASSUME NEW w \in Workers, AttachGrant(w) PROVE GrantOf(r)'
  <2>1. HasGrant(job[w].req, job[w].grant) /\ job[w].req \in Requests
    BY <1>6, JobFields, Zenon DEF AttachGrant, HoldsGrant
  <2>2. PICK q, g : q \in Requests /\ q = job[w].req /\ g = job[w].grant
    BY <2>1
  <2>3. HasGrant(q, g)'
    BY <2>1, <2>2, GrantsKept, ZenonT(60)
  <2>4. /\ r # q => purchase'[r] = purchase[r]
        /\ IF Exists(q) THEN purchase'[q].status = "Completed" /\ purchase'[q].grant = g
                        ELSE purchase'[q] = purchase[q]
    BY <1>6, <2>2, GrantWrite, Zenon DEF AttachGrant
  <2>5. CASE r = q /\ Exists(q)
    BY <2>3, <2>4, <2>5 DEF GrantOf
  <2> QED
    BY <1>2, <2>4, <2>5, Zenon
<1>7. ASSUME NEW w \in Workers, CompletePurchase(w) PROVE GrantOf(r)'
  <2>1. HasGrant(job[w].req, job[w].grant) /\ job[w].req \in Requests
    BY <1>7, JobFields, Zenon DEF CompletePurchase, HoldsGrant
  <2>2. PICK q, g : q \in Requests /\ q = job[w].req /\ g = job[w].grant
    BY <2>1
  <2>3. HasGrant(q, g)'
    BY <2>1, <2>2, GrantsKept
  <2>4. /\ purchase'[r].grant = purchase[r].grant
        /\ r # q => purchase'[r] = purchase[r]
    BY <1>7, <2>2, StatusWrite, Zenon DEF CompletePurchase
  <2>5. CASE r # q
    BY <1>2, <2>4, <2>5, Zenon
  <2>6. ASSUME purchase[r].grant # NoGrant PROVE HasGrant(r, purchase[r].grant)'
    <3>1. PICK h : h = purchase[r].grant
      OBVIOUS
    <3>2. HasGrant(r, h)'
      BY <1>1, <2>6, <3>1, GrantsKept, Zenon DEF GrantOf
    <3> QED
      BY <2>4, <3>1, <3>2
  <2>7. CASE r = q
    BY <2>3, <2>4, <2>6, <2>7, Zenon DEF GrantOf
  <2> QED
    BY <2>5, <2>7, Zenon
<1>8. ASSUME NEW w \in Workers,
             \/ \E q \in Requests : ConfirmPayment(w, q)
             \/ VerifyTransaction(w) \/ PaymentConfirmed(w) \/ CreditsDeducted(w)
             \/ CheckoutCreated(w) \/ CompleteStripeCheckout(w)
      PROVE  GrantOf(r)'
  <2>1. job[w].req \in Requests
    BY JobFields
  <2> QED
    BY <1>5, <1>8, <2>1, ZenonT(60) DEF ConfirmPayment, VerifyTransaction, PaymentConfirmed,
       CreditsDeducted, CheckoutCreated, CompleteStripeCheckout
<1> QED
  BY <1>3, <1>4, <1>6, <1>7, <1>8, PurchaseWritten, Zenon

\* Whichever handlers work on a purchase at once, and whatever fails or
\* crashes between IssueGrant, UpdatePurchaseGrant and UpdatePurchaseStatus, a
\* Completed purchase has a grant, and the attached grant is one of its own.
THEOREM CompletedGivesAccess == Spec => []CompletedHasGrant
<1>1. Init => HoldsGrant /\ CompletedHasGrant
  BY SMTT(60) DEF Init, HoldsGrant, CompletedHasGrant, NoRow
<1> QED
  BY <1>1, HoldsGrantStep, CompletedStep, TypeCorrect, PTL DEF Spec

-----------------------------------------------------------------------------
(* What a step of a handler leaves alone. *)

\* With a PaymentProcessor a handler keeps its flow and its request.
LEMMA FlowKept ==
  ASSUME HasPayment, Workforce, NEW w \in Workers, Step(w)
  PROVE  pc[w] # "idle" /\ job'[w].flow = job[w].flow /\ job'[w].req = job[w].req
<1>0. ~Direct(w)
  BY DEF Direct
<1>1. CASE IssueGrant(w)
  BY <1>1 DEF IssueGrant, Workforce, Jobs
<1>2. CASE IgnoredError(w)
  BY <1>0, <1>2 DEF IgnoredError, Finish, Workforce, Jobs
<1>3. CASE CompletePurchase(w) \/ DuplicateDelivery(w)
  BY <1>0, <1>3, Zenon DEF CompletePurchase, DuplicateDelivery, Finish
<1>4. CASE ~(IssueGrant(w) \/ IgnoredError(w) \/ CompletePurchase(w) \/ DuplicateDelivery(w))
  BY <1>4, ZenonT(60) DEF Step, StorePurchaseRequest, NotVerified, VerifyTransaction,
     PaymentConfirmed, TierNotFound, AttachGrant, AtomicDeductCredits,
     InsufficientCredits, CreateCreditsTransaction, CreditProvider, CreditsDeducted,
     RefundBuyer, StripeError, CheckoutCreated, CompleteStripeCheckout,
     DeductFromProvider, CreditBuyer, GiveBack, ApplyWithdrawal, StoreError
<1> QED
  BY <1>1, <1>2, <1>3, <1>4

\* A confirmed transaction stays confirmed and a paid checkout stays paid.
LEMMA EvidenceKept ==
  ASSUME TypeOK, [Next]_vars, NEW r \in Requests
  PROVE  /\ r \in verified => r \in verified'
         /\ checkout[r] = "paid" => checkout'[r] = "paid"
<1>0. checkout \in [Requests -> {"none", "open", "paid"}]
  BY DEF TypeOK
<1>1. CASE UNCHANGED externalVars
  BY <1>1 DEF externalVars
<1>2. ASSUME NEW q \in Requests, BuyerPays(q) PROVE verified' = verified /\ (checkout[r] = "paid" => checkout'[r] = "paid")
  BY <1>0, <1>2 DEF BuyerPays
<1>3. ASSUME NEW q \in Requests, checkout' = Opened(q)
      PROVE  checkout[r] = "paid" => checkout'[r] = "paid"
  BY <1>0, <1>3, Zenon DEF Opened
<1>4. ASSUME NEW w \in Workers, Arrive(w) PROVE UNCHANGED externalVars
  BY <1>4, ZenonT(60) DEF Arrive, CreatePurchaseRequest, ConfirmPayment, PayWithCredits,
     CreateFiatPaymentIntent, StripeWebhook, RefundCredits, WithdrawCredits
<1>5. ASSUME NEW w \in Workers, Step(w)
      PROVE  \/ UNCHANGED externalVars
             \/ checkout' = checkout /\ verified' = verified \cup {job[w].req}
             \/ verified' = verified /\ checkout' = Opened(job[w].req)
  BY <1>5, ZenonT(60) DEF Step, StorePurchaseRequest, NotVerified, VerifyTransaction,
     PaymentConfirmed, IssueGrant, TierNotFound, AttachGrant, CompletePurchase,
     AtomicDeductCredits, InsufficientCredits, CreateCreditsTransaction,
     CreditProvider, CreditsDeducted, RefundBuyer, StripeError, CheckoutCreated,
     DuplicateDelivery, CompleteStripeCheckout, DeductFromProvider, CreditBuyer,
     GiveBack, ApplyWithdrawal, StoreError, IgnoredError, externalVars
<1>6. ASSUME NEW w \in Workers, Step(w)
      PROVE  /\ r \in verified => r \in verified'
             /\ checkout[r] = "paid" => checkout'[r] = "paid"
  BY <1>1, <1>3, <1>5, <1>6, JobFields, Zenon
<1>7. CASE \/ \E l \in Listings : ReplaceListing(l)
           \/ \E p \in Peers, a \in Amounts : DepositCredits(p, a)
           \/ Crash \/ UNCHANGED vars
  BY <1>1, <1>7 DEF ReplaceListing, DepositCredits, Crash, vars, externalVars
<1> QED
  BY <1>1, <1>2, <1>4, <1>6, <1>7, Zenon DEF Next

-----------------------------------------------------------------------------
(* A handler past the check of its payment has the payment. *)

PaidFor(w) ==
    /\ job[w].flow = "confirm" /\ pc[w] \in {"confirm", "issue"} =>
         job[w].req \in verified
    /\ job[w].flow = "webhook" /\ pc[w] # "idle" => checkout[job[w].req] = "paid"

PaidHandlers == \A w \in Workers : PaidFor(w)

LEMMA PaidHandlersStep ==
  HasPayment /\ TypeOK /\ HandlerOrder /\ PaidHandlers /\ [Next]_vars => PaidHandlers'
<1> SUFFICES ASSUME HasPayment, TypeOK, HandlerOrder, PaidHandlers, [Next]_vars,
                    NEW w \in Workers
             PROVE  PaidFor(w)'
  BY DEF PaidHandlers
<1>0. /\ Workforce /\ PaidFor(w) /\ RunsAs(pc[w], job[w].flow)
      /\ job[w].req \in Requests
  BY WorkforceType, JobFields DEF PaidHandlers, HandlerOrder
<1>1. /\ job[w].req \in verified => job[w].req \in verified'
      /\ checkout[job[w].req] = "paid" => checkout'[job[w].req] = "paid"
  BY <1>0, EvidenceKept
<1>2. CASE pc'[w] = pc[w] /\ job'[w] = job[w]
  BY <1>0, <1>1, <1>2 DEF PaidFor
<1>3. CASE Crash
  BY <1>3 DEF Crash, PaidFor
<1>4. CASE Arrive(w)
  <2>1. ASSUME NEW l, NEW j, StartJob(w, l, j) PROVE pc'[w] = l /\ job'[w] = j
    BY <1>0, <2>1 DEF StartJob, Goto, Workforce
  <2>2. ASSUME NEW r \in Requests, ConfirmPayment(w, r) PROVE PaidFor(w)'
    <3>1. pc'[w] = "verify" /\ job'[w].flow = "confirm"
      BY <2>1, <2>2 DEF ConfirmPayment, Job
    <3> QED
      BY <3>1 DEF PaidFor
  <2>3. ASSUME NEW r \in Requests, StripeWebhook(w, r) PROVE PaidFor(w)'
    <3>1. job'[w].flow = "webhook" /\ job'[w].req = r
      <4>1. job'[w] = [Job("webhook", r, 0) EXCEPT !.seen = AlreadyCompleted(r)]
        BY <2>1, <2>3 DEF StripeWebhook
      <4> QED
        BY <4>1 DEF Job
    <3>2. checkout[r] = "paid" /\ checkout' = checkout
      BY <2>3 DEF StripeWebhook, PaidEvent, externalVars
    <3> QED
      BY <3>1, <3>2 DEF PaidFor
  <2>4. ASSUME NEW f \in Handlers \ {"confirm", "webhook"}, job'[w].flow = f PROVE PaidFor(w)'
    BY <2>4 DEF PaidFor
  <2>5. ASSUME NEW r \in Requests,
               \/ CreatePurchaseRequest(w, r) \/ PayWithCredits(w, r)
               \/ CreateFiatPaymentIntent(w, r) \/ RefundCredits(w, r)
        PROVE  PaidFor(w)'
    <3>1. \E f \in {"create", "credits", "fiat", "refundCredits"} : \E a : job'[w] = Job(f, r, a)
      BY <2>1, <2>5 DEF CreatePurchaseRequest, PayWithCredits, CreateFiatPaymentIntent,
         RefundCredits
    <3> QED
      BY <2>4, <3>1, SMTT(60) DEF Job, Handlers
  <2>6. ASSUME NEW p \in Peers, NEW a \in Amounts, WithdrawCredits(w, p, a)
        PROVE  PaidFor(w)'
    <3>1. job'[w] = [NoJob EXCEPT !.flow = "withdraw", !.peer = p, !.amt = a]
      BY <2>1, <2>6, Zenon DEF WithdrawCredits
    <3> QED
      BY <2>4, <3>1 DEF NoJob, Job, Handlers
  <2> QED
    BY <1>4, <2>2, <2>3, <2>5, <2>6, Zenon DEF Arrive
<1>5. CASE Step(w)
  <2>0. pc[w] # "idle" /\ job'[w].flow = job[w].flow /\ job'[w].req = job[w].req
    BY <1>0, <1>5, FlowKept
  <2>1. ASSUME NEW l, Goto(w, l) PROVE pc'[w] = l
    BY <1>0, <2>1, Zenon DEF Goto, Workforce
  <2>2. CASE VerifyTransaction(w)
    <3>1. job[w].req \in verified'
      BY <2>2, Zenon DEF VerifyTransaction
    <3> QED
      BY <1>0, <1>1, <2>0, <3>1, Zenon DEF PaidFor
  <2>3. ASSUME ~VerifyTransaction(w), job[w].flow = "confirm", pc'[w] \in {"confirm", "issue"}
        PROVE  pc[w] \in {"confirm", "issue"}
    <3>1. IssueFailed(w) = "idle" /\ AfterIssue(w) \in {"attach", "idle"} /\ ~Direct(w)
      BY DEF IssueFailed, AfterIssue, Direct
    <3>2. pc[w] \in {"createStore", "fiatPending", "verify", "confirm", "issue", "attach", "complete"}
      BY <1>0, <2>0, <2>3 DEF RunsAs, Workforce, Labels
    <3>3. CASE StoreError(w)
      <4>1. pc'[w] = OnError(w)
        BY <2>1, <3>3 DEF StoreError
      <4>2. OnError(w) = "idle"
        BY <3>1, <3>2 DEF OnError
      <4> QED
        BY <2>3, <4>1, <4>2, Zenon
    <3>4. CASE CompletePurchase(w) \/ DuplicateDelivery(w) \/ IgnoredError(w)
      BY <2>1, <2>3, <3>1, <3>4, Zenon DEF CompletePurchase, DuplicateDelivery, IgnoredError,
         Finish, Stop
    <3> QED
      BY <1>5, <2>1, <2>3, <3>1, <3>2, <3>3, <3>4, ZenonT(60) DEF Step, StorePurchaseRequest,
         NotVerified, PaymentConfirmed, IssueGrant, TierNotFound, AttachGrant,
         AtomicDeductCredits, InsufficientCredits, CreateCreditsTransaction,
         CreditProvider, CreditsDeducted, RefundBuyer, StripeError, CheckoutCreated,
         CompleteStripeCheckout, DeductFromProvider, CreditBuyer, GiveBack,
         ApplyWithdrawal, Stop
  <2> QED
    BY <1>0, <1>1, <2>0, <2>2, <2>3, Zenon DEF PaidFor
<1> QED
  BY <1>0, <1>2, <1>3, <1>4, <1>5, Moves, Zenon

LEMMA GrantEntry ==
  ASSUME TypeOK, NEW i \in 1 .. Len(grants)
  PROVE  grants[i].request \in Requests
<1> DEFINE GrantRow == [request : Requests, flow : Handlers, row : BOOLEAN]
<1>1. grants \in Seq(GrantRow)
  BY DEF TypeOK
<1>2. grants[i] \in GrantRow
  <2> HIDE DEF GrantRow
  <2> QED
    BY <1>1
<1> QED
  BY <1>2

\* The grants of the confirm and the webhook handler, entry by entry.
PaidGrant(i) ==
    /\ grants[i].flow = "confirm" => grants[i].request \in verified
    /\ grants[i].flow = "webhook" => checkout[grants[i].request] = "paid"

PaidGrants == \A i \in 1 .. Len(grants) : PaidGrant(i)

LEMMA PaidGrantsStep ==
  TypeOK /\ PaidHandlers /\ PaidGrants /\ [Next]_vars => PaidGrants'
<1> SUFFICES ASSUME TypeOK, PaidHandlers, PaidGrants, [Next]_vars,
                    NEW i \in 1 .. Len(grants')
             PROVE  PaidGrant(i)'
  BY DEF PaidGrants
<1>1. ASSUME i \in 1 .. Len(grants), grants'[i] = grants[i] PROVE PaidGrant(i)'
  <2>0. grants[i].request \in Requests
    BY <1>1, GrantEntry
  <2>1. PICK r \in Requests : r = grants[i].request
    BY <2>0
  <2>2. /\ r \in verified => r \in verified'
        /\ checkout[r] = "paid" => checkout'[r] = "paid"
    BY EvidenceKept
  <2>3. PaidGrant(i)
    BY <1>1 DEF PaidGrants
  <2> QED
    BY <1>1, <2>1, <2>2, <2>3, Zenon DEF PaidGrant
<1>2. CASE grants' = grants
  BY <1>1, <1>2
<1>3. ASSUME NEW w \in Workers, IssueGrant(w) PROVE PaidGrant(i)'
  <2>1. /\ Len(grants) \in Nat /\ Len(grants') = Len(grants) + 1
        /\ \A k \in 1 .. Len(grants) : grants'[k] = grants[k]
        /\ grants'[Len(grants) + 1] = Grant(w)
    BY <1>3, GrantAppended DEF IssueGrant
  <2>2. CASE i \in 1 .. Len(grants)
    BY <1>1, <2>1, <2>2, Zenon
  <2>3. CASE i = Len(grants) + 1
    <3>1. grants'[i].flow = job[w].flow /\ grants'[i].request = job[w].req
      BY <2>1, <2>3 DEF Grant
    <3>2. PaidFor(w) /\ pc[w] = "issue" /\ verified' = verified /\ checkout' = checkout
      BY <1>3 DEF PaidHandlers, IssueGrant, externalVars
    <3> QED
      BY <3>1, <3>2, Zenon DEF PaidFor, PaidGrant
  <2> QED
    BY <2>1, <2>2, <2>3
<1> QED
  BY <1>2, <1>3, GrantsWritten

-----------------------------------------------------------------------------
(* The handlers that have debited a buyer. *)

Debited(r) ==
    {w \in Workers : /\ job[w].req = r /\ job[w].flow = "credits"
                     /\ pc[w] \notin {"idle", "deduct"}}

\* A handler comes to have a debit only by making one.
LEMMA DebitedShrinks ==
  ASSUME HasPayment, TypeOK, [Next]_vars, NEW w \in Workers, ~AtomicDeductCredits(w),
         NEW r, w \in Debited(r)'
  PROVE  w \in Debited(r)
<1>0. /\ Workforce
      /\ job'[w].req = r /\ job'[w].flow = "credits" /\ pc'[w] \notin {"idle", "deduct"}
  BY WorkforceType, Zenon DEF Debited
<1>1. CASE pc'[w] = pc[w] /\ job'[w] = job[w]
  BY <1>0, <1>1 DEF Debited
<1>2. ~Crash
  BY <1>0 DEF Crash
<1>3. ASSUME Arrive(w) PROVE FALSE
  <2>1. ASSUME NEW l, NEW j, StartJob(w, l, j) PROVE pc'[w] = l /\ job'[w] = j
    BY <1>0, <2>1, Zenon DEF StartJob, Goto, Workforce
  <2>2. ASSUME NEW q \in Requests, PayWithCredits(w, q) PROVE FALSE
    BY <1>0, <2>1, <2>2 DEF PayWithCredits
  <2>3. ASSUME NEW q \in Requests, StripeWebhook(w, q) PROVE FALSE
    <3>1. job'[w] = [Job("webhook", q, 0) EXCEPT !.seen = AlreadyCompleted(q)]
      BY <2>1, <2>3, Zenon DEF StripeWebhook
    <3> QED
      BY <1>0, <3>1 DEF Job
  <2>4. ASSUME NEW q \in Requests,
               \/ CreatePurchaseRequest(w, q) \/ ConfirmPayment(w, q)
               \/ CreateFiatPaymentIntent(w, q) \/ RefundCredits(w, q)
        PROVE  FALSE
    <3>1. \E f \in {"create", "confirm", "fiat", "refundCredits"} : \E a : job'[w] = Job(f, q, a)
      BY <2>1, <2>4, Zenon DEF CreatePurchaseRequest, ConfirmPayment, CreateFiatPaymentIntent,
         RefundCredits
    <3> QED
      BY <1>0, <3>1, SMTT(60) DEF Job
  <2>5. ASSUME NEW p \in Peers, NEW a \in Amounts, WithdrawCredits(w, p, a) PROVE FALSE
    <3>1. job'[w] = [NoJob EXCEPT !.flow = "withdraw", !.peer = p, !.amt = a]
      BY <2>1, <2>5, Zenon DEF WithdrawCredits
    <3> QED
      BY <1>0, <3>1 DEF NoJob, Job
  <2> QED
    BY <1>3, <2>2, <2>3, <2>4, <2>5, Zenon DEF Arrive
<1>4. CASE Step(w)
  <2>1. pc[w] # "idle" /\ job[w].flow = "credits" /\ job[w].req = r
    BY <1>0, <1>4, FlowKept, Zenon
  <2>2. ASSUME pc[w] = "deduct" PROVE pc'[w] = "idle"
    <3>1. InsufficientCredits(w) \/ StoreError(w)
      BY <1>4, <2>2, ZenonT(60) DEF Step, StorePurchaseRequest, NotVerified, VerifyTransaction,
         PaymentConfirmed, IssueGrant, TierNotFound, AttachGrant, CompletePurchase,
         CreateCreditsTransaction, CreditProvider, CreditsDeducted, RefundBuyer,
         StripeError, CheckoutCreated, DuplicateDelivery, CompleteStripeCheckout,
         DeductFromProvider, CreditBuyer, GiveBack, ApplyWithdrawal, IgnoredError
    <3>2. OnError(w) = "idle"
      BY <2>2 DEF OnError
    <3> QED
      BY <1>0, <3>1, <3>2, Zenon DEF InsufficientCredits, StoreError, Stop, Goto, Workforce
  <2> QED
    BY <1>0, <2>1, <2>2, Zenon DEF Debited
<1> QED
  BY <1>0, <1>1, <1>2, <1>3, <1>4, Moves, Zenon

\* Only the debit and the refund change the count of a request's debits.
LEMMA ChargedWritten ==
  ASSUME [Next]_vars, charged' # charged
  PROVE  \E w \in Workers : AtomicDeductCredits(w) \/ RefundBuyer(w)
<1>1. ASSUME NEW w \in Workers, Arrive(w) PROVE FALSE
  BY <1>1, ZenonT(60) DEF Arrive, CreatePurchaseRequest, ConfirmPayment, PayWithCredits,
     CreateFiatPaymentIntent, StripeWebhook, RefundCredits, WithdrawCredits, historyVars
<1>2. ASSUME NEW w \in Workers, Step(w) PROVE AtomicDeductCredits(w) \/ RefundBuyer(w)
  BY <1>2, ZenonT(60) DEF Step, StorePurchaseRequest, NotVerified, VerifyTransaction,
     PaymentConfirmed, IssueGrant, TierNotFound, AttachGrant, CompletePurchase,
     InsufficientCredits, CreateCreditsTransaction,
     CreditProvider, CreditsDeducted, StripeError, CheckoutCreated,
     DuplicateDelivery, CompleteStripeCheckout, DeductFromProvider, CreditBuyer,
     GiveBack, ApplyWithdrawal, StoreError, IgnoredError, historyVars
<1>3. ~ (\/ \E l \in Listings : ReplaceListing(l)
         \/ \E r \in Requests : BuyerPays(r)
         \/ \E p \in Peers, a \in Amounts : DepositCredits(p, a)
         \/ Crash \/ UNCHANGED vars)
  BY Zenon DEF ReplaceListing, BuyerPays, DepositCredits, Crash, vars, historyVars
<1> QED
  BY <1>1, <1>2, <1>3, Zenon DEF Next

\* GrantsOf when a grant is issued.
LEMMA GrantsOfIssued ==
  ASSUME TypeOK, NEW w \in Workers, IssueGrant(w), NEW r, NEW f
  PROVE  GrantsOf(r, f)' = IF job[w].req = r /\ job[w].flow = f
                           THEN GrantsOf(r, f) \cup {Len(grants) + 1}
                           ELSE GrantsOf(r, f)
<1>1. /\ Len(grants) \in Nat /\ Len(grants') = Len(grants) + 1
      /\ \A i \in 1 .. Len(grants) : grants'[i] = grants[i]
      /\ grants'[Len(grants) + 1] = Grant(w)
  BY GrantAppended, Zenon DEF IssueGrant
<1>2. Grant(w).request = job[w].req /\ Grant(w).flow = job[w].flow
  BY DEF Grant
<1>3. 1 .. Len(grants') = (1 .. Len(grants)) \cup {Len(grants) + 1}
  BY <1>1
<1> QED
  BY <1>1, <1>2, <1>3, Zenon DEF GrantsOf

-----------------------------------------------------------------------------
(* One grant per checkout.  On a purchase that is not disturbed at most one  *)
(* handler works (Alone).  Once the webhook has issued a grant, the purchase *)
(* is complete, or the handler that issued it is about to complete it        *)
(* (Delivered); so a delivery that was not answered at once found no grant   *)
(* (Fresh), and the grant it issues is the only one (Single).                *)

Alone(r) == \A v, w \in Workers : Busy(v, r) /\ Busy(w, r) => v = w

Single(r) == \A i, j \in GrantsOf(r, "webhook") : i = j

Attaching(w, r) == Busy(w, r) /\ job[w].flow = "webhook" /\ pc[w] = "attach"

Delivered(r) ==
    GrantsOf(r, "webhook") # {} =>
      AlreadyCompleted(r) \/ \E w \in Workers : Attaching(w, r)

Unanswered(w) ==
    /\ job[w].flow = "webhook"
    /\ pc[w] = "issue" \/ (pc[w] = "webhookCheck" /\ ~job[w].seen)

Fresh(r) ==
    \A w \in Workers : Unanswered(w) /\ job[w].req = r => GrantsOf(r, "webhook") = {}

HasRow == \A w \in Workers : job[w].flow = "webhook" /\ pc[w] # "idle" => Exists(job[w].req)

OneGrant(r) == Alone(r) /\ Single(r) /\ Delivered(r) /\ Fresh(r)

OneGrantInv == HasRow /\ \A r \in Requests \ disturbed : OneGrant(r)

\* A handler that starts on a purchase is alone there or disturbs it.
LEMMA ArrivesAlone ==
  ASSUME Workforce, NEW w \in Workers, Arrive(w), NEW r \in Requests, r \notin disturbed',
         Busy(w, r)'
  PROVE  \A v \in Workers : ~Busy(v, r)
<1>0. pc'[w] # "idle" /\ job'[w].req = r /\ job'[w].flow # "withdraw"
  BY DEF Busy
<1>1. ASSUME NEW l, NEW j, StartJob(w, l, j) PROVE job'[w] = j
  BY <1>1, Zenon DEF StartJob, Workforce
<1>2. ASSUME NEW q \in Requests, Overlap(q) \subseteq disturbed', job'[w].req = q
      PROVE  \A v \in Workers : ~Busy(v, r)
  BY <1>0, <1>2, Zenon DEF Overlap
<1>3. ASSUME NEW q \in Requests,
             \/ CreatePurchaseRequest(w, q) \/ ConfirmPayment(w, q) \/ PayWithCredits(w, q)
             \/ CreateFiatPaymentIntent(w, q) \/ RefundCredits(w, q)
      PROVE  \A v \in Workers : ~Busy(v, r)
  <2>1. \E f, a : job'[w] = Job(f, q, a)
    BY <1>1, <1>3, Zenon DEF CreatePurchaseRequest, ConfirmPayment, PayWithCredits,
       CreateFiatPaymentIntent, RefundCredits
  <2>2. job'[w].req = q
    BY <2>1, SMTT(60) DEF Job
  <2>3. Overlap(q) \subseteq disturbed'
    BY <1>3, Zenon DEF CreatePurchaseRequest, ConfirmPayment, PayWithCredits,
       CreateFiatPaymentIntent, RefundCredits
  <2> QED
    BY <1>2, <2>2, <2>3, Zenon
<1>4. ASSUME NEW q \in Requests, StripeWebhook(w, q) PROVE \A v \in Workers : ~Busy(v, r)
  <2>1. job'[w] = [Job("webhook", q, 0) EXCEPT !.seen = AlreadyCompleted(q)]
    BY <1>1, <1>4 DEF StripeWebhook
  <2>2. job'[w].req = q
    BY <2>1 DEF Job
  <2>3. Overlap(q) \subseteq disturbed'
    BY <1>4 DEF StripeWebhook
  <2> QED
    BY <1>2, <2>2, <2>3
<1>5. ASSUME NEW p \in Peers, NEW a \in Amounts, WithdrawCredits(w, p, a) PROVE FALSE
  <2>1. job'[w] = [NoJob EXCEPT !.flow = "withdraw", !.peer = p, !.amt = a]
    BY <1>1, <1>5, Zenon DEF WithdrawCredits
  <2> QED
    BY <1>0, <2>1 DEF NoJob, Job
<1> QED
  BY <1>3, <1>4, <1>5, Zenon DEF Arrive

LEMMA DisturbedGrows ==
  ASSUME [Next]_vars, NEW r, r \in disturbed
  PROVE  r \in disturbed'
<1>1. ASSUME NEW w \in Workers, Arrive(w) PROVE r \in disturbed'
  <2>1. ASSUME NEW q \in Requests,
               CreatePurchaseRequest(w, q) \/ ConfirmPayment(w, q) \/ PayWithCredits(w, q)
        PROVE  r \in disturbed'
    BY <2>1 DEF CreatePurchaseRequest, ConfirmPayment, PayWithCredits
  <2>2. ASSUME NEW q \in Requests,
               \/ CreateFiatPaymentIntent(w, q) \/ StripeWebhook(w, q) \/ RefundCredits(w, q)
        PROVE  r \in disturbed'
    BY <2>2 DEF CreateFiatPaymentIntent, StripeWebhook, RefundCredits
  <2>3. ASSUME NEW p \in Peers, NEW a \in Amounts, WithdrawCredits(w, p, a)
        PROVE  r \in disturbed'
    BY <2>3, Zenon DEF WithdrawCredits
  <2> QED
    BY <1>1, <2>1, <2>2, <2>3, Zenon DEF Arrive
<1>2. ASSUME NEW w \in Workers, Step(w) PROVE r \in disturbed'
  <2>1. CASE \/ VerifyTransaction(w) \/ PaymentConfirmed(w) \/ CreditsDeducted(w)
             \/ CheckoutCreated(w) \/ StoreError(w) \/ IgnoredError(w)
    BY <2>1, Zenon DEF VerifyTransaction, PaymentConfirmed, CreditsDeducted,
       CheckoutCreated, StoreError, IgnoredError, Fault
  <2>2. CASE \/ StorePurchaseRequest(w) \/ NotVerified(w) \/ IssueGrant(w)
             \/ TierNotFound(w) \/ AttachGrant(w) \/ CompletePurchase(w)
             \/ AtomicDeductCredits(w) \/ InsufficientCredits(w)
             \/ CreateCreditsTransaction(w)
    BY <2>2, Zenon DEF StorePurchaseRequest, NotVerified, IssueGrant, TierNotFound,
       AttachGrant, CompletePurchase, AtomicDeductCredits, InsufficientCredits,
       CreateCreditsTransaction
  <2>3. CASE \/ CreditProvider(w) \/ RefundBuyer(w) \/ StripeError(w)
             \/ DuplicateDelivery(w) \/ CompleteStripeCheckout(w)
             \/ DeductFromProvider(w) \/ CreditBuyer(w) \/ GiveBack(w)
             \/ ApplyWithdrawal(w)
    BY <2>3, ZenonT(60) DEF CreditProvider, RefundBuyer, StripeError, DuplicateDelivery,
       CompleteStripeCheckout, DeductFromProvider, CreditBuyer, GiveBack, ApplyWithdrawal
  <2> QED
    BY <1>2, <2>1, <2>2, <2>3, Zenon DEF Step
<1>3. CASE \/ \E l \in Listings : ReplaceListing(l)
           \/ \E q \in Requests : BuyerPays(q)
           \/ \E p \in Peers, a \in Amounts : DepositCredits(p, a)
           \/ Crash \/ UNCHANGED vars
  BY <1>3 DEF ReplaceListing, BuyerPays, DepositCredits, Crash, vars
<1> QED
  BY <1>1, <1>2, <1>3, Zenon DEF Next

LEMMA AloneStep ==
  ASSUME HasPayment, TypeOK, [Next]_vars, NEW r \in Requests, r \notin disturbed', Alone(r)
  PROVE  Alone(r)'
<1>0. Workforce
  BY WorkforceType, Zenon
<1>1. ASSUME NEW w \in Workers, Busy(w, r)' PROVE Busy(w, r) \/ \A v \in Workers : ~Busy(v, r)
  <2>1. CASE pc'[w] = pc[w] /\ job'[w] = job[w]
    BY <1>1, <2>1 DEF Busy
  <2>2. CASE Arrive(w)
    BY <1>0, <1>1, <2>2, ArrivesAlone, Zenon
  <2>3. CASE Step(w)
    BY <1>0, <1>1, <2>3, FlowKept, Zenon DEF Busy
  <2>4. ~Crash
    BY <1>1 DEF Crash, Busy
  <2> QED
    BY <1>0, <2>1, <2>2, <2>3, <2>4, Moves, ZenonT(60)
<1>2. ASSUME NEW v \in Workers, NEW w \in Workers, v # w, Busy(v, r)', Busy(w, r)'
      PROVE  FALSE
  <2>1. (\A u \in Workers : ~Busy(u, r)) \/ (Busy(v, r) /\ Busy(w, r))
    BY <1>1, <1>2, Zenon
  <2>2. CASE Busy(v, r) /\ Busy(w, r)
    BY <1>2, <2>2, Zenon DEF Alone
  <2>3. CASE \A u \in Workers : ~Busy(u, r)
    <3>1. ~(pc'[v] = pc[v] /\ job'[v] = job[v]) /\ ~(pc'[w] = pc[w] /\ job'[w] = job[w])
      BY <1>2, <2>3 DEF Busy
    <3>2. ~Crash
      BY <1>2, Zenon DEF Crash, Busy
    <3>3. Arrive(v) \/ Step(v)
      BY <1>0, <3>1, <3>2, Moves, Zenon
    <3> QED
      BY <1>0, <1>2, <3>1, <3>3, OthersStay, Zenon
  <2> QED
    BY <2>1, <2>2, <2>3, Zenon
<1> QED
  BY <1>2 DEF Alone

LEMMA HasRowStep == HasPayment /\ TypeOK /\ HasRow /\ [Next]_vars => HasRow'
<1> SUFFICES ASSUME HasPayment, TypeOK, HasRow, [Next]_vars, NEW w \in Workers,
                    job'[w].flow = "webhook", pc'[w] # "idle"
             PROVE  Exists(job[w].req)'
  BY DEF HasRow
<1>0. Workforce /\ job[w].req \in Requests
  BY WorkforceType, JobFields, Zenon
<1>1. ASSUME job'[w].req = job[w].req, job[w].flow = "webhook", pc[w] # "idle"
      PROVE  Exists(job[w].req)'
  <2>1. PICK q \in Requests : q = job[w].req
    BY <1>0, Zenon
  <2>2. Exists(q)'
    BY <1>1, <2>1, RowKept, Zenon DEF HasRow
  <2> QED
    BY <1>1, <2>1, <2>2, Zenon DEF Exists
<1>2. CASE Arrive(w)
  <2>1. ASSUME NEW l, NEW j, StartJob(w, l, j) PROVE job'[w] = j
    BY <1>0, <2>1, Zenon DEF StartJob, Workforce
  <2>2. ASSUME NEW q \in Requests, StripeWebhook(w, q) PROVE Exists(job[w].req)'
    <3>1. job'[w] = [Job("webhook", q, 0) EXCEPT !.seen = AlreadyCompleted(q)]
      BY <2>1, <2>2 DEF StripeWebhook
    <3>2. job'[w].req = q
      BY <3>1 DEF Job
    <3>3. purchase' = purchase /\ Exists(q)
      BY <2>2, Zenon DEF StripeWebhook, storeVars
    <3> QED
      BY <3>2, <3>3, Zenon DEF Exists
  <2>3. ASSUME NEW q \in Requests,
               \/ CreatePurchaseRequest(w, q) \/ ConfirmPayment(w, q) \/ PayWithCredits(w, q)
               \/ CreateFiatPaymentIntent(w, q) \/ RefundCredits(w, q)
        PROVE  FALSE
    <3>1. \E f \in {"create", "confirm", "credits", "fiat", "refundCredits"} : \E a :
            job'[w] = Job(f, q, a)
      BY <2>1, <2>3, Zenon DEF CreatePurchaseRequest, ConfirmPayment, PayWithCredits,
         CreateFiatPaymentIntent, RefundCredits
    <3> QED
      BY <3>1, SMTT(60) DEF Job
  <2>4. ASSUME NEW p \in Peers, NEW a \in Amounts, WithdrawCredits(w, p, a) PROVE FALSE
    <3>1. job'[w] = [NoJob EXCEPT !.flow = "withdraw", !.peer = p, !.amt = a]
      BY <2>1, <2>4, Zenon DEF WithdrawCredits
    <3> QED
      BY <3>1 DEF NoJob, Job
  <2> QED
    BY <1>2, <2>2, <2>3, <2>4, Zenon DEF Arrive
<1>3. CASE Step(w)
  BY <1>0, <1>1, <1>3, FlowKept, Zenon
<1>4. ~Crash
  BY Zenon DEF Crash
<1> QED
  BY <1>0, <1>1, <1>2, <1>3, <1>4, Moves, Zenon

\* The step that takes a webhook delivery past its check or to the check.
LEMMA UnansweredFrom ==
  ASSUME HasPayment, TypeOK, HandlerOrder, NEW w \in Workers, Step(w), Unanswered(w)',
         job[w].req \notin disturbed'
  PROVE  CompleteStripeCheckout(w)
<1>0. /\ Workforce /\ RunsAs(pc[w], job[w].flow) /\ job[w].flow = "webhook"
      /\ pc'[w] \in {"issue", "webhookCheck"}
  BY WorkforceType, FlowKept, Zenon DEF HandlerOrder, Unanswered
<1>1. ASSUME NEW l, Goto(w, l) PROVE l \in {"issue", "webhookCheck"}
  BY <1>0, <1>1, Zenon DEF Goto, Workforce
<1>2. pc[w] \in {"webhookCheck", "issue", "attach", "complete", "createStore",
                 "fiatPending", "idle"}
  BY <1>0 DEF RunsAs, Workforce, Labels
<1>3. ~StoreError(w) /\ ~IgnoredError(w)
  BY Zenon DEF StoreError, IgnoredError, Fault
<1>4. ~Direct(w) /\ IssueFailed(w) = "idle" /\ AfterIssue(w) \in {"attach", "idle"}
  BY DEF IssueFailed, AfterIssue, Direct
<1>5. ~CompletePurchase(w) /\ ~DuplicateDelivery(w) /\ ~IssueGrant(w) /\ ~TierNotFound(w)
      /\ ~AttachGrant(w) /\ ~StorePurchaseRequest(w) /\ ~StripeError(w) /\ ~CheckoutCreated(w)
  BY <1>1, <1>4, SMTT(60) DEF CompletePurchase, DuplicateDelivery, IssueGrant, TierNotFound,
     AttachGrant, StorePurchaseRequest, StripeError, CheckoutCreated, Finish, Stop
<1>6. ~NotVerified(w) /\ ~VerifyTransaction(w) /\ ~PaymentConfirmed(w)
  BY <1>2, Zenon DEF NotVerified, VerifyTransaction, PaymentConfirmed
<1>7. ~AtomicDeductCredits(w) /\ ~InsufficientCredits(w) /\ ~CreateCreditsTransaction(w)
      /\ ~CreditProvider(w) /\ ~CreditsDeducted(w) /\ ~RefundBuyer(w)
  BY <1>2, ZenonT(60) DEF AtomicDeductCredits, InsufficientCredits, CreateCreditsTransaction,
     CreditProvider, CreditsDeducted, RefundBuyer
<1>8. ~DeductFromProvider(w) /\ ~CreditBuyer(w) /\ ~GiveBack(w) /\ ~ApplyWithdrawal(w)
  BY <1>2, ZenonT(60) DEF DeductFromProvider, CreditBuyer, GiveBack, ApplyWithdrawal
<1> QED
  BY <1>3, <1>5, <1>6, <1>7, <1>8, Zenon DEF Step

\* Only an unanswered delivery issues a grant of the webhook.
LEMMA WebhookGrants ==
  ASSUME TypeOK, [Next]_vars, NEW r, GrantsOf(r, "webhook")' # GrantsOf(r, "webhook")
  PROVE  \E w \in Workers : /\ IssueGrant(w) /\ job[w].req = r /\ Unanswered(w)
                            /\ GrantsOf(r, "webhook")' = GrantsOf(r, "webhook") \cup {Len(grants) + 1}
<1>1. grants' # grants
  BY DEF GrantsOf
<1>2. PICK w \in Workers : IssueGrant(w)
  BY <1>1, GrantsWritten, Zenon
<1>3. GrantsOf(r, "webhook")' = IF job[w].req = r /\ job[w].flow = "webhook"
                                THEN GrantsOf(r, "webhook") \cup {Len(grants) + 1}
                                ELSE GrantsOf(r, "webhook")
  BY <1>2, GrantsOfIssued, Zenon
<1>4. job[w].req = r /\ job[w].flow = "webhook"
  BY <1>3
<1>5. Unanswered(w)
  BY <1>2, <1>4, Zenon DEF IssueGrant, Unanswered
<1> QED
  BY <1>2, <1>3, <1>4, <1>5, Zenon

LEMMA FreshStep ==
  ASSUME HasPayment, TypeOK, HandlerOrder, [Next]_vars, NEW r \in Requests,
         r \notin disturbed', OneGrant(r)
  PROVE  Fresh(r)'
<1> SUFFICES ASSUME NEW w \in Workers, Unanswered(w)', job'[w].req = r
             PROVE  GrantsOf(r, "webhook")' = {}
  BY DEF Fresh
<1>0. Workforce
  BY WorkforceType, Zenon
<1>1. ASSUME Unanswered(w), job[w].req = r, ~IssueGrant(w)
      PROVE  GrantsOf(r, "webhook")' = {}
  <2>1. GrantsOf(r, "webhook") = {}
    BY <1>1, Zenon DEF OneGrant, Fresh
  <2>2. ASSUME NEW v \in Workers, IssueGrant(v), job[v].req = r, Unanswered(v) PROVE FALSE
    <3>1. Busy(v, r) /\ Busy(w, r)
      BY <1>1, <2>2, Zenon DEF Busy, Unanswered
    <3>2. v = w
      BY <3>1, Zenon DEF OneGrant, Alone
    <3> QED
      BY <1>1, <2>2, <3>2, Zenon
  <2> QED
    BY <2>1, <2>2, WebhookGrants, Zenon
<1>2. CASE pc'[w] = pc[w] /\ job'[w] = job[w]
  <2>1. Unanswered(w) /\ job[w].req = r
    BY <1>2, Zenon DEF Unanswered
  <2>2. ~IssueGrant(w)
    BY <1>0, <1>2, Zenon DEF IssueGrant, AfterIssue, Goto, Workforce
  <2> QED
    BY <1>1, <2>1, <2>2, Zenon
<1>3. CASE Step(w)
  <2>1. job[w].req = r
    BY <1>0, <1>3, FlowKept, Zenon
  <2>2. CompleteStripeCheckout(w)
    BY <1>3, <2>1, UnansweredFrom, Zenon
  <2>3. Unanswered(w) /\ ~IssueGrant(w)
    BY <2>2, Zenon DEF CompleteStripeCheckout, Unanswered, HandlerOrder, RunsAs, IssueGrant
  <2> QED
    BY <1>1, <2>1, <2>3, Zenon
<1>4. CASE Arrive(w)
  <2>1. ASSUME NEW l, NEW j, StartJob(w, l, j) PROVE job'[w] = j
    BY <1>0, <2>1, Zenon DEF StartJob, Workforce
  <2>2. Busy(w, r)'
    BY Zenon DEF Busy, Unanswered
  <2>3. \A v \in Workers : ~Busy(v, r)
    BY <1>0, <1>4, <2>2, ArrivesAlone, Zenon
  <2>4. ASSUME NEW q \in Requests, StripeWebhook(w, q) PROVE GrantsOf(r, "webhook")' = {}
    <3>1. job'[w] = [Job("webhook", q, 0) EXCEPT !.seen = AlreadyCompleted(q)]
          /\ pc'[w] = "webhookCheck" /\ grants' = grants
      BY <1>0, <2>1, <2>4, Zenon DEF StripeWebhook, StartJob, Goto, Workforce, storeVars
    <3>2. job'[w].req = q /\ job'[w].seen = AlreadyCompleted(q)
      BY <3>1 DEF Job
    <3>3. ~AlreadyCompleted(r)
      BY <3>1, <3>2, Zenon DEF Unanswered
    <3>4. GrantsOf(r, "webhook") = {}
      BY <2>3, <3>3, Zenon DEF OneGrant, Delivered, Attaching
    <3> QED
      BY <3>1, <3>4, Zenon DEF GrantsOf
  <2>5. ASSUME NEW q \in Requests,
               \/ CreatePurchaseRequest(w, q) \/ ConfirmPayment(w, q) \/ PayWithCredits(w, q)
               \/ CreateFiatPaymentIntent(w, q) \/ RefundCredits(w, q)
        PROVE  FALSE
    <3>1. \E f \in {"create", "confirm", "credits", "fiat", "refundCredits"} : \E a :
            job'[w] = Job(f, q, a)
      BY <2>1, <2>5, ZenonT(60) DEF CreatePurchaseRequest, ConfirmPayment, PayWithCredits,
         CreateFiatPaymentIntent, RefundCredits
    <3> QED
      BY <3>1, SMTT(60) DEF Job, Unanswered
  <2>6. ASSUME NEW p \in Peers, NEW a \in Amounts, WithdrawCredits(w, p, a) PROVE FALSE
    <3>1. job'[w] = [NoJob EXCEPT !.flow = "withdraw", !.peer = p, !.amt = a]
      BY <2>1, <2>6, Zenon DEF WithdrawCredits
    <3> QED
      BY <3>1 DEF NoJob, Job, Unanswered
  <2> QED
    BY <1>4, <2>4, <2>5, <2>6, Zenon DEF Arrive
<1>5. ~Crash
  BY Zenon DEF Crash, Unanswered
<1> QED
  BY <1>0, <1>2, <1>3, <1>4, <1>5, Moves, Zenon

LEMMA SingleStep ==
  ASSUME TypeOK, [Next]_vars, NEW r \in Requests, OneGrant(r)
  PROVE  Single(r)'
<1>1. CASE GrantsOf(r, "webhook")' = GrantsOf(r, "webhook")
  BY <1>1, Zenon DEF OneGrant, Single
<1>2. ASSUME NEW w \in Workers, job[w].req = r, Unanswered(w),
             GrantsOf(r, "webhook")' = GrantsOf(r, "webhook") \cup {Len(grants) + 1}
      PROVE  Single(r)'
  <2>1. GrantsOf(r, "webhook")' = {Len(grants) + 1}
    BY <1>2, Zenon DEF OneGrant, Fresh
  <2> QED
    BY <2>1, Zenon DEF Single
<1> QED
  BY <1>1, <1>2, WebhookGrants, Zenon

\* A completed purchase with its grant is left so, or the step disturbs it.
LEMMA StaysCompleted ==
  ASSUME HasPayment, TypeOK, HandlerOrder, HoldsGrant, [Next]_vars, NEW r \in Requests,
         r \notin disturbed', OneGrant(r), GrantsOf(r, "webhook") # {}, AlreadyCompleted(r)
  PROVE  AlreadyCompleted(r)'
<1>0. /\ Workforce /\ Exists(r)
      /\ purchase[r].status = "Completed" /\ GrantExists(purchase[r].grant)
  BY WorkforceType DEF AlreadyCompleted, Exists, NoRow
<1>1. ASSUME NEW g, GrantExists(g) PROVE GrantExists(g)'
  <2>1. CASE grants' = grants
    BY <1>1, <2>1, Zenon DEF GrantExists
  <2>2. ASSUME NEW w \in Workers, IssueGrant(w) PROVE GrantExists(g)'
    <3>1. Len(grants) \in Nat /\ Len(grants') = Len(grants) + 1
      BY <2>2, GrantAppended, Zenon DEF IssueGrant
    <3> QED
      BY <1>1, <3>1 DEF GrantExists
  <2> QED
    BY <2>1, <2>2, GrantsWritten, Zenon
<1>2. ASSUME purchase'[r].status = "Completed", purchase'[r].grant = purchase[r].grant
      PROVE  AlreadyCompleted(r)'
  <2>1. PICK g : g = purchase[r].grant
    OBVIOUS
  <2>2. GrantExists(g)'
    BY <1>0, <1>1, <2>1, Zenon
  <2> QED
    BY <1>2, <2>1, <2>2, Zenon DEF AlreadyCompleted, GrantExists
<1>3. CASE purchase' = purchase
  BY <1>0, <1>2, <1>3, Zenon
<1>4. ASSUME NEW w \in Workers, StorePurchaseRequest(w) PROVE AlreadyCompleted(r)'
  <2>1. purchase'[r] = purchase[r]
    BY <1>0, <1>4, Zenon DEF StorePurchaseRequest, TypeOK
  <2> QED
    BY <1>0, <1>2, <2>1, Zenon
<1>5. ASSUME NEW q \in Requests, NEW s, purchase' = UpdatePurchaseStatus(q, s),
             q # r \/ s = "Completed"
      PROVE  AlreadyCompleted(r)'
  <2>1. /\ purchase'[r].grant = purchase[r].grant
        /\ r # q => purchase'[r] = purchase[r]
        /\ purchase'[q].status = IF Exists(q) THEN s ELSE NoRow
    BY <1>5, StatusWrite, Zenon
  <2> QED
    BY <1>0, <1>2, <1>5, <2>1, ZenonT(60)
<1>6. ASSUME NEW w \in Workers, AttachGrant(w) PROVE AlreadyCompleted(r)'
  <2>0. job[w].req \in Requests
    BY JobFields, Zenon
  <2>1. PICK q, g : q \in Requests /\ q = job[w].req /\ g = job[w].grant
    BY <2>0, Zenon
  <2>2. /\ r # q => purchase'[r] = purchase[r]
        /\ IF Exists(q) THEN purchase'[q].status = "Completed" /\ purchase'[q].grant = g
                        ELSE purchase'[q] = purchase[q]
    BY <1>6, <2>1, GrantWrite, ZenonT(60) DEF AttachGrant
  <2>3. GrantExists(g)'
    <3>1. pc[w] = "attach"
      BY <1>6, Zenon DEF AttachGrant
    <3>2. HasGrant(job[w].req, job[w].grant)
      BY <3>1, Zenon DEF HoldsGrant
    <3>3. GrantExists(g)
      BY <2>1, <3>2, Zenon DEF HasGrant, GrantExists
    <3> QED
      BY <1>1, <3>3
  <2>4. CASE r = q
    <3>1. purchase'[r].status = "Completed" /\ purchase'[r].grant = g
      BY <1>0, <2>2, <2>4, Zenon
    <3> QED
      BY <2>3, <3>1, Zenon DEF AlreadyCompleted, GrantExists
  <2>5. CASE r # q
    BY <1>0, <1>2, <2>2, <2>5, ZenonT(60)
  <2> QED
    BY <2>4, <2>5
<1>7. ASSUME NEW w \in Workers, CompletePurchase(w) PROVE AlreadyCompleted(r)'
  BY <1>5, <1>7, JobFields, ZenonT(60) DEF CompletePurchase
<1>8. ASSUME NEW q \in Requests, NEW s \in {"Pending", "Detected", "Confirmed"},
             purchase' = UpdatePurchaseStatus(q, s), Regress(q, s) \subseteq disturbed'
      PROVE  AlreadyCompleted(r)'
  <2>1. q # r
    BY <1>0, <1>8, Zenon DEF Regress
  <2> QED
    BY <1>5, <1>8, <2>1, Zenon
<1>9. ASSUME NEW w \in Workers, NEW q \in Requests, ConfirmPayment(w, q)
      PROVE  AlreadyCompleted(r)'
  <2>1. purchase' = UpdatePurchaseStatus(q, "Detected") /\ Regress(q, "Detected") \subseteq disturbed'
    BY <1>9, Zenon DEF ConfirmPayment
  <2> QED
    BY <1>8, <2>1, Zenon
<1>10. ASSUME NEW w \in Workers,
              \/ VerifyTransaction(w) \/ PaymentConfirmed(w) \/ CreditsDeducted(w)
              \/ CheckoutCreated(w)
       PROVE  AlreadyCompleted(r)'
  <2>1. job[w].req \in Requests
    BY JobFields
  <2>2. \E s \in {"Pending", "Detected", "Confirmed"} :
          /\ purchase' = UpdatePurchaseStatus(job[w].req, s)
          /\ Regress(job[w].req, s) \subseteq disturbed'
    BY <1>10, ZenonT(60) DEF VerifyTransaction, PaymentConfirmed, CreditsDeducted, CheckoutCreated
  <2> QED
    BY <1>8, <2>1, <2>2, Zenon
<1>11. ASSUME NEW w \in Workers, CompleteStripeCheckout(w) PROVE AlreadyCompleted(r)'
  <2>1. Unanswered(w)
    BY <1>11, ZenonT(60) DEF CompleteStripeCheckout, Unanswered, HandlerOrder, RunsAs
  <2>2. job[w].req # r
    BY <2>1, Zenon DEF OneGrant, Fresh
  <2> QED
    BY <1>5, <1>11, <2>2, JobFields, ZenonT(60) DEF CompleteStripeCheckout
<1> QED
  BY <1>3, <1>4, <1>6, <1>7, <1>9, <1>10, <1>11, PurchaseWritten, Zenon

LEMMA DeliveredStep ==
  ASSUME HasPayment, TypeOK, HandlerOrder, HoldsGrant, HasRow, [Next]_vars,
         NEW r \in Requests, r \notin disturbed', OneGrant(r)
  PROVE  Delivered(r)'
<1>0. Workforce
  BY WorkforceType, Zenon
<1>1. ASSUME NEW w \in Workers, IssueGrant(w), job[w].req = r, Unanswered(w)
      PROVE  Attaching(w, r)'
  <2>1. job'[w].flow = "webhook" /\ job'[w].req = r
    BY <1>0, <1>1, FlowKept, ZenonT(60) DEF Step, Unanswered
  <2>2. pc'[w] = "attach"
    BY <1>0, <1>1, Zenon DEF IssueGrant, AfterIssue, Goto, Workforce, Unanswered
  <2> QED
    BY <2>1, <2>2, Zenon DEF Attaching, Busy
<1>2. ASSUME NEW w \in Workers, Attaching(w, r)
      PROVE  Attaching(w, r)' \/ AlreadyCompleted(r)'
  <2>0. pc[w] = "attach" /\ job[w].req = r /\ job[w].flow = "webhook"
    BY <1>2, Zenon DEF Attaching, Busy
  <2>1. CASE pc'[w] = pc[w] /\ job'[w] = job[w]
    BY <2>0, <2>1 DEF Attaching, Busy
  <2>2. ~Crash
    BY <1>2, Zenon DEF Crash, Attaching
  <2>3. ASSUME Arrive(w) PROVE FALSE
    BY <2>0, <2>3, Zenon DEF Arrive, CreatePurchaseRequest, ConfirmPayment, PayWithCredits,
       CreateFiatPaymentIntent, StripeWebhook, RefundCredits, WithdrawCredits, StartJob
  <2>4. ASSUME Step(w) PROVE AttachGrant(w)
    <3>1. ~IgnoredError(w)
      BY <2>0 DEF IgnoredError, Fault
    <3>2. ~StoreError(w) /\ ~IssueGrant(w) /\ ~TierNotFound(w) /\ ~CompletePurchase(w)
          /\ ~DuplicateDelivery(w) /\ ~CompleteStripeCheckout(w)
      BY <2>0, Zenon DEF StoreError, IssueGrant, TierNotFound, CompletePurchase,
         DuplicateDelivery, CompleteStripeCheckout
    <3>3. ~StorePurchaseRequest(w) /\ ~NotVerified(w) /\ ~VerifyTransaction(w)
          /\ ~PaymentConfirmed(w) /\ ~AtomicDeductCredits(w) /\ ~InsufficientCredits(w)
      BY <2>0, ZenonT(60) DEF StorePurchaseRequest, NotVerified, VerifyTransaction, PaymentConfirmed,
         AtomicDeductCredits, InsufficientCredits
    <3>4. ~CreateCreditsTransaction(w) /\ ~CreditProvider(w) /\ ~CreditsDeducted(w)
          /\ ~RefundBuyer(w) /\ ~StripeError(w) /\ ~CheckoutCreated(w)
      BY <2>0, ZenonT(60) DEF CreateCreditsTransaction, CreditProvider, CreditsDeducted, RefundBuyer,
         StripeError, CheckoutCreated
    <3>5. ~DeductFromProvider(w) /\ ~CreditBuyer(w) /\ ~GiveBack(w) /\ ~ApplyWithdrawal(w)
      BY <2>0, ZenonT(60) DEF DeductFromProvider, CreditBuyer, GiveBack, ApplyWithdrawal
    <3> QED
      BY <2>4, <3>1, <3>2, <3>3, <3>4, <3>5, Zenon DEF Step
  <2>5. CASE AttachGrant(w)
    <3>1. Exists(r)
      BY <2>0, Zenon DEF HasRow
    <3>2. PICK g : g = job[w].grant
      OBVIOUS
    <3>3. purchase'[r].status = "Completed" /\ purchase'[r].grant = g
      BY <2>0, <2>5, <3>1, <3>2, GrantWrite, Zenon DEF AttachGrant
    <3>4. GrantExists(g) /\ grants' = grants
      BY <2>0, <2>5, <3>2, Zenon DEF HoldsGrant, HasGrant, GrantExists, AttachGrant
    <3> QED
      BY <3>3, <3>4, ZenonT(60) DEF AlreadyCompleted, GrantExists
  <2> QED
    BY <1>0, <2>1, <2>2, <2>3, <2>4, <2>5, Moves, ZenonT(60)
<1>3. CASE GrantsOf(r, "webhook")' # GrantsOf(r, "webhook")
  <2>1. \E w \in Workers : IssueGrant(w) /\ job[w].req = r /\ Unanswered(w)
    BY <1>3, WebhookGrants, Zenon
  <2> QED
    BY <1>1, <2>1, Zenon DEF Delivered
<1>4. CASE GrantsOf(r, "webhook")' = GrantsOf(r, "webhook") /\ GrantsOf(r, "webhook") # {}
  <2>1. AlreadyCompleted(r) \/ \E w \in Workers : Attaching(w, r)
    BY <1>4, Zenon DEF OneGrant, Delivered
  <2>2. AlreadyCompleted(r) => AlreadyCompleted(r)'
    BY <1>4, StaysCompleted, Zenon
  <2> QED
    BY <1>2, <2>1, <2>2, Zenon DEF Delivered
<1> QED
  BY <1>3, <1>4, Zenon DEF Delivered

-----------------------------------------------------------------------------
(* Pay-credits: every grant, and every handler that may still issue one, has *)
(* a debit of its own.                                                       *)

DebitPerGrant ==
    \A r \in Requests :
      Cardinality(GrantsOf(r, "credits")) + Cardinality(Debited(r)) <= charged[r]

LEMMA DebitedFinite ==
  \A r : IsFiniteSet(Debited(r)) /\ Cardinality(Debited(r)) \in Nat
BY StorefrontAssumption, FS_Subset, FS_CardinalityType DEF Debited

LEMMA GrantsOfFinite ==
  ASSUME TypeOK, NEW r, NEW f
  PROVE  IsFiniteSet(GrantsOf(r, f)) /\ Cardinality(GrantsOf(r, f)) \in Nat
<1>1. Len(grants) \in Nat
  BY DEF TypeOK
<1>2. IsFiniteSet(1 .. Len(grants))
  BY <1>1, FS_Interval
<1>3. GrantsOf(r, f) \in SUBSET (1 .. Len(grants))
  BY DEF GrantsOf
<1> QED
  BY <1>2, <1>3, FS_Subset, FS_CardinalityType, Zenon

LEMMA DebitPerGrantStep ==
  HasPayment /\ TypeOK /\ HandlerOrder /\ DebitPerGrant /\ [Next]_vars => DebitPerGrant'
<1> SUFFICES ASSUME HasPayment, TypeOK, HandlerOrder, DebitPerGrant, [Next]_vars,
                    NEW r \in Requests
             PROVE  (Cardinality(GrantsOf(r, "credits")) + Cardinality(Debited(r)) <= charged[r])'
  BY DEF DebitPerGrant
<1> DEFINE G == GrantsOf(r, "credits")
           D == Debited(r)
<1>0. /\ Workforce
      /\ charged \in [Requests -> Int]
      /\ Cardinality(G) + Cardinality(D) <= charged[r]
      /\ IsFiniteSet(G) /\ Cardinality(G) \in Nat
      /\ IsFiniteSet(D) /\ Cardinality(D) \in Nat
      /\ IsFiniteSet(D') /\ Cardinality(D') \in Nat
  <2>1. charged \in [Requests -> Int]
    BY DEF TypeOK
  <2>2. IsFiniteSet(D') /\ Cardinality(D') \in Nat
    <3>1. D' \in SUBSET Workers
      BY DEF Debited
    <3>2. IsFiniteSet(D')
      BY <3>1, StorefrontAssumption, FS_Subset, Zenon
    <3> QED
      BY <3>2, FS_CardinalityType
  <2> QED
    BY <2>1, <2>2, WorkforceType, GrantsOfFinite, DebitedFinite, Zenon DEF DebitPerGrant
<1> HIDE DEF G, D
<1>1. ASSUME NEW S, IsFiniteSet(S), NEW T, T \subseteq S
      PROVE  Cardinality(T) <= Cardinality(S)
  BY <1>1, FS_Subset, Zenon
<1>2. ASSUME NEW w \in Workers, Step(w), NEW v \in Workers, v # w
      PROVE  v \in D' <=> v \in D
  BY <1>0, <1>2, OthersStay, Zenon DEF D, Debited
<1>3. D \subseteq Workers /\ D' \subseteq Workers
  BY DEF D, Debited
<1>4. ASSUME NEW w \in Workers, AtomicDeductCredits(w)
      PROVE  Cardinality(G') + Cardinality(D') <= charged'[r]
  <2>1. Step(w) /\ G' = G /\ job' = job
    BY <1>4, ZenonT(60) DEF Step, AtomicDeductCredits, G, GrantsOf
  <2>2. CASE r = job[w].req
    <3>1. charged'[r] = charged[r] + 1
      BY <1>0, <1>4, <2>2, Zenon DEF AtomicDeductCredits
    <3>2. D' \subseteq D \cup {w}
      BY <1>2, <1>3, <2>1, Zenon
    <3>3. IsFiniteSet(D \cup {w}) /\ Cardinality(D \cup {w}) <= Cardinality(D) + 1
      <4>1. IsFiniteSet(D)
        BY <1>0, Zenon
      <4>2. /\ IsFiniteSet(D \cup {w})
            /\ Cardinality(D \cup {w}) = IF w \in D THEN Cardinality(D) ELSE Cardinality(D) + 1
        BY <4>1, FS_AddElement, Zenon
      <4> QED
        BY <1>0, <4>2, SMTT(60)
    <3>4. Cardinality(D \cup {w}) \in Nat
      BY <3>3, FS_CardinalityType, Zenon
    <3>5. Cardinality(D') <= Cardinality(D \cup {w})
      BY <1>1, <3>2, <3>3, Zenon
    <3> QED
      BY <1>0, <2>1, <3>1, <3>3, <3>4, <3>5, SMTT(60)
  <2>3. CASE r # job[w].req
    <3>1. charged'[r] = charged[r]
      BY <1>0, <1>4, <2>3, Zenon DEF AtomicDeductCredits
    <3>2. w \notin D'
      BY <2>1, <2>3 DEF D, Debited
    <3>3. Cardinality(D') <= Cardinality(D)
      <4>1. D' \subseteq D
        BY <1>2, <1>3, <2>1, <3>2, Zenon
      <4> QED
        BY <1>0, <1>1, <4>1, Zenon
    <3> QED
      BY <1>0, <2>1, <3>1, <3>3, SMTT(60)
  <2> QED
    BY <2>2, <2>3, Zenon
<1>5. ASSUME NEW w \in Workers, RefundBuyer(w)
      PROVE  Cardinality(G') + Cardinality(D') <= charged'[r]
  <2>1. Step(w) /\ G' = G /\ pc'[w] = "idle"
    BY <1>0, <1>5, ZenonT(60) DEF Step, RefundBuyer, G, GrantsOf, Stop, Goto, Workforce
  <2>2. job[w].flow = "credits" /\ pc[w] = "refund"
    BY <1>5, ZenonT(60) DEF HandlerOrder, RunsAs, RefundBuyer
  <2>3. D' = D \ {w}
    <3>1. w \notin D'
      BY <2>1 DEF D, Debited
    <3> QED
      BY <1>2, <1>3, <2>1, <3>1, Zenon
  <2>4. Cardinality(D') = IF w \in D THEN Cardinality(D) - 1 ELSE Cardinality(D)
    BY <1>0, <2>3, FS_RemoveElement, Zenon
  <2>5. w \in D <=> r = job[w].req
    BY <2>2, Zenon DEF D, Debited
  <2>6. charged'[r] = IF r = job[w].req THEN charged[r] - 1 ELSE charged[r]
    BY <1>0, <1>5, Zenon DEF RefundBuyer
  <2> QED
    BY <1>0, <2>1, <2>4, <2>5, <2>6, SMTT(60)
<1>6. ASSUME NEW w \in Workers, IssueGrant(w)
      PROVE  Cardinality(G') + Cardinality(D') <= charged'[r]
  <2>1. Step(w) /\ charged' = charged /\ pc[w] = "issue"
    BY <1>6 DEF Step, IssueGrant
  <2>2. CASE job[w].req = r /\ job[w].flow = "credits"
    <3>1. pc'[w] = "idle"
      BY <1>0, <1>6, <2>2, Zenon DEF IssueGrant, Goto, AfterIssue, Direct, Workforce
    <3>2. D' = D \ {w} /\ w \in D
      <4>1. w \notin D' /\ w \in D
        BY <2>1, <2>2, <3>1, Zenon DEF D, Debited
      <4> QED
        BY <1>2, <1>3, <2>1, <4>1, Zenon
    <3>3. Cardinality(D') = Cardinality(D) - 1
      BY <1>0, <3>2, FS_RemoveElement, Zenon
    <3>4. G' = G \cup {Len(grants) + 1}
      BY <1>6, <2>2, GrantsOfIssued, Zenon DEF G
    <3>5. Cardinality(G') <= Cardinality(G) + 1 /\ Cardinality(G') \in Nat
      <4>1. IsFiniteSet(G)
        BY <1>0
      <4>2. Cardinality(G') = IF Len(grants) + 1 \in G THEN Cardinality(G)
                                                      ELSE Cardinality(G) + 1
        BY <3>4, <4>1, FS_AddElement, ZenonT(60)
      <4> QED
        BY <1>0, <4>2
    <3> QED
      BY <1>0, <2>1, <3>3, <3>5, SMTT(60)
  <2>3. CASE ~(job[w].req = r /\ job[w].flow = "credits")
    <3>1. G' = G
      BY <1>6, <2>3, GrantsOfIssued DEF G
    <3>2. job'[w].flow = job[w].flow /\ job'[w].req = job[w].req
      BY <1>0, <2>1, FlowKept
    <3>3. w \notin D'
      BY <2>3, <3>2, Zenon DEF D, Debited
    <3>4. Cardinality(D') <= Cardinality(D)
      <4>1. D' \subseteq D
        BY <1>2, <1>3, <2>1, <3>3, Zenon
      <4> QED
        BY <1>0, <1>1, <4>1
    <3> QED
      BY <1>0, <2>1, <3>1, <3>4
  <2> QED
    BY <2>2, <2>3
<1>7. ASSUME charged' = charged, grants' = grants,
             ~ \E w \in Workers : AtomicDeductCredits(w)
      PROVE  Cardinality(G') + Cardinality(D') <= charged'[r]
  <2>1. G' = G
    BY <1>7 DEF G, GrantsOf
  <2>2. D' \subseteq D
    BY <1>3, <1>7, DebitedShrinks, Zenon DEF D
  <2>3. Cardinality(D') <= Cardinality(D)
    BY <1>0, <1>1, <2>2, Zenon
  <2> QED
    BY <1>0, <1>7, <2>1, <2>3, SMTT(60)
<1>8. Cardinality(G') + Cardinality(D') <= charged'[r]
  <2>1. grants' = grants \/ \E w \in Workers : IssueGrant(w)
    BY GrantsWritten
  <2>2. charged' = charged \/ \E w \in Workers : AtomicDeductCredits(w) \/ RefundBuyer(w)
    BY ChargedWritten
  <2> QED
    BY <1>4, <1>5, <1>6, <1>7, <2>1, <2>2, Zenon
<1> QED
  BY <1>8, Zenon DEF G, D

\* A grant of the confirm handler has a transaction the chain confirmed, one of
\* the webhook a paid checkout, and pay-credits issues no more grants than it
\* made debits that it did not refund, in every interleaving of handlers,
\* store errors and crashes.
THEOREM GrantsPaidFor == HasPayment => (Spec => []GrantsArePaid)
<1> SUFFICES ASSUME HasPayment PROVE Spec => []GrantsArePaid
  OBVIOUS
<1>1. Init => PaidHandlers /\ PaidGrants /\ DebitPerGrant
  <2> SUFFICES ASSUME Init PROVE PaidHandlers /\ PaidGrants /\ DebitPerGrant
    OBVIOUS
  <2>1. PaidHandlers /\ PaidGrants
    BY SMTT(60) DEF Init, PaidHandlers, PaidFor, PaidGrants
  <2>2. \A r \in Requests : GrantsOf(r, "credits") = {} /\ Debited(r) = {} /\ charged[r] = 0
    BY DEF Init, GrantsOf, Debited
  <2>3. DebitPerGrant
    BY <2>2, FS_EmptySet, SMTT(60) DEF DebitPerGrant
  <2> QED
    BY <2>1, <2>3
<1>2. TypeOK /\ PaidGrants /\ DebitPerGrant => GrantsArePaid
  <2> SUFFICES ASSUME TypeOK, PaidGrants, DebitPerGrant, NEW r \in Requests
               PROVE  /\ GrantsOf(r, "confirm") # {} => r \in verified
                      /\ GrantsOf(r, "webhook") # {} => checkout[r] = "paid"
                      /\ Cardinality(GrantsOf(r, "credits")) <= charged[r]
    BY DEF GrantsArePaid
  <2>1. GrantsOf(r, "confirm") # {} => r \in verified
    BY DEF PaidGrants, PaidGrant, GrantsOf
  <2>2. GrantsOf(r, "webhook") # {} => checkout[r] = "paid"
    BY DEF PaidGrants, PaidGrant, GrantsOf
  <2>3. charged[r] \in Int
    BY DEF TypeOK
  <2>4. Cardinality(GrantsOf(r, "credits")) \in Nat /\ Cardinality(Debited(r)) \in Nat
    BY GrantsOfFinite, DebitedFinite
  <2>5. Cardinality(GrantsOf(r, "credits")) + Cardinality(Debited(r)) <= charged[r]
    BY DEF DebitPerGrant
  <2> QED
    BY <2>1, <2>2, <2>3, <2>4, <2>5, SMTT(60)
<1> QED
  BY <1>1, <1>2, PaidHandlersStep, PaidGrantsStep, DebitPerGrantStep, OrderInit,
     OrderStep, TypeCorrect, PTL DEF Spec

\* However often Stripe delivers the event of one checkout, one grant is
\* issued, as long as no second handler works on the purchase at the same
\* time, no other handler moves it back from Completed, and no store error or
\* crash hits it: the duplicate check of CompleteStripeCheckout is enough then.
THEOREM OneGrantEach == HasPayment => (Spec => []OneGrantPerCheckout)
<1> SUFFICES ASSUME HasPayment PROVE Spec => []OneGrantPerCheckout
  OBVIOUS
<1>1. Init => HoldsGrant /\ OneGrantInv
  <2> SUFFICES ASSUME Init PROVE HoldsGrant /\ OneGrantInv
    OBVIOUS
  <2>1. /\ \A w \in Workers : pc[w] = "idle"
        /\ \A r \in Requests, f \in Handlers : GrantsOf(r, f) = {}
    BY SMTT(60) DEF Init, GrantsOf
  <2>2. HoldsGrant /\ HasRow
    BY <2>1, Zenon DEF HoldsGrant, HasRow
  <2>3. ASSUME NEW r \in Requests PROVE OneGrant(r)
    BY <2>1, Zenon DEF OneGrant, Alone, Busy, Single, Delivered, Fresh, Unanswered, Handlers
  <2> QED
    BY <2>2, <2>3, Zenon DEF OneGrantInv
<1>2. TypeOK /\ HandlerOrder /\ HoldsGrant /\ OneGrantInv /\ [Next]_vars => OneGrantInv'
  <2> SUFFICES ASSUME TypeOK, HandlerOrder, HoldsGrant, OneGrantInv, [Next]_vars
               PROVE  OneGrantInv'
    OBVIOUS
  <2>1. HasRow'
    BY HasRowStep, Zenon DEF OneGrantInv
  <2>2. ASSUME NEW r \in Requests, r \notin disturbed' PROVE OneGrant(r)'
    <3>1. OneGrant(r) /\ HasRow
      BY <2>2, DisturbedGrows, Zenon DEF OneGrantInv
    <3>2. Alone(r)'
      BY <2>2, <3>1, AloneStep, Zenon DEF OneGrant
    <3>3. Single(r)' /\ Delivered(r)' /\ Fresh(r)'
      BY <2>2, <3>1, SingleStep, DeliveredStep, FreshStep, Zenon
    <3> QED
      BY <3>2, <3>3, Zenon DEF OneGrant
  <2> QED
    BY <2>1, <2>2 DEF OneGrantInv
<1>3. TypeOK /\ OneGrantInv => OneGrantPerCheckout
  <2> SUFFICES ASSUME TypeOK, OneGrantInv, NEW r \in Requests \ disturbed
               PROVE  Cardinality(GrantsOf(r, "webhook")) <= 1
    BY DEF OneGrantPerCheckout
  <2>1. GrantsOf(r, "webhook") = {} \/ \E i : GrantsOf(r, "webhook") = {i}
    <3>1. ASSUME NEW i \in GrantsOf(r, "webhook") PROVE GrantsOf(r, "webhook") = {i}
      <4>1. \A j \in GrantsOf(r, "webhook") : i = j
        BY DEF OneGrantInv, OneGrant, Single
      <4> QED
        BY <4>1, Zenon
    <3> QED
      BY <3>1
  <2> QED
    <3>1. ASSUME NEW i PROVE Cardinality({i}) = 1
      BY FS_Singleton, Zenon
    <3>2. Cardinality({}) = 0
      BY FS_EmptySet, Zenon
    <3>3. Cardinality(GrantsOf(r, "webhook")) \in {0, 1}
      BY <2>1, <3>1, <3>2, Zenon
    <3> QED
      BY <3>3
<1> QED
  BY <1>1, <1>2, <1>3, HoldsGrantStep, OrderInit, OrderStep, TypeCorrect, PTL DEF Spec
=============================================================================
