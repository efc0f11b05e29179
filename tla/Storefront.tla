----------------------------- MODULE Storefront -----------------------------
(***************************************************************************)
(* Purchases, payments, credits and access grants of the data marketplace. *)
(*                                                                         *)
(* Every method of the storefront's Store holds the store's mutex and runs *)
(* one SQL statement, so a store call is atomic; the HTTP handlers are     *)
(* sequences of store calls with nothing around them, and any number of    *)
(* handlers run at once.  A worker is one handler invocation: pc is the    *)
(* store call it is about to make and job its local variables.  A handler  *)
(* that fails answers an error and leaves what it has written.             *)
(*                                                                         *)
(* Request bodies are given: request r is for the one tier of ListingOf[r] *)
(* by BuyerOf[r].  Text fields (messages, hashes, session and intent ids)  *)
(* are left out, and with them the store calls that write nothing else.    *)
(***************************************************************************)
EXTENDS Integers, Sequences, FiniteSets

CONSTANTS
    Requests, Listings, Peers, Workers,
    BuyerOf,     \* buyer_peer_id of each request
    ListingOf,   \* listing_id of each request
    ProviderOf,  \* provider_peer_id of each listing
    Prices,      \* prices a listing's tier can have
    FixedPrice,  \* what ProcessCreditsPayment charges
    Amounts,     \* amounts DepositCredits and WithdrawCredits are called with
    HasPayment,  \* the API has a PaymentProcessor (main.go gives it one)
    Flows,       \* the operations that are called
    MaxCalls,    \* bound: handler invocations
    MaxFaults,   \* bound: store calls that return an error
    MaxCrashes,  \* bound: crashes of the server
    MaxOffers    \* bound: replacements of a listing

ASSUME StorefrontAssumption ==
    /\ Requests # {}
    /\ IsFiniteSet(Workers) /\ IsFiniteSet(Peers)
    /\ BuyerOf \in [Requests -> Peers]
    /\ ListingOf \in [Requests -> Listings]
    /\ ProviderOf \in [Listings -> Peers]
    /\ Prices \subseteq Nat \ {0}
    /\ FixedPrice \in Nat \ {0}
    /\ Amounts \subseteq Nat \ {0}
    /\ HasPayment \in BOOLEAN

VARIABLES
    purchase,   \* storefront_purchases: [status, grant, amount] of a request
    offer,      \* price of each listing's tier, NoOffer if it has none
    grants,     \* storefront_grants; a grant's id is its position
    balance,    \* storefront_credits
    txs,        \* number of credits transactions recorded for a request
    checkout,   \* external: the request's Stripe checkout
    verified,   \* external: requests with a transaction the chain confirmed
    pc, job,    \* the workers
    charged,    \* history: debits less refunds of pay-credits for a request
    lost,       \* history: credits a worker took that no account got
    minted,     \* history: credits deposited less credits withdrawn
    acked,      \* history: requests with a webhook delivery answered 200
    disturbed,  \* history: see OneGrantPerCheckout
    used        \* how much of each bound is used

storeVars == <<purchase, offer, grants, balance, txs>>
externalVars == <<checkout, verified>>
historyVars == <<charged, lost, minted, acked>>
vars == <<storeVars, externalVars, pc, job, historyVars, disturbed, used>>

NoRow == "NoRow"
NoGrant == 0
NoOffer == 0

Status == {NoRow, "Pending", "Detected", "Confirmed", "Completed"}

Handlers == {"create", "confirm", "credits", "fiat", "webhook", "withdraw",
             "refundCredits", "again"}

Labels == {"idle", "createStore", "verify", "confirm", "deduct", "recordTx",
           "creditProvider", "confirmCredits", "refund", "fiatPending",
           "webhookCheck", "issue", "attach", "complete", "withdraw",
           "refundDebit", "refundCredit", "giveBack"}

PurchaseRow == [status : Status, grant : Nat, amount : Nat]
Jobs == [flow : Handlers, req : Requests, peer : Peers, amt : Nat, grant : Nat,
         seen : BOOLEAN]

TypeOK ==
    /\ purchase \in [Requests -> PurchaseRow]
    /\ offer \in [Listings -> Prices \cup {NoOffer}]
    /\ grants \in Seq([request : Requests, flow : Handlers, row : BOOLEAN])
    /\ balance \in [Peers -> Int]
    /\ txs \in [Requests -> Nat]
    /\ checkout \in [Requests -> {"none", "open", "paid"}]
    /\ verified \subseteq Requests
    /\ pc \in [Workers -> Labels]
    /\ job \in [Workers -> Jobs]
    /\ charged \in [Requests -> Int]
    /\ lost \in [Workers -> Nat]
    /\ minted \in Int
    /\ acked \subseteq Requests
    /\ disturbed \subseteq Requests
    /\ used \in [calls : Nat, faults : Nat, crashes : Nat, offers : Nat]

Job(flow, r, a) == [flow |-> flow, req |-> r, peer |-> BuyerOf[r],
                    amt |-> a, grant |-> NoGrant, seen |-> FALSE]

NoJob == Job("create", CHOOSE r \in Requests : TRUE, 0)

Init ==
    /\ purchase = [r \in Requests |->
                     [status |-> NoRow, grant |-> NoGrant, amount |-> 0]]
    /\ offer \in [Listings -> Prices]
    /\ grants = << >>
    /\ balance = [p \in Peers |-> 0]
    /\ txs = [r \in Requests |-> 0]
    /\ checkout = [r \in Requests |-> "none"]
    /\ verified = {}
    /\ pc = [w \in Workers |-> "idle"]
    /\ job = [w \in Workers |-> NoJob]
    /\ charged = [r \in Requests |-> 0]
    /\ lost = [w \in Workers |-> 0]
    /\ minted = 0
    /\ acked = {}
    /\ disturbed = {}
    /\ used = [calls |-> 0, faults |-> 0, crashes |-> 0, offers |-> 0]

-----------------------------------------------------------------------------
(* The workers and the store calls they share. *)

Exists(r) == purchase[r].status # NoRow

Busy(w, r) == pc[w] # "idle" /\ job[w].req = r /\ job[w].flow # "withdraw"

Goto(w, label) == pc' = [pc EXCEPT ![w] = label]

Stop(w) == Goto(w, "idle")

\* A call arrives: a handler takes up request r with local variables j.
StartJob(w, label, j) ==
    /\ pc[w] = "idle"
    /\ Goto(w, label)
    /\ job' = [job EXCEPT ![w] = j]

Call == used.calls < MaxCalls /\ used' = [used EXCEPT !.calls = @ + 1]

\* The requests that a call for r which now writes status s disturbs.
Overlap(r) == IF \E w \in Workers : Busy(w, r) THEN {r} ELSE {}
Regress(r, s) ==
    IF purchase[r].status = "Completed" /\ s # "Completed" THEN {r} ELSE {}

\* UPDATE ... WHERE request_id = ?: an unknown request is no error.
UpdatePurchaseStatus(r, s) ==
    IF Exists(r) THEN [purchase EXCEPT ![r].status = s] ELSE purchase

UpdatePurchaseGrant(r, g) ==
    IF Exists(r)
    THEN [purchase EXCEPT ![r].status = "Completed", ![r].grant = g]
    ELSE purchase

UpdateCreditsBalance(p, delta) == [balance EXCEPT ![p] = @ + delta]

GetCreditsBalance(p) == balance[p]

Lose(w) == [lost EXCEPT ![w] = @ + job[w].amt]

CreateGrant(g) == Append(grants, g)

GrantExists(id) == id \in 1 .. Len(grants)

\* The tier a purchase is for, as its listing has it now.
TierPrice(r) == offer[ListingOf[r]]

HasTier(r) == TierPrice(r) # NoOffer

-----------------------------------------------------------------------------
(* Listings: POST /listings and listing announcements are INSERT OR REPLACE, *)
(* so a tier may change its price or go away while purchases refer to it.    *)

ReplaceListing(l) ==
    /\ used.offers < MaxOffers
    /\ used' = [used EXCEPT !.offers = @ + 1]
    /\ \E o \in (Prices \cup {NoOffer}) \ {offer[l]} :
         offer' = [offer EXCEPT ![l] = o]
    /\ UNCHANGED <<purchase, grants, balance, txs, externalVars, pc, job,
                   historyVars, disturbed>>

-----------------------------------------------------------------------------
(* handleCreatePurchase: look the tier up, then insert the purchase. *)

CreatePurchaseRequest(w, r) ==
    /\ "create" \in Flows
    /\ Call
    /\ HasTier(r)
    /\ StartJob(w, "createStore", Job("create", r, TierPrice(r)))
    /\ disturbed' = disturbed \cup Overlap(r)
    /\ UNCHANGED <<storeVars, externalVars, historyVars>>

\* Mutant of StorePurchaseRequest: the status of a listing instead.
StoreActiveRequest(w) ==
    /\ pc[w] = "createStore"
    /\ ~Exists(job[w].req)
    /\ purchase' = [purchase EXCEPT ![job[w].req] =
                      [status |-> "Active", grant |-> NoGrant, amount |-> job[w].amt]]
    /\ Stop(w)
    /\ UNCHANGED <<offer, grants, balance, txs, externalVars, job, historyVars,
                   disturbed, used>>

\* Mutant of StorePurchaseRequest: INSERT OR REPLACE.
ReplacePurchaseRequest(w) ==
    /\ pc[w] = "createStore"
    /\ purchase' = [purchase EXCEPT ![job[w].req] =
                      [status |-> "Pending", grant |-> NoGrant, amount |-> job[w].amt]]
    /\ Stop(w)
    /\ UNCHANGED <<offer, grants, balance, txs, externalVars, job, historyVars,
                   disturbed, used>>

StorePurchaseRequest(w) ==
    /\ pc[w] = "createStore"
    /\ purchase' =
         IF Exists(job[w].req)       \* the primary key is taken: an error
         THEN purchase
         ELSE [purchase EXCEPT ![job[w].req] =
                 [status |-> "Pending", grant |-> NoGrant, amount |-> job[w].amt]]
    /\ Stop(w)
    /\ UNCHANGED <<offer, grants, balance, txs, externalVars, job, historyVars,
                   disturbed, used>>

-----------------------------------------------------------------------------
(* handleConfirmPayment: VerifyCryptoPayment, then ProcessPayment.  Neither *)
(* looks at the purchase first.                                             *)

ConfirmPayment(w, r) ==
    /\ "confirm" \in Flows
    /\ Call
    /\ StartJob(w, IF HasPayment THEN "verify" ELSE "confirm", Job("confirm", r, 0))
    /\ purchase' = UpdatePurchaseStatus(r, "Detected")
    /\ disturbed' = disturbed \cup Overlap(r) \cup Regress(r, "Detected")
    /\ UNCHANGED <<offer, grants, balance, txs, externalVars, historyVars>>

\* Mutant of NotVerified: the handler goes on without looking at the result.
IgnoreVerdict(w) ==
    /\ pc[w] = "verify"
    /\ Goto(w, "confirm")
    /\ UNCHANGED <<storeVars, externalVars, job, historyVars, disturbed, used>>

\* !result.Verified: the handler answers 402.
NotVerified(w) ==
    /\ pc[w] = "verify"
    /\ Stop(w)
    /\ UNCHANGED <<storeVars, externalVars, job, historyVars, disturbed, used>>

VerifyTransaction(w) ==
    /\ pc[w] = "verify"
    /\ verified' = verified \cup {job[w].req}
    /\ purchase' = UpdatePurchaseStatus(job[w].req, "Detected")
    /\ disturbed' = disturbed \cup Regress(job[w].req, "Detected")
    /\ Goto(w, "confirm")
    /\ UNCHANGED <<offer, grants, balance, txs, checkout, job, historyVars, used>>

PaymentConfirmed(w) ==
    /\ pc[w] = "confirm"
    /\ purchase' = UpdatePurchaseStatus(job[w].req, "Confirmed")
    /\ disturbed' = disturbed \cup Regress(job[w].req, "Confirmed")
    /\ Goto(w, "issue")
    /\ UNCHANGED <<offer, grants, balance, txs, externalVars, job, historyVars, used>>

-----------------------------------------------------------------------------
(* IssueGrant and what follows it. *)

\* The worker is in ProcessCreditsPayment, which credits no provider.
Direct(w) == job[w].flow = "credits" /\ ~HasPayment

\* Where a handler goes once IssueGrant has returned a grant: pay-credits
\* through the PaymentProcessor only answers it, the others attach it.
AfterIssue(w) ==
    IF job[w].flow \in {"confirm", "webhook"} \/ Direct(w) THEN "attach" ELSE "idle"

\* Mutant of IssueFailed: no refund.
IssueFailedNoRefund(w) == "idle"

\* ... and when it has returned an error: only ProcessCreditsPayment refunds.
IssueFailed(w) == IF Direct(w) THEN "refund" ELSE "idle"

Grant(w) == [request |-> job[w].req, flow |-> job[w].flow,
             row |-> Exists(job[w].req)]

\* A purchase without a row gets the fallback grant.  Nothing asks whether
\* the purchase has a grant already.
IssueGrant(w) ==
    /\ pc[w] = "issue"
    /\ Exists(job[w].req) => HasTier(job[w].req)
    /\ grants' = CreateGrant(Grant(w))
    /\ job' = [job EXCEPT ![w].grant = Len(grants) + 1]
    /\ lost' = IF Direct(w) THEN Lose(w) ELSE lost
    /\ Goto(w, AfterIssue(w))
    /\ UNCHANGED <<purchase, offer, balance, txs, externalVars, charged, minted,
                   acked, disturbed, used>>

TierNotFound(w) ==
    /\ pc[w] = "issue"
    /\ Exists(job[w].req) /\ ~HasTier(job[w].req)
    /\ Goto(w, IssueFailed(w))
    /\ UNCHANGED <<storeVars, externalVars, job, historyVars, disturbed, used>>

AttachGrant(w) ==
    /\ pc[w] = "attach"
    /\ purchase' = UpdatePurchaseGrant(job[w].req, job[w].grant)
    /\ Goto(w, "complete")
    /\ UNCHANGED <<offer, grants, balance, txs, externalVars, job, historyVars,
                   disturbed, used>>

\* The handler's call has returned.  After ProcessCreditsPayment the handler
\* issues a grant of its own; a webhook delivery is answered with 200.
Finish(w) ==
    /\ Goto(w, IF Direct(w) THEN "issue" ELSE "idle")
    /\ job' = IF Direct(w) THEN [job EXCEPT ![w].flow = "again"] ELSE job
    /\ acked' = IF job[w].flow = "webhook" THEN acked \cup {job[w].req} ELSE acked

CompletePurchase(w) ==
    /\ pc[w] = "complete"
    /\ purchase' = UpdatePurchaseStatus(job[w].req, "Completed")
    /\ Finish(w)
    /\ UNCHANGED <<offer, grants, balance, txs, externalVars, charged, lost, minted,
                   disturbed, used>>

-----------------------------------------------------------------------------
(* handlePayWithCredits: ProcessCredits of the PaymentProcessor, or the      *)
(* service's ProcessCreditsPayment where there is none.  The purchase's      *)
(* status is not looked at.                                                  *)

PayWithCredits(w, r) ==
    /\ "credits" \in Flows
    /\ Call
    /\ Exists(r)
    /\ StartJob(w, "deduct", Job("credits", r,
                  IF HasPayment THEN purchase[r].amount ELSE FixedPrice))
    /\ disturbed' = disturbed \cup Overlap(r)
    /\ UNCHANGED <<storeVars, externalVars, historyVars>>

\* Mutant of AtomicDeductCredits: no floor, as in UpdateCreditsBalance.
DeductUnchecked(w) ==
    /\ pc[w] = "deduct"
    /\ balance' = UpdateCreditsBalance(job[w].peer, -job[w].amt)
    /\ charged' = [charged EXCEPT ![job[w].req] = @ + 1]
    /\ Goto(w, IF HasPayment THEN "recordTx" ELSE "confirmCredits")
    /\ UNCHANGED <<purchase, offer, grants, txs, externalVars, job, lost, minted,
                   acked, disturbed, used>>

AtomicDeductCredits(w) ==
    /\ pc[w] = "deduct"
    /\ balance[job[w].peer] >= job[w].amt
    /\ balance' = UpdateCreditsBalance(job[w].peer, -job[w].amt)
    /\ charged' = [charged EXCEPT ![job[w].req] = @ + 1]
    /\ Goto(w, IF HasPayment THEN "recordTx" ELSE "confirmCredits")
    /\ UNCHANGED <<purchase, offer, grants, txs, externalVars, job, lost, minted,
                   acked, disturbed, used>>

\* Mutant of InsufficientCredits: what was not deducted is refunded.
RefundAnyway(w) ==
    /\ pc[w] = "deduct"
    /\ balance[job[w].peer] < job[w].amt
    /\ Goto(w, "refund")
    /\ UNCHANGED <<storeVars, externalVars, job, historyVars, disturbed, used>>

InsufficientCredits(w) ==
    /\ pc[w] = "deduct"
    /\ balance[job[w].peer] < job[w].amt
    /\ Stop(w)
    /\ UNCHANGED <<storeVars, externalVars, job, historyVars, disturbed, used>>

CreateCreditsTransaction(w) ==
    /\ pc[w] = "recordTx"
    /\ txs' = [txs EXCEPT ![job[w].req] = @ + 1]
    /\ Goto(w, IF job[w].flow = "credits" THEN "creditProvider" ELSE "refundDebit")
    /\ UNCHANGED <<purchase, offer, grants, balance, externalVars, job, historyVars,
                   disturbed, used>>

CreditProvider(w) ==
    /\ pc[w] = "creditProvider"
    /\ balance' = UpdateCreditsBalance(ProviderOf[ListingOf[job[w].req]], job[w].amt)
    /\ Goto(w, "issue")
    /\ UNCHANGED <<purchase, offer, grants, txs, externalVars, job, historyVars,
                   disturbed, used>>

CreditsDeducted(w) ==
    /\ pc[w] = "confirmCredits"
    /\ purchase' = UpdatePurchaseStatus(job[w].req, "Confirmed")
    /\ disturbed' = disturbed \cup Regress(job[w].req, "Confirmed")
    /\ Goto(w, "issue")
    /\ UNCHANGED <<offer, grants, balance, txs, externalVars, job, historyVars, used>>

RefundBuyer(w) ==
    /\ pc[w] = "refund"
    /\ balance' = UpdateCreditsBalance(job[w].peer, job[w].amt)
    /\ charged' = [charged EXCEPT ![job[w].req] = @ - 1]
    /\ Stop(w)
    /\ UNCHANGED <<purchase, offer, grants, txs, externalVars, job, lost, minted,
                   acked, disturbed, used>>

-----------------------------------------------------------------------------
(* handlePayWithFiat: resolveCheckoutContext, the Stripe call, then the      *)
(* purchase is set to Pending again.  The caller gets the checkout's address *)
(* with the answer, so the buyer can pay only after it.  (Without a Stripe   *)
(* key the handler writes an intent id and nothing else.)                    *)

CreateFiatPaymentIntent(w, r) ==
    /\ "fiat" \in Flows /\ HasPayment
    /\ Call
    /\ Exists(r)
    /\ HasTier(r)
    /\ StartJob(w, "fiatPending", Job("fiat", r, 0))
    /\ disturbed' = disturbed \cup Overlap(r)
    /\ UNCHANGED <<storeVars, externalVars, historyVars>>

StripeError(w) ==
    /\ pc[w] = "fiatPending"
    /\ Stop(w)
    /\ UNCHANGED <<storeVars, externalVars, job, historyVars, disturbed, used>>

Opened(r) == IF checkout[r] = "none" THEN [checkout EXCEPT ![r] = "open"] ELSE checkout

CheckoutCreated(w) ==
    /\ pc[w] = "fiatPending"
    /\ purchase' = UpdatePurchaseStatus(job[w].req, "Pending")
    /\ disturbed' = disturbed \cup Regress(job[w].req, "Pending")
    /\ checkout' = Opened(job[w].req)
    /\ Stop(w)
    /\ UNCHANGED <<offer, grants, balance, txs, verified, job, historyVars, used>>

\* External: the buyer pays at Stripe's page.
BuyerPays(r) ==
    /\ checkout[r] = "open"
    /\ checkout' = [checkout EXCEPT ![r] = "paid"]
    /\ UNCHANGED <<storeVars, verified, pc, job, historyVars, disturbed, used>>

-----------------------------------------------------------------------------
(* handleStripeWebhook: Stripe delivers checkout.session.completed until a   *)
(* delivery is answered with 200, and may deliver it more often than that.   *)

Redelivery(r) ==
    r \in acked \/ \E w \in Workers : Busy(w, r) /\ job[w].flow = "webhook"

\* Mutants of AlreadyCompleted: the status the payment handlers set is
\* missed, or taken for the one the last step sets.
CompletedIfConfirmed(r) == purchase[r].status = "Confirmed"
CompletedIfPaid(r) == purchase[r].status \in {"Confirmed", "Completed"}

AlreadyCompleted(r) ==
    /\ purchase[r].status = "Completed"
    /\ GrantExists(purchase[r].grant)

\* A completed session with its payment made, for a request it names.
PaidEvent(r) == checkout[r] = "paid"

StripeWebhook(w, r) ==
    /\ "webhook" \in Flows /\ HasPayment
    /\ PaidEvent(r) /\ Exists(r)
    /\ IF Redelivery(r) THEN Call ELSE UNCHANGED used
    /\ StartJob(w, "webhookCheck",
                [Job("webhook", r, 0) EXCEPT !.seen = AlreadyCompleted(r)])
    /\ disturbed' = disturbed \cup Overlap(r)
    /\ UNCHANGED <<storeVars, externalVars, historyVars>>

\* The purchase that was read is complete and its grant exists.
DuplicateDelivery(w) ==
    /\ pc[w] = "webhookCheck"
    /\ job[w].seen
    /\ Finish(w)
    /\ UNCHANGED <<storeVars, externalVars, charged, lost, minted, disturbed, used>>

\* Mutant of CompleteStripeCheckout: the purchase is completed before the grant.
CompletedOnCheckout(w) ==
    /\ pc[w] = "webhookCheck"
    /\ ~job[w].seen
    /\ purchase' = UpdatePurchaseStatus(job[w].req, "Completed")
    /\ Goto(w, "issue")
    /\ UNCHANGED <<offer, grants, balance, txs, externalVars, job, historyVars,
                   disturbed, used>>

CompleteStripeCheckout(w) ==
    /\ pc[w] = "webhookCheck"
    /\ ~job[w].seen
    /\ purchase' = UpdatePurchaseStatus(job[w].req, "Confirmed")
    /\ Goto(w, "issue")
    /\ UNCHANGED <<offer, grants, balance, txs, externalVars, job, historyVars,
                   disturbed, used>>

-----------------------------------------------------------------------------
(* The credits operations no handler calls: RefundCredits, DepositCredits    *)
(* and WithdrawCredits.                                                      *)

RefundCredits(w, r) ==
    /\ "refundCredits" \in Flows /\ HasPayment
    /\ Call
    /\ Exists(r)
    /\ StartJob(w, "recordTx", Job("refundCredits", r, purchase[r].amount))
    /\ disturbed' = disturbed \cup Overlap(r)
    /\ UNCHANGED <<storeVars, externalVars, historyVars>>

DeductFromProvider(w) ==
    /\ pc[w] = "refundDebit"
    /\ balance' = UpdateCreditsBalance(ProviderOf[ListingOf[job[w].req]], -job[w].amt)
    /\ Goto(w, "refundCredit")
    /\ UNCHANGED <<purchase, offer, grants, txs, externalVars, job, historyVars,
                   disturbed, used>>

CreditBuyer(w) ==
    /\ pc[w] = "refundCredit"
    /\ balance' = UpdateCreditsBalance(job[w].peer, job[w].amt)
    /\ Stop(w)
    /\ UNCHANGED <<purchase, offer, grants, txs, externalVars, job, historyVars,
                   disturbed, used>>

GiveBack(w) ==
    /\ pc[w] = "giveBack"
    /\ balance' = UpdateCreditsBalance(ProviderOf[ListingOf[job[w].req]], job[w].amt)
    /\ Stop(w)
    /\ UNCHANGED <<purchase, offer, grants, txs, externalVars, job, historyVars,
                   disturbed, used>>

DepositCredits(p, a) ==
    /\ "deposit" \in Flows
    /\ Call
    /\ balance' = UpdateCreditsBalance(p, a)
    /\ minted' = minted + a
    /\ UNCHANGED <<purchase, offer, grants, txs, externalVars, pc, job, charged,
                   lost, acked, disturbed>>

\* The balance is read by one store call and changed by the next.
WithdrawCredits(w, p, a) ==
    /\ "withdraw" \in Flows
    /\ Call
    /\ GetCreditsBalance(p) >= a
    /\ StartJob(w, "withdraw",
                [NoJob EXCEPT !.flow = "withdraw", !.peer = p, !.amt = a])
    /\ UNCHANGED <<storeVars, externalVars, historyVars, disturbed>>

ApplyWithdrawal(w) ==
    /\ pc[w] = "withdraw"
    /\ balance' = UpdateCreditsBalance(job[w].peer, -job[w].amt)
    /\ minted' = minted - job[w].amt
    /\ Stop(w)
    /\ UNCHANGED <<purchase, offer, grants, txs, externalVars, job, charged, lost,
                   acked, disturbed, used>>

-----------------------------------------------------------------------------
(* Failures.  A store call that returns an error has changed nothing. *)

\* Credits the worker has taken from one account and not yet put elsewhere.
Held(w) ==
    IF \/ pc[w] \in {"creditProvider", "confirmCredits", "refund",
                     "refundCredit", "giveBack"}
       \/ pc[w] = "recordTx" /\ job[w].flow = "credits"
       \/ pc[w] = "issue" /\ Direct(w)
    THEN job[w].amt ELSE 0

\* Mutant of OnError: RefundCredits does not give back what it took.
OnErrorKeeps(w) ==
    CASE pc[w] = "recordTx" /\ job[w].flow = "credits"   -> "refund"
      [] pc[w] \in {"creditProvider", "confirmCredits"}  -> "refund"
      [] pc[w] = "issue"                                 -> IssueFailed(w)
      [] OTHER                                           -> "idle"

OnError(w) ==
    CASE pc[w] = "recordTx" /\ job[w].flow = "credits"   -> "refund"
      [] pc[w] \in {"creditProvider", "confirmCredits"}  -> "refund"
      [] pc[w] = "issue"                                 -> IssueFailed(w)
      [] pc[w] = "refundCredit"                          -> "giveBack"
      [] OTHER                                           -> "idle"

Fault(w) ==
    /\ used.faults < MaxFaults
    /\ used' = [used EXCEPT !.faults = @ + 1]
    /\ disturbed' = disturbed \cup {job[w].req}

StoreError(w) ==
    /\ pc[w] \notin {"idle", "attach", "complete", "fiatPending"}
    /\ ~job[w].seen
    /\ Fault(w)
    /\ Goto(w, OnError(w))
    /\ lost' = IF pc[w] \in {"refund", "giveBack"} THEN Lose(w) ELSE lost
    /\ UNCHANGED <<storeVars, externalVars, job, charged, minted, acked>>

\* The handlers go on after an error of these calls; the webhook's handler
\* takes a grant it cannot read for one that does not exist.
IgnoredError(w) ==
    /\ Fault(w)
    /\ \/ /\ pc[w] = "attach"
          /\ Goto(w, "complete")
          /\ UNCHANGED <<checkout, job, acked>>
       \/ /\ pc[w] = "complete"
          /\ Finish(w)
          /\ UNCHANGED checkout
       \/ /\ pc[w] = "fiatPending"
          /\ checkout' = Opened(job[w].req)
          /\ Stop(w)
          /\ UNCHANGED <<job, acked>>
       \/ /\ pc[w] = "webhookCheck" /\ job[w].seen
          /\ job' = [job EXCEPT ![w].seen = FALSE]
          /\ UNCHANGED <<pc, checkout, acked>>
    /\ UNCHANGED <<storeVars, verified, charged, lost, minted>>

\* The server dies and is started again: the handlers are gone.
Crash ==
    /\ used.crashes < MaxCrashes
    /\ used' = [used EXCEPT !.crashes = @ + 1]
    /\ pc' = [w \in Workers |-> "idle"]
    /\ lost' = [w \in Workers |-> lost[w] + Held(w)]
    /\ disturbed' = disturbed \cup {r \in Requests : \E w \in Workers : Busy(w, r)}
    /\ UNCHANGED <<storeVars, externalVars, job, charged, minted, acked>>

-----------------------------------------------------------------------------
Arrive(w) ==
    \/ \E r \in Requests :
         \/ CreatePurchaseRequest(w, r)
         \/ ConfirmPayment(w, r)
         \/ PayWithCredits(w, r)
         \/ CreateFiatPaymentIntent(w, r)
         \/ StripeWebhook(w, r)
         \/ RefundCredits(w, r)
    \/ \E p \in Peers, a \in Amounts : WithdrawCredits(w, p, a)

Step(w) ==
    \/ StorePurchaseRequest(w)
    \/ NotVerified(w) \/ VerifyTransaction(w) \/ PaymentConfirmed(w)
    \/ IssueGrant(w) \/ TierNotFound(w) \/ AttachGrant(w) \/ CompletePurchase(w)
    \/ AtomicDeductCredits(w) \/ InsufficientCredits(w)
    \/ CreateCreditsTransaction(w) \/ CreditProvider(w)
    \/ CreditsDeducted(w) \/ RefundBuyer(w)
    \/ StripeError(w) \/ CheckoutCreated(w)
    \/ DuplicateDelivery(w) \/ CompleteStripeCheckout(w)
    \/ DeductFromProvider(w) \/ CreditBuyer(w) \/ GiveBack(w) \/ ApplyWithdrawal(w)
    \/ StoreError(w) \/ IgnoredError(w)

Next ==
    \/ \E w \in Workers : Arrive(w) \/ Step(w)
    \/ \E l \in Listings : ReplaceListing(l)
    \/ \E r \in Requests : BuyerPays(r)
    \/ \E p \in Peers, a \in Amounts : DepositCredits(p, a)
    \/ Crash

Spec == Init /\ [][Next]_vars

\* A handler that runs goes on running, and Stripe goes on delivering an
\* event until one delivery is answered with 200.
FirstDelivery(r) == ~Redelivery(r) /\ \E w \in Workers : StripeWebhook(w, r)

FairSpec ==
    /\ Spec
    /\ \A w \in Workers : WF_vars(Step(w))
    /\ \A r \in Requests : WF_vars(FirstDelivery(r))

-----------------------------------------------------------------------------
(* Properties *)

GrantsOf(r, flow) ==
    {i \in 1 .. Len(grants) : grants[i].request = r /\ grants[i].flow = flow}

(* A grant is issued only for a payment of its own request: a grant of the *)
(* confirm handler needs a transaction the chain confirmed, a grant of the *)
(* webhook a paid checkout, and pay-credits issues no more grants than the *)
(* debits of the buyer that were not refunded, in whatever order handlers, *)
(* errors and crashes interleave.  It needs the PaymentProcessor: without  *)
(* one, the confirm handler asks for no transaction.                       *)
GrantsArePaid ==
    \A r \in Requests :
      /\ GrantsOf(r, "confirm") # {} => r \in verified
      /\ GrantsOf(r, "webhook") # {} => checkout[r] = "paid"
      /\ Cardinality(GrantsOf(r, "credits")) <= charged[r]

(* A purchase the store shows as Completed has a grant, and the grant id   *)
(* attached to a purchase is that of a grant issued for it: handlers that  *)
(* write the status and the grant id of one purchase at once cannot leave  *)
(* a completed purchase that gives no access.                              *)
CompletedHasGrant ==
    \A r \in Requests :
      /\ purchase[r].status = "Completed" =>
           \E i \in 1 .. Len(grants) : grants[i].request = r
      /\ purchase[r].grant # NoGrant =>
           /\ purchase[r].grant \in 1 .. Len(grants)
           /\ grants[purchase[r].grant].request = r

(* Deliveries of one checkout's event issue one grant, however often it is *)
(* delivered, as long as the purchase is not disturbed: no two handlers    *)
(* work on it at once, no other moves it back from Completed, and no store *)
(* call on it fails and no crash interrupts one.                           *)
OneGrantPerCheckout ==
    \A r \in Requests \ disturbed : Cardinality(GrantsOf(r, "webhook")) <= 1

(* AtomicDeductCredits never takes an account below zero, whichever        *)
(* payments, refunds of failed payments and crashes interleave.            *)
NoOverdraft == \A p \in Peers : balance[p] >= 0

(* A purchase keeps the amount it was created with, whatever becomes of    *)
(* the listing and of later requests with its id, and an account is        *)
(* debited exactly the amount of a purchase of its own.                    *)
QuotedPriceCharged ==
    [][ /\ \A r \in Requests :
             Exists(r) => Exists(r)' /\ purchase'[r].amount = purchase[r].amount
        /\ \A p \in Peers :
             balance'[p] < balance[p] =>
               \E r \in Requests :
                 /\ Exists(r) /\ BuyerOf[r] = p
                 /\ balance[p] - balance'[p] = purchase[r].amount ]_vars

(* A buyer who paid at Stripe gets a grant, and Stripe gets its 200: the   *)
(* deliveries that failed or were cut off by a crash are made up for.      *)
PaidIsServed ==
    \A r \in Requests :
      checkout[r] = "paid" ~>
        r \in acked /\ \E i \in 1 .. Len(grants) : grants[i].request = r

-----------------------------------------------------------------------------
(* What a comment says of the webhook's handler; it is violated.           *)

(* "Idempotent completion for duplicate webhook deliveries."               *)
(* (service.go): however often it is delivered, a checkout's event issues  *)
(* one grant.                                                              *)
IdempotentCompletion ==
    \A r \in Requests : Cardinality(GrantsOf(r, "webhook")) <= 1
=============================================================================
