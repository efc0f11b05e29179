-------------------------- MODULE StorefrontLedger --------------------------
(* The storefront's credits as a whole: what is in the accounts, what the  *)
(* handlers hold and what was lost, and the ledger they implement.         *)
EXTENDS Storefront, Functions

Escrow == SumFunctionOnSet([w \in Workers |-> Held(w)], Workers)
Lost == SumFunctionOnSet(lost, Workers)

(* Credits are neither made nor destroyed by payments and refunds: what    *)
(* the accounts hold, what handlers have taken and not yet put elsewhere,  *)
(* and what was lost is what was deposited less what was withdrawn.        *)
CreditsConserved ==
    SumFunctionOnSet(balance, Peers) + Escrow + Lost = minted

(* The credits table implements a ledger whose only moves are deposits and *)
(* moves between an account that has the amount and the escrow, the escrow *)
(* being what the handlers hold.                                           *)
Ledger == INSTANCE CreditsLedger WITH
            Accounts <- Peers, Quantities <- Prices \cup Amounts \cup {FixedPrice},
            account <- balance, escrow <- Escrow, void <- Lost, issued <- minted

ImplementsLedger == Ledger!Spec
=============================================================================
