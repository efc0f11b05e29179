---------------------------- MODULE CreditsLedger ----------------------------
(***************************************************************************)
(* What the storefront's credits promise: credits come into being only by  *)
(* a deposit, and after that they only move.  A payment moves an amount    *)
(* the account has into escrow; from there it goes to an account, or out   *)
(* of circulation.                                                         *)
(***************************************************************************)
EXTENDS Integers

CONSTANTS Accounts, Quantities

VARIABLES account, escrow, void, issued

ledgerVars == <<account, escrow, void, issued>>

LedgerInit ==
    /\ account = [p \in Accounts |-> 0]
    /\ escrow = 0
    /\ void = 0
    /\ issued = 0

Deposit(p, a) ==
    /\ account' = [account EXCEPT ![p] = @ + a]
    /\ issued' = issued + a
    /\ UNCHANGED <<escrow, void>>

Take(p, a) ==
    /\ account[p] >= a
    /\ account' = [account EXCEPT ![p] = @ - a]
    /\ escrow' = escrow + a
    /\ UNCHANGED <<void, issued>>

Give(p, a) ==
    /\ escrow >= a
    /\ account' = [account EXCEPT ![p] = @ + a]
    /\ escrow' = escrow - a
    /\ UNCHANGED <<void, issued>>

Retire(a) ==
    /\ escrow' = escrow - a
    /\ void' = void + a
    /\ UNCHANGED <<account, issued>>

LedgerNext ==
    \/ \E p \in Accounts, a \in Quantities :
         Deposit(p, a) \/ Take(p, a) \/ Give(p, a)
    \/ \E a \in 1 .. escrow : Retire(a)

Spec == LedgerInit /\ [][LedgerNext]_ledgerVars
==============================================================================
