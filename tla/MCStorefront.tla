---------------------------- MODULE MCStorefront ----------------------------
(* Instances of Storefront for TLC. *)
EXTENDS StorefrontLedger, TLC

CONSTANTS r1, r2, l1, buyer, provider, w1, w2, w3

MCBuyerOf == [r \in Requests |-> buyer]
MCListingOf == [r \in Requests |-> l1]
MCProviderOf == [l \in Listings |-> provider]

StripeFlows == {"create", "fiat", "webhook"}
CreditsFlows == {"create", "credits", "deposit"}
AllFlows == {"create", "confirm", "credits", "fiat", "webhook", "deposit",
             "withdraw", "refundCredits"}
DirectFlows == {"create", "confirm", "credits", "deposit"}

Symmetry == Permutations(Workers)
=============================================================================
