----------------------------- MODULE MCPublish -----------------------------
(* Instances of Publish for TLC. *)
EXTENDS Publish, TLC

CONSTANTS s1, c1, c2, c3, p1, p2, w1, w2

MCSize == [k \in Keys |-> IF k[2] = c2 THEN 2 ELSE 1]
MCQuota == [p \in Peers |-> 2]
MCMalformed == {<<s1, c2>>}
MCInvalid == {<<s1, c3>>}

Symmetry == Permutations(Workers) \cup Permutations(Peers)
=============================================================================
