---------------------------- MODULE MCStreaming ----------------------------
(* Instances of Streaming for TLC. *)
EXTENDS Streaming

CONSTANTS s1, s2, p1, p2, d1, d2, t1

\* A session in each mode, and one that no message is for.
MCKinds == {[peer |-> p1, mode |-> "streaming", topics |-> {t1}],
            [peer |-> p2, mode |-> "batch",     topics |-> {t1}],
            [peer |-> p1, mode |-> "single",    topics |-> {t1}],
            [peer |-> p2, mode |-> "streaming", topics |-> {}]}
=============================================================================
