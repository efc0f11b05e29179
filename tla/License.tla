------------------------------ MODULE License ------------------------------
(***************************************************************************)
(* The licensing service: a client asks for a challenge, proves that it    *)
(* holds its key by signing it, and gets a capability token for the plan   *)
(* its entitlement says.  Requests run concurrently, with each other and   *)
(* with an administrator who sets entitlements.                            *)
(*                                                                         *)
(* A proof request takes the challenge under the lock and then reads the   *)
(* entitlement and, if there is none, writes the free one: separate        *)
(* statements of the database.  Signatures, scopes and the format of       *)
(* tokens are left out; a request whose signature or context is wrong      *)
(* takes its challenge and ends.                                           *)
(***************************************************************************)
EXTENDS Naturals, FiniteSets

CONSTANTS
    ReqIDs,            \* req_id of a challenge request
    XPubs,             \* accounts
    RemotePeers,       \* peers of the connections
    Provers,           \* goroutines inside handleProofRequest
    Plans,             \* plans an administrator gives
    FreePlan,          \* the default plan
    NoEntry,           \* no row, no pending challenge, no request
    ChallengeTTL, TokenTTL,
    MaxPendingChallenges, MaxChallengesPerPeer,
    Expiries,          \* expiry times an administrator gives; 0 is never
    MaxClock,          \* bound: the clock
    MaxTokens          \* bound: tokens issued

Entitlement == [plan : Plans \cup {FreePlan}, active : BOOLEAN, expiresAt : Nat]

ASSUME LicenseAssumption ==
    /\ NoEntry \notin Entitlement
    /\ FreePlan \notin Plans
    /\ Expiries \subseteq Nat
    /\ {ChallengeTTL, TokenTTL, MaxPendingChallenges, MaxChallengesPerPeer,
        MaxClock, MaxTokens} \subseteq Nat

VARIABLES
    clock,         \* time.Now()
    pending,       \* challenges: by req_id
    entitlements,  \* table entitlements: by xpub
    proof,         \* handleProofRequest: its step, account, time and what it has read
    tokens,        \* history: tokens issued, with the entitlement they were issued from
    overwritten    \* history: accounts whose row, on file when a proof request began,
                   \* that request replaced by the default

licenseVars == <<clock, pending, entitlements, proof, tokens, overwritten>>

DefaultEntitlement == [plan |-> FreePlan, active |-> TRUE, expiresAt |-> 0]

LicenseTypeOK ==
    /\ clock \in 0..MaxClock
    /\ pending \in [ReqIDs -> [xpub : XPubs, remotePeer : RemotePeers, expiresAt : Nat]
                              \cup {NoEntry}]
    /\ entitlements \in [XPubs -> Entitlement \cup {NoEntry}]
    /\ \A g \in Provers : proof[g] = NoEntry \/
         /\ proof[g].step \in {"load", "create", "grant"}
         /\ proof[g].xpub \in XPubs /\ proof[g].now \in 0..MaxClock
         /\ proof[g].onFile \in BOOLEAN
         /\ proof[g].ent \in Entitlement \cup {NoEntry}
    /\ \A t \in tokens : t.exp \in Nat /\ t.ent \in Entitlement
    /\ overwritten \subseteq XPubs

LicenseInit ==
    /\ clock = 0
    /\ pending = [r \in ReqIDs |-> NoEntry]
    /\ entitlements = [x \in XPubs |-> NoEntry]
    /\ proof = [g \in Provers |-> NoEntry]
    /\ tokens = {}
    /\ overwritten = {}
-----------------------------------------------------------------------------
\* cleanupChallenges.  Its lock and the one that follows it are one step: what
\* another request does in between it may as well do before or after both.
Cleaned == [r \in ReqIDs |-> IF pending[r] # NoEntry /\ pending[r].expiresAt < clock
                             THEN NoEntry ELSE pending[r]]

PendingOf(ps, peer) == {r \in ReqIDs : ps[r] # NoEntry /\ ps[r].remotePeer = peer}

HandleChallengeRequest(r, x, peer) ==
    /\ Cleaned[r] = NoEntry
    /\ Cardinality({q \in ReqIDs : Cleaned[q] # NoEntry}) < MaxPendingChallenges
    /\ Cardinality(PendingOf(Cleaned, peer)) < MaxChallengesPerPeer
    /\ pending' = [Cleaned EXCEPT ![r] =
          [xpub |-> x, remotePeer |-> peer, expiresAt |-> clock + ChallengeTTL]]
    /\ UNCHANGED <<clock, entitlements, proof, tokens, overwritten>>

\* A challenge or proof request that is refused has still cleaned up.
RequestRefused ==
    /\ pending' = Cleaned
    /\ UNCHANGED <<clock, entitlements, proof, tokens, overwritten>>

\* handleProofRequest takes the challenge; a wrong context or signature ends it.
HandleProofRequest(g, r) ==
    /\ proof[g] = NoEntry
    /\ Cleaned[r] # NoEntry
    /\ pending' = [Cleaned EXCEPT ![r] = NoEntry]
    /\ \E valid \in BOOLEAN :
         proof' = IF valid
                  THEN [proof EXCEPT ![g] = [step |-> "load", xpub |-> Cleaned[r].xpub,
                                             now |-> clock, ent |-> NoEntry,
                                             onFile |-> entitlements[Cleaned[r].xpub] # NoEntry]]
                  ELSE proof
    /\ UNCHANGED <<clock, entitlements, tokens, overwritten>>

\* Mutant: the default is written whatever was read.
AlwaysCreates(g) ==
    /\ proof[g] # NoEntry /\ proof[g].step = "load"
    /\ proof' = [proof EXCEPT ![g].step = "create"]
    /\ UNCHANGED <<clock, pending, entitlements, tokens, overwritten>>

\* GetOrCreateEntitlement: the read.
GetEntitlement(g) ==
    /\ proof[g] # NoEntry /\ proof[g].step = "load"
    /\ LET ent == entitlements[proof[g].xpub] IN
       proof' = [proof EXCEPT ![g].step = IF ent = NoEntry THEN "create" ELSE "grant",
                              ![g].ent = ent]
    /\ UNCHANGED <<clock, pending, entitlements, tokens, overwritten>>

\* GetOrCreateEntitlement: the upsert of the default.
CreateEntitlement(g) ==
    /\ proof[g] # NoEntry /\ proof[g].step = "create"
    /\ entitlements' = [entitlements EXCEPT ![proof[g].xpub] = DefaultEntitlement]
    /\ proof' = [proof EXCEPT ![g].step = "grant", ![g].ent = DefaultEntitlement]
    /\ overwritten' = overwritten \cup (IF proof[g].onFile THEN {proof[g].xpub} ELSE {})
    /\ UNCHANGED <<clock, pending, tokens>>

\* A statement of the database fails.
EntitlementFailed(g) ==
    /\ proof[g] # NoEntry /\ proof[g].step \in {"load", "create"}
    /\ proof' = [proof EXCEPT ![g] = NoEntry]
    /\ UNCHANGED <<clock, pending, entitlements, tokens, overwritten>>

IsActive(ent, now) == ent.active /\ (ent.expiresAt = 0 \/ now < ent.expiresAt)

\* The end of handleProofRequest: a token, or the answer that the plan is inactive.
Grant(g) ==
    /\ proof[g] # NoEntry /\ proof[g].step = "grant"
    /\ LET ent == proof[g].ent
           now == proof[g].now
           full == now + TokenTTL
           exp == IF ent.expiresAt > 0 /\ ent.expiresAt < full THEN ent.expiresAt ELSE full
       IN  IF IsActive(ent, now)
           THEN /\ Cardinality(tokens) < MaxTokens
                /\ tokens' = tokens \cup {[xpub |-> proof[g].xpub, exp |-> exp, ent |-> ent]}
           ELSE UNCHANGED tokens
    /\ proof' = [proof EXCEPT ![g] = NoEntry]
    /\ UNCHANGED <<clock, pending, entitlements, overwritten>>

\* The administrator's request.
UpsertEntitlement(x, ent) ==
    /\ entitlements' = [entitlements EXCEPT ![x] = ent]
    /\ UNCHANGED <<clock, pending, proof, tokens, overwritten>>

LicenseTick ==
    /\ clock < MaxClock
    /\ clock' = clock + 1
    /\ UNCHANGED <<pending, entitlements, proof, tokens, overwritten>>

LicenseNext ==
    \/ \E r \in ReqIDs, x \in XPubs, peer \in RemotePeers : HandleChallengeRequest(r, x, peer)
    \/ RequestRefused
    \/ \E g \in Provers, r \in ReqIDs : HandleProofRequest(g, r)
    \/ \E g \in Provers :
         GetEntitlement(g) \/ CreateEntitlement(g) \/ EntitlementFailed(g) \/ Grant(g)
    \/ \E x \in XPubs, plan \in Plans, active \in BOOLEAN, expiresAt \in Expiries :
         UpsertEntitlement(x, [plan |-> plan, active |-> active, expiresAt |-> expiresAt])
    \/ LicenseTick

LicenseSpec == LicenseInit /\ [][LicenseNext]_licenseVars
-----------------------------------------------------------------------------
(***************************************************************************)
(* GetOrCreateEntitlement never replaces an entitlement that was on file   *)
(* when the proof request began, whatever runs beside it, and a token is   *)
(* issued only from an active entitlement and never outlives it.  (One     *)
(* that an administrator sets between its read and its upsert is lost.)    *)
(***************************************************************************)
EntitlementKept ==
    /\ overwritten = {}
    /\ \A t \in tokens : t.ent.active /\ (t.ent.expiresAt > 0 => t.exp <= t.ent.expiresAt)
=============================================================================
