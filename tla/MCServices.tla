----------------------------- MODULE MCServices -----------------------------
(***************************************************************************)
(* The node's services that share no state with one another, checked as    *)
(* one specification: the initial state says which of them is looked at,   *)
(* and only that one moves.  Its behaviours are those of each of them.     *)
(* The subscription manager is looked at twice, with the delivery of       *)
(* messages and with the bridge: neither of these reads what the other     *)
(* writes.                                                                 *)
(***************************************************************************)
EXTENDS TipQueue, Ingest, Audit, RateLimit, Auth, License, PeerRegistry, Subscriptions

CONSTANTS
    p1, omm, cdm, c1, c2,         \* tips
    a, b, k,                      \* accounts and a key
    d1, d1fbs, s1                 \* subscriptions

\* Conjunction messages are pinned and urgent; other tips are only queued.
MCSystemDefault == [autoFetch |-> FALSE, autoPin |-> FALSE, ttl |-> 3, priority |-> 0]
MCSchemaConfigs == {[autoFetch |-> FALSE, autoPin |-> TRUE, ttl |-> 1, priority |-> 1]}
MCSourceConfigs ==
    {[trusted |-> TRUE, autoFetch |-> TRUE, autoPin |-> Nil, ttl |-> 4,
      schemaOverrides |-> NoOverrides]}

\* The configuration names an administrator, without a key, and the node attests none.
MCConfigUsers == a :> [trust |-> 5, key |-> NoKey]
MCAttested == <<>>

\* Two names of one schema, with and without suffix.
MCStem == d1 :> s1 @@ d1fbs :> s1
MCConfigs ==
    {[dataTypes |-> {d1}, sourcePeers |-> {All}, rateLimit |-> 1],
     [dataTypes |-> {d1}, sourcePeers |-> {All}, rateLimit |-> 2],
     [dataTypes |-> {d1fbs}, sourcePeers |-> {p1}, rateLimit |-> 0]}

MCStartDays == {NoDay, 0}

VARIABLE service  \* the service that is looked at

services == {"tips", "ingest", "audit", "limit", "auth", "license", "peers",
             "delivery", "topics"}

allVars == <<service, tipVars, ingestVars, auditVars, limitVars, authVars, licenseVars,
             peersVars, subscriptionVars>>

\* The state of the service that is looked at is well typed.
ServicesTypeOK ==
    CASE service = "tips" -> TipTypeOK
      [] service = "ingest" -> IngestTypeOK
      [] service = "audit" -> AuditTypeOK
      [] service = "limit" -> LimitTypeOK
      [] service = "auth" -> AuthTypeOK
      [] service = "license" -> LicenseTypeOK
      [] service = "peers" -> PeersTypeOK
      [] service \in {"delivery", "topics"} -> SubscriptionsTypeOK

\* The ingestion when another service is looked at: up to date, with nothing to do.
IngestAtRest ==
    /\ today = 1 /\ startDay = NoDay
    /\ lastDay = 0 /\ savedDay = 0
    /\ step = "idle" /\ batchStart = 0 /\ endDay = 0
    /\ stored = {0} /\ cut = {} /\ from = 0
    /\ ingestFaults = 0

Init ==
    /\ service \in services
    /\ TipInit /\ AuditInit /\ LimitInit /\ AuthInit
    /\ LicenseInit /\ PeersInit /\ SubscriptionsInit
    /\ IF service = "ingest" THEN IngestInit ELSE IngestAtRest

Next ==
    \/ /\ service = "tips" /\ TipNext
       /\ UNCHANGED <<service, ingestVars, auditVars, limitVars, authVars, licenseVars,
                      peersVars, subscriptionVars>>
    \/ /\ service = "ingest" /\ IngestNext
       /\ UNCHANGED <<service, tipVars, auditVars, limitVars, authVars, licenseVars,
                      peersVars, subscriptionVars>>
    \/ /\ service = "audit" /\ AuditNext
       /\ UNCHANGED <<service, tipVars, ingestVars, limitVars, authVars, licenseVars,
                      peersVars, subscriptionVars>>
    \/ /\ service = "limit" /\ LimitNext
       /\ UNCHANGED <<service, tipVars, ingestVars, auditVars, authVars, licenseVars,
                      peersVars, subscriptionVars>>
    \/ /\ service = "auth" /\ AuthNext
       /\ UNCHANGED <<service, tipVars, ingestVars, auditVars, limitVars, licenseVars,
                      peersVars, subscriptionVars>>
    \/ /\ service = "license" /\ LicenseNext
       /\ UNCHANGED <<service, tipVars, ingestVars, auditVars, limitVars, authVars,
                      peersVars, subscriptionVars>>
    \/ /\ service = "peers" /\ PeersNext
       /\ UNCHANGED <<service, tipVars, ingestVars, auditVars, limitVars, authVars,
                      licenseVars, subscriptionVars>>
    \/ /\ \/ service \in {"delivery", "topics"} /\ ManagerNext
          \/ service = "delivery" /\ DeliveryNext
          \/ service = "topics" /\ BridgeNext
       /\ UNCHANGED <<service, tipVars, ingestVars, auditVars, limitVars, authVars,
                      licenseVars, peersVars>>

\* Only the ingestion has a property that needs fairness.
Spec == Init /\ [][Next]_allVars /\ IngestFairness
=============================================================================
