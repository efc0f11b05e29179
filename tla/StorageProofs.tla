---------------------------- MODULE StorageProofs ----------------------------
(***************************************************************************)
(* What the record store, the gap fill of the ingestion and the audit log  *)
(* keep in their tables, for every value of their constants.  Init, Next   *)
(* and Spec are those of the store.                                        *)
(***************************************************************************)
EXTENDS FlatSQLStore, Ingest, Audit, TLAPS
-----------------------------------------------------------------------------
(* The record store, with and without failing statements.  The four        *)
(* invariants are proved one by one, each inductive relative to TypeOK and *)
(* Findable also to RecordsPast.                                           *)

\* Types: every operation of the store keeps both tables well formed, and no
\* collection uses a cutoff later than the clock.
THEOREM TypeCorrect == Spec => []TypeOK
<1>1. Init => TypeOK
  BY DEF Init, TypeOK
<1>2. TypeOK /\ [Next]_storeVars => TypeOK'
  <2> SUFFICES ASSUME TypeOK, [Next]_storeVars PROVE TypeOK'
    OBVIOUS
  <2> USE StoreAssumption DEF TypeOK
  <2>1. ASSUME NEW k \in Keys, NEW p \in Peers, Store(k, p) PROVE TypeOK'
    BY <2>1 DEF Store, InsertOrIgnore, UpsertRecordIndex, Row
  <2>2. ASSUME NEW k \in Keys, Delete(k) PROVE TypeOK'
    BY <2>2 DEF Delete
  <2>3. ASSUME NEW maxAge \in Ages, GarbageCollect(maxAge) PROVE TypeOK'
    BY <2>3 DEF GarbageCollect, IndexRowOld, Cutoff
  <2>4. CASE RebuildIndex
    <3>1. \A k \in Keys : Present(k) => table[k].timestamp \in Nat
      BY DEF Present, Row
    <3> QED
      BY <2>4, <3>1 DEF RebuildIndex
  <2>5. CASE Tick
    BY <2>5 DEF Tick
  <2>6. CASE UNCHANGED storeVars
    BY <2>6 DEF storeVars
  <2> QED
    BY <2>1, <2>2, <2>3, <2>4, <2>5, <2>6 DEF Next
<1> QED
  BY <1>1, <1>2, PTL DEF Spec

\* Without faults a collection removes from each table exactly the rows that
\* are older than the cutoff.
LEMMA CollectWithoutFaults ==
  ASSUME ~Faults, NEW maxAge \in Ages, GarbageCollect(maxAge), NEW k \in Keys
  PROVE  /\ table'[k] = IF Present(k) /\ table[k].timestamp < Cutoff(maxAge) THEN NoRow ELSE table[k]
         /\ index'[k] = IF Indexed(k) /\ index[k] < Cutoff(maxAge) THEN NoRow ELSE index[k]
         /\ floor' = IF Cutoff(maxAge) > floor THEN Cutoff(maxAge) ELSE floor
         /\ drifted' = drifted
<1>1. k[1] \in Schemas
  BY DEF Keys
<1>2. Outcomes = {TRUE}
  BY DEF Outcomes
<1>3. ASSUME NEW ok \in [Schemas -> Outcomes] PROVE ok[k[1]]
  BY <1>1, <1>2, ZenonT(60)
<1> QED
  BY <1>3 DEF GarbageCollect, IndexRowOld

\* Records are stamped with the current time, so none is ahead of the clock.
RecordsPast == \A k \in Keys : Present(k) => table[k].timestamp <= now

LEMMA RecordsPastAlways == Spec => []RecordsPast
<1>1. Init => RecordsPast
  BY DEF Init, RecordsPast, Present
<1>2. TypeOK /\ RecordsPast /\ [Next]_storeVars => RecordsPast'
  <2> SUFFICES ASSUME TypeOK, RecordsPast, [Next]_storeVars, NEW k \in Keys, Present(k)'
               PROVE  (table[k].timestamp <= now)'
    BY DEF RecordsPast
  <2>0. Present(k) => table[k].timestamp <= now
    BY DEF RecordsPast
  <2> USE <2>0 DEF TypeOK, Present, Row
  <2>1. ASSUME NEW j \in Keys, NEW p \in Peers, Store(j, p)
        PROVE  (table[k].timestamp <= now)'
    BY <2>1 DEF Store, InsertOrIgnore
  <2>2. ASSUME NEW j \in Keys, Delete(j) PROVE (table[k].timestamp <= now)'
    BY <2>2 DEF Delete
  <2>3. ASSUME NEW maxAge \in Ages, GarbageCollect(maxAge)
        PROVE  (table[k].timestamp <= now)'
    BY <2>3 DEF GarbageCollect
  <2>4. CASE RebuildIndex
    BY <2>4 DEF RebuildIndex
  <2>5. CASE Tick
    BY <2>5 DEF Tick
  <2>6. CASE UNCHANGED storeVars
    BY <2>6 DEF storeVars
  <2> QED
    BY <2>1, <2>2, <2>3, <2>4, <2>5, <2>6 DEF Next
<1> QED
  BY <1>1, <1>2, TypeCorrect, PTL DEF Spec

\* QueryByIndexedFields joins the two tables: it finds a key that is in both,
\* before and after a step.
LEMMA QueryJoins ==
  ASSUME NEW k \in Keys
  PROVE  /\ Present(k) /\ Indexed(k) <=> k[2] \in QueryByIndexedFields(k[1])
         /\ Present(k)' /\ Indexed(k)' <=> k[2] \in QueryByIndexedFields(k[1])'
<1>1. k = <<k[1], k[2]>> /\ k[2] \in CIDs
  BY DEF Keys
<1> QED
  BY <1>1 DEF QueryByIndexedFields, Present, Indexed

-----------------------------------------------------------------------------
\* No reachable state has a parsable record that the indexed query misses
\* unless its own index write failed.  The comparison of timestamps inside
\* Findable is what makes it inductive: GarbageCollect decides the two DELETEs
\* by the two timestamps separately.
THEOREM FindableAlways == Spec => []Findable
<1>1. Init => Findable
  BY DEF Init, Findable, Present
<1>2. TypeOK /\ RecordsPast /\ Findable /\ [Next]_storeVars => Findable'
  <2> SUFFICES ASSUME TypeOK, RecordsPast, Findable, [Next]_storeVars,
                      NEW k \in Keys \ Malformed,
                      Present(k)', k \notin missed'
               PROVE  Indexed(k)' /\ (index[k] >= table[k].timestamp)'
    BY QueryJoins DEF Findable
  <2>0. Present(k) /\ k \notin missed => Indexed(k) /\ index[k] >= table[k].timestamp
    BY QueryJoins DEF Findable
  <2> USE <2>0, StoreAssumption DEF TypeOK, Present, Indexed, Row
  <2>1. ASSUME NEW j \in Keys, NEW p \in Peers, Store(j, p)
        PROVE  Indexed(k)' /\ (index[k] >= table[k].timestamp)'
    <3>1. CASE k = j
      <4>1. index' = UpsertRecordIndex(k, now)
        BY <2>1, <3>1 DEF Store
      <4>2. table'[k] = IF Present(k) THEN table[k] ELSE [peer |-> p, timestamp |-> now]
        BY <2>1, <3>1 DEF Store, InsertOrIgnore
      <4>3. Present(k) => table[k].timestamp <= now
        BY DEF RecordsPast
      <4> QED
        BY <4>1, <4>2, <4>3 DEF UpsertRecordIndex
    <3>2. CASE k # j
      BY <2>1, <3>2 DEF Store, InsertOrIgnore, UpsertRecordIndex
    <3> QED
      BY <3>1, <3>2
  <2>2. ASSUME NEW j \in Keys, Delete(j)
        PROVE  Indexed(k)' /\ (index[k] >= table[k].timestamp)'
    BY <2>2 DEF Delete
  <2>3. ASSUME NEW maxAge \in Ages, GarbageCollect(maxAge)
        PROVE  Indexed(k)' /\ (index[k] >= table[k].timestamp)'
    BY <2>3 DEF GarbageCollect, IndexRowOld, Cutoff, Outcomes, Keys
  <2>4. CASE RebuildIndex
    BY <2>4 DEF RebuildIndex
  <2>5. CASE Tick
    BY <2>5 DEF Tick
  <2>6. CASE UNCHANGED storeVars
    BY <2>6 DEF storeVars
  <2> QED
    BY <2>1, <2>2, <2>3, <2>4, <2>5, <2>6 DEF Next
<1> QED
  BY <1>1, <1>2, TypeCorrect, RecordsPastAlways, PTL DEF Spec

\* Without faults, garbage collection and index rebuilds leave nothing older
\* than the highest cutoff in either table.
THEOREM RetentionAlways == Spec => []RetentionRespected
<1>1. Init => RetentionRespected
  BY DEF Init, RetentionRespected, Present, Indexed
<1>2. TypeOK /\ RetentionRespected /\ [Next]_storeVars => RetentionRespected'
  <2> SUFFICES ASSUME TypeOK, RetentionRespected, [Next]_storeVars, ~Faults,
                      NEW k \in Keys
               PROVE  /\ (Present(k) => table[k].timestamp >= floor)'
                      /\ (Indexed(k) => index[k] >= floor)'
    BY DEF RetentionRespected
  <2> DEFINE Kept == /\ (Present(k) => table[k].timestamp >= floor)'
                     /\ (Indexed(k) => index[k] >= floor)'
  <2>0. /\ Present(k) => table[k].timestamp >= floor
        /\ Indexed(k) => index[k] >= floor
    BY DEF RetentionRespected
  <2> USE <2>0, StoreAssumption DEF TypeOK, Present, Indexed, Row
  <2>1. ASSUME NEW j \in Keys, NEW p \in Peers, Store(j, p) PROVE Kept
    BY <2>1 DEF Store, InsertOrIgnore, UpsertRecordIndex
  <2>2. ASSUME NEW j \in Keys, Delete(j) PROVE Kept
    BY <2>2 DEF Delete
  <2>3. ASSUME NEW maxAge \in Ages, GarbageCollect(maxAge) PROVE Kept
    <3>1. /\ table'[k] = IF Present(k) /\ table[k].timestamp < Cutoff(maxAge) THEN NoRow ELSE table[k]
          /\ index'[k] = IF Indexed(k) /\ index[k] < Cutoff(maxAge) THEN NoRow ELSE index[k]
          /\ floor' = IF Cutoff(maxAge) > floor THEN Cutoff(maxAge) ELSE floor
      BY <2>3, CollectWithoutFaults
    <3> QED
      BY <3>1 DEF Cutoff
  <2>4. CASE RebuildIndex
    BY <2>4 DEF RebuildIndex
  <2>5. CASE Tick
    BY <2>5 DEF Tick
  <2>6. CASE UNCHANGED storeVars
    BY <2>6 DEF storeVars
  <2> QED
    BY <2>1, <2>2, <2>3, <2>4, <2>5, <2>6 DEF Next
<1> QED
  BY <1>1, <1>2, TypeCorrect, PTL DEF Spec

\* Without faults, only a key stored again while present can leave an index row
\* without a record: GarbageCollect, Delete and RebuildIndex keep the two
\* tables together for every other key.
THEOREM SyncAlways == Spec => []SyncUnlessDrifted
<1>1. Init => SyncUnlessDrifted
  BY DEF Init, SyncUnlessDrifted, Present, Indexed
<1>2. TypeOK /\ SyncUnlessDrifted /\ [Next]_storeVars => SyncUnlessDrifted'
  <2> SUFFICES ASSUME TypeOK, SyncUnlessDrifted, [Next]_storeVars, ~Faults,
                      NEW k \in (Keys \ Malformed), k \notin drifted'
               PROVE  /\ (Present(k) <=> Indexed(k))'
                      /\ (Present(k) => index[k] = table[k].timestamp)'
    BY DEF SyncUnlessDrifted
  <2> DEFINE Synced == /\ (Present(k) <=> Indexed(k))'
                       /\ (Present(k) => index[k] = table[k].timestamp)'
  <2>0. k \notin drifted => /\ Present(k) <=> Indexed(k)
                            /\ Present(k) => index[k] = table[k].timestamp
    BY DEF SyncUnlessDrifted
  <2> USE <2>0, StoreAssumption DEF TypeOK, Present, Indexed, Row
  <2>1. ASSUME NEW j \in Keys, NEW p \in Peers, Store(j, p) PROVE Synced
    BY <2>1 DEF Store, InsertOrIgnore, UpsertRecordIndex, Outcomes
  <2>2. ASSUME NEW j \in Keys, Delete(j) PROVE Synced
    BY <2>2 DEF Delete, Outcomes
  <2>3. ASSUME NEW maxAge \in Ages, GarbageCollect(maxAge) PROVE Synced
    <3>1. /\ table'[k] = IF Present(k) /\ table[k].timestamp < Cutoff(maxAge) THEN NoRow ELSE table[k]
          /\ index'[k] = IF Indexed(k) /\ index[k] < Cutoff(maxAge) THEN NoRow ELSE index[k]
          /\ drifted' = drifted
      BY <2>3, CollectWithoutFaults, ZenonT(60)
    <3> QED
      BY <3>1 DEF Cutoff
  <2>4. CASE RebuildIndex
    BY <2>4 DEF RebuildIndex
  <2>5. CASE Tick
    BY <2>5 DEF Tick
  <2>6. CASE UNCHANGED storeVars
    BY <2>6 DEF storeVars
  <2> QED
    BY <2>1, <2>2, <2>3, <2>4, <2>5, <2>6 DEF Next
<1> QED
  BY <1>1, <1>2, TypeCorrect, PTL DEF Spec

\* Store, Delete, GarbageCollect and RebuildIndex never change the peer or the
\* timestamp of a record that stays.
THEOREM AttributionAlways == Spec => AttributionFixed
<1>1. TypeOK /\ [Next]_storeVars =>
        [\A k \in Keys : Present(k) /\ Present(k)' => table'[k] = table[k]]_storeVars
  BY DEF TypeOK, Next, Store, InsertOrIgnore, Delete, GarbageCollect, IndexRowOld, RebuildIndex,
         Tick, Present, storeVars
<1> QED
  BY <1>1, TypeCorrect, PTL DEF Spec, AttributionFixed

-----------------------------------------------------------------------------
(* The gap fill of the ingestion.                                          *)

\* A batch that is being worked on starts where the checkpoint in memory ends, or
\* at the start of the sync when there is none; once it is to be checkpointed, all
\* of it was stored or cut off.  A position on disk is also one in memory, so a sync
\* without a position never moves the start under a saved one.
IngestInv ==
    /\ IngestTypeOK
    /\ NoGap
    /\ step \in {"login", "fetch", "ingest", "checkpoint", "sleep"} =>
         batchStart = IF lastDay = NoDay THEN from ELSE lastDay + 1
    /\ step = "checkpoint" => Batch \subseteq stored \cup cut
    /\ lastDay = NoDay => savedDay = NoDay

\* Initially there is no position at all.
LEMMA IngestStarts == IngestInit => IngestInv
BY IngestAssumption DEF IngestInit, IngestInv, IngestTypeOK, NoGap, Steps

\* Where a sync starts, and where a batch ends, are days.
LEMMA Days ==
    ASSUME IngestTypeOK
    PROVE  ResolveStartDay \in Int /\ BatchEnd \in Int
<1>1. BatchEnd \in Int
  BY IngestAssumption DEF IngestTypeOK, BatchEnd
<1>2. ResolveStartDay \in Int
  BY IngestAssumption DEF IngestTypeOK, ResolveStartDay
<1> QED BY <1>1, <1>2

\* A checkpointed batch extends what was stored without a gap.
LEMMA BatchExtends ==
    ASSUME IngestInv, step = "checkpoint"
    PROVE  from .. BatchEnd \subseteq stored \cup cut
<1>1. BatchEnd \in Int /\ batchStart \in Int /\ from \in Int
  BY Days DEF IngestInv, IngestTypeOK
<1>2. batchStart .. BatchEnd \subseteq stored \cup cut
  BY DEF IngestInv, Batch
<1>3. CASE lastDay = NoDay
  <2>1. batchStart = from
    BY <1>3 DEF IngestInv
  <2> QED BY <1>2, <2>1
<1>4. CASE lastDay # NoDay
  <2>1. lastDay \in Int /\ batchStart = lastDay + 1 /\ from .. lastDay \subseteq stored \cup cut
    BY <1>4 DEF IngestInv, IngestTypeOK, NoGap
  <2> QED BY <1>1, <1>2, <2>1
<1> QED BY <1>3, <1>4

\* After the checkpoint of a batch, in memory and possibly on disk.
LEMMA Checkpointed ==
    ASSUME IngestInv, step = "checkpoint", NextBatch, lastDay' = BatchEnd,
           savedDay' \in {savedDay, BatchEnd}, ingestFaults' \in Nat,
           UNCHANGED <<today, startDay, endDay, stored, cut, from>>
    PROVE  IngestInv'
<1>1. BatchEnd \in Int /\ BatchEnd # NoDay
  BY Days, IngestAssumption DEF IngestInv
<1>2. step' \in {"idle", "sleep"}
  BY DEF NextBatch
<1>3. IngestTypeOK'
  <2>1. batchStart' \in Int
    BY IngestAssumption DEF NextBatch, IngestInv, IngestTypeOK
  <2> QED BY <1>1, <1>2, <2>1 DEF IngestInv, IngestTypeOK, Steps
<1>4. NoGap'
  BY <1>1, BatchExtends DEF IngestInv, NoGap
<1>5. step' = "sleep" => batchStart' = lastDay' + 1
  <2>1. batchStart \in Int /\ endDay \in Int /\ BatchDays \in Nat \ {0}
    BY IngestAssumption DEF IngestInv, IngestTypeOK
  <2> QED BY <2>1 DEF NextBatch, BatchEnd
<1> QED BY <1>1, <1>2, <1>3, <1>4, <1>5 DEF IngestInv

\* Every step of the worker, every failure and every passing day keeps the invariant.
LEMMA IngestKeeps == IngestInv /\ [IngestNext]_ingestVars => IngestInv'
<1> SUFFICES ASSUME IngestInv, [IngestNext]_ingestVars
             PROVE  IngestInv'
  OBVIOUS
<1> USE IngestAssumption
<1>1. CASE SyncSpaceTrackGapFill
  <2>1. ResolveStartDay \in Int
    BY Days DEF IngestInv
  <2>2. IngestTypeOK'
    BY <1>1, <2>1 DEF SyncSpaceTrackGapFill, IngestInv, IngestTypeOK, Steps
  <2>3. NoGap'
    BY <1>1 DEF SyncSpaceTrackGapFill, IngestInv, NoGap
  <2>4. batchStart' = IF lastDay' = NoDay THEN from' ELSE lastDay' + 1
    BY <1>1 DEF SyncSpaceTrackGapFill, ResolveStartDay
  <2> QED BY <1>1, <2>2, <2>3, <2>4 DEF SyncSpaceTrackGapFill, IngestInv
<1>2. CASE SpaceTrackLogin
  BY <1>2 DEF SpaceTrackLogin, IngestInv, IngestTypeOK, Steps, NoGap
<1>3. CASE FetchBytes
  BY <1>3 DEF FetchBytes, IngestInv, IngestTypeOK, Steps, NoGap
<1>4. CASE IngestGPData
  <2>1. Batch \subseteq Int /\ Batch' = Batch
    BY <1>4, Days DEF IngestGPData, IngestInv, IngestTypeOK, Batch, BatchEnd
  <2> QED BY <1>4, <2>1 DEF IngestGPData, IngestInv, IngestTypeOK, Steps, NoGap
<1>5. CASE SaveCheckpoint
  BY <1>5, Checkpointed DEF SaveCheckpoint, IngestInv, IngestTypeOK
<1>6. CASE SleepBatch
  BY <1>6 DEF SleepBatch, IngestInv, IngestTypeOK, Steps, NoGap
<1>7. CASE NewRunner
  BY <1>7 DEF NewRunner, IngestInv, IngestTypeOK, Steps, NoGap
<1>8. CASE RequestFailed
  BY <1>8 DEF RequestFailed, Fault, IngestInv, IngestTypeOK, Steps, NoGap
<1>9. CASE IngestCutOff
  <2>1. Batch \subseteq Int /\ Batch' = Batch
    BY <1>9, Days DEF IngestCutOff, IngestInv, IngestTypeOK, Batch, BatchEnd
  <2>2. stored \subseteq stored' /\ stored' \subseteq stored \cup Batch
    BY <1>9 DEF IngestCutOff
  <2> QED BY <1>9, <2>1, <2>2 DEF IngestCutOff, Fault, IngestInv, IngestTypeOK, Steps, NoGap
<1>10. CASE IngestFailed
  <2>1. Batch \subseteq Int
    BY Days DEF IngestInv, IngestTypeOK, Batch
  <2>2. stored \subseteq stored' /\ stored' \subseteq stored \cup Batch
    BY <1>10 DEF IngestFailed
  <2> QED BY <1>10, <2>1, <2>2 DEF IngestFailed, Fault, IngestInv, IngestTypeOK, Steps, NoGap
<1>11. CASE SaveFailed
  BY <1>11, Checkpointed, SMTT(60) DEF SaveFailed, Fault, IngestInv, IngestTypeOK
<1>12. CASE StopIngest
  <2>1. Batch \subseteq Int
    BY Days DEF IngestInv, IngestTypeOK, Batch
  <2>2. stored \subseteq stored' /\ stored' \subseteq stored \cup Batch
    BY <1>12 DEF StopIngest
  <2> QED BY <1>12, <2>1, <2>2 DEF StopIngest, Fault, IngestInv, IngestTypeOK, Steps, NoGap
<1>13. CASE SyncCelestrak
  BY <1>13 DEF SyncCelestrak, IngestInv, IngestTypeOK, Steps, NoGap
<1>14. CASE NextDay
  BY <1>14 DEF NextDay, IngestInv, IngestTypeOK, Steps, NoGap, Batch, BatchEnd
<1>15. CASE UNCHANGED ingestVars
  BY <1>15 DEF ingestVars, IngestInv, IngestTypeOK, NoGap, Batch, BatchEnd
<1> QED
  BY <1>1, <1>2, <1>3, <1>4, <1>5, <1>6, <1>7, <1>8, <1>9, <1>10, <1>11, <1>12, <1>13,
     <1>14, <1>15 DEF IngestNext, Work

\* However the worker fails, stops and starts again, no day between the start of the
\* gap fill and its checkpoint is missing, unless its response was cut off.
THEOREM GapFillLeavesNoGap == IngestSpec => []NoGap
<1>1. IngestInv => NoGap
  BY DEF IngestInv
<1> QED BY IngestStarts, IngestKeeps, <1>1, PTL DEF IngestSpec
-----------------------------------------------------------------------------
(* The hash chain of the audit log.                                        *)

\* The hash a logger continues from.
LogHead == IF auditLog = <<>> THEN GenesisHash ELSE auditLog[Len(auditLog)].entryHash

\* A logger that stopped after its insert may lag behind; the next one reads the log.
AuditInv ==
    /\ \E S : auditLog \in Seq(S)
    /\ auditUp \in BOOLEAN
    /\ ~unread => VerifyChain /\ (auditUp => lastHash = LogHead)

\* An empty log and the genesis hash.
LEMMA AuditStarts == AuditInit => AuditInv
<1> SUFFICES ASSUME AuditInit
             PROVE  AuditInv
  OBVIOUS
<1>1. auditLog \in Seq({})
  BY DEF AuditInit
<1> QED BY <1>1 DEF AuditInit, AuditInv, VerifyChain, LogHead

\* An entry made by a logger that is up to date continues the chain.
LEMMA Continued ==
    ASSUME AuditInv, auditUp, NEW event \in Events, auditLog' = Append(auditLog, Entry(event))
    PROVE  /\ \E S : auditLog' \in Seq(S)
           /\ auditLog' # <<>> /\ auditLog'[Len(auditLog')].entryHash = Entry(event).entryHash
           /\ ~unread => VerifyChain'
<1> DEFINE e == Entry(event)
           n == Len(auditLog)
<1>1. PICK S : auditLog \in Seq(S)
  BY DEF AuditInv
<1>2. auditLog \in Seq(S \cup {e})
  BY <1>1
<1>3. /\ auditLog' \in Seq(S \cup {e}) /\ n \in Nat
      /\ Len(auditLog') = n + 1 /\ DOMAIN auditLog' = 1..(n + 1) /\ DOMAIN auditLog = 1..n
      /\ auditLog'[n + 1] = e
      /\ \A i \in 1..n : auditLog'[i] = auditLog[i]
  BY <1>2
<1>4. ASSUME ~unread
      PROVE  VerifyChain'
  <2> SUFFICES ASSUME NEW i \in 1..(n + 1)
               PROVE  /\ auditLog'[i].previousHash =
                           IF i = 1 THEN GenesisHash ELSE auditLog'[i-1].entryHash
                      /\ auditLog'[i].entryHash = ComputeEntryHash(auditLog'[i].time,
                           auditLog'[i].event, auditLog'[i].previousHash)
    BY <1>3 DEF VerifyChain, ComputeEntryHash
  <2>1. CASE i = n + 1
    <3>1. e.previousHash = lastHash /\ e.entryHash = ComputeEntryHash(e.time, e.event, e.previousHash)
      BY DEF Entry, ComputeEntryHash
    <3>2. lastHash = IF n = 0 THEN GenesisHash ELSE auditLog[n].entryHash
      BY <1>1, <1>4 DEF AuditInv, LogHead
    <3> HIDE DEF e, n
    <3>3. auditLog'[i] = e
      BY <1>3, <2>1
    <3>4. (i = 1) = (n = 0) /\ i - 1 = n /\ (n # 0 => auditLog'[n] = auditLog[n])
      BY <1>3, <2>1
    <3> QED BY <3>1, <3>2, <3>3, <3>4, Zenon
  <2>2. CASE i \in 1..n
    <3>1. /\ auditLog[i].previousHash = IF i = 1 THEN GenesisHash ELSE auditLog[i-1].entryHash
          /\ auditLog[i].entryHash = ComputeEntryHash(auditLog[i].time,
               auditLog[i].event, auditLog[i].previousHash)
      BY <1>3, <1>4, <2>2 DEF AuditInv, VerifyChain
    <3>2. auditLog'[i] = auditLog[i] /\ (i # 1 => auditLog'[i-1] = auditLog[i-1])
      BY <1>3, <2>2
    <3> QED BY <3>1, <3>2
  <2> QED BY <1>3, <2>1, <2>2
<1> QED BY <1>3, <1>4

\* Every call of the logger, every failure and every restart keeps the chain.
LEMMA AuditKeeps == AuditInv /\ [AuditNext]_auditVars => AuditInv'
<1> SUFFICES ASSUME AuditInv, [AuditNext]_auditVars
             PROVE  AuditInv'
  OBVIOUS
<1>1. ASSUME NEW event \in Events, LogWithTarget(event)
      PROVE  AuditInv'
  <2>1. /\ auditUp /\ auditLog' = Append(auditLog, Entry(event))
        /\ lastHash' = Entry(event).entryHash /\ UNCHANGED <<auditUp, unread>>
    BY <1>1 DEF LogWithTarget
  <2>2. /\ \E S : auditLog' \in Seq(S)
        /\ auditLog' # <<>> /\ auditLog'[Len(auditLog')].entryHash = Entry(event).entryHash
        /\ ~unread => VerifyChain'
    BY <2>1, Continued
  <2> QED BY <2>1, <2>2 DEF AuditInv, LogHead
<1>2. CASE \E event \in Events : InsertFailed(event)
  BY <1>2 DEF InsertFailed, AuditInv, LogHead, VerifyChain, ComputeEntryHash
<1>3. CASE StopLogger
  <2>1. auditUp /\ auditUp' = FALSE /\ UNCHANGED <<lastHash, unread>>
    BY <1>3 DEF StopLogger
  <2>2. CASE UNCHANGED auditLog
    BY <2>1, <2>2, Zenon DEF AuditInv, VerifyChain, ComputeEntryHash
  <2>3. CASE \E event \in Events : auditLog' = Append(auditLog, Entry(event))
    <3>1. (\E S : auditLog' \in Seq(S)) /\ (~unread => VerifyChain')
      BY <2>1, <2>3, Continued
    <3> QED BY <2>1, <3>1, Zenon DEF AuditInv
  <2> QED BY <1>3, <2>2, <2>3 DEF StopLogger
<1>4. CASE NewLogger
  <2>1. auditUp' = TRUE /\ UNCHANGED auditLog
    BY <1>4 DEF NewLogger
  <2>2. \/ lastHash' = LogHead /\ UNCHANGED unread
        \/ unread' = TRUE
    BY <1>4 DEF NewLogger, LogHead
  <2> QED BY <2>1, <2>2 DEF AuditInv, LogHead, VerifyChain, ComputeEntryHash
<1>5. CASE NextSecond \/ UNCHANGED auditVars
  BY <1>5 DEF NextSecond, auditVars, AuditInv, LogHead, VerifyChain, ComputeEntryHash
<1> QED
  BY <1>1, <1>2, <1>3, <1>4, <1>5 DEF AuditNext

\* As long as every logger could read the last hash when it was made, VerifyChain accepts
\* the log at every moment, whatever inserts failed and wherever the process stopped.
THEOREM ChainNeverBreaks == AuditSpec => []ChainUnbroken
<1>1. AuditInv => ChainUnbroken
  BY DEF AuditInv, ChainUnbroken, LogHead
<1> QED BY AuditStarts, AuditKeeps, <1>1, PTL DEF AuditSpec
=============================================================================
