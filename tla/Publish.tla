------------------------------ MODULE Publish ------------------------------
(***************************************************************************)
(* The publishing API on top of the record store: handlePublish and        *)
(* handlePublishBatch validate a record, ask the StorageQuotaManager, and  *)
(* store it.  The quota is checked by one store call and used by another,  *)
(* so handlers of one publisher interleave between the two.                *)
(*                                                                         *)
(* handlePublish is a batch of one record.  A request that is refused      *)
(* before its first record (disabled, unknown schema, no session) changes  *)
(* nothing; a batch whose body is cut off is a shorter batch.              *)
(***************************************************************************)
EXTENDS FlatSQLStore, Sequences, FiniteSetsExt

CONSTANTS
    Workers,   \* invocations of the publish handlers
    Size,      \* length of a record's bytes, by key
    Quota,     \* quota of each publisher: its own, or defaultQuotaBytes
    Invalid,   \* keys whose bytes the validator refuses
    MaxBatch   \* bound on the number of records in a batch

ASSUME PublishAssumption ==
    /\ Size \in [Keys -> Nat \ {0}]
    /\ Quota \in [Peers -> Nat]
    /\ Invalid \subseteq Keys
    /\ MaxBatch \in Nat \ {0}
    /\ IsFiniteSet(Keys) /\ IsFiniteSet(Workers)

VARIABLES
    pc,    \* "idle", "check" (the next record) or "store" (a record that was checked)
    who,   \* the publisher a worker acts for: the session's xpub
    todo,  \* records a worker has yet to handle
    peak   \* history: most handlers of a publisher between check and store at once

handlerVars == <<pc, who, todo, peak>>
publishVars == <<storeVars, handlerVars>>

Batches == UNION {[1..n -> Keys] : n \in 1..MaxBatch}
MaxSize == Max({Size[k] : k \in Keys})

PublishTypeOK ==
    /\ TypeOK
    /\ pc \in [Workers -> {"idle", "check", "store"}]
    /\ who \in [Workers -> Peers]
    /\ todo \in [Workers -> Batches \cup {<<>>}]
    /\ peak \in [Peers -> Nat]
    /\ \A w \in Workers : pc[w] = "idle" <=> todo[w] = <<>>

PublishInit ==
    /\ Init
    /\ pc = [w \in Workers |-> "idle"]
    /\ who \in [Workers -> Peers]
    /\ todo = [w \in Workers |-> <<>>]
    /\ peak = [p \in Peers |-> 0]

\* PeerStorageBytes: the sizes of the records that are attributed to a publisher.
PeerStorageBytes(p) ==
    MapThenSumSet(LAMBDA k : Size[k], {k \in Keys : Present(k) /\ table[k].peer = p})

\* Mutant: the new record is not counted.
CheckUsed(p, size) == PeerStorageBytes(p) <= Quota[p]

CheckQuota(p, size) == PeerStorageBytes(p) + size <= Quota[p]

\* Handlers of a publisher whose record was checked and is not stored yet.
Checked(p) == {w \in Workers : pc[w] = "store" /\ who[w] = p}
-----------------------------------------------------------------------------
Publish(w, p, batch) ==
    /\ pc[w] = "idle"
    /\ pc' = [pc EXCEPT ![w] = "check"]
    /\ who' = [who EXCEPT ![w] = p]
    /\ todo' = [todo EXCEPT ![w] = batch]
    /\ UNCHANGED <<storeVars, peak>>

\* Mutant: the handler does not stop after its last record.
GoOn(w) ==
    /\ todo' = [todo EXCEPT ![w] = Tail(@)]
    /\ pc' = [pc EXCEPT ![w] = "check"]
    /\ UNCHANGED who

\* On to the next record of the batch, or to the answer.
Advance(w) ==
    /\ todo' = [todo EXCEPT ![w] = Tail(@)]
    /\ pc' = [pc EXCEPT ![w] = IF Len(todo[w]) = 1 THEN "idle" ELSE "check"]
    /\ UNCHANGED who

\* A record that is not valid is skipped.
ValidationFailed(w) ==
    /\ pc[w] = "check"
    /\ Head(todo[w]) \in Invalid
    /\ Advance(w)
    /\ UNCHANGED <<storeVars, peak>>

\* A record for which there is no room ends the batch.
QuotaExceeded(w) ==
    /\ pc[w] = "check"
    /\ Head(todo[w]) \notin Invalid
    /\ ~CheckQuota(who[w], Size[Head(todo[w])])
    /\ todo' = [todo EXCEPT ![w] = <<>>]
    /\ pc' = [pc EXCEPT ![w] = "idle"]
    /\ UNCHANGED <<storeVars, who, peak>>

QuotaLeft(w) ==
    /\ pc[w] = "check"
    /\ Head(todo[w]) \notin Invalid
    /\ CheckQuota(who[w], Size[Head(todo[w])])
    /\ pc' = [pc EXCEPT ![w] = "store"]
    /\ peak' = [peak EXCEPT ![who[w]] = Max({@, Cardinality(Checked(who[w])) + 1})]
    /\ UNCHANGED <<storeVars, who, todo>>

StoreRecord(w) ==
    /\ pc[w] = "store"
    /\ Store(Head(todo[w]), who[w])
    /\ Advance(w)
    /\ UNCHANGED peak

\* Store returns an error and the batch goes on with the next record.
StoreFailed(w) ==
    /\ pc[w] = "store"
    /\ Advance(w)
    /\ UNCHANGED <<storeVars, peak>>

\* Deletions, retention and the clock.
Upkeep ==
    /\ \/ \E k \in Keys : Delete(k)
       \/ \E maxAge \in Ages : GarbageCollect(maxAge)
       \/ RebuildIndex \/ Tick
    /\ UNCHANGED handlerVars

PublishNext ==
    \/ \E w \in Workers :
          \/ \E p \in Peers, batch \in Batches : Publish(w, p, batch)
          \/ ValidationFailed(w) \/ QuotaExceeded(w) \/ QuotaLeft(w)
          \/ StoreRecord(w) \/ StoreFailed(w)
    \/ Upkeep

PublishSpec == PublishInit /\ [][PublishNext]_publishVars
-----------------------------------------------------------------------------
\* What CheckQuota followed by Store does guarantee, whatever is deleted,
\* collected or stored twice: a publisher exceeds its quota by at most one record
\* for every further handler it had between the two calls at the same time.
\* Without concurrent handlers the quota is exact.
OverrunBounded ==
    \A p \in Peers :
        PeerStorageBytes(p) <= Quota[p] + (Max({peak[p], 1}) - 1) * MaxSize
=============================================================================
