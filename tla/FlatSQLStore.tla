---------------------------- MODULE FlatSQLStore ----------------------------
(***************************************************************************)
(* The content-addressed record store of the node: one table of records    *)
(* per schema and one table, sdn_record_index, of the fields the API       *)
(* queries by.  Every method of FlatSQLStore holds the store's mutex for   *)
(* its whole body, so a method is one action, but it issues several SQL    *)
(* statements outside a transaction and each of them can fail on its own.  *)
(*                                                                         *)
(* A record is identified by its schema and its CID, the hash of its       *)
(* bytes; the bytes themselves and the fields extracted from them are a    *)
(* function of the CID and are left out.  What is kept of a row is who     *)
(* stored it first and the two timestamps the garbage collector compares.  *)
(***************************************************************************)
EXTENDS Integers, FiniteSets

CONSTANTS
    Schemas,    \* schema names known to the validator
    CIDs,       \* content identifiers
    Peers,      \* peers records are attributed to
    Malformed,  \* keys whose bytes extractIndexedFields cannot parse
    Ages,       \* values of GarbageCollect's maxAge
    MaxTime,    \* bound on the clock
    Faults,     \* whether a SQL statement on the index table may fail
    NoRow       \* absence of a row

Keys == Schemas \X CIDs

ASSUME StoreAssumption ==
    /\ Malformed \subseteq Keys
    /\ Ages \subseteq Nat
    /\ MaxTime \in Nat
    /\ Faults \in BOOLEAN
    /\ NoRow \notin [peer : Peers, timestamp : Nat]
    /\ NoRow \notin Nat

VARIABLES
    table,   \* record of each key, or NoRow
    index,   \* source_timestamp of the key's sdn_record_index row, or NoRow
    now,     \* wall clock, in seconds
    missed,  \* history: keys whose latest upsertRecordIndex failed
    drifted, \* history: keys stored again since table and index last agreed
    floor    \* history: the highest cutoff a garbage collection used

storeVars == <<table, index, now, missed, drifted, floor>>

Row == [peer : Peers, timestamp : Nat]

TypeOK ==
    /\ table \in [Keys -> Row \cup {NoRow}]
    /\ index \in [Keys -> Nat \cup {NoRow}]
    /\ now \in Nat
    /\ missed \subseteq Keys
    /\ drifted \subseteq Keys
    /\ floor \in 0..now

Init ==
    /\ table = [k \in Keys |-> NoRow]
    /\ index = [k \in Keys |-> NoRow]
    /\ now = 0
    /\ missed = {}
    /\ drifted = {}
    /\ floor = 0

-----------------------------------------------------------------------------
(* What the read methods return.                                           *)

Present(k) == table[k] # NoRow
Indexed(k) == index[k] # NoRow

\* QueryByIndexedFields with no filter: the inner join of the two tables.
QueryByIndexedFields(s) == {c \in CIDs : Present(<<s, c>>) /\ Indexed(<<s, c>>)}

-----------------------------------------------------------------------------
(* The outcomes a SQL statement on the index table can have.               *)
Outcomes == IF Faults THEN BOOLEAN ELSE {TRUE}

\* Mutant: INSERT OR REPLACE.
InsertOrReplace(k, p) ==
    [table EXCEPT ![k] = [peer |-> p, timestamp |-> now]]

\* INSERT OR IGNORE: an existing row keeps its peer_id and timestamp.
InsertOrIgnore(k, p) ==
    IF Present(k) THEN table ELSE [table EXCEPT ![k] = [peer |-> p, timestamp |-> now]]

\* upsertRecordIndex: ON CONFLICT DO UPDATE, the row takes the new timestamp.
UpsertRecordIndex(k, sourceTimestamp) ==
    [index EXCEPT ![k] = sourceTimestamp]

\* Store: insert the record, then upsert its index row with the current
\* time; a failure of the second is only logged.
Store(k, p) ==
    \E ok \in Outcomes :
      /\ table' = InsertOrIgnore(k, p)
      /\ index' = IF ok /\ k \notin Malformed THEN UpsertRecordIndex(k, now) ELSE index
      /\ missed' = IF ok THEN missed \ {k} ELSE missed \cup {k}
      /\ drifted' = IF Present(k) THEN drifted \cup {k} ELSE drifted \ {k}
      /\ UNCHANGED <<now, floor>>

\* Mutant: the index row is left behind.
DeleteRecordOnly(k) ==
    /\ Present(k)
    /\ table' = [table EXCEPT ![k] = NoRow]
    /\ drifted' = drifted \ {k}
    /\ UNCHANGED <<index, now, missed, floor>>

\* Delete: an unknown CID is an error; otherwise the record goes, then its
\* index row, and a failure of the second is only logged.
Delete(k) ==
    \E ok \in Outcomes :
      /\ Present(k)
      /\ table' = [table EXCEPT ![k] = NoRow]
      /\ index' = IF ok THEN [index EXCEPT ![k] = NoRow] ELSE index
      /\ drifted' = drifted \ {k}
      /\ UNCHANGED <<now, missed, floor>>

\* Mutant: the age is added to the clock.
CutoffAhead(maxAge) == now + maxAge

\* GarbageCollect removes what is older than this.
Cutoff(maxAge) == now - maxAge

\* Mutant: the bound is included.
IndexRowDue(k, cutoff) == Indexed(k) /\ index[k] <= cutoff

\* WHERE source_timestamp < cutoff.
IndexRowOld(k, cutoff) == Indexed(k) /\ index[k] < cutoff

\* GarbageCollect: per schema, delete the records older than the cutoff and
\* then the index rows whose own timestamp is older than it.  A schema whose
\* first DELETE fails is skipped, a failure of the second is only logged.
GarbageCollect(maxAge) ==
    \E tableOk, indexOk \in [Schemas -> Outcomes] :
      LET cutoff == Cutoff(maxAge)
          collected == {k \in Keys : /\ tableOk[k[1]]
                                     /\ Present(k)
                                     /\ table[k].timestamp < cutoff}
          unindexed == {k \in Keys : /\ tableOk[k[1]] /\ indexOk[k[1]]
                                     /\ IndexRowOld(k, cutoff)} IN
      /\ table' = [k \in Keys |-> IF k \in collected THEN NoRow ELSE table[k]]
      /\ index' = [k \in Keys |-> IF k \in unindexed THEN NoRow ELSE index[k]]
      /\ floor' = IF cutoff > floor THEN cutoff ELSE floor
      /\ UNCHANGED <<now, missed, drifted>>

\* RebuildIndex: upsert an index row for every record of every table; a row
\* that cannot be written is skipped.  Rows without a record stay.
RebuildIndex ==
    \E written \in SUBSET {k \in Keys \ Malformed : Present(k)} :
      /\ Faults \/ written = {k \in Keys \ Malformed : Present(k)}
      /\ index' = [k \in Keys |-> IF k \in written THEN table[k].timestamp ELSE index[k]]
      /\ missed' = missed \ written
      /\ drifted' = drifted \ written
      /\ UNCHANGED <<table, now, floor>>

Tick ==
    /\ now < MaxTime
    /\ now' = now + 1
    /\ UNCHANGED <<table, index, missed, drifted, floor>>

Next ==
    \/ \E k \in Keys, p \in Peers : Store(k, p)
    \/ \E k \in Keys : Delete(k)
    \/ \E maxAge \in Ages : GarbageCollect(maxAge)
    \/ RebuildIndex
    \/ Tick

Spec == Init /\ [][Next]_storeVars

-----------------------------------------------------------------------------
(* Properties.                                                             *)

\* A stored record whose bytes parse is found by QueryByIndexedFields, whatever
\* re-stores, deletions, collections and rebuilds happened before, unless the
\* write of its own index row failed: no collection drops the index row of a
\* record it keeps, because a row is never older than its record.
Findable ==
    \A k \in Keys \ Malformed :
        Present(k) /\ k \notin missed =>
            k[2] \in QueryByIndexedFields(k[1]) /\ index[k] >= table[k].timestamp

\* When no statement fails, nothing older than the highest cutoff used so far
\* is left in either table, and a rebuild does not bring any of it back: the
\* rows GarbageCollect strands are bounded by the retention period.
RetentionRespected ==
    ~Faults =>
      \A k \in Keys :
        /\ Present(k) => table[k].timestamp >= floor
        /\ Indexed(k) => index[k] >= floor

\* When no statement fails, an index row without a record can only be that of a
\* key that was stored again while present (Store moves the index timestamp
\* forward and not the record's): every other key is in both tables with one
\* timestamp, or in neither.
SyncUnlessDrifted ==
    ~Faults => \A k \in (Keys \ Malformed) \ drifted :
        /\ Present(k) <=> Indexed(k)
        /\ Present(k) => index[k] = table[k].timestamp

\* Content-addressed records are immutable: while a record stays in the store,
\* no sequence of stores by other peers changes whom it is attributed to or
\* when it was stored.
AttributionFixed ==
    [][\A k \in Keys : Present(k) /\ Present(k)' => table'[k] = table[k]]_storeVars
=============================================================================
