------------------------------- MODULE Audit -------------------------------
(***************************************************************************)
(* The audit log: a table of entries, each with the hash of the one before *)
(* it, and the logger that remembers the last hash.  LogWithTarget holds   *)
(* the logger's lock throughout, so callers take turns.  Inserts may fail, *)
(* the process may stop, and a new logger reads the last hash back, which  *)
(* may fail too and is then only logged.                                   *)
(*                                                                         *)
(* SHA-256 is taken to be injective: the hash of an entry is the entry     *)
(* itself, with the second it was made in, its content and the hash of the *)
(* one before.                                                             *)
(***************************************************************************)
EXTENDS Naturals, Sequences

CONSTANTS
    Events,         \* contents of an entry: type, severity, actor, target, ...
    GenesisHash,
    MaxEntries,     \* bound: entries in the table
    MaxSeconds,     \* bound: the clock
    MaxAuditFaults  \* bound: failures of the database and restarts

ASSUME AuditAssumption ==
    {MaxEntries, MaxSeconds, MaxAuditFaults} \subseteq Nat

VARIABLES
    auditLog,    \* the table, in order of id
    lastHash,    \* lastHash of the logger
    auditUp,     \* the logger exists
    second,      \* the clock, in the seconds of a timestamp
    auditFaults,
    unread       \* history: a logger was made that could not read the last hash

auditVars == <<auditLog, lastHash, auditUp, second, auditFaults, unread>>

AuditTypeOK ==
    /\ Len(auditLog) <= MaxEntries
    /\ \A i \in DOMAIN auditLog : auditLog[i].event \in Events
    /\ auditUp \in BOOLEAN /\ unread \in BOOLEAN
    /\ second \in 0..MaxSeconds
    /\ auditFaults \in 0..MaxAuditFaults

AuditInit ==
    /\ auditLog = <<>>
    /\ lastHash = GenesisHash
    /\ auditUp = TRUE
    /\ second = 0
    /\ auditFaults = 0
    /\ unread = FALSE
-----------------------------------------------------------------------------
AuditFault ==
    auditFaults < MaxAuditFaults /\ auditFaults' = auditFaults + 1

ComputeEntryHash(time, event, previous) == <<time, event, previous>>

Entry(event) ==
    [time |-> second, event |-> event, previousHash |-> lastHash,
     entryHash |-> ComputeEntryHash(second, event, lastHash)]

\* entry_hash is UNIQUE.
Taken(hash) == \E i \in DOMAIN auditLog : auditLog[i].entryHash = hash

LogWithTarget(event) ==
    /\ auditUp
    /\ Len(auditLog) < MaxEntries
    /\ ~Taken(Entry(event).entryHash)
    /\ auditLog' = Append(auditLog, Entry(event))
    /\ lastHash' = Entry(event).entryHash
    /\ UNCHANGED <<auditUp, second, auditFaults, unread>>

\* Mutant: the last hash is updated before the insert that fails.
InsertFailedLate(event) ==
    /\ auditUp
    /\ (Taken(Entry(event).entryHash) /\ UNCHANGED auditFaults) \/ AuditFault
    /\ lastHash' = Entry(event).entryHash
    /\ UNCHANGED <<auditLog, auditUp, second, unread>>

\* The insert is refused: by the UNIQUE column, or because the database fails.
InsertFailed(event) ==
    /\ auditUp
    /\ (Taken(Entry(event).entryHash) /\ UNCHANGED auditFaults) \/ AuditFault
    /\ UNCHANGED <<auditLog, lastHash, auditUp, second, unread>>

\* The process stops, possibly between the insert and the update of lastHash.
StopLogger ==
    /\ auditUp
    /\ AuditFault
    /\ auditUp' = FALSE
    /\ UNCHANGED <<lastHash, second, unread>>
    /\ \/ UNCHANGED auditLog
       \/ \E event \in Events :
            /\ Len(auditLog) < MaxEntries
            /\ ~Taken(Entry(event).entryHash)
            /\ auditLog' = Append(auditLog, Entry(event))

\* NewLogger with loadLastHash, which leaves the genesis hash when it fails.
NewLogger ==
    /\ ~auditUp
    /\ auditUp' = TRUE
    /\ \/ /\ lastHash' = IF auditLog = <<>> THEN GenesisHash
                         ELSE auditLog[Len(auditLog)].entryHash
          /\ UNCHANGED <<auditFaults, unread>>
       \/ /\ AuditFault
          /\ lastHash' = GenesisHash
          /\ unread' = TRUE
    /\ UNCHANGED <<auditLog, second>>

NextSecond ==
    /\ second < MaxSeconds
    /\ second' = second + 1
    /\ UNCHANGED <<auditLog, lastHash, auditUp, auditFaults, unread>>

AuditNext ==
    \/ \E event \in Events : LogWithTarget(event) \/ InsertFailed(event)
    \/ StopLogger \/ NewLogger \/ NextSecond

AuditSpec == AuditInit /\ [][AuditNext]_auditVars
-----------------------------------------------------------------------------
\* What VerifyChain checks of every entry, in order of id.
VerifyChain ==
    \A i \in DOMAIN auditLog :
        LET e == auditLog[i] IN
        /\ e.previousHash = IF i = 1 THEN GenesisHash ELSE auditLog[i-1].entryHash
        /\ e.entryHash = ComputeEntryHash(e.time, e.event, e.previousHash)

\* Whatever inserts failed and wherever the process stopped, VerifyChain accepts
\* the log and the next entry will continue it, as long as every logger could
\* read the last hash when it was made.
ChainUnbroken ==
    ~unread =>
        /\ VerifyChain
        /\ auditUp => lastHash = IF auditLog = <<>> THEN GenesisHash
                                 ELSE auditLog[Len(auditLog)].entryHash
=============================================================================
