------------------------------- MODULE Ingest -------------------------------
(***************************************************************************)
(* The ingest worker's Space-Track gap fill: syncSpaceTrackGapFill fetches *)
(* the days between its checkpoint and yesterday in batches, stores every  *)
(* record of a batch and then advances the checkpoint, in memory first and *)
(* then in its file.  Requests, store calls and the write of the file may  *)
(* fail, and the worker may stop at any point and be started again.        *)
(*                                                                         *)
(* A day stands for all the records of its CSV rows.  The two CelesTrak    *)
(* syncs, which the same goroutine runs in between, fetch a whole catalog  *)
(* each time and keep no position, but save the same checkpoint file.      *)
(***************************************************************************)
EXTENDS Integers

CONSTANTS
    StartDays,      \* values of SpaceTrackStartDay; NoDay when it is not given
    BatchDays,      \* SpaceTrackBatchDays
    Span,           \* days before today a sync without any position starts at
    NoDay,          \* no checkpoint, no configured day
    MaxDay,         \* bound on the clock
    MaxIngestFaults \* bound on failures, cut-off responses and crashes

ASSUME IngestAssumption ==
    /\ StartDays \subseteq Int \cup {NoDay}
    /\ BatchDays \in Nat \ {0}
    /\ Span \in Nat \ {0}
    /\ NoDay \notin Int
    /\ MaxDay \in Int
    /\ MaxIngestFaults \in Nat

VARIABLES
    today,       \* the current day
    startDay,    \* SpaceTrackStartDay of the configuration
    lastDay,     \* spacetrack_last_day of the checkpoint store
    savedDay,    \* spacetrack_last_day of the checkpoint file
    step,        \* what the worker does next
    batchStart,  \* first day of the current batch
    endDay,      \* last day of the current sync
    stored,      \* days all of whose records were stored
    cut,         \* history: days of responses that were cut off at the size limit
    from,        \* history: first day of the first sync since the last one without a position
    ingestFaults \* number of faults so far

ingestVars == <<today, startDay, lastDay, savedDay, step, batchStart, endDay, stored,
                cut, from, ingestFaults>>

Steps == {"down", "idle", "login", "fetch", "ingest", "checkpoint", "sleep"}

IngestTypeOK ==
    /\ today \in Int
    /\ startDay \in StartDays
    /\ lastDay \in Int \cup {NoDay}
    /\ savedDay \in Int \cup {NoDay}
    /\ step \in Steps
    /\ batchStart \in Int
    /\ endDay \in Int
    /\ stored \subseteq Int
    /\ cut \subseteq Int
    /\ from \in Int
    /\ ingestFaults \in Nat

IngestInit ==
    /\ today = 1
    /\ startDay \in StartDays
    /\ lastDay = NoDay
    /\ savedDay = NoDay
    /\ step = "idle"
    /\ batchStart = 0
    /\ endDay = 0
    /\ stored = {}
    /\ cut = {}
    /\ from = 0
    /\ ingestFaults = 0

-----------------------------------------------------------------------------
Fault == ingestFaults < MaxIngestFaults /\ ingestFaults' = ingestFaults + 1

\* Mutant: the sync starts at the checkpoint's successor plus one.
SkipsADay ==
    IF lastDay # NoDay THEN lastDay + 2
    ELSE IF startDay # NoDay THEN startDay ELSE today - Span

ResolveStartDay ==
    IF lastDay # NoDay THEN lastDay + 1
    ELSE IF startDay # NoDay THEN startDay ELSE today - Span

BatchEnd ==
    IF batchStart + BatchDays - 1 > endDay THEN endDay ELSE batchStart + BatchDays - 1

Batch == batchStart .. BatchEnd

\* A tick of the poll timer, or the first cycle of the process.
SyncSpaceTrackGapFill ==
    /\ step = "idle"
    /\ ResolveStartDay <= today - 1
    /\ step' = "login"
    /\ batchStart' = ResolveStartDay
    /\ endDay' = today - 1
    /\ from' = IF lastDay = NoDay THEN ResolveStartDay ELSE from
    /\ UNCHANGED <<today, startDay, lastDay, savedDay, stored, cut, ingestFaults>>

SpaceTrackLogin ==
    /\ step = "login"
    /\ step' = "fetch"
    /\ UNCHANGED <<today, startDay, lastDay, savedDay, batchStart, endDay, stored, cut,
                   from, ingestFaults>>

FetchBytes ==
    /\ step = "fetch"
    /\ step' = "ingest"
    /\ UNCHANGED <<today, startDay, lastDay, savedDay, batchStart, endDay, stored, cut,
                   from, ingestFaults>>

\* The login or the query is refused; the sync ends and the next poll repeats it.
RequestFailed ==
    /\ step \in {"login", "fetch"}
    /\ Fault
    /\ step' = "idle"
    /\ UNCHANGED <<today, startDay, lastDay, savedDay, batchStart, endDay, stored, cut, from>>

IngestGPData ==
    /\ step = "ingest"
    /\ step' = "checkpoint"
    /\ stored' = stored \cup Batch
    /\ UNCHANGED <<today, startDay, lastDay, savedDay, batchStart, endDay, cut, from,
                   ingestFaults>>

\* The response exceeds the reader's limit: what was read is stored, and the
\* rest is missed without an error.
IngestCutOff ==
    /\ step = "ingest"
    /\ Fault
    /\ \E part \in SUBSET Batch : stored' = stored \cup part
    /\ cut' = cut \cup Batch
    /\ step' = "checkpoint"
    /\ UNCHANGED <<today, startDay, lastDay, savedDay, batchStart, endDay, from>>

\* Mutant: the checkpoint is advanced although a record was not stored.
IngestErrorIgnored ==
    /\ step = "ingest"
    /\ Fault
    /\ \E part \in SUBSET Batch : stored' = stored \cup part
    /\ step' = "checkpoint"
    /\ UNCHANGED <<today, startDay, lastDay, savedDay, batchStart, endDay, cut, from>>

\* A row cannot be read or stored: the rows before it were, and the sync ends.
IngestFailed ==
    /\ step = "ingest"
    /\ Fault
    /\ \E part \in SUBSET Batch : stored' = stored \cup part
    /\ step' = "idle"
    /\ UNCHANGED <<today, startDay, lastDay, savedDay, batchStart, endDay, cut, from>>

\* After a batch: the next one after a pause, or the end of the sync.
NextBatch ==
    /\ batchStart' = batchStart + BatchDays
    /\ step' = IF batchStart + BatchDays > endDay THEN "idle" ELSE "sleep"

\* setString, and save: a temporary file that is renamed.
SaveCheckpoint ==
    /\ step = "checkpoint"
    /\ lastDay' = BatchEnd
    /\ savedDay' = BatchEnd
    /\ NextBatch
    /\ UNCHANGED <<today, startDay, endDay, stored, cut, from, ingestFaults>>

\* The file cannot be written, which is only logged.
SaveFailed ==
    /\ step = "checkpoint"
    /\ Fault
    /\ lastDay' = BatchEnd
    /\ NextBatch
    /\ UNCHANGED <<today, startDay, savedDay, endDay, stored, cut, from>>

\* syncCelestrakGP or syncCelestrakSatcat: its save writes every checkpoint there is.
SyncCelestrak ==
    /\ step = "idle"
    /\ savedDay' = lastDay
    /\ UNCHANGED <<today, startDay, lastDay, step, batchStart, endDay, stored, cut, from,
                   ingestFaults>>

SleepBatch ==
    /\ step = "sleep"
    /\ step' = "fetch"
    /\ UNCHANGED <<today, startDay, lastDay, savedDay, batchStart, endDay, stored, cut,
                   from, ingestFaults>>

\* The worker is stopped, or dies: within the ingestion, after some records.
StopIngest ==
    /\ step # "down"
    /\ Fault
    /\ step' = "down"
    /\ IF step = "ingest" THEN \E part \in SUBSET Batch : stored' = stored \cup part
                          ELSE stored' = stored
    /\ UNCHANGED <<today, startDay, lastDay, savedDay, batchStart, endDay, cut, from>>

\* NewRunner reads the checkpoint file.
NewRunner ==
    /\ step = "down"
    /\ step' = "idle"
    /\ lastDay' = savedDay
    /\ UNCHANGED <<today, startDay, savedDay, batchStart, endDay, stored, cut, from,
                   ingestFaults>>

NextDay ==
    /\ today < MaxDay
    /\ today' = today + 1
    /\ UNCHANGED <<startDay, lastDay, savedDay, step, batchStart, endDay, stored, cut, from,
                   ingestFaults>>

Work ==
    \/ SyncSpaceTrackGapFill \/ SpaceTrackLogin \/ FetchBytes \/ IngestGPData
    \/ SaveCheckpoint \/ SleepBatch \/ NewRunner

IngestNext ==
    \/ Work
    \/ RequestFailed \/ IngestCutOff \/ IngestFailed \/ SaveFailed \/ StopIngest
    \/ SyncCelestrak \/ NextDay

\* The poll timer goes on ticking, a request is answered in the end, and a
\* worker that stopped is started again.
IngestFairness == WF_ingestVars(Work)

IngestSpec == IngestInit /\ [][IngestNext]_ingestVars /\ IngestFairness

-----------------------------------------------------------------------------
\* Whatever failed, stopped or was repeated: every day from the first one the
\* sync started at up to the checkpoint was stored, except those of a response
\* that was cut off.  The gap fill leaves no gap.
NoGap ==
    /\ lastDay # NoDay => from .. lastDay \subseteq stored \cup cut
    /\ savedDay # NoDay => from .. savedDay \subseteq stored \cup cut

\* Once failures cease, the checkpoint reaches yesterday and follows it.
CatchesUp ==
    <>[](\/ lastDay # NoDay /\ lastDay >= today - 1
         \/ lastDay = NoDay /\ ResolveStartDay > today - 1)
=============================================================================
