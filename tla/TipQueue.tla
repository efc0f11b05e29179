------------------------------ MODULE TipQueue ------------------------------
(***************************************************************************)
(* The queue of tips: announcements (PNM messages) of data other peers     *)
(* have published.  One goroutine receives the messages; each may start a  *)
(* goroutine that fetches the content and one that pins it, which end at   *)
(* any later time, after the tip has left the queue or the queue has been  *)
(* closed.  What is done with a tip is decided by ResolveConfig (module    *)
(* TipConfig) when it arrives; the policy may change at any time.          *)
(* Fetching and pinning are services outside the queue; Fetched and        *)
(* PinExpiry, which nothing reads, are left out.                           *)
(***************************************************************************)
EXTENDS TipConfig, Sequences, SequencesExt, FiniteSets

CONSTANTS
    CIDs,          \* announced contents
    MaxQueueSize,  \* MaxQueueSize of the configuration
    MaxTips        \* bound: messages received

ASSUME TipQueueAssumption ==
    MaxQueueSize \in Nat /\ MaxTips \in Nat

VARIABLES
    tips,        \* tips: per schema, in order of arrival
    pinnedCIDs,  \* keys of pinnedCIDs: contents that have been pinned
    fetching,    \* tips a fetching goroutine is running for
    pinning,     \* tips a pinning goroutine is running for
    closed,      \* Close has returned
    received,    \* number of tips received; the n-th has id n, its ReceivedAt
    evicted      \* history: tips evictOldest has removed

queueVars == <<tips, pinnedCIDs, fetching, pinning, closed, received, evicted>>
tipVars == <<configVars, queueVars>>

Ids == 1..MaxTips
Tip == [id : Ids, cid : CIDs]

TipTypeOK ==
    /\ ConfigTypeOK
    /\ tips \in [Schemas -> Seq(Tip)]
    /\ pinnedCIDs \subseteq CIDs
    /\ fetching \subseteq Ids /\ evicted \subseteq Ids
    /\ pinning \subseteq Tip
    /\ closed \in BOOLEAN
    /\ received \in 0..MaxTips
    /\ \A s \in Schemas : \A t \in ToSet(tips[s]) : t.id <= received

TipInit ==
    /\ ConfigInit
    /\ tips = [s \in Schemas |-> <<>>]
    /\ pinnedCIDs = {} /\ fetching = {} /\ pinning = {} /\ evicted = {}
    /\ closed = FALSE
    /\ received = 0
-----------------------------------------------------------------------------
Queued == UNION {ToSet(tips[s]) : s \in Schemas}
QueueSize == Cardinality(Queued)

\* Mutant: the newest of the schemas' first tips is evicted.
NewestHead(s) ==
    /\ tips[s] # <<>>
    /\ \A r \in Schemas : tips[r] # <<>> => tips[r][1].id <= tips[s][1].id

\* The schema evictOldest takes a tip from: its first tip is the oldest first tip.
OldestSchema(s) ==
    /\ tips[s] # <<>>
    /\ \A r \in Schemas : tips[r] # <<>> => tips[s][1].id <= tips[r][1].id

Full == QueueSize >= MaxQueueSize

\* addTip: evict one tip of a full queue, if it has any, then append.
AddTip(s, tip) ==
    \/ /\ Full /\ Queued # {}
       /\ \E o \in {r \in Schemas : OldestSchema(r)} :
             LET rest == [tips EXCEPT ![o] = Tail(@)] IN
             /\ tips' = [rest EXCEPT ![s] = Append(@, tip)]
             /\ evicted' = evicted \cup {tips[o][1].id}
    \/ /\ ~(Full /\ Queued # {})
       /\ tips' = [tips EXCEPT ![s] = Append(@, tip)]
       /\ UNCHANGED evicted

\* handleMessage: queue the tip, then processTip starts its goroutines.
HandleMessage(p, s, cid) ==
    LET tip == [id |-> received + 1, cid |-> cid]
        config == ResolveConfig(p, s) IN
    /\ ~closed /\ received < MaxTips
    /\ received' = received + 1
    /\ AddTip(s, tip)
    /\ fetching' = IF config.autoFetch THEN fetching \cup {tip.id} ELSE fetching
    /\ pinning' = IF config.autoPin
                    THEN pinning \cup {tip} ELSE pinning
    /\ UNCHANGED <<pinnedCIDs, closed, configVars>>

\* The fetching goroutine ends, with the content or with an error.
FetchDone(id) ==
    /\ id \in fetching
    /\ fetching' = fetching \ {id}
    /\ UNCHANGED <<tips, pinnedCIDs, pinning, closed, received, evicted, configVars>>

\* The pinning goroutine ends: the content is pinned from now on.
PinDone(tip) ==
    /\ tip \in pinning
    /\ pinning' = pinning \ {tip}
    /\ pinnedCIDs' = pinnedCIDs \cup {tip.cid}
    /\ UNCHANGED <<tips, fetching, closed, received, evicted, configVars>>

PinFailed(tip) ==
    /\ tip \in pinning
    /\ pinning' = pinning \ {tip}
    /\ UNCHANGED <<tips, pinnedCIDs, fetching, closed, received, evicted, configVars>>

ClearTips(s) ==
    /\ tips' = [tips EXCEPT ![s] = <<>>]
    /\ UNCHANGED <<pinnedCIDs, fetching, pinning, closed, received, evicted, configVars>>

ClearAllTips ==
    /\ tips' = [s \in Schemas |-> <<>>]
    /\ UNCHANGED <<pinnedCIDs, fetching, pinning, closed, received, evicted, configVars>>

\* RemoveTip: the first tip about cid in one of the schemas that have such a tip
\* (the schemas are tried in the random order of a Go map).
RemoveTip(cid) ==
    /\ \E s \in Schemas : \E i \in DOMAIN tips[s] :
          /\ tips[s][i].cid = cid
          /\ \A j \in 1..i - 1 : tips[s][j].cid # cid
          /\ tips' = [tips EXCEPT ![s] = RemoveAt(@, i)]
    /\ UNCHANGED <<pinnedCIDs, fetching, pinning, closed, received, evicted, configVars>>

\* Close returns: it has waited for the receiving goroutine and for no other.
Close ==
    /\ ~closed
    /\ closed' = TRUE
    /\ UNCHANGED <<tips, pinnedCIDs, fetching, pinning, received, evicted, configVars>>

TipNext ==
    \/ \E p \in Peers, s \in Schemas, cid \in CIDs : HandleMessage(p, s, cid)
    \/ \E id \in fetching : FetchDone(id)
    \/ \E tip \in pinning : PinDone(tip) \/ PinFailed(tip)
    \/ \E s \in Schemas : ClearTips(s)
    \/ ClearAllTips
    \/ \E cid \in CIDs : RemoveTip(cid)
    \/ Close
    \/ ConfigNext /\ UNCHANGED queueVars

TipSpec == TipInit /\ [][TipNext]_tipVars
-----------------------------------------------------------------------------
\* The queue is within its limit (one tip if that is 0), and every tip in it is newer
\* than every tip that was evicted, whatever was received, removed and cleared: addTip
\* evicts a single tip, so the queue must never have been over the limit before, and
\* evictOldest looks only at the first tip of each schema, which is right as long as
\* each schema's tips stay in order of arrival.
KeepsNewest ==
    /\ QueueSize <= IF MaxQueueSize = 0 THEN 1 ELSE MaxQueueSize
    /\ \A t \in Queued, e \in evicted : t.id > e
=============================================================================
