----------------------------- MODULE Streaming -----------------------------
(***************************************************************************)
(* The streaming manager: sessions of peers, the delivery of messages to   *)
(* them, and a delivery goroutine for each session in streaming or batch   *)
(* mode.                                                                   *)
(*                                                                         *)
(* Any number of goroutines may be inside DeliverMessage, which holds the  *)
(* read lock while it visits the sessions one by one.  CreateSession,      *)
(* CloseSession and CleanupExpiredSessions hold the write lock and are     *)
(* single steps.  The delivery goroutines take no lock.  onDeliver, which  *)
(* sends to the peer, is outside; whether it fails changes only counters,  *)
(* which are left out.                                                     *)
(***************************************************************************)
EXTENDS Naturals, Sequences, FiniteSets, Functions

CONSTANTS
    Sessions,    \* session ids
    Peers,
    Deliverers,  \* goroutines that call DeliverMessage
    Topics,      \* what DeliverMessage compares: schema type and encryption
    Kinds,       \* sessions that are asked for: peer, mode, topics
    MaxSessionsPerPeer,
    SessionTimeout,
    BatchSize,
    ChannelBufferSize,
    MaxMessages, \* bound: calls of DeliverMessage
    MaxTime,     \* bound: the clock
    Nil          \* a session id that has not been used yet

ASSUME StreamingAssumption ==
    /\ Kinds \subseteq [peer : Peers, mode : {"single", "streaming", "batch"},
                        topics : SUBSET Topics]
    /\ Nil \notin Kinds
    /\ {MaxSessionsPerPeer, SessionTimeout, BatchSize} \subseteq Nat \ {0}
    /\ {ChannelBufferSize, MaxMessages, MaxTime} \subseteq Nat

VARIABLES
    session,       \* what CreateSession was given: peer, mode, topics
    sessions,      \* sessions: ids of the sessions that are not closed
    byPeer,        \* byPeer: ids of a peer's sessions, in order
    lastActivity,  \* LastActivity
    msgCh,         \* msgCh: messages not yet received from a session's channel
    batch,         \* the batch goroutine's messages
    loop,          \* the delivery goroutine: "none", "running", "closing", "ended"
    deadline,      \* when the goroutine's timer fires
    todo,          \* sessions a call of DeliverMessage has yet to visit
    message,       \* the message of that call
    sent, now,     \* number of messages; time.Now()
    accepted,      \* history: messages put into a session's channel
    handed         \* history: messages given to onDeliver

sessionVars == <<session, sessions, byPeer>>
loopVars == <<batch, loop, deadline>>
callVars == <<todo, message, sent>>
historyVars == <<accepted, handed>>
streamingVars == <<sessionVars, lastActivity, msgCh, loopVars, callVars, now, historyVars>>

Message == [id : 1..MaxMessages, topic : Topics]
Idle(d) == todo[d] = {}
Unlocked == \A d \in Deliverers : Idle(d)

StreamingTypeOK ==
    /\ session \in [Sessions -> Kinds \cup {Nil}]
    /\ sessions \subseteq {s \in Sessions : session[s] # Nil}
    /\ byPeer \in [Peers -> Seq(Sessions)]
    /\ lastActivity \in [Sessions -> 0..now]
    /\ {msgCh, batch, accepted, handed} \subseteq [Sessions -> Seq(1..sent)]
    /\ loop \in [Sessions -> {"none", "running", "closing", "ended"}]
    /\ deadline \in [Sessions -> 0..now + SessionTimeout]
    /\ todo \in [Deliverers -> SUBSET Sessions]
    /\ \A d \in Deliverers : ~Idle(d) => message[d] \in Message
    /\ sent \in 0..MaxMessages /\ now \in 0..MaxTime

StreamingInit ==
    /\ session = [s \in Sessions |-> Nil]
    /\ sessions = {}
    /\ byPeer = [p \in Peers |-> <<>>]
    /\ lastActivity = [s \in Sessions |-> 0]
    /\ msgCh = [s \in Sessions |-> <<>>]
    /\ batch = msgCh /\ accepted = msgCh /\ handed = msgCh
    /\ loop = [s \in Sessions |-> "none"]
    /\ deadline = [s \in Sessions |-> 0]
    /\ todo = [d \in Deliverers |-> {}]
    /\ message = [d \in Deliverers |-> Nil]
    /\ sent = 0 /\ now = 0
-----------------------------------------------------------------------------
\* Mutant: the session starts with the activity it will have had.
CreateActive(s, kind) ==
    /\ Unlocked
    /\ session[s] = Nil
    /\ Len(byPeer[kind.peer]) < MaxSessionsPerPeer
    /\ session' = [session EXCEPT ![s] = kind]
    /\ sessions' = sessions \cup {s}
    /\ byPeer' = [byPeer EXCEPT ![kind.peer] = Append(@, s)]
    /\ lastActivity' = [lastActivity EXCEPT ![s] = now + SessionTimeout]
    /\ loop' = [loop EXCEPT ![s] = "running"]
    /\ deadline' = [deadline EXCEPT ![s] = now + SessionTimeout]
    /\ UNCHANGED <<msgCh, batch, callVars, now, accepted, handed>>

CreateSession(s, kind) ==
    /\ Unlocked
    /\ session[s] = Nil
    /\ Len(byPeer[kind.peer]) < MaxSessionsPerPeer
    /\ session' = [session EXCEPT ![s] = kind]
    /\ sessions' = sessions \cup {s}
    /\ byPeer' = [byPeer EXCEPT ![kind.peer] = Append(@, s)]
    /\ lastActivity' = [lastActivity EXCEPT ![s] = now]
    /\ loop' = [loop EXCEPT ![s] = IF kind.mode = "single" THEN "none" ELSE "running"]
    /\ deadline' = [deadline EXCEPT ![s] = now + SessionTimeout]
    /\ UNCHANGED <<msgCh, batch, callVars, now, accepted, handed>>

\* The ids that are not in S, in their order.
Without(ids, S) ==
    LET kept[n \in 0..Len(ids)] ==
          IF n = 0 THEN <<>>
          ELSE IF ids[n] \in S THEN kept[n - 1]
          ELSE Append(kept[n - 1], ids[n])
    IN  kept[Len(ids)]

\* Mutant: the peer's index keeps the sessions.
ForgetIndex(S) ==
    /\ sessions' = sessions \ S
    /\ UNCHANGED byPeer

\* The sessions S leave both maps; their contexts are cancelled and their
\* channels closed, which a session that is not in the map stands for.
Forget(S) ==
    /\ sessions' = sessions \ S
    /\ byPeer' = [p \in Peers |-> Without(byPeer[p], S)]

\* Mutant: CloseSession takes no lock.
CloseUnlocked(s) ==
    /\ s \in sessions
    /\ Forget({s})
    /\ UNCHANGED <<session, lastActivity, msgCh, loopVars, callVars, now, historyVars>>

CloseSession(s) ==
    /\ Unlocked
    /\ s \in sessions
    /\ Forget({s})
    /\ UNCHANGED <<session, lastActivity, msgCh, loopVars, callVars, now, historyVars>>

CleanupExpiredSessions ==
    LET expired == {s \in sessions : lastActivity[s] + SessionTimeout < now} IN
    /\ Unlocked
    /\ expired # {}
    /\ Forget(expired)
    /\ UNCHANGED <<session, lastActivity, msgCh, loopVars, callVars, now, historyVars>>
-----------------------------------------------------------------------------
\* A call of DeliverMessage takes the read lock and starts to visit the sessions.
DeliverMessage(d, topic) ==
    /\ Idle(d)
    /\ sent < MaxMessages
    /\ sent' = sent + 1
    /\ message' = [message EXCEPT ![d] = [id |-> sent + 1, topic |-> topic]]
    /\ todo' = [todo EXCEPT ![d] = sessions]
    /\ UNCHANGED <<sessionVars, lastActivity, msgCh, loopVars, now, historyVars>>

Visited(d, s) ==
    /\ s \in todo[d]
    /\ todo' = [todo EXCEPT ![d] = @ \ {s}]
    /\ UNCHANGED <<sessionVars, loopVars, message, sent, now>>

Matches(d, s) == message[d].topic \in session[s].topics

Skip(d, s) ==
    /\ Visited(d, s)
    /\ ~Matches(d, s)
    /\ UNCHANGED <<lastActivity, msgCh, historyVars>>

DeliverSingle(d, s) ==
    /\ Visited(d, s)
    /\ Matches(d, s) /\ session[s].mode = "single"
    /\ handed' = [handed EXCEPT ![s] = Append(@, message[d].id)]
    /\ accepted' = [accepted EXCEPT ![s] = Append(@, message[d].id)]
    /\ UNCHANGED <<lastActivity, msgCh>>

Send(d, s) ==
    /\ Visited(d, s)
    /\ Matches(d, s) /\ session[s].mode # "single"
    /\ Len(msgCh[s]) < ChannelBufferSize
    /\ msgCh' = [msgCh EXCEPT ![s] = Append(@, message[d].id)]
    /\ accepted' = [accepted EXCEPT ![s] = Append(@, message[d].id)]
    /\ lastActivity' = [lastActivity EXCEPT ![s] = now]
    /\ UNCHANGED handed

\* The channel is full and the message is dropped.
Drop(d, s) ==
    /\ Visited(d, s)
    /\ Matches(d, s) /\ session[s].mode # "single"
    /\ Len(msgCh[s]) >= ChannelBufferSize
    /\ UNCHANGED <<lastActivity, msgCh, historyVars>>
-----------------------------------------------------------------------------
\* Mutant: the batch is delivered and kept.
FlushKeeps(s, msgs) ==
    /\ handed' = [handed EXCEPT ![s] = @ \o msgs]
    /\ batch' = [batch EXCEPT ![s] = msgs]

\* The batch msgs goes to onDeliver.
Flush(s, msgs) ==
    /\ handed' = [handed EXCEPT ![s] = @ \o msgs]
    /\ batch' = [batch EXCEPT ![s] = <<>>]

\* The goroutine receives a message, also from a channel that has been closed.
\* A message of a session in streaming mode is a batch of its own.
Receive(s) ==
    LET taken == Append(batch[s], Head(msgCh[s])) IN
    /\ loop[s] = "running"
    /\ msgCh[s] # <<>>
    /\ msgCh' = [msgCh EXCEPT ![s] = Tail(@)]
    /\ deadline' = [deadline EXCEPT ![s] = now + SessionTimeout]
    /\ \/ /\ session[s].mode = "streaming" \/ Len(taken) >= BatchSize
          /\ Flush(s, taken)
       \/ /\ session[s].mode = "batch" /\ Len(taken) < BatchSize
          /\ batch' = [batch EXCEPT ![s] = taken]
          /\ UNCHANGED handed
    /\ UNCHANGED <<sessionVars, lastActivity, loop, callVars, now, accepted>>

\* The batch interval has passed.
FlushInterval(s) ==
    /\ loop[s] = "running"
    /\ session[s].mode = "batch" /\ batch[s] # <<>>
    /\ Flush(s, batch[s])
    /\ UNCHANGED <<sessionVars, lastActivity, msgCh, loop, deadline, callVars, now, accepted>>

\* Mutant: what is left of a batch is dropped.
StopOnly(s, l) ==
    /\ loop' = [loop EXCEPT ![s] = l]
    /\ UNCHANGED <<batch, handed>>

\* The goroutine hands over what is left of a batch and stops.
FlushAndStop(s, l) ==
    /\ loop' = [loop EXCEPT ![s] = l]
    /\ Flush(s, batch[s])

\* Mutant: only an interval flush empties the batch of a closed session.
DoneIfDrained(s) ==
    /\ loop[s] = "running"
    /\ s \notin sessions /\ batch[s] = <<>> /\ msgCh[s] = <<>>
    /\ FlushAndStop(s, "ended")
    /\ UNCHANGED <<sessionVars, lastActivity, msgCh, deadline, callVars, now, accepted>>

\* The context is cancelled, or the closed channel is empty.
Done(s) ==
    /\ loop[s] = "running"
    /\ s \notin sessions
    /\ FlushAndStop(s, "ended")
    /\ UNCHANGED <<sessionVars, lastActivity, msgCh, deadline, callVars, now, accepted>>

\* The timer has fired, and select takes it though a message may be waiting too.
TimedOut(s) ==
    /\ loop[s] = "running"
    /\ now >= deadline[s]
    /\ FlushAndStop(s, "closing")
    /\ UNCHANGED <<sessionVars, lastActivity, msgCh, deadline, callVars, now, accepted>>

\* The goroutine that TimedOut started: CloseSession, if it is still there.
CloseTimedOut(s) ==
    /\ loop[s] = "closing"
    /\ Unlocked
    /\ Forget({s} \cap sessions)
    /\ loop' = [loop EXCEPT ![s] = "ended"]
    /\ UNCHANGED <<session, lastActivity, msgCh, batch, deadline, callVars, now, historyVars>>

Tick ==
    /\ now < MaxTime
    /\ now' = now + 1
    /\ UNCHANGED <<sessionVars, lastActivity, msgCh, loopVars, callVars, historyVars>>

Visit(d, s) == Skip(d, s) \/ DeliverSingle(d, s) \/ Send(d, s) \/ Drop(d, s)
LoopStep(s) == Receive(s) \/ FlushInterval(s) \/ Done(s) \/ TimedOut(s) \/ CloseTimedOut(s)

StreamingNext ==
    \/ \E s \in Sessions :
          \/ \E kind \in Kinds : CreateSession(s, kind)
          \/ CloseSession(s)
          \/ LoopStep(s)
    \/ CleanupExpiredSessions
    \/ \E d \in Deliverers :
          \/ \E topic \in Topics : DeliverMessage(d, topic)
          \/ \E s \in Sessions : Visit(d, s)
    \/ Tick

StreamingSpec == StreamingInit /\ [][StreamingNext]_streamingVars

\* Goroutines run: a call of DeliverMessage goes on to its next session, a delivery
\* goroutine that has something to do does it.
StreamingFairSpec ==
    /\ StreamingSpec
    /\ \A d \in Deliverers : WF_streamingVars(\E s \in Sessions : Visit(d, s))
    /\ \A s \in Sessions :
          /\ WF_streamingVars(Receive(s)) /\ WF_streamingVars(Done(s))
          /\ SF_streamingVars(CloseTimedOut(s))
-----------------------------------------------------------------------------
\* Every session gets the messages its channel accepted in the order it accepted
\* them, each once, whatever closes the session meanwhile and however the batch is
\* cut: those given to onDeliver, then those in the batch, then those in the channel.
InOrder ==
    \A s \in Sessions : accepted[s] = handed[s] \o batch[s] \o msgCh[s]

\* A delivery goroutine that has stopped, because of its timer, CloseSession or the
\* clean-up, has handed over everything it had received.
StopsFlushed ==
    \A s \in Sessions : loop[s] \in {"closing", "ended"} => batch[s] = <<>>

\* No call of DeliverMessage has a closed session ahead of it: sending on the closed
\* channel would panic, and only the lock keeps CloseSession, the timer's goroutine and
\* the clean-up out until the call is done.
NoSendOnClosed ==
    \A d \in Deliverers : todo[d] \subseteq sessions

\* The two maps agree: the index of a peer lists each of its sessions once and no
\* session that is gone, so the limit counts what it should.
IndexAgrees ==
    \A p \in Peers :
        /\ Range(byPeer[p]) = {s \in sessions : session[s].peer = p}
        /\ Len(byPeer[p]) = Cardinality(Range(byPeer[p]))
        /\ Len(byPeer[p]) <= MaxSessionsPerPeer

\* The delivery goroutine of a session that was closed ends, even if its channel
\* was full.
ClosedEnds ==
    \A s \in Sessions : (loop[s] = "running" /\ s \notin sessions) ~> loop[s] = "ended"
=============================================================================
