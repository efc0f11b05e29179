-------------------------- MODULE StreamingProofs --------------------------
(***************************************************************************)
(* What the streaming manager keeps, for every value of its constants: any *)
(* number of sessions, peers, calls of DeliverMessage and goroutines.      *)
(***************************************************************************)
EXTENDS Streaming, Sums
-----------------------------------------------------------------------------
\* The type invariant, and what a call of DeliverMessage knows of its message.
StreamTypes ==
    /\ StreamingTypeOK
    /\ DOMAIN message = Deliverers
    /\ \A d \in Deliverers : ~Idle(d) => message[d].id \in 1..sent

\* A session has a delivery goroutine unless it is in single mode, and then its channel is
\* not used.  Only a running goroutine in batch mode holds messages.
Delivery(s) ==
    /\ loop[s] = "none" <=> session[s] = Nil \/ session[s].mode = "single"
    /\ loop[s] = "none" => msgCh[s] = <<>>
    /\ loop[s] # "running" \/ session[s].mode = "streaming" => batch[s] = <<>>

\* What the index of peer p lists.
Listed(p) ==
    /\ Range(byPeer[p]) = {s \in sessions : session[s].peer = p}
    /\ IsInjective(byPeer[p])
    /\ Len(byPeer[p]) <= MaxSessionsPerPeer

\* The inductive invariant of the streaming manager.
Streams ==
    /\ StreamTypes
    /\ \A s \in Sessions : Delivery(s)
    /\ InOrder
    /\ NoSendOnClosed
    /\ \A p \in Peers : Listed(p)

\* Parts of a sequence of messages.
LEMMA SeqWider ==
    ASSUME NEW S, NEW T, S \subseteq T
    PROVE  Seq(S) \subseteq Seq(T)
OBVIOUS

\* The messages a have gone to the session, h of them all the way, b into its batch, and m
\* not further than its channel.
Ordered(a, h, b, m) == a = h \o b \o m

LEMMA OrderedSingle ==
    ASSUME NEW S, NEW h \in Seq(S), NEW a, Ordered(a, h, <<>>, <<>>), NEW x \in S
    PROVE  Ordered(Append(a, x), Append(h, x), <<>>, <<>>)
BY DEF Ordered

LEMMA OrderedSend ==
    ASSUME NEW S, NEW h \in Seq(S), NEW b \in Seq(S), NEW m \in Seq(S), NEW x \in S,
           NEW a, Ordered(a, h, b, m)
    PROVE  Ordered(Append(a, x), h, b, Append(m, x))
BY DEF Ordered

LEMMA OrderedFlush ==
    ASSUME NEW S, NEW h \in Seq(S), NEW b \in Seq(S), NEW m \in Seq(S),
           NEW a, Ordered(a, h, b, m)
    PROVE  Ordered(a, h \o b, <<>>, m)
BY DEF Ordered

LEMMA OrderedReceive ==
    ASSUME NEW S, NEW h \in Seq(S), NEW b \in Seq(S), NEW m \in Seq(S), m # <<>>,
           NEW a, Ordered(a, h, b, m)
    PROVE  Ordered(a, h, Append(b, Head(m)), Tail(m))
<1> DEFINE lhs == h \o Append(b, Head(m)) \o Tail(m)
           rhs == h \o b \o m
<1>1. Head(m) \in S /\ Tail(m) \in Seq(S) /\ Append(b, Head(m)) \in Seq(S)
  OBVIOUS
<1>2. lhs \in Seq(S) /\ rhs \in Seq(S)
  BY <1>1
<1>3. Len(lhs) = Len(rhs)
  BY <1>1
<1>4. ASSUME NEW i \in 1..Len(lhs)
      PROVE  lhs[i] = rhs[i]
  BY <1>1, <1>3
<1> HIDE DEF lhs, rhs
<1>5. lhs = rhs
  BY <1>2, <1>3, <1>4
<1> QED BY <1>5 DEF lhs, rhs, Ordered

LEMMA StreamsStart == StreamingInit => Streams
<1> SUFFICES ASSUME StreamingInit
             PROVE  Streams
  OBVIOUS
<1> USE StreamingAssumption
<1>1. StreamTypes
  <2>1. <<>> \in Seq(1..0) /\ <<>> \in Seq(Sessions)
    OBVIOUS
  <2> QED BY <2>1 DEF StreamingInit, StreamTypes, StreamingTypeOK, Idle
<1>2. \A s \in Sessions : Delivery(s)
  BY DEF StreamingInit, Delivery
<1>3. InOrder /\ NoSendOnClosed
  BY DEF StreamingInit, InOrder, NoSendOnClosed
<1>4. ASSUME NEW p \in Peers
      PROVE  Listed(p)
  BY DEF StreamingInit, Listed, Range, IsInjective
<1> QED BY <1>1, <1>2, <1>3, <1>4 DEF Streams

\* What a step does to one session: the others keep theirs.
OnlyOf(s) ==
    \A r \in Sessions \ {s} :
        UNCHANGED <<session[r], loop[r], msgCh[r], batch[r], accepted[r], handed[r]>>

\* The messages of a session stay in order when what one place loses the next one gets.
LEMMA OneSession ==
    ASSUME Streams, NEW s \in Sessions, OnlyOf(s), Delivery(s)',
           Ordered(accepted'[s], handed'[s], batch'[s], msgCh'[s])
    PROVE  (\A r \in Sessions : Delivery(r))' /\ InOrder'
<1>1. ASSUME NEW r \in Sessions, r # s
      PROVE  Delivery(r)' /\ Ordered(accepted'[r], handed'[r], batch'[r], msgCh'[r])
  <2>1. UNCHANGED <<session[r], loop[r], msgCh[r], batch[r], accepted[r], handed[r]>>
    BY <1>1 DEF OnlyOf
  <2>2. Delivery(r)
    BY DEF Streams
  <2>3. Ordered(accepted[r], handed[r], batch[r], msgCh[r])
    BY ZenonT(60) DEF Streams, InOrder, Ordered
  <2>4. Delivery(r)'
    BY <2>1, <2>2 DEF Delivery
  <2> QED BY <2>1, <2>3, <2>4
<1> QED BY <1>1, Zenon DEF InOrder, Ordered

\* The index and the sessions a call has ahead of it do not change.
LEMMA IndexStays ==
    ASSUME Streams, UNCHANGED <<session, sessions, byPeer>>,
           \A d \in Deliverers : todo'[d] \subseteq todo[d]
    PROVE  NoSendOnClosed' /\ (\A p \in Peers : Listed(p))'
BY DEF Streams, NoSendOnClosed, Listed

\* A message that a visited session gets.
LEMMA VisitKeeps ==
    ASSUME Streams, NEW d \in Deliverers, NEW s \in Sessions, Visit(d, s)
    PROVE  Streams'
<1> USE StreamingAssumption
<1>1. /\ s \in todo[d] /\ s \in sessions /\ session[s] \in Kinds /\ message[d].id \in 1..sent
      /\ todo' = [todo EXCEPT ![d] = todo[d] \ {s}]
      /\ UNCHANGED <<session, sessions, byPeer, batch, loop, deadline, message, sent, now>>
  BY Zenon DEF Visit, Skip, DeliverSingle, Send, Drop, Visited, Streams, StreamTypes, StreamingTypeOK,
     NoSendOnClosed, Idle, sessionVars, loopVars
<1>2. /\ todo' \in [Deliverers -> SUBSET Sessions]
      /\ \A e \in Deliverers : todo'[e] \subseteq todo[e]
  BY <1>1, Zenon DEF Streams, StreamTypes, StreamingTypeOK
<1>3. NoSendOnClosed' /\ (\A p \in Peers : Listed(p))'
  BY <1>1, <1>2, IndexStays
<1>0. Ordered(accepted[s], handed[s], batch[s], msgCh[s])
  BY Zenon DEF Streams, InOrder, Ordered
<1>4. /\ msgCh \in [Sessions -> Seq(1..sent)] /\ batch \in [Sessions -> Seq(1..sent)]
      /\ accepted \in [Sessions -> Seq(1..sent)] /\ handed \in [Sessions -> Seq(1..sent)]
      /\ lastActivity \in [Sessions -> 0..now] /\ now \in 0..now
  BY DEF Streams, StreamTypes, StreamingTypeOK
<1>5. ASSUME msgCh' \in [Sessions -> Seq(1..sent)], accepted' \in [Sessions -> Seq(1..sent)],
             handed' \in [Sessions -> Seq(1..sent)], lastActivity' \in [Sessions -> 0..now]
      PROVE  StreamTypes'
  BY <1>1, <1>2, <1>4, <1>5, Zenon DEF Streams, StreamTypes, StreamingTypeOK, Idle
<1>6. CASE Skip(d, s) \/ Drop(d, s)
  <2>1. UNCHANGED <<lastActivity, msgCh, accepted, handed>>
    BY <1>6 DEF Skip, Drop, historyVars
  <2>2. StreamTypes'
    BY <1>4, <1>5, <2>1, Zenon
  <2>3. InOrder' /\ (\A r \in Sessions : Delivery(r))'
    BY <1>1, <2>1, ZenonT(60) DEF Streams, InOrder, Delivery
  <2> QED BY <1>3, <2>2, <2>3 DEF Streams
<1>7. CASE DeliverSingle(d, s)
  <2>1. /\ session[s].mode = "single" /\ UNCHANGED <<lastActivity, msgCh>>
        /\ handed' = [handed EXCEPT ![s] = Append(handed[s], message[d].id)]
        /\ accepted' = [accepted EXCEPT ![s] = Append(accepted[s], message[d].id)]
    BY <1>7 DEF DeliverSingle
  <2>2. msgCh[s] = <<>> /\ batch[s] = <<>>
    BY <2>1 DEF Streams, Delivery
  <2>3. /\ handed[s] \in Seq(1..sent) /\ accepted[s] \in Seq(1..sent)
        /\ Append(handed[s], message[d].id) \in Seq(1..sent)
        /\ Append(accepted[s], message[d].id) \in Seq(1..sent)
        /\ <<>> \in Seq(1..sent)
    BY <1>1, <1>4
  <2>4. StreamTypes'
    <3>1. handed' \in [Sessions -> Seq(1..sent)] /\ accepted' \in [Sessions -> Seq(1..sent)]
      BY <1>4, <2>1, <2>3
    <3> QED BY <1>4, <1>5, <2>1, <3>1, ZenonT(60)
  <2>5. /\ handed'[s] = Append(handed[s], message[d].id)
        /\ accepted'[s] = Append(accepted[s], message[d].id)
    BY <1>4, <2>1
  <2>6. Ordered(accepted'[s], handed'[s], batch'[s], msgCh'[s])
    <3>1. Ordered(accepted[s], handed[s], <<>>, <<>>)
      BY <1>0, <2>2
    <3>2. Ordered(Append(accepted[s], message[d].id), Append(handed[s], message[d].id), <<>>, <<>>)
      BY <1>1, <2>3, <3>1, OrderedSingle, ZenonT(60)
    <3>3. batch'[s] = <<>> /\ msgCh'[s] = <<>>
      BY <1>1, <2>1, <2>2
    <3> QED BY <2>5, <3>2, <3>3
  <2>7. OnlyOf(s) /\ Delivery(s)'
    BY <1>1, <2>1 DEF OnlyOf, Streams, Delivery
  <2> QED BY <1>3, <2>4, <2>6, <2>7, OneSession DEF Streams
<1>8. CASE Send(d, s)
  <2>1. /\ session[s].mode # "single" /\ UNCHANGED handed
        /\ msgCh' = [msgCh EXCEPT ![s] = Append(msgCh[s], message[d].id)]
        /\ accepted' = [accepted EXCEPT ![s] = Append(accepted[s], message[d].id)]
        /\ lastActivity' = [lastActivity EXCEPT ![s] = now]
    BY <1>8 DEF Send
  <2>2. loop[s] # "none"
    BY <1>1, <2>1 DEF Streams, Delivery
  <2>3. /\ handed[s] \in Seq(1..sent) /\ batch[s] \in Seq(1..sent) /\ msgCh[s] \in Seq(1..sent)
        /\ accepted[s] \in Seq(1..sent)
    BY <1>4
  <2>4. /\ Append(msgCh[s], message[d].id) \in Seq(1..sent)
        /\ Append(accepted[s], message[d].id) \in Seq(1..sent)
    BY <1>1, <2>3
  <2>5. StreamTypes'
    <3>1. msgCh' \in [Sessions -> Seq(1..sent)] /\ accepted' \in [Sessions -> Seq(1..sent)]
      BY <1>4, <2>1, <2>4
    <3>2. lastActivity' \in [Sessions -> 0..now]
      BY <1>4, <2>1
    <3> QED BY <1>4, <1>5, <2>1, <3>1, <3>2, ZenonT(60)
  <2>6. /\ msgCh'[s] = Append(msgCh[s], message[d].id)
        /\ accepted'[s] = Append(accepted[s], message[d].id)
    BY <1>4, <2>1
  <2>7. Ordered(accepted'[s], handed'[s], batch'[s], msgCh'[s])
    <3>1. Ordered(Append(accepted[s], message[d].id), handed[s], batch[s],
                  Append(msgCh[s], message[d].id))
      BY <1>0, <1>1, <2>3, OrderedSend, ZenonT(60)
    <3> QED BY <1>1, <2>1, <2>6, <3>1
  <2>8. OnlyOf(s) /\ Delivery(s)'
    BY <1>1, <2>1, <2>2 DEF OnlyOf, Streams, Delivery
  <2> QED BY <1>3, <2>5, <2>7, <2>8, OneSession DEF Streams
<1> QED BY <1>6, <1>7, <1>8 DEF Visit

\* A step of the delivery goroutine of session s that does not close it: h, b and m become
\* what it has handed over, its batch and its channel.
LEMMA LoopMoves ==
    ASSUME Streams, NEW s \in Sessions, loop[s] = "running",
           UNCHANGED <<session, sessions, byPeer, lastActivity, todo, message, sent, now, accepted>>,
           NEW h \in Seq(1..sent), NEW b \in Seq(1..sent), NEW m \in Seq(1..sent),
           NEW l \in {"running", "closing", "ended"},
           handed' = [handed EXCEPT ![s] = h], batch' = [batch EXCEPT ![s] = b],
           msgCh' = [msgCh EXCEPT ![s] = m], loop' = [loop EXCEPT ![s] = l],
           deadline' \in [Sessions -> 0..now + SessionTimeout],
           l # "running" \/ session[s].mode = "streaming" => b = <<>>,
           Ordered(accepted[s], h, b, m)
    PROVE  Streams'
<1> USE StreamingAssumption
<1>1. /\ msgCh \in [Sessions -> Seq(1..sent)] /\ batch \in [Sessions -> Seq(1..sent)]
      /\ accepted \in [Sessions -> Seq(1..sent)] /\ handed \in [Sessions -> Seq(1..sent)]
      /\ loop \in [Sessions -> {"none", "running", "closing", "ended"}]
  BY Zenon DEF Streams, StreamTypes, StreamingTypeOK
<1>2. /\ msgCh' \in [Sessions -> Seq(1..sent)] /\ batch' \in [Sessions -> Seq(1..sent)]
      /\ handed' \in [Sessions -> Seq(1..sent)]
  BY <1>1
<1>3. /\ loop' \in [Sessions -> {"none", "running", "closing", "ended"}]
      /\ loop'[s] = l /\ msgCh'[s] = m /\ batch'[s] = b /\ handed'[s] = h
  BY <1>1, Zenon
<1>4. StreamTypes'
  BY <1>1, <1>2, <1>3, ZenonT(60) DEF Streams, StreamTypes, StreamingTypeOK, Idle
<1>5. Delivery(s)'
  BY <1>3 DEF Streams, Delivery
<1>6. OnlyOf(s)
  BY <1>1 DEF OnlyOf
<1>7. Ordered(accepted'[s], handed'[s], batch'[s], msgCh'[s])
  BY <1>3
<1>8. NoSendOnClosed' /\ (\A p \in Peers : Listed(p))'
  BY IndexStays
<1> QED BY <1>4, <1>5, <1>6, <1>7, <1>8, OneSession DEF Streams

\* A step of a delivery goroutine, until it stops.
LEMMA GoroutineKeeps ==
    ASSUME Streams, NEW s \in Sessions, Receive(s) \/ FlushInterval(s) \/ Done(s) \/ TimedOut(s)
    PROVE  Streams'
<1> USE StreamingAssumption
<1>1. /\ loop[s] = "running"
      /\ UNCHANGED <<session, sessions, byPeer, lastActivity, todo, message, sent, now, accepted>>
  BY DEF Receive, FlushInterval, Done, TimedOut, sessionVars, callVars
<1>2. /\ msgCh \in [Sessions -> Seq(1..sent)] /\ batch \in [Sessions -> Seq(1..sent)]
      /\ handed \in [Sessions -> Seq(1..sent)]
      /\ loop \in [Sessions -> {"none", "running", "closing", "ended"}]
      /\ deadline \in [Sessions -> 0..now + SessionTimeout]
      /\ now \in Nat
  BY SMTT(60) DEF Streams, StreamTypes, StreamingTypeOK
<1>3. PICK S : S = 1..sent
  OBVIOUS
<1>4. PICK h \in Seq(S), b \in Seq(S), m \in Seq(S) :
        /\ h = handed[s] /\ b = batch[s] /\ m = msgCh[s]
  BY <1>2, <1>3
<1>5. Ordered(accepted[s], h, b, m)
  BY <1>4, Zenon DEF Streams, InOrder, Ordered
<1>6. /\ <<>> \in Seq(S) /\ h \o b \in Seq(S)
      /\ Ordered(accepted[s], h \o b, <<>>, m)
  BY <1>5, OrderedFlush
<1>7. CASE Receive(s)
  <2> DEFINE taken == Append(b, Head(m))
  <2>1. /\ m # <<>> /\ UNCHANGED loop
        /\ msgCh' = [msgCh EXCEPT ![s] = Tail(m)]
        /\ deadline' = [deadline EXCEPT ![s] = now + SessionTimeout]
        /\ \/ handed' = [handed EXCEPT ![s] = h \o taken] /\ batch' = [batch EXCEPT ![s] = <<>>]
           \/ /\ session[s].mode = "batch" /\ UNCHANGED handed
              /\ batch' = [batch EXCEPT ![s] = taken]
    BY <1>4, <1>7, Zenon DEF Receive, Flush
  <2>2. Tail(m) \in Seq(S) /\ taken \in Seq(S)
    BY <2>1
  <2>3. Ordered(accepted[s], h, taken, Tail(m))
    BY <1>5, <2>1, OrderedReceive
  <2> HIDE DEF taken
  <2>4. h \o taken \in Seq(S) /\ Ordered(accepted[s], h \o taken, <<>>, Tail(m))
    <3>1. h \o taken \in Seq(S)
      BY <2>2
    <3>2. PICK t \in Seq(S) : t = Tail(m)
      BY <2>2, Zenon
    <3>3. Ordered(accepted[s], h, taken, t)
      BY <2>3, <3>2
    <3>4. Ordered(accepted[s], h \o taken, <<>>, t)
      BY <2>2, <3>3, OrderedFlush
    <3> QED BY <3>1, <3>2, <3>4
  <2>5. deadline' \in [Sessions -> 0..now + SessionTimeout]
    BY <1>2, <2>1, SMTT(60)
  <2>6. loop' = [loop EXCEPT ![s] = "running"]
    BY <1>1, <1>2, <2>1
  <2>7. CASE handed' = [handed EXCEPT ![s] = h \o taken] /\ batch' = [batch EXCEPT ![s] = <<>>]
    BY <1>1, <1>3, <1>6, <2>1, <2>2, <2>4, <2>5, <2>6, <2>7, LoopMoves, Zenon
  <2>8. CASE /\ session[s].mode = "batch" /\ UNCHANGED handed
             /\ batch' = [batch EXCEPT ![s] = taken]
    <3>1. handed' = [handed EXCEPT ![s] = h]
      BY <1>2, <1>4, <2>8
    <3> QED BY <1>1, <1>3, <2>1, <2>2, <2>3, <2>5, <2>6, <2>8, <3>1, LoopMoves, Zenon
  <2> QED BY <2>1, <2>7, <2>8, Zenon
<1>8. CASE FlushInterval(s) \/ Done(s) \/ TimedOut(s)
  <2>1. PICK l \in {"running", "closing", "ended"} : loop' = [loop EXCEPT ![s] = l]
    BY <1>1, <1>2, <1>8, Zenon DEF FlushInterval, Done, TimedOut, FlushAndStop
  <2>2. /\ handed' = [handed EXCEPT ![s] = h \o b] /\ batch' = [batch EXCEPT ![s] = <<>>]
        /\ UNCHANGED <<msgCh, deadline>>
    BY <1>4, <1>8, ZenonT(60) DEF FlushInterval, Done, TimedOut, FlushAndStop, Flush
  <2>3. msgCh' = [msgCh EXCEPT ![s] = m]
    BY <1>2, <1>4, <2>2
  <2> QED BY <1>1, <1>2, <1>3, <1>6, <2>1, <2>2, <2>3, LoopMoves, Zenon
<1> QED BY <1>7, <1>8

\* f[n] is what Without keeps of the first n ids.
Keeping(f, ids, S, n) ==
    f = [k \in 0..n |-> IF k = 0 THEN <<>>
                        ELSE IF ids[k] \in S THEN f[k - 1]
                        ELSE Append(f[k - 1], ids[k])]

LEMMA KeepingExists ==
    ASSUME NEW ids, NEW S
    PROVE  \A n \in Nat : \E f : Keeping(f, ids, S, n)
<1> DEFINE G == {n \in Nat : \E f : Keeping(f, ids, S, n)}
<1>1. 0 \in G
  <2>1. Keeping([k \in 0..0 |-> <<>>], ids, S, 0)
    BY DEF Keeping
  <2> QED BY <2>1
<1>2. ASSUME NEW n \in Nat, n \in G
      PROVE  n + 1 \in G
  <2>1. PICK f : Keeping(f, ids, S, n)
    BY <1>2
  <2> DEFINE g == [k \in 0..(n + 1) |-> IF k <= n THEN f[k]
                                        ELSE IF ids[n + 1] \in S THEN f[n]
                                        ELSE Append(f[n], ids[n + 1])]
  <2>2. \A k \in 0..n : f[k] = IF k = 0 THEN <<>>
                               ELSE IF ids[k] \in S THEN f[k - 1]
                               ELSE Append(f[k - 1], ids[k])
    BY <2>1, Zenon DEF Keeping
  <2>3. ASSUME NEW k \in 0..(n + 1)
        PROVE  g[k] = IF k = 0 THEN <<>>
                      ELSE IF ids[k] \in S THEN g[k - 1]
                      ELSE Append(g[k - 1], ids[k])
    <3>1. CASE k <= n
      BY <2>2, <3>1
    <3>2. CASE k = n + 1
      BY <3>2
    <3> QED BY <3>1, <3>2
  <2>4. g = [k \in 0..(n + 1) |-> g[k]]
    OBVIOUS
  <2> HIDE DEF g
  <2>5. Keeping(g, ids, S, n + 1)
    BY <2>3, <2>4, Zenon DEF Keeping
  <2> QED BY <2>5
<1> HIDE DEF G
<1>3. Nat \subseteq G
  BY <1>1, <1>2, Count
<1> QED BY <1>3 DEF G

LEMMA WithoutKeeps ==
    ASSUME NEW T, NEW ids \in Seq(T), NEW S
    PROVE  \E f : Keeping(f, ids, S, Len(ids)) /\ Without(ids, S) = f[Len(ids)]
<1>0. Len(ids) \in Nat
  OBVIOUS
<1>1. \E f : Keeping(f, ids, S, Len(ids))
  BY <1>0, KeepingExists, Zenon
<1>2. Without(ids, S) = (CHOOSE f : Keeping(f, ids, S, Len(ids)))[Len(ids)]
  BY DEF Without, Keeping
<1> QED BY <1>1, <1>2, Zenon

LEMMA AppendRange ==
    ASSUME NEW T, NEW s \in Seq(T), NEW x \in T
    PROVE  /\ Append(s, x) \in Seq(T) /\ Len(Append(s, x)) = Len(s) + 1
           /\ Range(Append(s, x)) = Range(s) \cup {x}
           /\ IsInjective(s) /\ x \notin Range(s) => IsInjective(Append(s, x))
<1>1. Append(s, x) \in Seq(T) /\ Len(Append(s, x)) = Len(s) + 1
  OBVIOUS
<1>2. DOMAIN s = 1..Len(s) /\ DOMAIN Append(s, x) = 1..(Len(s) + 1) /\ Len(s) \in Nat
  OBVIOUS
<1>3. Append(s, x)[Len(s) + 1] = x /\ \A i \in 1..Len(s) : Append(s, x)[i] = s[i]
  OBVIOUS
<1>4. Range(Append(s, x)) = Range(s) \cup {x}
  <2> DEFINE a == Append(s, x)
  <2> HIDE DEF a
  <2>1. \A i \in 1..(Len(s) + 1) : a[i] \in Range(s) \cup {x}
    BY <1>2, <1>3 DEF a, Range
  <2>2. x \in Range(a) /\ \A i \in 1..Len(s) : s[i] \in Range(a)
    BY <1>2, <1>3 DEF a, Range
  <2> QED BY <1>2, <2>1, <2>2 DEF a, Range
<1>5. ASSUME IsInjective(s), x \notin Range(s)
      PROVE  IsInjective(Append(s, x))
  BY <1>2, <1>3, <1>5 DEF IsInjective, Range
<1> QED BY <1>1, <1>4, <1>5

\* Without keeps exactly the other ids, each of them once if they were there once.
LEMMA WithoutIs ==
    ASSUME NEW T, NEW ids \in Seq(T), NEW S, IsInjective(ids)
    PROVE  /\ Without(ids, S) \in Seq(T) /\ Len(Without(ids, S)) <= Len(ids)
           /\ Range(Without(ids, S)) = Range(ids) \ S
           /\ IsInjective(Without(ids, S))
<1>1. PICK f : Keeping(f, ids, S, Len(ids)) /\ Without(ids, S) = f[Len(ids)]
  BY WithoutKeeps
<1>2. /\ Len(ids) \in Nat /\ DOMAIN ids = 1..Len(ids) /\ \A i \in 1..Len(ids) : ids[i] \in T
      /\ \A i, j \in 1..Len(ids) : ids[i] = ids[j] => i = j
  BY DEF IsInjective
<1>3. f[0] = <<>> /\ \A k \in 1..Len(ids) :
        f[k] = IF ids[k] \in S THEN f[k - 1] ELSE Append(f[k - 1], ids[k])
  <2>1. \A k \in 0..Len(ids) : f[k] = IF k = 0 THEN <<>>
                                      ELSE IF ids[k] \in S THEN f[k - 1]
                                      ELSE Append(f[k - 1], ids[k])
    BY <1>1, Zenon DEF Keeping
  <2>2. 0 \in 0..Len(ids) /\ \A k \in 1..Len(ids) : k \in 0..Len(ids) /\ k # 0
    BY <1>2
  <2> QED BY <2>1, <2>2
<1> DEFINE Good(n) == /\ f[n] \in Seq(T) /\ Len(f[n]) <= n
                      /\ Range(f[n]) = {ids[i] : i \in 1..n} \ S
                      /\ IsInjective(f[n])
           G == {n \in Nat : n <= Len(ids) => Good(n)}
<1>4. 0 \in G
  <2>1. f[0] \in Seq(T) /\ Len(f[0]) <= 0
    BY <1>3
  <2>2. Range(f[0]) = {} /\ {ids[i] : i \in 1..0} = {} /\ IsInjective(f[0])
    BY <1>3 DEF Range, IsInjective
  <2> QED BY <2>1, <2>2
<1>5. ASSUME NEW n \in Nat, n \in G
      PROVE  n + 1 \in G
  <2> SUFFICES ASSUME n + 1 <= Len(ids)
               PROVE  Good(n + 1)
    OBVIOUS
  <2>1. n <= Len(ids) /\ n + 1 \in 1..Len(ids) /\ ids[n + 1] \in T
    BY <1>2
  <2>2. f[n + 1] = IF ids[n + 1] \in S THEN f[n] ELSE Append(f[n], ids[n + 1])
    BY <1>3, <2>1
  <2>3. /\ f[n] \in Seq(T) /\ Len(f[n]) <= n /\ IsInjective(f[n])
        /\ Range(f[n]) = {ids[i] : i \in 1..n} \ S
    BY <1>5, <2>1
  <2>4. {ids[i] : i \in 1..(n + 1)} = {ids[i] : i \in 1..n} \cup {ids[n + 1]}
    <3>1. 1..(n + 1) = (1..n) \cup {n + 1}
      OBVIOUS
    <3> QED BY <3>1
  <2>5. ids[n + 1] \notin {ids[i] : i \in 1..n}
    BY <1>2, <2>1
  <2>6. CASE ids[n + 1] \in S
    BY <2>2, <2>3, <2>4, <2>6
  <2>7. CASE ids[n + 1] \notin S
    <3>1. ids[n + 1] \notin Range(f[n])
      BY <2>3, <2>5
    <3>2. /\ f[n + 1] \in Seq(T) /\ Len(f[n + 1]) = Len(f[n]) + 1
          /\ Range(f[n + 1]) = Range(f[n]) \cup {ids[n + 1]} /\ IsInjective(f[n + 1])
      BY <2>1, <2>2, <2>3, <2>7, <3>1, AppendRange
    <3> QED BY <2>3, <2>4, <2>7, <3>2
  <2> QED BY <2>6, <2>7
<1> HIDE DEF G
<1>6. Nat \subseteq G
  BY <1>4, <1>5, Count
<1>7. Good(Len(ids))
  <2>1. PICK n \in Nat : n = Len(ids)
    BY <1>2, Zenon
  <2>2. n <= Len(ids) => Good(n)
    BY <1>6, Zenon DEF G
  <2>3. n <= Len(ids)
    BY <2>1
  <2> QED BY <2>1, <2>2, <2>3, Zenon
<1>8. Range(ids) = {ids[i] : i \in 1..Len(ids)}
  BY <1>2 DEF Range
<1> QED BY <1>1, <1>7, <1>8

\* Sessions leave while no call of DeliverMessage is under way.
LEMMA ForgetKeeps ==
    ASSUME Streams, NEW S, Unlocked, Forget(S),
           UNCHANGED <<session, lastActivity, msgCh, batch, deadline, todo, message, sent, now,
                       accepted, handed>>,
           \/ UNCHANGED loop
           \/ \E s \in Sessions : loop[s] = "closing" /\ loop' = [loop EXCEPT ![s] = "ended"]
    PROVE  Streams'
<1> USE StreamingAssumption
<1>1. /\ byPeer \in [Peers -> Seq(Sessions)]
      /\ sessions' = sessions \ S /\ byPeer' = [p \in Peers |-> Without(byPeer[p], S)]
  BY DEF Streams, StreamTypes, StreamingTypeOK, Forget
<1>2. ASSUME NEW p \in Peers
      PROVE  /\ byPeer'[p] \in Seq(Sessions) /\ Len(byPeer'[p]) <= Len(byPeer[p])
             /\ Range(byPeer'[p]) = Range(byPeer[p]) \ S /\ IsInjective(byPeer'[p])
  <2>1. byPeer[p] \in Seq(Sessions) /\ IsInjective(byPeer[p])
    BY <1>1 DEF Streams, Listed
  <2>2. byPeer'[p] = Without(byPeer[p], S)
    BY <1>1
  <2>3. PICK ids \in Seq(Sessions) : ids = byPeer[p]
    BY <2>1
  <2>4. IsInjective(ids)
    BY <2>1, <2>3
  <2>5. /\ Without(ids, S) \in Seq(Sessions) /\ Len(Without(ids, S)) <= Len(ids)
        /\ Range(Without(ids, S)) = Range(ids) \ S /\ IsInjective(Without(ids, S))
    BY <2>4, WithoutIs
  <2> QED BY <2>2, <2>3, <2>5
<1>3. byPeer' \in [Peers -> Seq(Sessions)]
  BY <1>1, <1>2
<1>4. ASSUME NEW p \in Peers
      PROVE  Listed(p)'
  <2>1. /\ Range(byPeer[p]) = {s \in sessions : session[s].peer = p}
        /\ Len(byPeer[p]) <= MaxSessionsPerPeer /\ Len(byPeer[p]) \in Nat
    BY <1>1 DEF Streams, Listed
  <2>2. Len(byPeer'[p]) \in Nat
    BY <1>2
  <2>3. Len(byPeer'[p]) <= MaxSessionsPerPeer
    BY <1>2, <2>1, <2>2
  <2>4. Range(byPeer'[p]) = {s \in sessions' : session'[s].peer = p}
    BY <1>1, <1>2, <2>1, Zenon
  <2> QED BY <1>2, <2>3, <2>4 DEF Listed
<1>5. /\ loop' \in [Sessions -> {"none", "running", "closing", "ended"}]
      /\ \A s \in Sessions : \/ loop'[s] = loop[s]
                             \/ loop[s] = "closing" /\ loop'[s] = "ended"
  BY ZenonT(60) DEF Streams, StreamTypes, StreamingTypeOK
<1>6. StreamTypes'
  BY <1>1, <1>3, <1>5, Zenon DEF Streams, StreamTypes, StreamingTypeOK, Idle
<1>7. (\A s \in Sessions : Delivery(s))'
  BY <1>5, ZenonT(60) DEF Streams, Delivery
<1>8. InOrder' /\ NoSendOnClosed'
  BY <1>1, Zenon DEF Streams, InOrder, NoSendOnClosed, Unlocked, Idle
<1> QED BY <1>4, <1>6, <1>7, <1>8, Zenon DEF Streams

LEMMA CreateKeeps ==
    ASSUME Streams, NEW s \in Sessions, NEW kind \in Kinds, CreateSession(s, kind)
    PROVE  Streams'
<1> USE StreamingAssumption
<1>1. /\ session[s] = Nil /\ Len(byPeer[kind.peer]) < MaxSessionsPerPeer
      /\ session' = [session EXCEPT ![s] = kind] /\ sessions' = sessions \cup {s}
      /\ byPeer' = [byPeer EXCEPT ![kind.peer] = Append(byPeer[kind.peer], s)]
      /\ lastActivity' = [lastActivity EXCEPT ![s] = now]
      /\ loop' = [loop EXCEPT ![s] = IF kind.mode = "single" THEN "none" ELSE "running"]
      /\ deadline' = [deadline EXCEPT ![s] = now + SessionTimeout]
      /\ UNCHANGED <<msgCh, batch, todo, message, sent, now, accepted, handed>>
  BY DEF CreateSession, callVars
<1>2. /\ kind.peer \in Peers /\ kind # Nil /\ kind.mode \in {"single", "streaming", "batch"}
  BY Zenon
<1>3. /\ session \in [Sessions -> Kinds \cup {Nil}]
      /\ byPeer \in [Peers -> Seq(Sessions)] /\ now \in 0..MaxTime
      /\ loop \in [Sessions -> {"none", "running", "closing", "ended"}]
      /\ lastActivity \in [Sessions -> 0..now]
      /\ deadline \in [Sessions -> 0..now + SessionTimeout]
      /\ sessions \subseteq {r \in Sessions : session[r] # Nil}
  BY Zenon DEF Streams, StreamTypes, StreamingTypeOK
<1>0. s \notin sessions
  BY <1>1, <1>3
<1>4. /\ session' \in [Sessions -> Kinds \cup {Nil}]
      /\ session'[s] = kind /\ \A r \in Sessions \ {s} : session'[r] = session[r]
      /\ sessions' \subseteq {r \in Sessions : session'[r] # Nil}
  BY <1>1, <1>2, <1>3, Zenon
<1>5. /\ loop' \in [Sessions -> {"none", "running", "closing", "ended"}]
      /\ loop'[s] = IF kind.mode = "single" THEN "none" ELSE "running"
      /\ \A r \in Sessions \ {s} : loop'[r] = loop[r]
  BY <1>1, <1>3
<1>6. lastActivity' \in [Sessions -> 0..now] /\ deadline' \in [Sessions -> 0..now + SessionTimeout]
  BY <1>1, <1>3, SMTT(60)
<1>7. ASSUME NEW p \in Peers
      PROVE  Listed(p)' /\ byPeer'[p] \in Seq(Sessions)
  <2>1. /\ byPeer[p] \in Seq(Sessions) /\ Len(byPeer[p]) \in Nat
        /\ Range(byPeer[p]) = {r \in sessions : session[r].peer = p}
        /\ IsInjective(byPeer[p]) /\ Len(byPeer[p]) <= MaxSessionsPerPeer
    BY <1>3 DEF Streams, Listed
  <2>2. CASE p = kind.peer
    <3>1. byPeer'[p] = Append(byPeer[p], s)
      BY <1>1, <1>2, <1>3, <2>2
    <3>2. s \notin Range(byPeer[p])
      BY <1>0, <2>1
    <3>3. /\ byPeer'[p] \in Seq(Sessions) /\ Len(byPeer'[p]) = Len(byPeer[p]) + 1
          /\ Range(byPeer'[p]) = Range(byPeer[p]) \cup {s} /\ IsInjective(byPeer'[p])
      <4>1. PICK ids \in Seq(Sessions) : ids = byPeer[p]
        BY <2>1
      <4>2. IsInjective(ids) /\ s \notin Range(ids)
        BY <2>1, <3>2, <4>1
      <4>3. /\ Append(ids, s) \in Seq(Sessions) /\ Len(Append(ids, s)) = Len(ids) + 1
            /\ Range(Append(ids, s)) = Range(ids) \cup {s} /\ IsInjective(Append(ids, s))
        BY <4>2, AppendRange
      <4> QED BY <3>1, <4>1, <4>3
    <3>4. Len(byPeer'[p]) <= MaxSessionsPerPeer
      BY <1>1, <2>1, <2>2, <3>3, SMTT(60)
    <3>5. Range(byPeer'[p]) = {r \in sessions' : session'[r].peer = p}
      BY <1>0, <1>1, <1>3, <1>4, <2>1, <2>2, <3>3, Zenon
    <3> QED BY <3>3, <3>4, <3>5 DEF Listed
  <2>3. CASE p # kind.peer
    <3>1. byPeer'[p] = byPeer[p]
      BY <1>1, <1>3, <2>3
    <3>2. {r \in sessions' : session'[r].peer = p} = {r \in sessions : session[r].peer = p}
      BY <1>0, <1>1, <1>3, <1>4, <2>3
    <3> QED BY <2>1, <3>1, <3>2 DEF Listed
  <2> QED BY <2>2, <2>3
<1>8. byPeer' \in [Peers -> Seq(Sessions)]
  BY <1>1, <1>3, <1>7, Zenon
<1>9. StreamTypes'
  BY <1>1, <1>4, <1>5, <1>6, <1>8, ZenonT(60) DEF Streams, StreamTypes, StreamingTypeOK, Idle
<1>10. ASSUME NEW r \in Sessions
       PROVE  Delivery(r)'
  <2>1. Delivery(r) /\ msgCh'[r] = msgCh[r] /\ batch'[r] = batch[r]
    BY <1>1, Zenon DEF Streams
  <2>2. CASE r = s
    BY <1>1, <1>2, <1>4, <1>5, <2>1, <2>2, Zenon DEF Delivery
  <2>3. CASE r # s
    BY <1>4, <1>5, <2>1, <2>3, Zenon DEF Delivery
  <2> QED BY <2>2, <2>3, Zenon
<1>11. InOrder' /\ NoSendOnClosed'
  BY <1>1, ZenonT(60) DEF Streams, InOrder, NoSendOnClosed
<1> QED BY <1>7, <1>9, <1>10, <1>11 DEF Streams

\* A call of DeliverMessage begins.
LEMMA DeliverKeeps ==
    ASSUME Streams, NEW d \in Deliverers, NEW topic \in Topics, DeliverMessage(d, topic)
    PROVE  Streams'
<1> USE StreamingAssumption
<1>1. /\ sent < MaxMessages /\ sent' = sent + 1
      /\ message' = [message EXCEPT ![d] = [id |-> sent + 1, topic |-> topic]]
      /\ todo' = [todo EXCEPT ![d] = sessions]
      /\ UNCHANGED <<session, sessions, byPeer, lastActivity, msgCh, batch, loop, deadline, now,
                     accepted, handed>>
  BY DEF DeliverMessage, sessionVars, loopVars, historyVars
<1>2. /\ sent \in 0..MaxMessages /\ DOMAIN message = Deliverers
      /\ todo \in [Deliverers -> SUBSET Sessions] /\ sessions \subseteq Sessions
      /\ \A e \in Deliverers : todo[e] # {} => message[e] \in Message /\ message[e].id \in 1..sent
  BY Zenon DEF Streams, StreamTypes, StreamingTypeOK, Idle
<1>3. sent' \in 0..MaxMessages /\ 1..sent \subseteq 1..sent'
  BY <1>1, <1>2
<1>4. Seq(1..sent) \subseteq Seq(1..sent')
  BY <1>3, SeqWider, Zenon
<1>5. ASSUME NEW e \in Deliverers, todo'[e] # {}
      PROVE  message'[e] \in Message /\ message'[e].id \in 1..sent'
  <2>1. CASE e = d
    <3>1. message'[e] = [id |-> sent + 1, topic |-> topic]
      BY <1>1, <1>2, <2>1
    <3>2. sent + 1 \in 1..MaxMessages /\ sent + 1 \in 1..sent'
      BY <1>1, <1>2
    <3> QED BY <3>1, <3>2 DEF Message
  <2>2. CASE e # d
    BY <1>1, <1>2, <1>3, <1>5, <2>2
  <2> QED BY <2>1, <2>2
<1>6. todo' \in [Deliverers -> SUBSET Sessions] /\ DOMAIN message' = Deliverers
  BY <1>1, <1>2, Zenon
<1>7. StreamTypes'
  <2>1. /\ {msgCh, batch, accepted, handed} \subseteq [Sessions -> Seq(1..sent)]
    BY ZenonT(60) DEF Streams, StreamTypes, StreamingTypeOK
  <2>2. {msgCh', batch', accepted', handed'} \subseteq [Sessions -> Seq(1..sent')]
    BY <1>1, <1>4, <2>1, Zenon
  <2> QED BY <1>1, <1>3, <1>5, <1>6, <2>2, ZenonT(60) DEF Streams, StreamTypes, StreamingTypeOK, Idle
<1>8. InOrder' /\ (\A s \in Sessions : Delivery(s))' /\ (\A p \in Peers : Listed(p))'
  BY <1>1, ZenonT(60) DEF Streams, InOrder, Delivery, Listed
<1>9. NoSendOnClosed'
  BY <1>1, <1>2 DEF Streams, NoSendOnClosed
<1> QED BY <1>7, <1>8, <1>9 DEF Streams

LEMMA StreamsKeep == Streams /\ [StreamingNext]_streamingVars => Streams'
<1> SUFFICES ASSUME Streams, [StreamingNext]_streamingVars
             PROVE  Streams'
  BY Zenon
<1> USE StreamingAssumption
<1>1. ASSUME NEW s \in Sessions, CloseSession(s)
      PROVE  Streams'
  BY <1>1, ForgetKeeps, ZenonT(60) DEF CloseSession, loopVars, callVars, historyVars
<1>2. ASSUME NEW s \in Sessions, CloseTimedOut(s)
      PROVE  Streams'
  BY <1>2, ForgetKeeps, ZenonT(60) DEF CloseTimedOut, callVars, historyVars
<1>3. CASE CleanupExpiredSessions
  BY <1>3, ForgetKeeps DEF CleanupExpiredSessions, loopVars, callVars, historyVars
<1>4. CASE Tick
  <2>1. /\ now \in Nat /\ now' = now + 1 /\ now < MaxTime
        /\ UNCHANGED <<session, sessions, byPeer, lastActivity, msgCh, batch, loop, deadline, todo,
                       message, sent, accepted, handed>>
    BY <1>4 DEF Tick, Streams, StreamTypes, StreamingTypeOK, sessionVars, loopVars, callVars,
       historyVars
  <2>2. /\ now' \in 0..MaxTime /\ 0..now \subseteq 0..now'
        /\ 0..now + SessionTimeout \subseteq 0..now' + SessionTimeout
    BY <2>1, SMTT(60)
  <2>3. StreamTypes'
    BY <2>1, <2>2, Zenon DEF Streams, StreamTypes, StreamingTypeOK, Idle
  <2>4. InOrder' /\ (\A s \in Sessions : Delivery(s))' /\ (\A p \in Peers : Listed(p))'
    BY <2>1, ZenonT(60) DEF Streams, InOrder, Delivery, Listed
  <2> QED BY <2>1, <2>3, <2>4 DEF Streams, NoSendOnClosed
<1>5. CASE UNCHANGED streamingVars
  <2>1. UNCHANGED <<session, sessions, byPeer, lastActivity, msgCh, batch, loop, deadline, todo,
                    message, sent, now, accepted, handed>>
    BY <1>5, Zenon DEF streamingVars, sessionVars, loopVars, callVars, historyVars
  <2>2. StreamTypes'
    BY <2>1, Zenon DEF Streams, StreamTypes, StreamingTypeOK, Idle
  <2>3. InOrder' /\ (\A s \in Sessions : Delivery(s))' /\ (\A p \in Peers : Listed(p))'
    BY <2>1, ZenonT(60) DEF Streams, InOrder, Delivery, Listed
  <2> QED BY <2>1, <2>2, <2>3, ZenonT(60) DEF Streams, NoSendOnClosed
<1> QED
  BY <1>1, <1>2, <1>3, <1>4, <1>5, CreateKeeps, DeliverKeeps, VisitKeeps, GoroutineKeeps
  DEF StreamingNext, LoopStep

\* A session without repetitions in the index is counted once.
LEMMA IndexCounts ==
    ASSUME NEW T, NEW ids \in Seq(T), IsInjective(ids)
    PROVE  Len(ids) = Cardinality(Range(ids))
<1>1. Len(ids) \in Nat /\ ids \in [1..Len(ids) -> Range(ids)]
  BY DEF Range
<1>2. \A t \in Range(ids) : \E i \in 1..Len(ids) : ids[i] = t
  BY DEF Range
<1>3. ids \in Bijection(1..Len(ids), Range(ids))
  BY <1>1, <1>2 DEF Bijection, Injection, Surjection
<1>4. ExistsBijection(1..Len(ids), Range(ids))
  BY <1>3 DEF ExistsBijection
<1> QED BY <1>1, <1>4, FS_CountingElements, Zenon

\* Every session gets the messages its channel accepted in the order it accepted them, each
\* once: whatever closes the session meanwhile, and however many calls and goroutines run.
THEOREM SessionsGetMessagesInOrder == StreamingSpec => []InOrder
<1>1. Streams => InOrder
  BY DEF Streams
<1> QED BY StreamsStart, StreamsKeep, <1>1, PTL DEF StreamingSpec

\* DeliverMessage never sends on a closed channel: only the lock keeps CloseSession, the
\* timer's goroutine and the clean-up out while sessions are ahead of it.
THEOREM NeverSendsOnClosed == StreamingSpec => []NoSendOnClosed
<1>1. Streams => NoSendOnClosed
  BY DEF Streams
<1> QED BY StreamsStart, StreamsKeep, <1>1, PTL DEF StreamingSpec

\* A delivery goroutine that has stopped has handed over everything it received.
THEOREM GoroutinesStopFlushed == StreamingSpec => []StopsFlushed
<1>1. Streams => StopsFlushed
  BY DEF Streams, StopsFlushed, Delivery
<1> QED BY StreamsStart, StreamsKeep, <1>1, PTL DEF StreamingSpec

\* The index of a peer lists each of its sessions once and no session that is gone, so the
\* limit on sessions counts what it should.
THEOREM IndexFollowsSessions == StreamingSpec => []IndexAgrees
<1>1. Streams => IndexAgrees
  <2> SUFFICES ASSUME Streams, NEW p \in Peers
               PROVE  /\ Range(byPeer[p]) = {s \in sessions : session[s].peer = p}
                      /\ Len(byPeer[p]) = Cardinality(Range(byPeer[p]))
                      /\ Len(byPeer[p]) <= MaxSessionsPerPeer
    BY Zenon DEF IndexAgrees
  <2>1. Listed(p) /\ byPeer[p] \in Seq(Sessions)
    BY DEF Streams, StreamTypes, StreamingTypeOK
  <2> QED BY <2>1, IndexCounts, Zenon DEF Listed
<1> QED BY StreamsStart, StreamsKeep, <1>1, PTL DEF StreamingSpec
=============================================================================
