--------------------------- MODULE Subscriptions ---------------------------
(***************************************************************************)
(* The subscription manager and the bridge that keeps the node's pubsub    *)
(* topics in step with it.  The manager's operations, ProcessMessage among *)
(* them, hold its lock and are single steps.  SyncTopics holds the         *)
(* bridge's lock, but reads the required topics once and then joins and    *)
(* leaves topics one by one: subscriptions may change meanwhile, and each  *)
(* join and leave may fail and is then skipped.                            *)
(*                                                                         *)
(* What a message carries is reduced to its schema, its sender and the     *)
(* subscriptions whose encryption preference and filters accept it.  The   *)
(* goroutines that run the handlers are left out: a message counts as      *)
(* delivered to a subscription when ProcessMessage has counted it.         *)
(***************************************************************************)
EXTENDS Naturals, Functions

CONSTANTS
    SubIDs,
    DataTypes,
    Stem,           \* a schema type without its .fbs suffix
    SourcePeers, All,
    Configs,        \* the configurations clients ask for
    NoSub, NoSync,
    WindowLength,   \* the minute of the rate limit, in moments
    MaxMoment,      \* bound: the clock
    MaxTopicFaults  \* bound: joins and leaves that fail

Subscription == [status : {"active", "paused"}, config : Configs, count : Nat, reset : Nat]

\* What validateConfig accepts.
ASSUME SubscriptionsAssumption ==
    /\ \A c \in Configs :
         /\ c.dataTypes \subseteq DataTypes /\ c.dataTypes # {}
         /\ c.sourcePeers \subseteq SourcePeers \cup {All} /\ c.sourcePeers # {}
         /\ c.rateLimit \in Nat
    /\ NoSub \notin Subscription
    /\ DOMAIN Stem = DataTypes
    /\ All \notin SourcePeers
    /\ MaxMoment \in Nat \ {0}
    /\ {WindowLength, MaxTopicFaults} \subseteq Nat

VARIABLES
    subs,        \* subscriptions: status, configuration and window
    moment,      \* time.Now()
    delivered,   \* history: by subscription and moment, the messages its limit let through
    highest,     \* history: the highest rate limit of each subscription
    sync,        \* the SyncTopics in progress
    subscribed,  \* subscribedTopics of the bridge
    member,      \* the topics the node has joined
    topicFaults,
    synced       \* history: the last SyncTopics had no failure, and no subscription
                 \* has changed since it read the required topics

subscriptionVars ==
    <<subs, moment, delivered, highest, sync, subscribed, member, topicFaults, synced>>
managerVars == <<subs, delivered, highest, synced>>
bridgeVars == <<sync, subscribed, member, topicFaults>>

Topics == {"data"} \X {Stem[d] : d \in DataTypes}
          \cup {"sds"} \X DataTypes \cup {"peer"} \X SourcePeers

SubscriptionsTypeOK ==
    /\ subs \in [SubIDs -> Subscription \cup {NoSub}]
    /\ moment \in 1..MaxMoment
    /\ delivered \in [SubIDs -> [1..MaxMoment -> Nat]]
    /\ highest \in [SubIDs -> Nat]
    /\ sync = NoSync \/ (sync.required \subseteq Topics /\ sync.todo \subseteq Topics
                         /\ sync.loop \in {"join", "leave"} /\ sync.clean \in BOOLEAN)
    /\ subscribed \subseteq Topics /\ member \subseteq Topics
    /\ topicFaults \in 0..MaxTopicFaults
    /\ synced \in BOOLEAN

SubscriptionsInit ==
    /\ subs = [id \in SubIDs |-> NoSub]
    /\ moment = 1
    /\ delivered = [id \in SubIDs |-> [t \in 1..MaxMoment |-> 0]]
    /\ highest = [id \in SubIDs |-> 0]
    /\ sync = NoSync
    /\ subscribed = {} /\ member = {}
    /\ topicFaults = 0
    /\ synced = FALSE
-----------------------------------------------------------------------------
Existing == {id \in SubIDs : subs[id] # NoSub}
Active == {id \in Existing : subs[id].status = "active"}

\* GetRequiredTopics.
RequiredTopics ==
    UNION {{<<"data", Stem[d]>> : d \in subs[id].config.dataTypes}
           \cup {"sds"} \X subs[id].config.dataTypes
           \cup {"peer"} \X (subs[id].config.sourcePeers \ {All}) : id \in Active}

\* History: a change of a subscription outdates the sync in progress and the last one.
Changed(id, sub) ==
    /\ subs' = [subs EXCEPT ![id] = sub]
    /\ synced' = FALSE
    /\ sync' = IF sync = NoSync THEN NoSync ELSE [sync EXCEPT !.clean = FALSE]
    /\ UNCHANGED <<moment, subscribed, member, topicFaults>>

RaiseHighest(id, config) ==
    highest' = [highest EXCEPT ![id] = IF config.rateLimit > @ THEN config.rateLimit ELSE @]

\* A random id, never used before; the reset time of a new subscription is zero.
CreateSubscription(id, config) ==
    /\ id \notin Existing
    /\ Changed(id, [status |-> "active", config |-> config, count |-> 0, reset |-> 0])
    /\ highest' = [highest EXCEPT ![id] = config.rateLimit]
    /\ delivered' = [delivered EXCEPT ![id] = [t \in 1..MaxMoment |-> 0]]

\* The window goes on with the new configuration.
UpdateSubscription(id, config) ==
    /\ id \in Existing
    /\ Changed(id, [subs[id] EXCEPT !.config = config])
    /\ RaiseHighest(id, config)
    /\ UNCHANGED delivered

DeleteSubscription(id) ==
    /\ id \in Existing
    /\ Changed(id, NoSub)
    /\ UNCHANGED <<highest, delivered>>

PauseSubscription(id) ==
    /\ id \in Existing
    /\ Changed(id, [subs[id] EXCEPT !.status = "paused"])
    /\ UNCHANGED <<highest, delivered>>

ResumeSubscription(id) ==
    /\ id \in Existing
    /\ Changed(id, [subs[id] EXCEPT !.status = "active"])
    /\ UNCHANGED <<highest, delivered>>

Limited(sub) == sub.config.rateLimit > 0

\* The window of the rate limit, begun anew when it has passed.
Window(sub) ==
    IF moment > sub.reset THEN [count |-> 0, reset |-> moment + WindowLength]
    ELSE [count |-> sub.count, reset |-> sub.reset]

\* Mutant: one message too many.
RateLimitOffByOne(sub) == ~Limited(sub) \/ Window(sub).count <= sub.config.rateLimit

\* What checkRateLimit answers.
CheckRateLimit(sub) == ~Limited(sub) \/ Window(sub).count < sub.config.rateLimit

\* The subscription after checkRateLimit.
RateChecked(sub) ==
    IF ~Limited(sub) THEN sub
    ELSE [sub EXCEPT !.count = Window(sub).count + (IF CheckRateLimit(sub) THEN 1 ELSE 0),
                     !.reset = Window(sub).reset]

MatchesSubscription(sub, schema, from) ==
    /\ schema \in sub.config.dataTypes
    /\ sub.config.sourcePeers \cap {All, from} # {}

ProcessMessage(schema, from, accepting) ==
    /\ LET matching == {id \in Active \cap accepting : MatchesSubscription(subs[id], schema, from)}
       IN  /\ matching # {}
           /\ subs' = [id \in SubIDs |-> IF id \in matching THEN RateChecked(subs[id]) ELSE subs[id]]
           /\ delivered' = [id \in SubIDs |->
                 IF id \in matching /\ Limited(subs[id]) /\ CheckRateLimit(subs[id])
                 THEN [delivered[id] EXCEPT ![moment] = @ + 1] ELSE delivered[id]]
    /\ UNCHANGED <<moment, highest, synced, bridgeVars>>

SubscriptionsTick ==
    /\ moment < MaxMoment
    /\ moment' = moment + 1
    /\ UNCHANGED <<managerVars, bridgeVars>>
-----------------------------------------------------------------------------
\* SyncTopics reads the required topics.
SyncTopics ==
    /\ sync = NoSync
    /\ sync' = [loop |-> "join", required |-> RequiredTopics,
                todo |-> RequiredTopics \ subscribed, clean |-> TRUE]
    /\ UNCHANGED <<managerVars, moment, subscribed, member, topicFaults>>

Visited(topic) == [sync EXCEPT !.todo = @ \ {topic}]
TopicFault == topicFaults < MaxTopicFaults /\ topicFaults' = topicFaults + 1

Visiting(loop, topic) == sync # NoSync /\ sync.loop = loop /\ topic \in sync.todo

JoinTopic(topic) ==
    /\ Visiting("join", topic)
    /\ member' = member \cup {topic}
    /\ subscribed' = subscribed \cup {topic}
    /\ sync' = Visited(topic)
    /\ UNCHANGED <<managerVars, moment, topicFaults>>

\* Mutant: a topic that could not be joined is noted as joined.
JoinFailedNoted(topic) ==
    /\ Visiting("join", topic)
    /\ TopicFault
    /\ subscribed' = subscribed \cup {topic}
    /\ sync' = [Visited(topic) EXCEPT !.clean = FALSE]
    /\ UNCHANGED <<managerVars, moment, member>>

JoinFailed(topic) ==
    /\ Visiting("join", topic)
    /\ TopicFault
    /\ sync' = [Visited(topic) EXCEPT !.clean = FALSE]
    /\ UNCHANGED <<managerVars, moment, subscribed, member>>

JoinsDone ==
    /\ sync # NoSync /\ sync.loop = "join" /\ sync.todo = {}
    /\ sync' = [sync EXCEPT !.loop = "leave", !.todo = subscribed \ sync.required]
    /\ UNCHANGED <<managerVars, moment, subscribed, member, topicFaults>>

LeaveTopic(topic) ==
    /\ Visiting("leave", topic)
    /\ member' = member \ {topic}
    /\ subscribed' = subscribed \ {topic}
    /\ sync' = Visited(topic)
    /\ UNCHANGED <<managerVars, moment, topicFaults>>

LeaveFailed(topic) ==
    /\ Visiting("leave", topic)
    /\ TopicFault
    /\ sync' = [Visited(topic) EXCEPT !.clean = FALSE]
    /\ UNCHANGED <<managerVars, moment, subscribed, member>>

SyncDone ==
    /\ sync # NoSync /\ sync.loop = "leave" /\ sync.todo = {}
    /\ sync' = NoSync
    /\ synced' = sync.clean
    /\ UNCHANGED <<subs, delivered, highest, moment, subscribed, member, topicFaults>>

ManagerNext ==
    \E id \in SubIDs :
        \/ \E config \in Configs : CreateSubscription(id, config) \/ UpdateSubscription(id, config)
        \/ DeleteSubscription(id) \/ PauseSubscription(id) \/ ResumeSubscription(id)

DeliveryNext ==
    \/ \E schema \in DataTypes, from \in SourcePeers, accepting \in SUBSET SubIDs :
         ProcessMessage(schema, from, accepting)
    \/ SubscriptionsTick

BridgeNext ==
    \/ \E topic \in Topics :
         JoinTopic(topic) \/ JoinFailed(topic) \/ LeaveTopic(topic) \/ LeaveFailed(topic)
    \/ SyncTopics \/ JoinsDone \/ SyncDone

SubscriptionsSpec ==
    SubscriptionsInit /\ [][ManagerNext \/ DeliveryNext \/ BridgeNext]_subscriptionVars
-----------------------------------------------------------------------------
\* After a SyncTopics with no failure, and until a subscription changes, the node is
\* a member of exactly the topics its active subscriptions require, whatever joins
\* and leaves of earlier calls failed.
SyncedMatches == synced => member = RequiredTopics

\* A subscription gets at most twice its highest rate limit in any minute: the windows
\* of checkRateLimit last longer than a minute, so a minute meets two of them at most.
\* (One that is updated keeps its window; messages it got without a limit do not count.)
RateLimitHolds ==
    \A id \in SubIDs, t \in 1..MaxMoment :
        LET minute == {u \in t..(t + WindowLength) : u <= MaxMoment} IN
        SumFunctionOnSet(delivered[id], minute) <= 2 * highest[id]
=============================================================================
