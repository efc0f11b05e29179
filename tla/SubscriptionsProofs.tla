------------------------ MODULE SubscriptionsProofs ------------------------
(***************************************************************************)
(* What the subscription manager and the topic bridge keep, for every      *)
(* value of their constants.                                               *)
(***************************************************************************)
EXTENDS Subscriptions, Sums
-----------------------------------------------------------------------------
(* The rate limit of subscriptions.                                        *)

\* The messages of a history f at the moments from i to j.
Moments(i, j) == {u \in 1..MaxMoment : i <= u /\ u <= j}
Total(f, i, j) == SumFunctionOnSet(f, Moments(i, j))

\* No minute has more than twice the highest limit h, and nothing is in the future.
Within(f, h, now) ==
    /\ \A t \in 1..MaxMoment : Total(f, t, t + WindowLength) <= 2 * h
    /\ \A u \in 1..MaxMoment : u > now => f[u] = 0

\* The window that ends at reset counts all its messages, it is the last one, and it
\* has no more of them than the highest limit, as has the minute before it.
Windowed(f, h, now, limit, count, reset) ==
    /\ limit <= h
    /\ reset <= now + WindowLength
    /\ \A u \in 1..MaxMoment : u > reset => f[u] = 0
    /\ Total(f, reset - WindowLength, reset) <= count
    /\ Total(f, reset - WindowLength, reset) <= h
    /\ Total(f, reset - 2 * WindowLength - 1, reset - WindowLength - 1) <= h

SubsTyped ==
    /\ subs \in [SubIDs -> Subscription \cup {NoSub}]
    /\ moment \in 1..MaxMoment
    /\ delivered \in [SubIDs -> [1..MaxMoment -> Nat]]
    /\ highest \in [SubIDs -> Nat]

Limits ==
    \A id \in SubIDs :
        /\ Within(delivered[id], highest[id], moment)
        /\ subs[id] # NoSub =>
             Windowed(delivered[id], highest[id], moment, subs[id].config.rateLimit,
                      subs[id].count, subs[id].reset)

\* A set of moments is finite.
LEMMA MomentsFinite ==
    ASSUME NEW i, NEW j
    PROVE  IsFiniteSet(Moments(i, j))
<1>1. MaxMoment \in Nat
  BY SubscriptionsAssumption
<1>2. IsFiniteSet(1..MaxMoment)
  BY <1>1, FS_Interval
<1> QED BY <1>2, FS_Subset, Zenon DEF Moments

\* A number of messages.
LEMMA TotalNat ==
    ASSUME NEW f \in [1..MaxMoment -> Nat], NEW i, NEW j
    PROVE  Total(f, i, j) \in Nat
<1>1. \A u \in Moments(i, j) : f[u] \in Nat
  BY DEF Moments
<1> QED BY <1>1, MomentsFinite, SumNat, Zenon DEF Total

\* Moments whose messages are those of two spans have at most the messages of both.
LEMMA TotalCover ==
    ASSUME NEW f \in [1..MaxMoment -> Nat], NEW i, NEW j, NEW k, NEW l, NEW m, NEW n,
           \A u \in Moments(i, j) : f[u] = 0 \/ u \in Moments(k, l) \/ u \in Moments(m, n)
    PROVE  Total(f, i, j) <= Total(f, k, l) + Total(f, m, n)
<1>1. \A u \in Moments(k, l) \cup Moments(m, n) \cup Moments(i, j) : f[u] \in Nat
  BY DEF Moments
<1>2. \A u \in Moments(i, j) \ (Moments(k, l) \cup Moments(m, n)) : f[u] = 0
  OBVIOUS
<1> QED BY <1>1, <1>2, MomentsFinite, SumCover, Zenon DEF Total

\* And those of one span at most its messages.
LEMMA TotalPart ==
    ASSUME NEW f \in [1..MaxMoment -> Nat], NEW i, NEW j, NEW k, NEW l,
           \A u \in Moments(i, j) : f[u] = 0 \/ u \in Moments(k, l)
    PROVE  Total(f, i, j) <= Total(f, k, l)
<1>1. Moments(1, 0) = {}
  BY SubscriptionsAssumption DEF Moments
<1>2. Total(f, 1, 0) = 0
  BY <1>1, SumEmpty DEF Total
<1>3. Total(f, i, j) <= Total(f, k, l) + Total(f, 1, 0)
  BY TotalCover, Zenon
<1>4. Total(f, k, l) \in Nat
  BY TotalNat
<1> QED BY <1>2, <1>3, <1>4

\* Moments without messages.
LEMMA TotalNone ==
    ASSUME NEW f \in [1..MaxMoment -> Nat], NEW i, NEW j, \A u \in Moments(i, j) : f[u] = 0
    PROVE  Total(f, i, j) = 0
BY MomentsFinite, SumZero, Zenon DEF Total

\* One more message at the moment now.
LEMMA TotalBump ==
    ASSUME NEW f \in [1..MaxMoment -> Nat], NEW now \in 1..MaxMoment, NEW i, NEW j
    PROVE  Total([f EXCEPT ![now] = @ + 1], i, j) =
             IF now \in Moments(i, j) THEN Total(f, i, j) + 1 ELSE Total(f, i, j)
<1> DEFINE g == [f EXCEPT ![now] = @ + 1]
<1>1. \A u \in 1..MaxMoment : f[u] \in Int /\ g[u] = IF u = now THEN f[u] + 1 ELSE f[u]
  OBVIOUS
<1>2. Moments(i, j) \subseteq 1..MaxMoment
  BY DEF Moments
<1> HIDE DEF g
<1>3. CASE now \in Moments(i, j)
  <2>1. Shifted(g, f, Moments(i, j), now, 1)
    BY <1>1, <1>2 DEF Shifted
  <2>2. Total(g, i, j) = Total(f, i, j) + 1
    BY <1>3, <2>1, MomentsFinite, SumShift DEF Total
  <2> QED BY <1>3, <2>2 DEF g
<1>4. CASE now \notin Moments(i, j)
  <2>1. \A u \in Moments(i, j) : f[u] = g[u]
    BY <1>1, <1>2, <1>4
  <2>2. \A u \in Moments(i, j) : f[u] \in Int
    BY <1>1, <1>2
  <2>3. Total(g, i, j) = Total(f, i, j)
    BY <2>1, <2>2, MomentsFinite, SumSame, Zenon DEF Total
  <2> QED BY <1>4, <2>3 DEF g
<1> QED BY <1>3, <1>4

\* A window that has passed is the minute before the next one.
LEMMA WindowRenewed ==
    ASSUME NEW f \in [1..MaxMoment -> Nat], NEW h \in Nat, NEW now \in 1..MaxMoment,
           NEW limit \in Nat, NEW count \in Nat, NEW reset \in Nat, now > reset,
           Windowed(f, h, now, limit, count, reset)
    PROVE  Windowed(f, h, now, limit, 0, now + WindowLength)
<1> DEFINE W == WindowLength
           r == now + W
<1>0. W \in Nat /\ now \in Nat
  BY SubscriptionsAssumption
<1>1. r - W = now /\ r - 2 * W - 1 = now - W - 1 /\ r - W - 1 = now - 1
  BY <1>0
<1>2. \A u \in 1..MaxMoment : u > reset => f[u] = 0
  BY DEF Windowed
<1>3. Total(f, now, r) = 0
  <2>1. \A u \in Moments(now, r) : f[u] = 0
    BY <1>0, <1>2 DEF Moments
  <2> QED BY <2>1, TotalNone, Zenon
<1>4. Total(f, now - W - 1, now - 1) <= h
  <2>1. \A u \in Moments(now - W - 1, now - 1) : f[u] = 0 \/ u \in Moments(reset - W, reset)
    BY <1>0, <1>2 DEF Moments
  <2>2. Total(f, now - W - 1, now - 1) <= Total(f, reset - W, reset)
    BY <2>1, TotalPart, Zenon
  <2>3. Total(f, reset - W, reset) <= h
    BY DEF Windowed
  <2>4. Total(f, now - W - 1, now - 1) \in Nat /\ Total(f, reset - W, reset) \in Nat
    BY TotalNat
  <2> QED BY <2>2, <2>3, <2>4
<1>5. \A u \in 1..MaxMoment : u > r => f[u] = 0
  BY <1>0, <1>2
<1>6. limit <= h
  BY DEF Windowed
<1>7. Total(f, r - W, r) = 0 /\ Total(f, r - 2 * W - 1, r - W - 1) <= h
  BY <1>1, <1>3, <1>4
<1> HIDE DEF r
<1>8. r <= now + W
  BY <1>0 DEF r
<1> QED BY <1>5, <1>6, <1>7, <1>8 DEF Windowed, r

\* A message within the limit keeps the window, and every minute, within theirs.
LEMMA WindowCounts ==
    ASSUME NEW f \in [1..MaxMoment -> Nat], NEW h \in Nat, NEW now \in 1..MaxMoment,
           NEW limit \in Nat, NEW count \in Nat, NEW reset \in Nat, now <= reset, count < limit,
           Within(f, h, now), Windowed(f, h, now, limit, count, reset)
    PROVE  LET g == [f EXCEPT ![now] = @ + 1] IN
           Within(g, h, now) /\ Windowed(g, h, now, limit, count + 1, reset)
<1> DEFINE g == [f EXCEPT ![now] = @ + 1]
           W == WindowLength
<1>0. W \in Nat /\ now \in Nat /\ MaxMoment \in Nat
  BY SubscriptionsAssumption
<1>1. /\ limit <= h /\ reset <= now + W
      /\ \A u \in 1..MaxMoment : u > reset => f[u] = 0
      /\ Total(f, reset - W, reset) <= count
      /\ Total(f, reset - 2 * W - 1, reset - W - 1) <= h
  BY DEF Windowed
<1>2. g \in [1..MaxMoment -> Nat] /\ \A u \in 1..MaxMoment : u # now => g[u] = f[u]
  OBVIOUS
<1>3. \A i, j : Total(g, i, j) =
        IF now \in Moments(i, j) THEN Total(f, i, j) + 1 ELSE Total(f, i, j)
  BY TotalBump, Zenon
<1> HIDE DEF g
<1>4. now \in Moments(reset - W, reset) /\ now \notin Moments(reset - 2 * W - 1, reset - W - 1)
  BY <1>0, <1>1 DEF Moments
<1>5. Total(g, reset - W, reset) <= count + 1 /\ Total(g, reset - W, reset) <= h
  <2>1. Total(g, reset - W, reset) = Total(f, reset - W, reset) + 1
    BY <1>3, <1>4
  <2>2. Total(f, reset - W, reset) \in Nat
    BY TotalNat
  <2> QED BY <1>1, <2>1, <2>2
<1>6. Total(g, reset - 2 * W - 1, reset - W - 1) <= h
  BY <1>1, <1>3, <1>4
<1>7. \A u \in 1..MaxMoment : u > reset => g[u] = 0
  BY <1>0, <1>1, <1>2
<1>8. \A u \in 1..MaxMoment : u > now => g[u] = 0
  BY <1>0, <1>2 DEF Within
<1>9. ASSUME NEW t \in 1..MaxMoment
      PROVE  Total(g, t, t + W) <= 2 * h
  <2>1. CASE now \notin Moments(t, t + W)
    <3>1. Total(g, t, t + W) = Total(f, t, t + W)
      BY <1>3, <2>1
    <3> QED BY <3>1 DEF Within
  <2>2. CASE now \in Moments(t, t + W)
    <3>1. \A u \in Moments(t, t + W) : \/ g[u] = 0
                                       \/ u \in Moments(reset - 2 * W - 1, reset - W - 1)
                                       \/ u \in Moments(reset - W, reset)
      BY <1>0, <1>1, <1>7, <2>2 DEF Moments
    <3>2. Total(g, t, t + W) <= Total(g, reset - 2 * W - 1, reset - W - 1)
                                + Total(g, reset - W, reset)
      BY <1>2, <3>1, TotalCover, Zenon
    <3>3. /\ Total(g, t, t + W) \in Nat /\ Total(g, reset - W, reset) \in Nat
          /\ Total(g, reset - 2 * W - 1, reset - W - 1) \in Nat
      BY <1>2, TotalNat
    <3> QED BY <1>5, <1>6, <3>2, <3>3
  <2> QED BY <2>1, <2>2
<1>10. Within(g, h, now)
  BY <1>8, <1>9 DEF Within
<1>11. Windowed(g, h, now, limit, count + 1, reset)
  BY <1>1, <1>5, <1>6, <1>7 DEF Windowed
<1> QED BY <1>10, <1>11 DEF g

\* A higher limit, a later moment and another configuration within the highest limit.
LEMMA LimitsLoosen ==
    ASSUME NEW f \in [1..MaxMoment -> Nat], NEW h \in Nat, NEW h2 \in Nat, h <= h2,
           NEW now \in Nat, NEW now2 \in Nat, now <= now2,
           NEW limit, NEW limit2 \in Nat, limit2 <= h2, NEW count \in Nat, NEW reset \in Nat
    PROVE  /\ Within(f, h, now) => Within(f, h2, now2)
           /\ Windowed(f, h, now, limit, count, reset) =>
                Windowed(f, h2, now2, limit2, count, reset)
<1>0. WindowLength \in Nat /\ MaxMoment \in Nat
  BY SubscriptionsAssumption
<1>1. \A i, j : Total(f, i, j) \in Nat
  BY TotalNat
<1>2. ASSUME Within(f, h, now)
      PROVE  Within(f, h2, now2)
  <2>1. ASSUME NEW t \in 1..MaxMoment
        PROVE  Total(f, t, t + WindowLength) <= 2 * h2
    <3>1. Total(f, t, t + WindowLength) <= 2 * h
      BY <1>2 DEF Within
    <3> QED BY <1>1, <3>1
  <2>2. \A u \in 1..MaxMoment : u > now2 => f[u] = 0
    BY <1>0, <1>2 DEF Within
  <2> QED BY <2>1, <2>2 DEF Within
<1>3. ASSUME Windowed(f, h, now, limit, count, reset)
      PROVE  Windowed(f, h2, now2, limit2, count, reset)
  <2> DEFINE a == Total(f, reset - WindowLength, reset)
             c == Total(f, reset - 2 * WindowLength - 1, reset - WindowLength - 1)
  <2>1. a <= h /\ c <= h /\ a <= count /\ reset <= now + WindowLength
        /\ \A u \in 1..MaxMoment : u > reset => f[u] = 0
    BY <1>3 DEF Windowed
  <2>2. a \in Nat /\ c \in Nat
    BY <1>1
  <2> HIDE DEF a, c
  <2>3. a <= h2 /\ c <= h2 /\ reset <= now2 + WindowLength
    BY <1>0, <2>1, <2>2
  <2> QED BY <2>1, <2>3 DEF Windowed, a, c
<1> QED BY <1>2, <1>3

\* A later moment alone.
LEMMA LimitsLater ==
    ASSUME NEW f \in [1..MaxMoment -> Nat], NEW h \in Nat,
           NEW now \in Nat, NEW now2 \in Nat, now <= now2
    PROVE  /\ Within(f, h, now) => Within(f, h, now2)
           /\ \A limit, count, reset \in Nat :
                Windowed(f, h, now, limit, count, reset) =>
                  Windowed(f, h, now2, limit, count, reset)
<1>1. h <= h /\ 0 \in Nat /\ 0 <= h
  OBVIOUS
<1>2. Within(f, h, now) => Within(f, h, now2)
  BY <1>1, LimitsLoosen, Zenon
<1>3. ASSUME NEW limit \in Nat, NEW count \in Nat, NEW reset \in Nat,
             Windowed(f, h, now, limit, count, reset)
      PROVE  Windowed(f, h, now2, limit, count, reset)
  <2>1. limit <= h
    BY <1>3 DEF Windowed
  <2> QED BY <1>1, <1>3, <2>1, LimitsLoosen
<1> QED BY <1>2, <1>3

\* Before the first message.
LEMMA LimitsNew ==
    ASSUME NEW now \in Nat, NEW h \in Nat
    PROVE  LET f == [t \in 1..MaxMoment |-> 0] IN
           /\ f \in [1..MaxMoment -> Nat]
           /\ Within(f, h, now)
           /\ Windowed(f, h, now, h, 0, 0)
<1> DEFINE f == [t \in 1..MaxMoment |-> 0]
<1>0. WindowLength \in Nat
  BY SubscriptionsAssumption
<1>1. f \in [1..MaxMoment -> Nat] /\ \A u \in 1..MaxMoment : f[u] = 0
  OBVIOUS
<1> HIDE DEF f
<1>2. \A i, j : Total(f, i, j) = 0
  BY <1>1, TotalNone, Zenon DEF Moments
<1>3. Within(f, h, now)
  BY <1>1, <1>2 DEF Within
<1>4. Windowed(f, h, now, h, 0, 0)
  BY <1>0, <1>1, <1>2 DEF Windowed
<1> QED BY <1>1, <1>3, <1>4 DEF f

\* What the configuration of a subscription says.
LEMMA LimitType ==
    ASSUME NEW sub \in Subscription
    PROVE  /\ sub.config \in Configs /\ sub.config.rateLimit \in Nat
           /\ sub.count \in Nat /\ sub.reset \in Nat
BY SubscriptionsAssumption DEF Subscription

\* checkRateLimit changes the window of a subscription, and nothing else.
LEMMA Checked ==
    ASSUME NEW sub \in Subscription, moment \in Nat
    PROVE  /\ RateChecked(sub) \in Subscription
           /\ RateChecked(sub).status = sub.status /\ RateChecked(sub).config = sub.config
           /\ ~Limited(sub) => RateChecked(sub) = sub
           /\ Limited(sub) =>
                /\ RateChecked(sub).count =
                     Window(sub).count + (IF CheckRateLimit(sub) THEN 1 ELSE 0)
                /\ RateChecked(sub).reset = Window(sub).reset
<1>0. WindowLength \in Nat
  BY SubscriptionsAssumption
<1>1. Window(sub).count \in Nat /\ Window(sub).reset \in Nat
  BY <1>0, LimitType DEF Window
<1> DEFINE n == Window(sub).count + (IF CheckRateLimit(sub) THEN 1 ELSE 0)
           r == Window(sub).reset
<1>2. n \in Nat /\ r \in Nat
  BY <1>1
<1>3. CASE ~Limited(sub)
  BY <1>3 DEF RateChecked
<1>4. CASE Limited(sub)
  <2>1. RateChecked(sub) = [sub EXCEPT !.count = n, !.reset = r]
    BY <1>4 DEF RateChecked
  <2> HIDE DEF n, r
  <2>2. /\ RateChecked(sub) \in Subscription
        /\ RateChecked(sub).status = sub.status /\ RateChecked(sub).config = sub.config
        /\ RateChecked(sub).count = n /\ RateChecked(sub).reset = r
    BY <1>2, <2>1, Zenon DEF Subscription
  <2> QED BY <1>4, <2>2 DEF n, r
<1> QED BY <1>3, <1>4

\* The subscription that an operation of the manager leaves.
LEMMA ManagerChanges ==
    ASSUME SubsTyped, NEW id \in SubIDs, NEW s, Changed(id, s), s \in Subscription \cup {NoSub}
    PROVE  /\ subs' \in [SubIDs -> Subscription \cup {NoSub}]
           /\ subs'[id] = s /\ \A i \in SubIDs \ {id} : subs'[i] = subs[i]
           /\ UNCHANGED moment
BY DEF SubsTyped, Changed

\* A subscription with another configuration or status is one.
LEMMA SubscriptionWith ==
    ASSUME NEW sub \in Subscription
    PROVE  /\ \A config \in Configs :
                LET s == [sub EXCEPT !.config = config] IN
                /\ s \in Subscription
                /\ s.config = config /\ s.count = sub.count /\ s.reset = sub.reset
           /\ \A status \in {"active", "paused"} :
                LET s == [sub EXCEPT !.status = status] IN
                /\ s \in Subscription
                /\ s.config = sub.config /\ s.count = sub.count /\ s.reset = sub.reset
BY DEF Subscription

\* The other subscriptions are where they were.
OthersStay(id) ==
    \A i \in SubIDs \ {id} :
        subs'[i] = subs[i] /\ delivered'[i] = delivered[i] /\ highest'[i] = highest[i]

\* What the limits need of a step that changes one subscription.
LEMMA OneLimit ==
    ASSUME SubsTyped, Limits, UNCHANGED moment, NEW id \in SubIDs, OthersStay(id),
           Within(delivered'[id], highest'[id], moment),
           subs'[id] # NoSub =>
             Windowed(delivered'[id], highest'[id], moment, subs'[id].config.rateLimit,
                      subs'[id].count, subs'[id].reset)
    PROVE  Limits'
BY DEF Limits, OthersStay

SubscriptionsNext == ManagerNext \/ DeliveryNext \/ BridgeNext

\* The rate limit's part of the invariant.
Rates == SubsTyped /\ Limits

\* No subscription at the start.
LEMMA RatesStart == SubscriptionsInit => Rates
<1> SUFFICES ASSUME SubscriptionsInit
             PROVE  Rates
  OBVIOUS
<1>1. moment \in 1..MaxMoment
  BY SubscriptionsAssumption DEF SubscriptionsInit
<1>2. SubsTyped
  BY <1>1 DEF SubscriptionsInit, SubsTyped
<1>3. \A id \in SubIDs : Within(delivered[id], highest[id], moment)
  BY <1>1, LimitsNew, Zenon DEF SubscriptionsInit
<1>4. Limits
  BY <1>3, Zenon DEF SubscriptionsInit, Limits
<1> QED BY <1>2, <1>4 DEF Rates

\* The operations of the manager.
LEMMA ManagerRates ==
    ASSUME Rates, ManagerNext
    PROVE  Rates'
<1>0. SubsTyped /\ Limits /\ moment \in Nat
  BY DEF Rates, SubsTyped
<1>1. PICK id \in SubIDs :
        \/ \E config \in Configs : CreateSubscription(id, config) \/ UpdateSubscription(id, config)
        \/ DeleteSubscription(id) \/ PauseSubscription(id) \/ ResumeSubscription(id)
  BY DEF ManagerNext
<1>2. /\ delivered[id] \in [1..MaxMoment -> Nat] /\ highest[id] \in Nat
      /\ Within(delivered[id], highest[id], moment)
  BY <1>0 DEF SubsTyped, Limits
<1>3. ASSUME NEW config \in Configs, CreateSubscription(id, config)
      PROVE  Rates'
  <2> DEFINE s == [status |-> "active", config |-> config, count |-> 0, reset |-> 0]
             f == [t \in 1..MaxMoment |-> 0]
  <2>1. s \in Subscription /\ s.config = config /\ s.count = 0 /\ s.reset = 0
    BY DEF Subscription
  <2>2. /\ Changed(id, s) /\ highest' = [highest EXCEPT ![id] = config.rateLimit]
        /\ delivered' = [delivered EXCEPT ![id] = f]
    BY <1>3 DEF CreateSubscription
  <2>3. config.rateLimit \in Nat
    BY SubscriptionsAssumption
  <2>4. /\ f \in [1..MaxMoment -> Nat]
        /\ Within(f, config.rateLimit, moment)
        /\ Windowed(f, config.rateLimit, moment, config.rateLimit, 0, 0)
    BY <1>0, <2>3, LimitsNew, Zenon
  <2> HIDE DEF s, f
  <2>5. /\ subs' \in [SubIDs -> Subscription \cup {NoSub}]
        /\ subs'[id] = s /\ \A i \in SubIDs \ {id} : subs'[i] = subs[i]
        /\ UNCHANGED moment
    BY <1>0, <2>1, <2>2, ManagerChanges
  <2>6. SubsTyped' /\ OthersStay(id) /\ delivered'[id] = f /\ highest'[id] = config.rateLimit
    BY <1>0, <2>2, <2>3, <2>4, <2>5, ZenonT(60) DEF SubsTyped, OthersStay
  <2>7. Limits'
    BY <1>0, <2>1, <2>4, <2>5, <2>6, OneLimit
  <2> QED BY <2>6, <2>7 DEF Rates
<1>4. ASSUME NEW config \in Configs, UpdateSubscription(id, config)
      PROVE  Rates'
  <2> DEFINE s == [subs[id] EXCEPT !.config = config]
  <2>1. subs[id] \in Subscription /\ subs[id] # NoSub
    BY <1>0, <1>4 DEF UpdateSubscription, Existing, SubsTyped
  <2>2. /\ s \in Subscription /\ s.config = config
        /\ s.count = subs[id].count /\ s.reset = subs[id].reset
    BY <2>1, SubscriptionWith, Zenon
  <2>3. Changed(id, s) /\ RaiseHighest(id, config) /\ UNCHANGED delivered
    BY <1>4 DEF UpdateSubscription
  <2> HIDE DEF s
  <2>4. /\ subs' \in [SubIDs -> Subscription \cup {NoSub}]
        /\ subs'[id] = s /\ \A i \in SubIDs \ {id} : subs'[i] = subs[i]
        /\ UNCHANGED moment
    BY <1>0, <2>2, <2>3, ManagerChanges
  <2>5. config.rateLimit \in Nat
    BY SubscriptionsAssumption
  <2>6. /\ highest' \in [SubIDs -> Nat] /\ \A i \in SubIDs \ {id} : highest'[i] = highest[i]
        /\ highest[id] <= highest'[id] /\ config.rateLimit <= highest'[id]
    BY <1>0, <2>3, <2>5 DEF SubsTyped, RaiseHighest
  <2>7. SubsTyped' /\ OthersStay(id) /\ delivered'[id] = delivered[id] /\ highest'[id] \in Nat
    BY <1>0, <2>3, <2>4, <2>6 DEF SubsTyped, OthersStay
  <2>8. Windowed(delivered[id], highest[id], moment, subs[id].config.rateLimit,
                 subs[id].count, subs[id].reset)
    BY <1>0, <2>1 DEF Limits
  <2>9. subs[id].count \in Nat /\ subs[id].reset \in Nat
    BY <2>1, LimitType
  <2>10. /\ Within(delivered[id], highest'[id], moment)
         /\ Windowed(delivered[id], highest'[id], moment, config.rateLimit,
                     subs[id].count, subs[id].reset)
    <3>1. /\ delivered[id] \in [1..MaxMoment -> Nat] /\ highest[id] \in Nat
          /\ moment \in Nat /\ moment <= moment
      BY <1>0 DEF SubsTyped
    <3>2. Within(delivered[id], highest[id], moment)
      BY <1>0 DEF Limits
    <3>3. PICK f \in [1..MaxMoment -> Nat], h \in Nat, h2 \in Nat, now \in Nat,
               count \in Nat, reset \in Nat :
            /\ f = delivered[id] /\ h = highest[id] /\ h2 = highest'[id] /\ now = moment
            /\ count = subs[id].count /\ reset = subs[id].reset
      BY <2>7, <2>9, <3>1, Zenon
    <3>4. h <= h2 /\ now <= now /\ config.rateLimit <= h2
      BY <2>6, <3>1, <3>3
    <3>5. /\ Within(f, h, now) => Within(f, h2, now)
          /\ \A limit : Windowed(f, h, now, limit, count, reset) =>
                         Windowed(f, h2, now, config.rateLimit, count, reset)
      BY <2>5, <3>4, LimitsLoosen, Zenon
    <3> QED BY <2>8, <3>2, <3>3, <3>5, Zenon
  <2>11. Limits'
    BY <1>0, <2>2, <2>4, <2>7, <2>10, OneLimit
  <2> QED BY <2>7, <2>11 DEF Rates
<1>5. ASSUME NEW s \in Subscription \cup {NoSub}, Changed(id, s), UNCHANGED <<highest, delivered>>,
             subs[id] # NoSub,
             s # NoSub => /\ s.config = subs[id].config
                          /\ s.count = subs[id].count /\ s.reset = subs[id].reset
      PROVE  Rates'
  <2>1. /\ subs' \in [SubIDs -> Subscription \cup {NoSub}]
        /\ subs'[id] = s /\ \A i \in SubIDs \ {id} : subs'[i] = subs[i]
        /\ UNCHANGED moment
    BY <1>0, <1>5, ManagerChanges
  <2>2. SubsTyped' /\ OthersStay(id) /\ delivered'[id] = delivered[id] /\ highest'[id] = highest[id]
    BY <1>0, <1>5, <2>1 DEF SubsTyped, OthersStay
  <2>3. Windowed(delivered[id], highest[id], moment, subs[id].config.rateLimit,
                 subs[id].count, subs[id].reset)
    BY <1>0, <1>5 DEF Limits
  <2>4. Limits'
    BY <1>0, <1>2, <1>5, <2>1, <2>2, <2>3, OneLimit
  <2> QED BY <2>2, <2>4 DEF Rates
<1>6. CASE DeleteSubscription(id)
  BY <1>5, <1>6 DEF DeleteSubscription, Existing
<1>7. ASSUME NEW status \in {"active", "paused"}, id \in Existing,
             Changed(id, [subs[id] EXCEPT !.status = status]), UNCHANGED <<highest, delivered>>
      PROVE  Rates'
  <2> DEFINE s == [subs[id] EXCEPT !.status = status]
  <2>1. subs[id] \in Subscription /\ subs[id] # NoSub
    BY <1>0, <1>7 DEF Existing, SubsTyped
  <2>2. /\ s \in Subscription
        /\ s.config = subs[id].config /\ s.count = subs[id].count /\ s.reset = subs[id].reset
    BY <2>1, SubscriptionWith, ZenonT(60)
  <2>3. Changed(id, s)
    BY <1>7
  <2> HIDE DEF s
  <2> QED BY <1>5, <1>7, <2>1, <2>2, <2>3
<1>8. CASE PauseSubscription(id) \/ ResumeSubscription(id)
  BY <1>7, <1>8 DEF PauseSubscription, ResumeSubscription
<1> QED BY <1>1, <1>3, <1>4, <1>6, <1>8

\* A message that goes through checkRateLimit for one subscription.
LEMMA MessageRates ==
    ASSUME NEW f \in [1..MaxMoment -> Nat], NEW h \in Nat, moment \in 1..MaxMoment,
           NEW sub \in Subscription, Limited(sub), Within(f, h, moment),
           Windowed(f, h, moment, sub.config.rateLimit, sub.count, sub.reset)
    PROVE  LET g == IF CheckRateLimit(sub) THEN [f EXCEPT ![moment] = @ + 1] ELSE f
               s == RateChecked(sub)
           IN  /\ Within(g, h, moment)
               /\ Windowed(g, h, moment, s.config.rateLimit, s.count, s.reset)
<1> DEFINE l == sub.config.rateLimit
           c == Window(sub).count
           r == Window(sub).reset
           g == IF CheckRateLimit(sub) THEN [f EXCEPT ![moment] = @ + 1] ELSE f
           s == RateChecked(sub)
<1>0. /\ l \in Nat /\ sub.count \in Nat /\ sub.reset \in Nat /\ moment \in Nat
      /\ WindowLength \in Nat /\ MaxMoment \in Nat
  BY LimitType, SubscriptionsAssumption
<1>1. /\ s.config.rateLimit = l /\ s.reset = r
      /\ s.count = c + (IF CheckRateLimit(sub) THEN 1 ELSE 0)
  BY <1>0, Checked
<1>2. CheckRateLimit(sub) <=> c < l
  BY DEF CheckRateLimit
<1>3. c \in Nat /\ r \in Nat /\ moment <= r /\ Windowed(f, h, moment, l, c, r)
  <2>1. CASE moment > sub.reset
    <3>1. c = 0 /\ r = moment + WindowLength
      BY <2>1 DEF Window
    <3>2. Windowed(f, h, moment, l, 0, moment + WindowLength)
      BY <1>0, <2>1, WindowRenewed, ZenonT(60)
    <3> HIDE DEF l, c, r
    <3> QED BY <1>0, <3>1, <3>2
  <2>2. CASE ~(moment > sub.reset)
    <3>1. c = sub.count /\ r = sub.reset
      BY <2>2 DEF Window
    <3> HIDE DEF c, r
    <3> QED BY <1>0, <2>2, <3>1
  <2> QED BY <2>1, <2>2
<1> HIDE DEF l, c, r, s
<1>4. CASE CheckRateLimit(sub)
  <2>1. g = [f EXCEPT ![moment] = @ + 1] /\ s.count = c + 1
    BY <1>1, <1>4
  <2>2. Within(g, h, moment) /\ Windowed(g, h, moment, l, c + 1, r)
    BY <1>0, <1>2, <1>3, <1>4, <2>1, WindowCounts, Zenon
  <2> QED BY <1>1, <2>1, <2>2 DEF s
<1>5. CASE ~CheckRateLimit(sub)
  <2>1. g = f /\ s.count = c
    BY <1>1, <1>3, <1>5
  <2> QED BY <1>1, <1>3, <2>1 DEF s
<1> QED BY <1>4, <1>5

\* ProcessMessage and the passing of time.
LEMMA DeliveryRates ==
    ASSUME Rates, DeliveryNext
    PROVE  Rates'
<1>0. SubsTyped /\ Limits /\ moment \in 1..MaxMoment /\ moment \in Nat /\ MaxMoment \in Nat
  BY SubscriptionsAssumption DEF Rates, SubsTyped
<1>1. ASSUME NEW schema \in DataTypes, NEW from \in SourcePeers, NEW accepting \in SUBSET SubIDs,
             ProcessMessage(schema, from, accepting)
      PROVE  Rates'
  <2> DEFINE matching ==
               {id \in Active \cap accepting : MatchesSubscription(subs[id], schema, from)}
             Bumped(id) == id \in matching /\ Limited(subs[id]) /\ CheckRateLimit(subs[id])
  <2>1. /\ subs' = [id \in SubIDs |-> IF id \in matching THEN RateChecked(subs[id]) ELSE subs[id]]
        /\ delivered' = [id \in SubIDs |-> IF Bumped(id)
                           THEN [delivered[id] EXCEPT ![moment] = @ + 1] ELSE delivered[id]]
        /\ UNCHANGED <<moment, highest>>
    BY <1>1 DEF ProcessMessage
  <2>2. \A id \in matching : id \in SubIDs /\ subs[id] \in Subscription /\ subs[id] # NoSub
    BY <1>0 DEF Active, Existing, SubsTyped
  <2> HIDE DEF matching
  <2>3. ASSUME NEW id \in SubIDs
        PROVE  /\ subs'[id] \in Subscription \cup {NoSub}
               /\ delivered'[id] \in [1..MaxMoment -> Nat]
               /\ Within(delivered'[id], highest[id], moment)
               /\ subs'[id] # NoSub =>
                    Windowed(delivered'[id], highest[id], moment, subs'[id].config.rateLimit,
                             subs'[id].count, subs'[id].reset)
    <3>0. /\ delivered[id] \in [1..MaxMoment -> Nat] /\ highest[id] \in Nat
          /\ subs[id] \in Subscription \cup {NoSub}
          /\ Within(delivered[id], highest[id], moment)
          /\ subs[id] # NoSub =>
               Windowed(delivered[id], highest[id], moment, subs[id].config.rateLimit,
                        subs[id].count, subs[id].reset)
      BY <1>0 DEF SubsTyped, Limits
    <3>1. CASE id \in matching /\ Limited(subs[id])
      <4>1. /\ subs'[id] = RateChecked(subs[id])
            /\ delivered'[id] = IF CheckRateLimit(subs[id])
                                THEN [delivered[id] EXCEPT ![moment] = @ + 1] ELSE delivered[id]
        BY <2>1, <3>1
      <4>2. subs[id] \in Subscription /\ subs[id] # NoSub
        BY <2>2, <3>1
      <4>3. subs'[id] \in Subscription
        BY <1>0, <4>1, <4>2, Checked
      <4>4. delivered'[id] \in [1..MaxMoment -> Nat]
        BY <1>0, <3>0, <4>1, SMTT(60)
      <4>5. /\ Within(delivered'[id], highest[id], moment)
            /\ Windowed(delivered'[id], highest[id], moment, subs'[id].config.rateLimit,
                        subs'[id].count, subs'[id].reset)
        BY <1>0, <3>0, <3>1, <4>1, <4>2, MessageRates, ZenonT(60)
      <4> QED BY <4>3, <4>4, <4>5
    <3>2. CASE ~(id \in matching /\ Limited(subs[id]))
      <4>1. delivered'[id] = delivered[id]
        BY <2>1, <3>2
      <4>2. subs'[id] = subs[id]
        <5>1. CASE id \in matching
          BY <1>0, <2>1, <2>2, <3>2, <5>1, Checked
        <5>2. CASE id \notin matching
          BY <2>1, <5>2
        <5> QED BY <5>1, <5>2
      <4> QED BY <3>0, <4>1, <4>2
    <3> QED BY <3>1, <3>2
  <2>4. subs' = [id \in SubIDs |-> subs'[id]] /\ delivered' = [id \in SubIDs |-> delivered'[id]]
    BY <2>1
  <2>5. SubsTyped'
    BY <1>0, <2>1, <2>3, <2>4, Zenon DEF SubsTyped
  <2>6. Limits'
    BY <2>1, <2>3 DEF Limits
  <2> QED BY <2>5, <2>6 DEF Rates
<1>2. CASE SubscriptionsTick
  <2>1. /\ moment' = moment + 1 /\ moment < MaxMoment /\ UNCHANGED <<subs, delivered, highest>>
    BY <1>2 DEF SubscriptionsTick, managerVars
  <2>2. SubsTyped' /\ moment' \in Nat /\ moment <= moment'
    BY <1>0, <2>1 DEF SubsTyped
  <2>3. ASSUME NEW id \in SubIDs
        PROVE  /\ Within(delivered[id], highest[id], moment')
               /\ subs[id] # NoSub =>
                    Windowed(delivered[id], highest[id], moment', subs[id].config.rateLimit,
                             subs[id].count, subs[id].reset)
    <3>0. /\ delivered[id] \in [1..MaxMoment -> Nat] /\ highest[id] \in Nat
          /\ subs[id] \in Subscription \cup {NoSub}
          /\ Within(delivered[id], highest[id], moment)
          /\ subs[id] # NoSub =>
               Windowed(delivered[id], highest[id], moment, subs[id].config.rateLimit,
                        subs[id].count, subs[id].reset)
      BY <1>0 DEF SubsTyped, Limits
    <3>1. PICK now \in Nat : now = moment' /\ moment <= now
      BY <2>2
    <3>2. Within(delivered[id], highest[id], now)
      BY <1>0, <3>0, <3>1, LimitsLater, Zenon
    <3>3. CASE subs[id] # NoSub
      <4>1. subs[id].config.rateLimit \in Nat /\ subs[id].count \in Nat /\ subs[id].reset \in Nat
        BY <3>0, <3>3, LimitType
      <4>2. Windowed(delivered[id], highest[id], now, subs[id].config.rateLimit,
                     subs[id].count, subs[id].reset)
        BY <1>0, <3>0, <3>1, <3>3, <4>1, LimitsLater, ZenonT(60)
      <4> QED BY <3>1, <3>2, <4>2
    <3> QED BY <3>1, <3>2, <3>3
  <2>4. Limits'
    BY <2>1, <2>3 DEF Limits
  <2> QED BY <2>2, <2>4 DEF Rates
<1> QED BY <1>1, <1>2 DEF DeliveryNext

\* The bridge touches no limit.
LEMMA RatesKeep == Rates /\ [SubscriptionsNext]_subscriptionVars => Rates'
<1> SUFFICES ASSUME Rates, [SubscriptionsNext]_subscriptionVars
             PROVE  Rates'
  OBVIOUS
<1>1. CASE BridgeNext
  <2>1. UNCHANGED <<subs, moment, delivered, highest>>
    BY <1>1 DEF BridgeNext, JoinTopic, JoinFailed, LeaveTopic, LeaveFailed, SyncTopics,
       JoinsDone, SyncDone, managerVars
  <2> QED BY <2>1 DEF Rates, SubsTyped, Limits
<1>2. CASE UNCHANGED subscriptionVars
  BY <1>2 DEF subscriptionVars, Rates, SubsTyped, Limits
<1> QED BY <1>1, <1>2, ManagerRates, DeliveryRates DEF SubscriptionsNext

\* However its messages come and its configuration changes, a subscription gets at most
\* twice its highest limit in any minute.
THEOREM RatesStayLimited == SubscriptionsSpec => []RateLimitHolds
<1>1. Rates => RateLimitHolds
  <2> SUFFICES ASSUME Rates, NEW id \in SubIDs, NEW t \in 1..MaxMoment
               PROVE  SumFunctionOnSet(delivered[id],
                        {u \in t..(t + WindowLength) : u <= MaxMoment}) <= 2 * highest[id]
    BY DEF RateLimitHolds
  <2>1. {u \in t..(t + WindowLength) : u <= MaxMoment} = Moments(t, t + WindowLength)
    BY SubscriptionsAssumption DEF Moments
  <2>2. Total(delivered[id], t, t + WindowLength) <= 2 * highest[id]
    BY DEF Rates, Limits, Within
  <2> QED BY <2>1, <2>2 DEF Total
<1> QED BY RatesStart, RatesKeep, <1>1, PTL DEF SubscriptionsSpec, SubscriptionsNext
-----------------------------------------------------------------------------
(* The topics of subscriptions.                                            *)

\* A sync that met no failure and no change has the topics that are required.  While it
\* joins, the ones still missing are ahead of it; while it leaves, none of them is, and
\* all that is too much is.  A bridge in step with the subscriptions has nothing ahead.
Bridge ==
    /\ subscribed = member
    /\ synced \in BOOLEAN
    /\ synced => member = RequiredTopics
    /\ sync # NoSync =>
         /\ sync = [loop |-> sync.loop, required |-> sync.required, todo |-> sync.todo,
                    clean |-> sync.clean]
         /\ sync.clean \in BOOLEAN
         /\ sync.loop \in {"join", "leave"}
         /\ sync.loop = "leave" => sync.todo \cap sync.required = {}
         /\ synced => sync.todo = {} /\ sync.required = RequiredTopics
         /\ sync.clean =>
              /\ sync.required = RequiredTopics
              /\ sync.loop = "join" => sync.required \subseteq subscribed \cup sync.todo
              /\ sync.loop = "leave" => /\ sync.required \subseteq subscribed
                                        /\ subscribed \subseteq sync.required \cup sync.todo

\* Nothing is required, joined or going on at the start.
LEMMA BridgeStarts == SubscriptionsInit => Bridge
BY Zenon DEF SubscriptionsInit, Bridge

\* The topics depend on the subscriptions alone, and on their state and configuration.
LEMMA RequiredSame ==
    ASSUME \A id \in SubIDs :
             /\ subs'[id] # NoSub <=> subs[id] # NoSub
             /\ subs[id] # NoSub => /\ subs'[id].status = subs[id].status
                                    /\ subs'[id].config = subs[id].config
    PROVE  RequiredTopics' = RequiredTopics
<1>1. Active' = Active /\ \A id \in Active : subs'[id].config = subs[id].config
  BY DEF Active, Existing
<1> QED BY <1>1 DEF RequiredTopics

\* The manager outdates the sync in progress and the last one.
LEMMA ChangedBridge ==
    ASSUME Bridge, NEW id, NEW s, Changed(id, s)
    PROVE  Bridge'
<1>1. /\ synced' = FALSE /\ UNCHANGED <<subscribed, member>>
      /\ sync' = IF sync = NoSync THEN NoSync ELSE [sync EXCEPT !.clean = FALSE]
  BY DEF Changed
<1>2. CASE sync = NoSync
  BY <1>1, <1>2, Zenon DEF Bridge
<1>3. CASE sync # NoSync
  <2>1. sync = [loop |-> sync.loop, required |-> sync.required, todo |-> sync.todo,
                clean |-> sync.clean]
    BY <1>3 DEF Bridge
  <2>2. sync' = [loop |-> sync.loop, required |-> sync.required, todo |-> sync.todo,
                 clean |-> FALSE]
    BY <1>1, <1>3, <2>1, ZenonT(60)
  <2>3. /\ sync'.loop = sync.loop /\ sync'.required = sync.required /\ sync'.todo = sync.todo
        /\ sync'.clean = FALSE
    BY <2>2
  <2>4. sync' = [loop |-> sync'.loop, required |-> sync'.required, todo |-> sync'.todo,
                 clean |-> sync'.clean]
    BY <2>2, <2>3
  <2> QED BY <1>1, <1>3, <2>3, <2>4, Zenon DEF Bridge
<1> QED BY <1>2, <1>3

\* A message and the passing of time change no topic.
LEMMA DeliveryBridge ==
    ASSUME SubsTyped, Bridge, DeliveryNext
    PROVE  Bridge'
<1>1. ASSUME NEW schema \in DataTypes, NEW from \in SourcePeers, NEW accepting \in SUBSET SubIDs,
             ProcessMessage(schema, from, accepting)
      PROVE  RequiredTopics' = RequiredTopics
  <2> DEFINE matching ==
               {id \in Active \cap accepting : MatchesSubscription(subs[id], schema, from)}
  <2>1. subs' = [id \in SubIDs |-> IF id \in matching THEN RateChecked(subs[id]) ELSE subs[id]]
    BY <1>1 DEF ProcessMessage
  <2>2. \A id \in matching : id \in SubIDs /\ subs[id] \in Subscription /\ subs[id] # NoSub
    BY DEF Active, Existing, SubsTyped
  <2> HIDE DEF matching
  <2>3. ASSUME NEW id \in matching
        PROVE  /\ subs'[id] # NoSub
               /\ subs'[id].status = subs[id].status /\ subs'[id].config = subs[id].config
    <3>1. subs'[id] = RateChecked(subs[id])
      BY <2>1, <2>2
    <3>2. moment \in Nat
      BY DEF SubsTyped
    <3>3. RateChecked(subs[id]) \in Subscription
      BY <2>2, <3>2, Checked
    <3> QED BY <2>2, <3>1, <3>2, <3>3, Checked, SubscriptionsAssumption
  <2>4. \A id \in SubIDs \ matching : subs'[id] = subs[id]
    BY <2>1
  <2>5. \A id \in SubIDs :
          /\ subs'[id] # NoSub <=> subs[id] # NoSub
          /\ subs[id] # NoSub => /\ subs'[id].status = subs[id].status
                                 /\ subs'[id].config = subs[id].config
    BY <2>2, <2>3, <2>4
  <2> QED BY <2>5, RequiredSame
<1>2. CASE SubscriptionsTick
  BY <1>2, RequiredSame DEF SubscriptionsTick, managerVars, bridgeVars, Bridge
<1>3. ASSUME NEW schema \in DataTypes, NEW from \in SourcePeers, NEW accepting \in SUBSET SubIDs,
             ProcessMessage(schema, from, accepting)
      PROVE  Bridge'
  <2>1. UNCHANGED <<sync, subscribed, member, synced>>
    BY <1>3 DEF ProcessMessage, bridgeVars
  <2> QED BY <1>1, <1>3, <2>1 DEF Bridge
<1> QED BY <1>2, <1>3 DEF DeliveryNext

\* A sync in progress that becomes s, while no subscription changes.
LEMMA SyncBecomes ==
    ASSUME Bridge, RequiredTopics' = RequiredTopics, UNCHANGED synced, subscribed' = member',
           NEW loop \in {"join", "leave"}, NEW required, NEW todo, NEW clean \in BOOLEAN,
           sync' = [loop |-> loop, required |-> required, todo |-> todo, clean |-> clean],
           loop = "leave" => todo \cap required = {},
           synced => member' = member /\ todo = {} /\ required = RequiredTopics,
           clean =>
             /\ required = RequiredTopics
             /\ loop = "join" => required \subseteq subscribed' \cup todo
             /\ loop = "leave" => /\ required \subseteq subscribed'
                                  /\ subscribed' \subseteq required \cup todo
    PROVE  Bridge'
<1>1. /\ sync'.loop = loop /\ sync'.required = required /\ sync'.todo = todo
      /\ sync'.clean = clean
  OBVIOUS
<1>2. sync' = [loop |-> sync'.loop, required |-> sync'.required, todo |-> sync'.todo,
               clean |-> sync'.clean]
  BY <1>1
<1> QED BY <1>1, <1>2 DEF Bridge

\* A topic that is ahead of the sync is visited, with the outcome clean.
LEMMA VisitBridge ==
    ASSUME Bridge, NEW topic, NEW loop, Visiting(loop, topic), NEW clean \in BOOLEAN,
           clean => sync.clean, UNCHANGED <<subs, synced>>,
           sync' = [Visited(topic) EXCEPT !.clean = clean],
           subscribed' = member',
           clean => subscribed' = IF loop = "join" THEN subscribed \cup {topic}
                                  ELSE subscribed \ {topic}
    PROVE  Bridge'
<1>1. /\ sync # NoSync /\ sync.loop = loop /\ topic \in sync.todo
  BY DEF Visiting
<1>2. sync = [loop |-> sync.loop, required |-> sync.required, todo |-> sync.todo,
              clean |-> sync.clean]
  BY <1>1 DEF Bridge
<1>3. sync' = [loop |-> loop, required |-> sync.required, todo |-> sync.todo \ {topic},
               clean |-> clean]
  BY <1>1, <1>2, Zenon DEF Visited
<1>4. RequiredTopics' = RequiredTopics
  BY RequiredSame
<1>5. ~synced /\ loop \in {"join", "leave"}
  BY <1>1 DEF Bridge
<1>6. loop = "leave" => (sync.todo \ {topic}) \cap sync.required = {}
  BY <1>1 DEF Bridge
<1>7. clean =>
        /\ sync.required = RequiredTopics
        /\ loop = "join" => sync.required \subseteq subscribed' \cup (sync.todo \ {topic})
        /\ loop = "leave" => /\ sync.required \subseteq subscribed'
                             /\ subscribed' \subseteq sync.required \cup (sync.todo \ {topic})
  BY <1>1 DEF Bridge
<1> QED BY <1>3, <1>4, <1>5, <1>6, <1>7, SyncBecomes, Zenon

\* The steps of SyncTopics.
LEMMA SyncBridge ==
    ASSUME Bridge, BridgeNext
    PROVE  Bridge'
<1>1. ASSUME NEW topic, JoinTopic(topic) \/ LeaveTopic(topic)
      PROVE  Bridge'
  <2>1. PICK loop \in {"join", "leave"} :
          /\ Visiting(loop, topic)
          /\ subscribed' = IF loop = "join" THEN subscribed \cup {topic} ELSE subscribed \ {topic}
          /\ member' = IF loop = "join" THEN member \cup {topic} ELSE member \ {topic}
    BY <1>1 DEF JoinTopic, LeaveTopic
  <2>2. sync' = Visited(topic) /\ UNCHANGED <<subs, synced>>
    BY <1>1 DEF JoinTopic, LeaveTopic, managerVars
  <2>3. sync = [loop |-> sync.loop, required |-> sync.required, todo |-> sync.todo,
                clean |-> sync.clean] /\ sync.clean \in BOOLEAN
    BY <2>1 DEF Bridge, Visiting
  <2>4. Visited(topic) = [Visited(topic) EXCEPT !.clean = sync.clean]
    BY <2>3, Zenon DEF Visited
  <2>5. subscribed' = member'
    BY <2>1 DEF Bridge
  <2> QED BY <2>1, <2>2, <2>3, <2>4, <2>5, VisitBridge, Zenon
<1>2. ASSUME NEW topic, JoinFailed(topic) \/ LeaveFailed(topic)
      PROVE  Bridge'
  <2>1. PICK loop : Visiting(loop, topic)
    BY <1>2 DEF JoinFailed, LeaveFailed
  <2>2. /\ sync' = [Visited(topic) EXCEPT !.clean = FALSE]
        /\ UNCHANGED <<subs, synced, subscribed, member>>
    BY <1>2 DEF JoinFailed, LeaveFailed, managerVars
  <2>3. subscribed' = member'
    BY <2>2 DEF Bridge
  <2> QED BY <2>1, <2>2, <2>3, VisitBridge, Zenon
<1>3. CASE SyncTopics
  <2>1. /\ sync' = [loop |-> "join", required |-> RequiredTopics,
                    todo |-> RequiredTopics \ subscribed, clean |-> TRUE]
        /\ UNCHANGED <<subs, synced, subscribed, member>>
    BY <1>3 DEF SyncTopics, managerVars
  <2>2. RequiredTopics' = RequiredTopics
    BY <2>1, RequiredSame
  <2>3. synced => RequiredTopics \ subscribed = {}
    BY DEF Bridge
  <2>4. subscribed' = member' /\ member' = member
    BY <2>1 DEF Bridge
  <2>5. RequiredTopics \subseteq subscribed' \cup (RequiredTopics \ subscribed)
    BY <2>1
  <2> QED BY <2>1, <2>2, <2>3, <2>4, <2>5, SyncBecomes, ZenonT(60)
<1>4. CASE JoinsDone
  <2>1. /\ sync # NoSync /\ sync.loop = "join" /\ sync.todo = {}
        /\ sync' = [sync EXCEPT !.loop = "leave", !.todo = subscribed \ sync.required]
        /\ UNCHANGED <<subs, synced, subscribed, member>>
    BY <1>4 DEF JoinsDone, managerVars
  <2>2. sync = [loop |-> sync.loop, required |-> sync.required, todo |-> sync.todo,
                clean |-> sync.clean] /\ sync.clean \in BOOLEAN
    BY <2>1 DEF Bridge
  <2>3. sync' = [loop |-> "leave", required |-> sync.required,
                 todo |-> subscribed \ sync.required, clean |-> sync.clean]
    BY <2>1, <2>2, Zenon
  <2>4. RequiredTopics' = RequiredTopics /\ subscribed' = member' /\ member' = member
    BY <2>1, RequiredSame DEF Bridge
  <2>5. synced => subscribed \ sync.required = {} /\ sync.required = RequiredTopics
    BY <2>1 DEF Bridge
  <2>6. sync.clean => /\ sync.required = RequiredTopics
                      /\ sync.required \subseteq subscribed'
                      /\ subscribed' \subseteq sync.required \cup (subscribed \ sync.required)
    BY <2>1 DEF Bridge
  <2>7. (subscribed \ sync.required) \cap sync.required = {}
    OBVIOUS
  <2> QED BY <2>1, <2>2, <2>3, <2>4, <2>5, <2>6, <2>7, SyncBecomes, Zenon
<1>5. CASE SyncDone
  <2>1. /\ sync # NoSync /\ sync.loop = "leave" /\ sync.todo = {}
        /\ sync' = NoSync /\ synced' = sync.clean /\ UNCHANGED <<subs, subscribed, member>>
    BY <1>5 DEF SyncDone
  <2>2. RequiredTopics' = RequiredTopics
    BY <2>1, RequiredSame
  <2>3. sync.clean \in BOOLEAN /\ (sync.clean => member = RequiredTopics)
    BY <2>1 DEF Bridge
  <2> QED BY <2>1, <2>2, <2>3 DEF Bridge
<1> QED BY <1>1, <1>2, <1>3, <1>4, <1>5 DEF BridgeNext

\* Every step of the manager and the bridge keeps them in step.
LEMMA BridgeKeeps == SubsTyped /\ Bridge /\ [SubscriptionsNext]_subscriptionVars => Bridge'
<1> SUFFICES ASSUME SubsTyped, Bridge, [SubscriptionsNext]_subscriptionVars
             PROVE  Bridge'
  OBVIOUS
<1>1. CASE ManagerNext
  <2>1. \E id, s : Changed(id, s)
    BY <1>1, Zenon DEF ManagerNext, CreateSubscription, UpdateSubscription, DeleteSubscription,
       PauseSubscription, ResumeSubscription
  <2> QED BY <2>1, ChangedBridge
<1>2. CASE UNCHANGED subscriptionVars
  <2>1. RequiredTopics' = RequiredTopics
    BY <1>2, RequiredSame DEF subscriptionVars
  <2> QED BY <1>2, <2>1 DEF subscriptionVars, Bridge
<1> QED BY <1>1, <1>2, DeliveryBridge, SyncBridge DEF SubscriptionsNext

\* After a sync without failures, until a subscription changes, the node is in exactly the
\* topics that its active subscriptions require, whatever earlier syncs failed to do.
THEOREM TopicsFollowSubscriptions == SubscriptionsSpec => []SyncedMatches
<1>1. Rates => SubsTyped
  BY DEF Rates
<1>2. Bridge => SyncedMatches
  BY DEF Bridge, SyncedMatches
<1> QED BY RatesStart, RatesKeep, BridgeStarts, BridgeKeeps, <1>1, <1>2, PTL
     DEF SubscriptionsSpec, SubscriptionsNext
=============================================================================
