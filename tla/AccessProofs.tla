---------------------------- MODULE AccessProofs ----------------------------
(***************************************************************************)
(* What the services that let someone in keep, for every value of their    *)
(* constants: logins and licences.                                         *)
(***************************************************************************)
EXTENDS Auth, License, TLAPS
-----------------------------------------------------------------------------
(* Logins.                                                                 *)

\* A request that has taken a challenge and not yet made its session.
Holds(g) == request[g] # NoRequest /\ request[g].step \in {"lookup", "bind", "session"}

Issue == [xpub : Accounts, key : SigningKeys, expiresAt : Nat]
Made == [number : Nat, taken : Nat]

AuthTypes ==
    /\ time \in Nat
    /\ issued \in Seq(Issue)
    /\ open \subseteq DOMAIN issued
    /\ made \in Seq(Made)
    /\ request = [g \in Requests |-> request[g]]

\* A challenge that was taken has left the table, in time.
Held(g) ==
    /\ request[g].number \in DOMAIN issued \ open
    /\ request[g].now \in Nat
    /\ request[g].now <= issued[request[g].number].expiresAt

\* What the records of a request hold in each of its steps.
AuthShapes ==
    \A g \in Requests :
        /\ At(g, "store") => /\ request[g].xpub \in Accounts /\ request[g].key \in SigningKeys
                             /\ request[g].now \in Nat
        /\ At(g, "bind") \/ At(g, "session") =>
             request[g] = [number |-> request[g].number, now |-> request[g].now,
                           trust |-> request[g].trust, step |-> request[g].step]

\* A challenge is in one place: in the table, with one request, or used for a session.
OnePlace ==
    /\ \A g, h \in Requests :
         Holds(g) /\ Holds(h) /\ request[g].number = request[h].number => g = h
    /\ \A i \in DOMAIN made :
         /\ made[i].number \in DOMAIN issued \ open
         /\ \A g \in Requests : Holds(g) => request[g].number # made[i].number

AuthInv ==
    /\ AuthTypes
    /\ AuthShapes
    /\ \A g \in Requests : Holds(g) => Held(g)
    /\ OnePlace
    /\ OneSessionPerChallenge

\* No challenge, no request and no session at the start.
LEMMA AuthStarts == AuthInit => AuthInv
BY DEF AuthInit, AuthInv, AuthTypes, AuthShapes, Holds, Held, At, OnePlace, OneSessionPerChallenge

\* A step that takes, makes and answers no challenge: it may drop challenges from the
\* table, and requests may end, go on or begin as long as none of them holds another one.
LEMMA AuthQuiet ==
    ASSUME AuthInv, time' \in Nat, issued' = issued, made' = made, open' \subseteq open,
           request' = [g \in Requests |-> request'[g]], AuthShapes',
           \A g \in Requests : Holds(g)' =>
             Holds(g) /\ request'[g].number = request[g].number /\ request'[g].now = request[g].now
    PROVE  AuthInv'
<1>1. AuthTypes'
  BY DEF AuthInv, AuthTypes
<1>2. \A g \in Requests : Holds(g)' => Held(g)'
  BY DEF AuthInv, Held
<1>3. OnePlace'
  <2>1. \A g, h \in Requests :
          Holds(g)' /\ Holds(h)' /\ request'[g].number = request'[h].number => g = h
    BY DEF AuthInv, OnePlace
  <2>2. \A i \in DOMAIN made :
          /\ made[i].number \in DOMAIN issued \ open'
          /\ \A g \in Requests : Holds(g)' => request'[g].number # made[i].number
    BY DEF AuthInv, OnePlace
  <2> QED BY <2>1, <2>2 DEF OnePlace
<1>4. OneSessionPerChallenge'
  BY DEF AuthInv, OneSessionPerChallenge
<1> QED BY <1>1, <1>2, <1>3, <1>4 DEF AuthInv

\* A step that changes no request.
LEMMA AuthStill ==
    ASSUME AuthInv, time' \in Nat, open' \subseteq open, UNCHANGED <<issued, request, made>>
    PROVE  AuthInv'
<1>1. AuthShapes'
  BY DEF AuthInv, AuthShapes, At
<1>2. \A g \in Requests : Holds(g)' =>
        Holds(g) /\ request'[g].number = request[g].number /\ request'[g].now = request[g].now
  BY DEF Holds
<1>3. request' = [g \in Requests |-> request'[g]]
  BY DEF AuthInv, AuthTypes
<1> QED BY <1>1, <1>2, <1>3, AuthQuiet

\* A step of one request g, which becomes r, that takes and answers no challenge.
LEMMA AuthMoves ==
    ASSUME AuthInv, NEW g \in Requests, NEW r, Become(g, r), UNCHANGED <<time, issued, open, made>>,
           r # NoRequest /\ r.step = "store" =>
             r.xpub \in Accounts /\ r.key \in SigningKeys /\ r.now \in Nat,
           r # NoRequest /\ r.step \in {"bind", "session"} =>
             r = [number |-> r.number, now |-> r.now, trust |-> r.trust, step |-> r.step],
           r # NoRequest /\ r.step \in {"lookup", "bind", "session"} =>
             Holds(g) /\ r.number = request[g].number /\ r.now = request[g].now
    PROVE  AuthInv'
<1>1. request' = [request EXCEPT ![g] = r] /\ request = [h \in Requests |-> request[h]]
  BY DEF Become, AuthInv, AuthTypes
<1>2. /\ request' = [h \in Requests |-> request'[h]]
      /\ request'[g] = r
      /\ \A h \in Requests \ {g} : request'[h] = request[h]
  BY <1>1
<1>3. AuthShapes'
  BY <1>2, ZenonT(60) DEF AuthInv, AuthShapes, At
<1>4. \A h \in Requests : Holds(h)' =>
        Holds(h) /\ request'[h].number = request[h].number /\ request'[h].now = request[h].now
  BY <1>2 DEF Holds
<1>5. time' \in Nat /\ open' \subseteq open
  BY DEF AuthInv, AuthTypes
<1> QED BY <1>2, <1>3, <1>4, <1>5, AuthQuiet

\* What the step of a request that holds a challenge cites.
LEMMA HolderShape ==
    ASSUME AuthInv, NEW g \in Requests, At(g, "bind") \/ At(g, "session")
    PROVE  /\ request[g] = [number |-> request[g].number, now |-> request[g].now,
                            trust |-> request[g].trust, step |-> request[g].step]
           /\ Holds(g)
BY DEF AuthInv, AuthShapes, At, Holds

\* handleChallenge: a challenge is issued under a number that none has had before.
LEMMA StoreStep ==
    ASSUME AuthInv, NEW g \in Requests, StoreChallenge(g)
    PROVE  AuthInv'
<1> DEFINE c == [xpub |-> request[g].xpub, key |-> request[g].key,
                 expiresAt |-> request[g].now + ChallengeLife]
           n == Len(issued) + 1
           kept == Unexpired(request[g].now)
<1>1. kept \subseteq open
  BY DEF Unexpired
<1>2. Become(g, NoRequest) /\ At(g, "store") /\ UNCHANGED <<time, users, sessions, made>>
  BY DEF StoreChallenge, Finish
<1>3. request' = [request EXCEPT ![g] = NoRequest] /\ request = [h \in Requests |-> request[h]]
  BY <1>2 DEF Become, AuthInv, AuthTypes
<1>4. /\ request' = [h \in Requests |-> request'[h]]
      /\ request'[g] = NoRequest
      /\ \A h \in Requests \ {g} : request'[h] = request[h]
  BY <1>3
<1>5. AuthShapes'
  BY <1>4, Zenon DEF AuthInv, AuthShapes, At
<1>6. \A h \in Requests : Holds(h)' =>
        Holds(h) /\ request'[h].number = request[h].number /\ request'[h].now = request[h].now
  BY <1>4 DEF Holds
<1>7. CASE open' = kept /\ UNCHANGED issued
  BY <1>1, <1>2, <1>4, <1>5, <1>6, <1>7, AuthQuiet DEF AuthInv, AuthTypes
<1>8. CASE issued' = Append(issued, c) /\ open' = kept \cup {n}
  <2> HIDE DEF kept, n, c
  <2>1. c \in Issue
    <3>1. ChallengeLife \in Nat
      BY AuthAssumption DEF AuthAssumption
    <3>2. request[g].xpub \in Accounts /\ request[g].key \in SigningKeys /\ request[g].now \in Nat
      BY <1>2, Zenon DEF AuthInv, AuthShapes
    <3> QED BY <3>1, <3>2 DEF c, Issue
  <2>2. /\ issued' \in Seq(Issue) /\ Len(issued) \in Nat
        /\ DOMAIN issued' = DOMAIN issued \cup {n} /\ n \notin DOMAIN issued
        /\ \A k \in DOMAIN issued : issued'[k] = issued[k]
    BY <1>8, <2>1 DEF n, AuthInv, AuthTypes
  <2>3. AuthTypes'
    BY <1>1, <1>2, <1>4, <1>8, <2>2 DEF AuthInv, AuthTypes
  <2>4. \A h \in Requests : Holds(h)' => Held(h)'
    <3> SUFFICES ASSUME NEW h \in Requests, Holds(h)'
                 PROVE  Held(h)'
      OBVIOUS
    <3>1. Held(h) /\ request'[h].number = request[h].number /\ request'[h].now = request[h].now
      BY <1>6 DEF AuthInv
    <3>2. request[h].number \in DOMAIN issued /\ request[h].number \notin open
      BY <3>1 DEF Held
    <3>3. request[h].number \in DOMAIN issued' \ open'
      BY <1>1, <1>8, <2>2, <3>2
    <3>4. issued'[request[h].number] = issued[request[h].number]
      BY <2>2, <3>2
    <3> QED BY <3>1, <3>3, <3>4 DEF Held
  <2>5. OnePlace'
    BY <1>1, <1>2, <1>6, <1>8, <2>2 DEF AuthInv, OnePlace
  <2>6. OneSessionPerChallenge'
    BY <1>2, <2>2 DEF AuthInv, OneSessionPerChallenge, OnePlace
  <2> QED BY <1>5, <2>3, <2>4, <2>5, <2>6 DEF AuthInv
<1> QED BY <1>7, <1>8 DEF StoreChallenge

\* handleVerify: the request takes a challenge that is still in the table.
LEMMA VerifyStep ==
    ASSUME AuthInv, NEW g \in Requests, NEW n \in Nat, HandleVerify(g, n)
    PROVE  AuthInv'
<1> DEFINE r == [step |-> "lookup", number |-> n, now |-> time]
<1>1. /\ open' \subseteq open /\ n \in open /\ n \notin open'
      /\ time <= issued[n].expiresAt
  BY DEF HandleVerify, Unexpired, AuthInv, AuthTypes, Issue
<1>2. UNCHANGED <<time, issued, made>>
  BY DEF HandleVerify
<1>3. CASE UNCHANGED request
  BY <1>1, <1>2, <1>3, AuthStill DEF AuthInv, AuthTypes
<1>4. CASE Become(g, r)
  <2>1. request' = [request EXCEPT ![g] = r] /\ request = [h \in Requests |-> request[h]]
    BY <1>4 DEF Become, AuthInv, AuthTypes
  <2>2. /\ request' = [h \in Requests |-> request'[h]]
        /\ request'[g] = r
        /\ \A h \in Requests \ {g} : request'[h] = request[h]
    BY <2>1
  <2>3. \A h \in Requests : Holds(h)' /\ h # g =>
          Holds(h) /\ request'[h].number = request[h].number /\ request'[h].now = request[h].now
    BY <2>2 DEF Holds
  <2>4. request'[g].number = n /\ request'[g].now = time
    BY <2>2
  <2>5. AuthTypes'
    BY <1>1, <1>2, <2>2 DEF AuthInv, AuthTypes
  <2>6. AuthShapes'
    <3>1. request'[g].step = "lookup"
      BY <2>2
    <3> HIDE DEF r
    <3> QED BY <2>2, <3>1, Zenon DEF AuthInv, AuthShapes, At
  <2>7. \A h \in Requests : Holds(h)' => Held(h)'
    BY <1>1, <1>2, <2>3, <2>4 DEF AuthInv, Held, AuthTypes
  <2>8. OnePlace'
    <3>1. \A h \in Requests : Holds(h) => request[h].number # n
      BY <1>1 DEF AuthInv, Held
    <3>2. \A i \in DOMAIN made : made[i].number # n
      BY <1>1 DEF AuthInv, OnePlace
    <3> HIDE DEF r
    <3>3. \A h, k \in Requests :
            Holds(h)' /\ Holds(k)' /\ request'[h].number = request'[k].number => h = k
      BY <2>3, <2>4, <3>1 DEF AuthInv, OnePlace
    <3>4. \A i \in DOMAIN made : made[i].number \in DOMAIN issued \ open'
      BY <1>1, Zenon DEF AuthInv, OnePlace
    <3>5. \A i \in DOMAIN made, h \in Requests :
            Holds(h)' => request'[h].number # made[i].number
      BY <2>3, <2>4, <3>2 DEF AuthInv, OnePlace
    <3> QED BY <1>2, <3>3, <3>4, <3>5 DEF OnePlace
  <2>9. OneSessionPerChallenge'
    BY <1>2 DEF AuthInv, OneSessionPerChallenge
  <2> QED BY <2>5, <2>6, <2>7, <2>8, <2>9 DEF AuthInv
<1> QED BY <1>3, <1>4 DEF HandleVerify

\* CreateSession: the only session of the challenge that the request holds.
LEMMA SessionStep ==
    ASSUME AuthInv, NEW g \in Requests, CreateSession(g)
    PROVE  AuthInv'
<1> DEFINE m == [number |-> request[g].number, taken |-> request[g].now]
           r == [request[g] EXCEPT !.step = "login"]
<1>1. /\ At(g, "session") /\ made' = Append(made, m) /\ Become(g, r)
      /\ UNCHANGED <<time, issued, open>>
  BY DEF CreateSession
<1>2. Holds(g) /\ Held(g) /\ r.step = "login"
  <2>1. Holds(g) /\ request[g] = [number |-> request[g].number, now |-> request[g].now,
                                  trust |-> request[g].trust, step |-> request[g].step]
    BY <1>1, HolderShape
  <2>2. Held(g)
    BY <2>1 DEF AuthInv
  <2>3. r.step = "login"
    BY <2>1
  <2> QED BY <2>1, <2>2, <2>3
<1>3. m \in Made
  BY <1>2 DEF Held, Made, AuthInv, AuthTypes
<1>4. /\ made' \in Seq(Made) /\ Len(made) \in Nat
      /\ DOMAIN made' = DOMAIN made \cup {Len(made) + 1} /\ Len(made) + 1 \notin DOMAIN made
      /\ made'[Len(made) + 1] = m
      /\ \A i \in DOMAIN made : made'[i] = made[i]
  BY <1>1, <1>3 DEF AuthInv, AuthTypes
<1>5. request' = [request EXCEPT ![g] = r] /\ request = [h \in Requests |-> request[h]]
  BY <1>1 DEF Become, AuthInv, AuthTypes
<1> HIDE DEF r
<1>6. /\ request' = [h \in Requests |-> request'[h]]
      /\ request'[g] = r
      /\ \A h \in Requests \ {g} : request'[h] = request[h]
  BY <1>5
<1>7. \A h \in Requests : Holds(h)' =>
        /\ h # g /\ Holds(h) /\ request'[h].number = request[h].number
        /\ request'[h].now = request[h].now
  BY <1>2, <1>6 DEF Holds
<1>8. AuthTypes'
  BY <1>1, <1>4, <1>6 DEF AuthInv, AuthTypes
<1>9. AuthShapes'
  BY <1>2, <1>6, ZenonT(60) DEF AuthInv, AuthShapes, At
<1>10. \A h \in Requests : Holds(h)' => Held(h)'
  BY <1>1, <1>7 DEF AuthInv, Held
<1>11. OnePlace'
  BY <1>1, <1>2, <1>4, <1>7 DEF AuthInv, OnePlace, Held
<1>12. OneSessionPerChallenge'
  BY <1>1, <1>2, <1>4 DEF AuthInv, OnePlace, OneSessionPerChallenge, Held
<1> QED BY <1>8, <1>9, <1>10, <1>11, <1>12 DEF AuthInv

\* Every call of every request keeps a challenge in one place.
LEMMA AuthKeeps == AuthInv /\ [AuthNext]_authVars => AuthInv'
<1> SUFFICES ASSUME AuthInv, [AuthNext]_authVars
             PROVE  AuthInv'
  OBVIOUS
<1>1. ASSUME NEW g \in Requests, NEW x \in Accounts, NEW key \in SigningKeys,
             HandleChallenge(g, x, key)
      PROVE  AuthInv'
  BY <1>1, AuthMoves DEF HandleChallenge, AuthInv, AuthTypes
<1>2. ASSUME NEW g \in Requests, LookUpUser(g)
      PROVE  AuthInv'
  <2> DEFINE user == GetUser(issued[request[g].number].xpub)
             next == [number |-> request[g].number, now |-> request[g].now,
                      trust |-> user.trust,
                      step |-> IF user.key = NoKey THEN "bind" ELSE "session"]
  <2>1. Holds(g) /\ UNCHANGED <<time, issued, open, made>>
    BY <1>2 DEF LookUpUser, At, Holds
  <2>2. CASE Become(g, NoRequest)
    BY <2>1, <2>2, AuthMoves
  <2>3. CASE Become(g, next)
    <3>1. next = [number |-> next.number, now |-> next.now, trust |-> next.trust,
                  step |-> next.step]
      OBVIOUS
    <3>2. next.number = request[g].number /\ next.now = request[g].now /\ next.step # "store"
      OBVIOUS
    <3> HIDE DEF next
    <3> QED BY <2>1, <2>3, <3>1, <3>2, AuthMoves
  <2> QED BY <1>2, <2>2, <2>3 DEF LookUpUser, Finish
<1>3. ASSUME NEW g \in Requests, BindKey(g)
      PROVE  AuthInv'
  <2> DEFINE r == [request[g] EXCEPT !.step = "session"]
  <2>1. Become(g, r) /\ UNCHANGED <<time, issued, open, made>>
    BY <1>3 DEF BindKey
  <2>2. Holds(g) /\ request[g] = [number |-> request[g].number, now |-> request[g].now,
                                  trust |-> request[g].trust, step |-> request[g].step]
    BY <1>3, HolderShape DEF BindKey
  <2>3. /\ r = [number |-> r.number, now |-> r.now, trust |-> r.trust, step |-> r.step]
        /\ r.number = request[g].number /\ r.now = request[g].now /\ r.step = "session"
    BY <2>2
  <2> HIDE DEF r
  <2> QED BY <2>1, <2>2, <2>3, AuthMoves
<1>4. ASSUME NEW g \in Requests,
             StoreFailed(g) \/ RecordLogin(g) \/ UpdateSigningPubKey(g)
      PROVE  AuthInv'
  <2>1. Become(g, NoRequest) /\ UNCHANGED <<time, issued, open, made>>
    BY <1>4 DEF StoreFailed, RecordLogin, UpdateSigningPubKey, Finish
  <2> QED BY <2>1, AuthMoves
<1>5. ASSUME NEW g \in Requests, NEW x \in Accounts, NEW trust \in TrustLevels,
             NEW key \in SigningKeys \cup {NoKey}, UpdateTrust(g, x, trust, key)
      PROVE  AuthInv'
  <2>1. UNCHANGED <<time, issued, open, made>>
    BY <1>5 DEF UpdateTrust
  <2>2. CASE UNCHANGED request
    BY <2>1, <2>2, AuthStill DEF AuthInv, AuthTypes
  <2>3. CASE Become(g, [step |-> "key", xpub |-> x, key |-> key])
    BY <2>1, <2>3, AuthMoves
  <2> QED BY <1>5, <2>2, <2>3 DEF UpdateTrust
<1>6. CASE OnlyCleans
  BY <1>6, AuthStill DEF OnlyCleans, Unexpired, AuthInv, AuthTypes
<1>7. CASE CleanupSessions \/ AuthTick \/ UNCHANGED authVars
  BY <1>7, AuthStill DEF CleanupSessions, AuthTick, authVars, AuthInv, AuthTypes
<1>8. CASE \E s \in sessions : RevokeSession(s)
  BY <1>8, AuthStill DEF RevokeSession, AuthInv, AuthTypes
<1>9. CASE \E x \in Accounts : RemoveUser(x) \/ \E user \in User : AddUser(x, user)
  BY <1>9, AuthStill DEF RemoveUser, AddUser, AuthInv, AuthTypes
<1> QED
  BY <1>1, <1>2, <1>3, <1>4, <1>5, <1>6, <1>7, <1>8, <1>9, StoreStep, VerifyStep,
     SessionStep DEF AuthNext

\* However many requests answer a challenge at once, at most one of them makes a session
\* with it, and it has taken the challenge before it expired.
THEOREM ChallengeUsedOnce == AuthSpec => []OneSessionPerChallenge
<1>1. AuthInv => OneSessionPerChallenge
  BY DEF AuthInv
<1> QED BY AuthStarts, AuthKeeps, <1>1, PTL DEF AuthSpec
-----------------------------------------------------------------------------
(* Licences.                                                               *)

\* What a proof request keeps between its steps.
Proving ==
    [step : {"load", "create", "grant"}, xpub : XPubs, now : 0..MaxClock,
     onFile : BOOLEAN, ent : Entitlement \cup {NoEntry}]

\* A row on file when a request began is there as long as the request runs, so a
\* request that found none began without one; a request that grants has an entitlement.
Provings ==
    /\ proof \in [Provers -> Proving \cup {NoEntry}]
    /\ \A g \in Provers : proof[g] # NoEntry =>
         /\ proof[g].onFile => entitlements[proof[g].xpub] # NoEntry
         /\ proof[g].step = "create" => ~proof[g].onFile
         /\ proof[g].step = "grant" => proof[g].ent # NoEntry

LicenseInv == LicenseTypeOK /\ Provings /\ EntitlementKept

\* Nothing is pending, on file or issued at the start.
LEMMA LicenseStarts == LicenseInit => LicenseInv
BY LicenseAssumption DEF LicenseInit, LicenseInv, LicenseTypeOK, Provings, EntitlementKept

\* The default is an entitlement, and so a row.
LEMMA DefaultIsRow == DefaultEntitlement \in Entitlement /\ DefaultEntitlement # NoEntry
<1>1. DefaultEntitlement \in Entitlement
  BY DEF DefaultEntitlement, Entitlement
<1> QED BY <1>1, LicenseAssumption

\* cleanupChallenges leaves challenges.
LEMMA CleanedType ==
    ASSUME LicenseTypeOK
    PROVE  Cleaned \in [ReqIDs -> [xpub : XPubs, remotePeer : RemotePeers, expiresAt : Nat]
                                  \cup {NoEntry}]
BY DEF LicenseTypeOK, Cleaned

\* What the requests keep when one of them goes on and no row disappears.
LEMMA ProverMoves ==
    ASSUME LicenseInv, NEW g \in Provers, NEW q \in Proving \cup {NoEntry},
           proof' = [proof EXCEPT ![g] = q],
           \A x \in XPubs : entitlements[x] # NoEntry => entitlements'[x] # NoEntry,
           q # NoEntry => /\ q.onFile => entitlements'[q.xpub] # NoEntry
                          /\ q.step = "create" => ~q.onFile
                          /\ q.step = "grant" => q.ent # NoEntry
    PROVE  Provings'
<1>1. proof' \in [Provers -> Proving \cup {NoEntry}]
  BY DEF LicenseInv, Provings
<1>2. proof'[g] = q /\ \A h \in Provers \ {g} : proof'[h] = proof[h]
  BY DEF LicenseInv, Provings
<1>3. \A h \in Provers : proof[h] # NoEntry => proof[h].xpub \in XPubs
  BY DEF LicenseInv, Provings, Proving
<1> QED BY <1>1, <1>2, <1>3 DEF LicenseInv, Provings

\* The same when none goes on.
LEMMA ProversWait ==
    ASSUME LicenseInv, UNCHANGED proof,
           \A x \in XPubs : entitlements[x] # NoEntry => entitlements'[x] # NoEntry
    PROVE  Provings'
<1>1. \A h \in Provers : proof[h] # NoEntry => proof[h].xpub \in XPubs
  BY DEF LicenseInv, Provings, Proving
<1> QED BY <1>1 DEF LicenseInv, Provings

\* With the requests in order, the rest of the type is that of the tables.
LEMMA LicenseTyped ==
    ASSUME Provings', clock' \in 0..MaxClock, EntitlementKept',
           pending' \in [ReqIDs -> [xpub : XPubs, remotePeer : RemotePeers, expiresAt : Nat]
                                   \cup {NoEntry}],
           entitlements' \in [XPubs -> Entitlement \cup {NoEntry}],
           \A t \in tokens' : t.exp \in Nat /\ t.ent \in Entitlement
    PROVE  LicenseInv'
<1>1. \A g \in Provers : proof'[g] = NoEntry \/
         /\ proof'[g].step \in {"load", "create", "grant"}
         /\ proof'[g].xpub \in XPubs /\ proof'[g].now \in 0..MaxClock
         /\ proof'[g].onFile \in BOOLEAN
         /\ proof'[g].ent \in Entitlement \cup {NoEntry}
  BY DEF Provings, Proving
<1>2. overwritten' \subseteq XPubs
  BY DEF EntitlementKept
<1> QED BY <1>1, <1>2 DEF LicenseInv, LicenseTypeOK

\* A step that issues no token and writes no row of the default over another.
LEMMA LicenseQuiet ==
    ASSUME LicenseInv, Provings', clock' \in 0..MaxClock, UNCHANGED <<tokens, overwritten>>,
           pending' \in [ReqIDs -> [xpub : XPubs, remotePeer : RemotePeers, expiresAt : Nat]
                                   \cup {NoEntry}],
           entitlements' \in [XPubs -> Entitlement \cup {NoEntry}]
    PROVE  LicenseInv'
<1>1. EntitlementKept' /\ \A t \in tokens' : t.exp \in Nat /\ t.ent \in Entitlement
  BY DEF LicenseInv, LicenseTypeOK, EntitlementKept
<1> QED BY <1>1, LicenseTyped

\* What a step of a request that has begun cites.
LEMMA ProverShape ==
    ASSUME LicenseInv, NEW g \in Provers, proof[g] # NoEntry
    PROVE  proof[g] \in Proving
BY SMTT(60) DEF LicenseInv, Provings

\* The token is made from the entitlement the request has, which outlives it.
LEMMA GrantStep ==
    ASSUME LicenseInv, NEW g \in Provers, Grant(g)
    PROVE  LicenseInv'
<1> DEFINE ent == proof[g].ent
           now == proof[g].now
           full == now + TokenTTL
           exp == IF ent.expiresAt > 0 /\ ent.expiresAt < full THEN ent.expiresAt ELSE full
           t == [xpub |-> proof[g].xpub, exp |-> exp, ent |-> ent]
<1>1. proof[g] # NoEntry /\ proof[g].step = "grant" /\ proof[g] \in Proving
  BY ProverShape, SMTT(60) DEF Grant
<1>2. ent \in Entitlement /\ now \in Nat /\ TokenTTL \in Nat
  BY <1>1, LicenseAssumption DEF Proving, LicenseInv, Provings
<1>3. ent.expiresAt \in Nat
  BY <1>2 DEF Entitlement
<1> HIDE DEF ent, now
<1>4. exp \in Nat /\ (ent.expiresAt > 0 => exp <= ent.expiresAt)
  BY <1>2, <1>3, SMTT(60)
<1>5. /\ \/ UNCHANGED tokens
         \/ ent.active /\ tokens' = tokens \cup {t}
      /\ proof' = [proof EXCEPT ![g] = NoEntry]
      /\ UNCHANGED <<clock, pending, entitlements, overwritten>>
  BY DEF Grant, IsActive, ent, now
<1> HIDE DEF exp
<1>6. t.exp = exp /\ t.ent = ent
  OBVIOUS
<1> HIDE DEF t
<1>7. Provings'
  BY <1>5, ProverMoves, Zenon
<1>8. EntitlementKept' /\ \A s \in tokens' : s.exp \in Nat /\ s.ent \in Entitlement
  BY <1>2, <1>4, <1>5, <1>6 DEF LicenseInv, LicenseTypeOK, EntitlementKept
<1> QED BY <1>5, <1>7, <1>8, LicenseTyped, SMTT(60) DEF LicenseInv, LicenseTypeOK

\* Every step of the service keeps what the requests rely on.
LEMMA LicenseKeeps == LicenseInv /\ [LicenseNext]_licenseVars => LicenseInv'
<1> SUFFICES ASSUME LicenseInv, [LicenseNext]_licenseVars
             PROVE  LicenseInv'
  OBVIOUS
<1> DEFINE Challenges == [ReqIDs -> [xpub : XPubs, remotePeer : RemotePeers, expiresAt : Nat]
                                    \cup {NoEntry}]
<1>0. /\ Cleaned \in Challenges /\ pending \in Challenges
      /\ clock \in 0..MaxClock /\ entitlements \in [XPubs -> Entitlement \cup {NoEntry}]
      /\ ChallengeTTL \in Nat /\ MaxClock \in Nat
  BY CleanedType, LicenseAssumption DEF LicenseInv, LicenseTypeOK
<1>1. ASSUME NEW r \in ReqIDs, NEW x \in XPubs, NEW peer \in RemotePeers,
             HandleChallengeRequest(r, x, peer)
      PROVE  LicenseInv'
  <2>1. [xpub |-> x, remotePeer |-> peer, expiresAt |-> clock + ChallengeTTL]
          \in [xpub : XPubs, remotePeer : RemotePeers, expiresAt : Nat]
    BY <1>0, SMTT(60)
  <2>2. pending' \in Challenges /\ UNCHANGED <<clock, entitlements, proof, tokens, overwritten>>
    BY <1>0, <1>1, <2>1 DEF HandleChallengeRequest
  <2> QED BY <1>0, <2>2, ProversWait, LicenseQuiet
<1>2. CASE RequestRefused
  BY <1>0, <1>2, ProversWait, LicenseQuiet DEF RequestRefused
<1>3. ASSUME NEW g \in Provers, NEW r \in ReqIDs, HandleProofRequest(g, r)
      PROVE  LicenseInv'
  <2> DEFINE q == [step |-> "load", xpub |-> Cleaned[r].xpub, now |-> clock, ent |-> NoEntry,
                   onFile |-> entitlements[Cleaned[r].xpub] # NoEntry]
  <2>1. pending' \in Challenges /\ UNCHANGED <<clock, entitlements, tokens, overwritten>>
    BY <1>0, <1>3, SMTT(60) DEF HandleProofRequest
  <2>2. Cleaned[r].xpub \in XPubs
    BY <1>0, <1>3, SMTT(60) DEF HandleProofRequest
  <2>3. q \in Proving /\ q.step = "load" /\ (q.onFile => entitlements[q.xpub] # NoEntry)
    BY <1>0, <2>2, Zenon DEF Proving
  <2>4. UNCHANGED proof \/ proof' = [proof EXCEPT ![g] = q]
    BY <1>3 DEF HandleProofRequest
  <2> HIDE DEF q
  <2>5. Provings'
    BY <2>1, <2>3, <2>4, ProversWait, ProverMoves
  <2> QED BY <1>0, <2>1, <2>5, LicenseQuiet, SMTT(60)
<1>4. ASSUME NEW g \in Provers, GetEntitlement(g)
      PROVE  LicenseInv'
  <2> DEFINE ent == entitlements[proof[g].xpub]
             q == [proof[g] EXCEPT !.step = IF ent = NoEntry THEN "create" ELSE "grant",
                                   !.ent = ent]
  <2>1. proof[g] \in Proving /\ proof[g] # NoEntry
    BY <1>4, ProverShape DEF GetEntitlement
  <2>2. UNCHANGED <<clock, pending, entitlements, tokens, overwritten>>
    BY <1>4 DEF GetEntitlement
  <2>3. proof' = [proof EXCEPT ![g] = q]
    BY <1>4, Zenon DEF GetEntitlement
  <2>4. proof[g].xpub \in XPubs /\ ent \in Entitlement \cup {NoEntry}
    BY <1>0, <2>1 DEF Proving
  <2>5. /\ q \in Proving /\ q.ent = ent /\ q.xpub = proof[g].xpub /\ q.onFile = proof[g].onFile
        /\ q.step = IF ent = NoEntry THEN "create" ELSE "grant"
    BY <2>1, <2>4, Zenon DEF Proving
  <2>6. proof[g].onFile => ent # NoEntry
    BY <2>1 DEF LicenseInv, Provings
  <2> HIDE DEF q
  <2>7. Provings'
    BY <2>2, <2>3, <2>5, <2>6, ProverMoves, Zenon
  <2> QED BY <1>0, <2>2, <2>7, LicenseQuiet
<1>5. ASSUME NEW g \in Provers, CreateEntitlement(g)
      PROVE  LicenseInv'
  <2> DEFINE q == [proof[g] EXCEPT !.step = "grant", !.ent = DefaultEntitlement]
  <2>1. proof[g] \in Proving /\ proof[g] # NoEntry /\ proof[g].step = "create"
    BY <1>5, ProverShape DEF CreateEntitlement
  <2>2. ~proof[g].onFile
    BY <2>1 DEF LicenseInv, Provings
  <2>3. UNCHANGED <<clock, pending, tokens, overwritten>>
    BY <1>5, <2>2 DEF CreateEntitlement
  <2>4. proof' = [proof EXCEPT ![g] = q]
    BY <1>5, Zenon DEF CreateEntitlement
  <2>5. /\ entitlements' \in [XPubs -> Entitlement \cup {NoEntry}]
        /\ \A x \in XPubs : entitlements[x] # NoEntry => entitlements'[x] # NoEntry
    BY <1>0, <1>5, DefaultIsRow, Zenon DEF CreateEntitlement
  <2>6. /\ q \in Proving /\ q.ent # NoEntry /\ q.step = "grant" /\ q.onFile = proof[g].onFile
    BY <2>1, DefaultIsRow, Zenon DEF Proving
  <2> HIDE DEF q
  <2>7. Provings'
    BY <2>2, <2>4, <2>5, <2>6, ProverMoves, ZenonT(60)
  <2> QED BY <1>0, <2>3, <2>5, <2>7, LicenseQuiet
<1>6. ASSUME NEW g \in Provers, EntitlementFailed(g)
      PROVE  LicenseInv'
  <2>1. /\ proof' = [proof EXCEPT ![g] = NoEntry]
        /\ UNCHANGED <<clock, pending, entitlements, tokens, overwritten>>
    BY <1>6 DEF EntitlementFailed
  <2>2. Provings'
    BY <2>1, ProverMoves, ZenonT(60)
  <2> QED BY <1>0, <2>1, <2>2, LicenseQuiet
<1>7. ASSUME NEW x \in XPubs, NEW plan \in Plans, NEW active \in BOOLEAN,
             NEW expiresAt \in Expiries,
             UpsertEntitlement(x, [plan |-> plan, active |-> active, expiresAt |-> expiresAt])
      PROVE  LicenseInv'
  <2> DEFINE ent == [plan |-> plan, active |-> active, expiresAt |-> expiresAt]
  <2>1. ent \in Entitlement /\ ent # NoEntry
    <3>1. expiresAt \in Nat
      BY LicenseAssumption
    <3>2. ent \in Entitlement
      BY <3>1 DEF Entitlement
    <3> QED BY <3>2, LicenseAssumption
  <2>2. /\ entitlements' = [entitlements EXCEPT ![x] = ent]
        /\ UNCHANGED <<clock, pending, proof, tokens, overwritten>>
    BY <1>7 DEF UpsertEntitlement
  <2> HIDE DEF ent
  <2>3. /\ entitlements' \in [XPubs -> Entitlement \cup {NoEntry}]
        /\ \A y \in XPubs : entitlements[y] # NoEntry => entitlements'[y] # NoEntry
    BY <1>0, <2>1, <2>2
  <2> QED BY <1>0, <2>2, <2>3, ProversWait, LicenseQuiet
<1>8. CASE LicenseTick \/ UNCHANGED licenseVars
  <2>1. clock' \in 0..MaxClock /\ UNCHANGED <<pending, entitlements, proof, tokens, overwritten>>
    BY <1>0, <1>8 DEF LicenseTick, licenseVars
  <2> QED BY <1>0, <2>1, ProversWait, LicenseQuiet
<1> QED
  BY <1>1, <1>2, <1>3, <1>4, <1>5, <1>6, <1>7, <1>8, GrantStep, ZenonT(60) DEF LicenseNext

\* Whatever requests and administrators do at the same time, GetOrCreateEntitlement never
\* replaces a row that was on file when its request began, and a token is issued only
\* from an active entitlement, which it does not outlive.
THEOREM EntitlementsSurvive == LicenseSpec => []EntitlementKept
<1>1. LicenseInv => EntitlementKept
  BY DEF LicenseInv
<1> QED BY LicenseStarts, LicenseKeeps, <1>1, PTL DEF LicenseSpec
=============================================================================
