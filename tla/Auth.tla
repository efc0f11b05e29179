-------------------------------- MODULE Auth --------------------------------
(***************************************************************************)
(* Wallet login: a client asks for a challenge, signs it, and gets a       *)
(* session.  Users come from the configuration and from a table; the       *)
(* configuration wins where both know a user.  Requests run concurrently,  *)
(* and each is the sequence of its calls of the stores: state read by one  *)
(* call may have changed by the next.                                      *)
(*                                                                         *)
(* A challenge has the number of its issue for its random id.  A request   *)
(* whose challenge bytes or signature are wrong takes its challenge and    *)
(* ends.  The limits on requests per minute and the cookie are left out.   *)
(***************************************************************************)
EXTENDS Naturals, Sequences, FiniteSets

CONSTANTS
    Accounts,          \* xpubs
    ConfigUsers,       \* configUsers: a function from some of the accounts to users
    Attested,          \* nodeAttestations: a function from some of the accounts to keys
    SigningKeys, NoKey,
    TrustLevels, AdminLevel,
    Requests,          \* goroutines that serve requests
    NoUser, NoRequest,
    ChallengeLife, SessionLife,
    MaxOpenChallenges, \* maxPendingChallenges
    MaxTime,           \* bound: the clock
    MaxIssued          \* bound: challenges issued

User == [trust : TrustLevels, key : SigningKeys \cup {NoKey}]

ASSUME AuthAssumption ==
    /\ DOMAIN ConfigUsers \subseteq Accounts /\ \A x \in DOMAIN ConfigUsers : ConfigUsers[x] \in User
    /\ DOMAIN Attested \subseteq Accounts /\ \A x \in DOMAIN Attested : Attested[x] \in SigningKeys
    /\ NoKey \notin SigningKeys
    /\ {ChallengeLife, SessionLife, MaxOpenChallenges, MaxTime, MaxIssued} \subseteq Nat

VARIABLES
    time,      \* time.Now()
    users,     \* table users: by xpub
    issued,    \* every challenge stored, by number
    open,      \* challenges: the numbers of those that wait to be answered
    request,   \* what each goroutine is doing
    sessions,  \* table sessions
    made       \* history: the challenge of each session made, and when it was taken

authVars == <<time, users, issued, open, request, sessions, made>>

Idle(g) == request[g] = NoRequest
At(g, step) == request[g] # NoRequest /\ request[g].step = step

AuthTypeOK ==
    /\ time \in 0..MaxTime
    /\ users \in [Accounts -> User \cup {NoUser}]
    /\ \A n \in DOMAIN issued : issued[n].xpub \in Accounts /\ issued[n].key \in SigningKeys
    /\ open \subseteq DOMAIN issued
    /\ \A g \in Requests : Idle(g) \/
         request[g].step \in {"store", "lookup", "bind", "session", "login", "key"}
    /\ \A s \in sessions : s.xpub \in Accounts /\ s.trust \in TrustLevels /\ s.revoked \in BOOLEAN
    /\ \A i \in DOMAIN made : made[i].number \in DOMAIN issued

AuthInit ==
    /\ time = 0
    /\ users = [x \in Accounts |-> NoUser]
    /\ issued = <<>>
    /\ open = {}
    /\ request = [g \in Requests |-> NoRequest]
    /\ sessions = {}
    /\ made = <<>>
-----------------------------------------------------------------------------
Configured(x) == x \in DOMAIN ConfigUsers

\* GetUser with applyConfigOverrides.
GetUser(x) ==
    IF users[x] = NoUser THEN IF Configured(x) THEN ConfigUsers[x] ELSE NoUser
    ELSE IF ~Configured(x) THEN users[x]
    ELSE [trust |-> ConfigUsers[x].trust,
          key |-> IF ConfigUsers[x].key # NoKey THEN ConfigUsers[x].key ELSE users[x].key]

\* The statements that fall back to a row made from the configuration.
Promoted(x, row) == IF users[x] = NoUser /\ Configured(x) THEN row ELSE users[x]

\* cleanupChallenges at the time a request began.
Unexpired(now) == {n \in open : issued[n].expiresAt >= now}

Become(g, r) == request' = [request EXCEPT ![g] = r]
Finish(g) == Become(g, NoRequest)

\* The key a challenge for this account and this key is stored for.
ShouldStore(x, key) ==
    LET user == GetUser(x) IN
    /\ user # NoUser
    /\ key = IF user.key # NoKey THEN user.key
             ELSE IF x \in DOMAIN Attested THEN Attested[x] ELSE key

\* handleChallenge, up to the decision.
HandleChallenge(g, x, key) ==
    /\ Idle(g)
    /\ ShouldStore(x, key)
    /\ Become(g, [step |-> "store", xpub |-> x, key |-> key, now |-> time])
    /\ UNCHANGED <<time, users, issued, open, sessions, made>>

\* A request that stores or finds no challenge has still cleaned up.
OnlyCleans ==
    /\ open' = Unexpired(time)
    /\ UNCHANGED <<time, users, issued, request, sessions, made>>

StoreChallenge(g) ==
    /\ At(g, "store")
    /\ Len(issued) < MaxIssued
    /\ LET r == request[g]
           kept == Unexpired(r.now)
       IN  IF Cardinality(kept) >= MaxOpenChallenges
           THEN open' = kept /\ UNCHANGED issued
           ELSE /\ issued' = Append(issued, [xpub |-> r.xpub, key |-> r.key,
                                             expiresAt |-> r.now + ChallengeLife])
                /\ open' = kept \cup {Len(issued) + 1}
    /\ Finish(g)
    /\ UNCHANGED <<time, users, sessions, made>>

\* Mutant: the challenge is left for another request to take.
VerifyKeepsChallenge(g, n) ==
    /\ Idle(g)
    /\ n \in Unexpired(time)
    /\ open' = Unexpired(time)
    /\ Become(g, [step |-> "lookup", number |-> n, now |-> time])
    /\ UNCHANGED <<time, users, issued, sessions, made>>

\* handleVerify takes the challenge; a wrong answer ends the request.
HandleVerify(g, n) ==
    /\ Idle(g)
    /\ n \in Unexpired(time)
    /\ open' = Unexpired(time) \ {n}
    /\ \/ Become(g, [step |-> "lookup", number |-> n, now |-> time])
       \/ UNCHANGED request
    /\ UNCHANGED <<time, users, issued, sessions, made>>

\* handleVerify reads the user, and goes on to bind the key if the user has none.
LookUpUser(g) ==
    /\ At(g, "lookup")
    /\ LET c == issued[request[g].number]
           user == GetUser(c.xpub)
           contradicted == /\ user.key = NoKey
                           /\ c.xpub \in DOMAIN Attested /\ Attested[c.xpub] # c.key
           next == [number |-> request[g].number, now |-> request[g].now,
                    trust |-> user.trust,
                    step |-> IF user.key = NoKey THEN "bind" ELSE "session"]
       IN  IF user = NoUser \/ contradicted THEN Finish(g) ELSE Become(g, next)
    /\ UNCHANGED <<time, users, issued, open, sessions, made>>

\* UpdateSigningPubKey, of a table row or of a configured user.
WithKey(x, key) ==
    [users EXCEPT ![x] = IF users[x] # NoUser THEN [@ EXCEPT !.key = key]
                         ELSE Promoted(x, [trust |-> ConfigUsers[x].trust, key |-> key])]

\* The binding of the key; when it fails the login goes on.
BindKey(g) ==
    /\ At(g, "bind")
    /\ LET c == issued[request[g].number] IN
       users' \in {users, IF GetUser(c.xpub) = NoUser THEN users ELSE WithKey(c.xpub, c.key)}
    /\ Become(g, [request[g] EXCEPT !.step = "session"])
    /\ UNCHANGED <<time, issued, open, sessions, made>>

CreateSession(g) ==
    /\ At(g, "session")
    /\ LET r == request[g] IN
       sessions' = sessions \cup {[number |-> r.number, xpub |-> issued[r.number].xpub,
                                   trust |-> r.trust, expiresAt |-> time + SessionLife,
                                   revoked |-> FALSE]}
    /\ made' = Append(made, [number |-> request[g].number, taken |-> request[g].now])
    /\ Become(g, [request[g] EXCEPT !.step = "login"])
    /\ UNCHANGED <<time, users, issued, open>>

\* A statement of the database fails: the user is not read, or the session not made.
StoreFailed(g) ==
    /\ At(g, "lookup") \/ At(g, "session")
    /\ Finish(g)
    /\ UNCHANGED <<time, users, issued, open, sessions, made>>

\* An error of it is ignored.
RecordLogin(g) ==
    /\ At(g, "login")
    /\ LET x == issued[request[g].number].xpub IN
       users' \in {users, [users EXCEPT ![x] = Promoted(x, ConfigUsers[x])]}
    /\ Finish(g)
    /\ UNCHANGED <<time, issued, open, sessions, made>>
-----------------------------------------------------------------------------
ValidateSession(s) == ~s.revoked /\ time <= s.expiresAt

\* handleLogout.
RevokeSession(s) ==
    /\ s \in sessions
    /\ sessions' = (sessions \ {s}) \cup {[s EXCEPT !.revoked = TRUE]}
    /\ UNCHANGED <<time, users, issued, open, request, made>>

CleanupSessions ==
    /\ sessions' = {s \in sessions : ~s.revoked /\ s.expiresAt >= time}
    /\ UNCHANGED <<time, users, issued, open, request, made>>

\* sessionFromRequest, for the handlers that manage users.
AdminSession == \E s \in sessions : ValidateSession(s) /\ s.trust >= AdminLevel

AddUser(x, user) ==
    /\ AdminSession
    /\ users[x] = NoUser
    /\ users' = [users EXCEPT ![x] = user]
    /\ UNCHANGED <<time, issued, open, request, sessions, made>>

RemoveUser(x) ==
    /\ AdminSession
    /\ users[x] # NoUser
    /\ users' = [users EXCEPT ![x] = NoUser]
    /\ UNCHANGED <<time, issued, open, request, sessions, made>>

\* A PUT of handleUserByXPub: the trust level, and then the key if it has one.
UpdateTrust(g, x, trust, key) ==
    /\ Idle(g)
    /\ AdminSession
    /\ users[x] # NoUser \/ Configured(x)
    /\ users' = [users EXCEPT ![x] = IF users[x] # NoUser THEN [@ EXCEPT !.trust = trust]
                                     ELSE [trust |-> trust, key |-> ConfigUsers[x].key]]
    /\ IF key = NoKey THEN UNCHANGED request
       ELSE Become(g, [step |-> "key", xpub |-> x, key |-> key])
    /\ UNCHANGED <<time, issued, open, sessions, made>>

\* The key of the PUT, which may fail and leaves the new trust level then.
UpdateSigningPubKey(g) ==
    /\ At(g, "key")
    /\ LET x == request[g].xpub IN
       users' \in {users, IF users[x] = NoUser /\ ~Configured(x) THEN users
                          ELSE WithKey(x, request[g].key)}
    /\ Finish(g)
    /\ UNCHANGED <<time, issued, open, sessions, made>>

AuthTick ==
    /\ time < MaxTime
    /\ time' = time + 1
    /\ UNCHANGED <<users, issued, open, request, sessions, made>>

AuthNext ==
    \/ \E g \in Requests :
         \/ \E x \in Accounts, key \in SigningKeys : HandleChallenge(g, x, key)
         \/ StoreChallenge(g) \/ LookUpUser(g) \/ BindKey(g)
         \/ CreateSession(g) \/ StoreFailed(g) \/ RecordLogin(g)
         \/ \E n \in 1..MaxIssued : HandleVerify(g, n)
         \/ \E x \in Accounts, trust \in TrustLevels, key \in SigningKeys \cup {NoKey} :
              UpdateTrust(g, x, trust, key)
         \/ UpdateSigningPubKey(g)
    \/ OnlyCleans \/ CleanupSessions \/ AuthTick
    \/ \E s \in sessions : RevokeSession(s)
    \/ \E x \in Accounts : RemoveUser(x) \/ \E user \in User : AddUser(x, user)

AuthSpec == AuthInit /\ [][AuthNext]_authVars
-----------------------------------------------------------------------------
\* However many requests answer a challenge at once, it makes at most one session,
\* and only when it was taken no later than it expires.
OneSessionPerChallenge ==
    /\ \A i, j \in DOMAIN made : made[i].number = made[j].number => i = j
    /\ \A i \in DOMAIN made : made[i].taken <= issued[made[i].number].expiresAt
=============================================================================
