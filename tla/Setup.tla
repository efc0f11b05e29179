------------------------------- MODULE Setup -------------------------------
(***************************************************************************)
(* First-time setup of a server and the life of its identity keys: the     *)
(* one-time token, the four key files, the first administrator and the     *)
(* marker file, with concurrent setup and key-restore handlers, writes     *)
(* that fail, crashes and restarts.                                        *)
(*                                                                         *)
(* The setup manager's methods hold its mutex and are one action each.     *)
(* The key manager has no lock, so every key file it writes is a step.     *)
(* A process checks a token only against the one it printed itself, so a   *)
(* presented token is either "current" or "other".                         *)
(***************************************************************************)
EXTENDS Integers

CONSTANTS
    Workers,     \* invocations of HandleSetupAPI and handleKeyRestore
    Backups,     \* identities that encrypted backups hold
    Usernames,   \* administrator names a setup request may ask for
    Passwords,   \* classes of passwords: "weak" passes the handler's check
                 \* (8 characters) but not validatePassword, "strong" passes both
    MaxCrashes,  \* bound on crashes
    MaxFaults,   \* bound on failing writes
    MaxExpiries, \* bound on tokens that expire
    None         \* a missing file, an identity not in memory

ASSUME SetupAssumption ==
    /\ Passwords \subseteq {"weak", "strong"}
    /\ Workers \cap Backups = {}
    /\ None \notin Workers \cup Backups
    /\ "torn" \notin Workers \cup Backups \cup {None}
    /\ MaxCrashes \in Nat /\ MaxFaults \in Nat /\ MaxExpiries \in Nat

VARIABLES
    marker,    \* the file setup_complete exists
    hashFile,  \* the file setup_token_hash exists (it is never read)
    files,     \* content of the key files
    admins,    \* user names in the table of administrators
    process,   \* "down", "up", or "closing": Shutdown waits for the handlers
    complete,  \* Manager.setupComplete
    token,     \* Manager.tokenHash is set
    used,      \* Manager.tokenUsed
    expired,   \* the token is older than TokenExpiry
    identity,  \* keys.Manager.identity: the contents of the four files
    pc,        \* what a worker does next
    job,       \* a worker's request
    torn,      \* history: a write of the key files was disturbed and not repaired
    alone,     \* history: workers that have had the key files to themselves
    crashes, faults, expiries  \* counters for the bounds

disk == <<marker, hashFile, files, admins>>
memory == <<process, complete, token, used, expired, identity>>
counters == <<crashes, faults, expiries>>
vars == <<disk, memory, pc, job, torn, alone, counters>>

KeyFiles == {"signing_private", "signing_public", "encryption_private", "encryption_public"}

(* The order in which GenerateIdentity and ImportEncrypted save the files. *)
FirstFile == "signing_private"
Following == [signing_private    |-> "signing_public",
              signing_public     |-> "encryption_private",
              encryption_private |-> "encryption_public",
              encryption_public  |-> "saved"]

Identities == Workers \cup Backups
Contents == [KeyFiles -> Identities \cup {None, "torn"}]
Whole(i) == [f \in KeyFiles |-> i]

(* A worker that is to write a key file is at that file's name. *)
Labels == {"idle", "verify", "identity", "admin", "complete", "restored"} \cup KeyFiles
Saving(w) == pc[w] \in KeyFiles

NoJob == [kind |-> "none"]
SetupJob(t, u, p) == [kind |-> "setup", tok |-> t, user |-> u, password |-> p]
RestoreJob(b) == [kind |-> "restore", backup |-> b]
Jobs == {NoJob} \cup {RestoreJob(b) : b \in Backups}
        \cup {SetupJob(t, u, p) : t \in {"current", "other"}, u \in Usernames, p \in Passwords}

TypeOK ==
    /\ marker \in BOOLEAN /\ hashFile \in BOOLEAN
    /\ files \in Contents
    /\ admins \subseteq Usernames
    /\ process \in {"down", "up", "closing"} /\ complete \in BOOLEAN
    /\ token \in BOOLEAN /\ used \in BOOLEAN /\ expired \in BOOLEAN
    /\ identity \in Contents
    /\ pc \in [Workers -> Labels]
    /\ job \in [Workers -> Jobs]
    /\ torn \in BOOLEAN /\ alone \subseteq Workers
    /\ crashes \in 0..MaxCrashes /\ faults \in 0..MaxFaults /\ expiries \in 0..MaxExpiries

Init ==
    /\ marker = FALSE /\ hashFile = FALSE
    /\ files = Whole(None) /\ admins = {}
    /\ process = "down" /\ complete = FALSE
    /\ token = FALSE /\ used = FALSE /\ expired = FALSE
    /\ identity = Whole(None)
    /\ pc = [w \in Workers |-> "idle"]
    /\ job = [w \in Workers |-> NoJob]
    /\ torn = FALSE /\ alone = {}
    /\ crashes = 0 /\ faults = 0 /\ expiries = 0

(* keys.Manager.HasIdentity looks at the first file only. *)
HasIdentity == files[FirstFile] # None

(* keys.Manager.LoadIdentity needs all four files and checks none. *)
LoadIdentity ==
    IF \E f \in KeyFiles : files[f] = None THEN Whole(None) ELSE files

Goto(w, l) == pc' = [pc EXCEPT ![w] = l]
Return(w) == Goto(w, "idle") /\ job' = [job EXCEPT ![w] = NoJob]
-----------------------------------------------------------------------------
(* The process. *)

(* NewServer and Start: the marker decides the mode.  A new token is made in   *)
(* setup mode; a hash that cannot be written is only logged.                   *)
Start ==
    /\ process = "down"
    /\ process' = "up"
    /\ complete' = marker
    /\ token' = ~marker
    /\ used' = FALSE
    /\ expired' = FALSE
    /\ identity' = IF marker THEN LoadIdentity ELSE Whole(None)
    /\ \/ hashFile' = (hashFile \/ ~marker) /\ faults' = faults
       \/ ~marker /\ faults < MaxFaults /\ hashFile' = hashFile /\ faults' = faults + 1
    /\ UNCHANGED <<marker, files, admins, pc, job, torn, alone, crashes, expiries>>

Halt ==
    /\ process # "down"
    /\ process' = "down"
    /\ complete' = FALSE
    /\ token' = FALSE
    /\ used' = FALSE
    /\ expired' = FALSE
    /\ identity' = Whole(None)

(* Stop closes the listener, and lets the running handlers finish. *)
Stop ==
    /\ process = "up"
    /\ process' = "closing"
    /\ UNCHANGED <<disk, complete, token, used, expired, identity, pc, job, torn, alone, counters>>

Stopped ==
    /\ process = "closing"
    /\ \A w \in Workers : pc[w] = "idle"
    /\ Halt
    /\ UNCHANGED <<disk, pc, job, torn, alone, counters>>

(* What the file a worker is writing may hold when the write does not succeed: *)
(* WriteFile truncates before it writes.                                       *)
Interrupted(w) ==
    IF Saving(w) THEN {files, [files EXCEPT ![pc[w]] = "torn"]} ELSE {files}

(* The process dies.  Of several writes under way any may have been torn.      *)
Crash ==
    /\ crashes < MaxCrashes
    /\ crashes' = crashes + 1
    /\ Halt
    /\ \E writing \in SUBSET {w \in Workers : Saving(w)} :
          files' = [f \in KeyFiles |->
                      IF \E w \in writing : pc[w] = f THEN "torn" ELSE files[f]]
    /\ marker' \in {marker, marker \/ \E w \in Workers : pc[w] = "complete"}
    /\ torn' = (torn \/ \E w \in Workers : Saving(w))
    /\ pc' = [w \in Workers |-> "idle"]
    /\ job' = [w \in Workers |-> NoJob]
    /\ alone' = {}
    /\ UNCHANGED <<hashFile, admins, faults, expiries>>

(* TokenExpiry passes. *)
Expire ==
    /\ token /\ ~expired
    /\ expiries < MaxExpiries
    /\ expired' = TRUE
    /\ expiries' = expiries + 1
    /\ UNCHANGED <<disk, process, complete, token, used, identity, pc, job, torn, alone,
                   crashes, faults>>
-----------------------------------------------------------------------------
(* HandleSetupAPI.  A request that fails the checks of its form changes nothing *)
(* and is left out.                                                             *)

Submit(w, t, u, p) ==
    /\ process = "up" /\ ~complete
    /\ pc[w] = "idle"
    /\ Goto(w, "verify")
    /\ job' = [job EXCEPT ![w] = SetupJob(t, u, p)]
    /\ UNCHANGED <<disk, memory, torn, alone, counters>>

TokenAccepted(w) == ~complete /\ token /\ ~expired /\ ~used /\ job[w].tok = "current"

(* Mutant: the token is not marked as used. *)
VerifyReusable(w) ==
    /\ pc[w] = "verify"
    /\ IF TokenAccepted(w)
         THEN Goto(w, "identity") /\ UNCHANGED <<token, job>>
         ELSE token' = (token /\ (complete \/ ~expired)) /\ Return(w)
    /\ UNCHANGED <<disk, process, complete, used, expired, identity, torn, alone, counters>>

(* Mutant: the token is marked as used before it is compared. *)
VerifyUsesFirst(w) ==
    /\ pc[w] = "verify"
    /\ used' = TRUE
    /\ IF TokenAccepted(w) THEN Goto(w, "identity") /\ job' = job ELSE Return(w)
    /\ UNCHANGED <<disk, process, complete, token, expired, identity, torn, alone, counters>>

VerifyToken(w) ==
    /\ pc[w] = "verify"
    /\ IF TokenAccepted(w)
         THEN /\ used' = TRUE
              /\ token' = token
              /\ Goto(w, "identity")
              /\ job' = job
         ELSE /\ token' = (token /\ (complete \/ ~expired))
              /\ used' = used
              /\ Return(w)
    /\ UNCHANGED <<disk, process, complete, expired, identity, torn, alone, counters>>

(* Mutant: an identity that exists is taken over as it is. *)
ReuseIdentity(w) ==
    /\ pc[w] = "identity"
    /\ IF HasIdentity
         THEN Goto(w, "admin") /\ alone' = alone
         ELSE Goto(w, FirstFile) /\ alone' = IF \E v \in Workers : Saving(v) THEN {} ELSE {w}
    /\ job' = job
    /\ UNCHANGED <<disk, memory, torn, counters>>

(* Mutant: an identity that exists is replaced. *)
ReplaceIdentity(w) ==
    /\ pc[w] = "identity"
    /\ Goto(w, FirstFile)
    /\ alone' = IF \E v \in Workers : Saving(v) THEN {} ELSE {w}
    /\ job' = job
    /\ UNCHANGED <<disk, memory, torn, counters>>

(* GenerateIdentity refuses to replace an identity, then writes the files. *)
GenerateIdentity(w) ==
    /\ pc[w] = "identity"
    /\ IF HasIdentity
         THEN Return(w) /\ UNCHANGED <<torn, alone>>
         ELSE /\ Goto(w, FirstFile)
              /\ job' = job
              /\ alone' = IF \E v \in Workers : Saving(v) THEN {} ELSE {w}
              /\ torn' = torn
    /\ UNCHANGED <<disk, memory, counters>>

(* What a worker writes: the keys it generated, or those of its backup. *)
NewIdentity(w) == IF job[w].kind = "restore" THEN job[w].backup ELSE w

(* Mutant: the writer does not stop after the last file. *)
SaveKeyOn(w, f) ==
    /\ pc[w] = f
    /\ files' = [files EXCEPT ![f] = NewIdentity(w)]
    /\ Goto(w, Following[f])
    /\ UNCHANGED <<torn, alone, job, marker, hashFile, admins, memory, counters>>

SaveKey(w, f) ==
    /\ pc[w] = f
    /\ files' = [files EXCEPT ![f] = NewIdentity(w)]
    /\ IF Following[f] \in KeyFiles
         THEN Goto(w, Following[f]) /\ UNCHANGED <<torn, alone>>
         ELSE /\ Goto(w, IF job[w].kind = "restore" THEN "restored" ELSE "admin")
              /\ torn' = (w \notin alone)
              /\ alone' = alone \ {w}
    /\ job' = job
    /\ UNCHANGED <<marker, hashFile, admins, memory, counters>>

(* The last lines of GenerateIdentity set the identity in memory; then the    *)
(* handler calls CreateAdmin, which holds the administrators' mutex.          *)
CreateAdmin(w) ==
    /\ pc[w] = "admin"
    /\ identity' = Whole(NewIdentity(w))
    /\ IF job[w].password = "strong" /\ job[w].user \notin admins
         THEN /\ admins' = admins \cup {job[w].user}
              /\ Goto(w, "complete")
              /\ job' = job
         ELSE Return(w) /\ UNCHANGED admins
    /\ UNCHANGED <<marker, hashFile, files, process, complete, token, used, expired, torn,
                   alone, counters>>

CompleteSetup(w) ==
    /\ pc[w] = "complete"
    /\ IF complete
         THEN UNCHANGED <<marker, hashFile, complete, token, used>>
         ELSE /\ marker' = TRUE
              /\ hashFile' = FALSE
              /\ complete' = TRUE
              /\ token' = FALSE
              /\ used' = TRUE
    /\ Return(w)
    /\ UNCHANGED <<files, admins, process, expired, identity, torn, alone, counters>>

(* handleKeyRestore with ImportEncrypted: needs a session, so an administrator. *)
RestoreKeys(w, b) ==
    /\ process = "up"
    /\ pc[w] = "idle"
    /\ admins # {}
    /\ Goto(w, FirstFile)
    /\ job' = [job EXCEPT ![w] = RestoreJob(b)]
    /\ alone' = IF \E v \in Workers : Saving(v) \/ pc[v] \in {"restored", "admin"}
                THEN {}
                ELSE {w}
    /\ UNCHANGED <<disk, memory, torn, counters>>

(* Mutant: the identity in memory is not updated. *)
RestoredOnDisk(w) ==
    /\ pc[w] = "restored"
    /\ Return(w)
    /\ UNCHANGED <<disk, memory, torn, alone, counters>>

Restored(w) ==
    /\ pc[w] = "restored"
    /\ identity' = Whole(NewIdentity(w))
    /\ Return(w)
    /\ UNCHANGED <<disk, process, complete, token, used, expired, torn, alone, counters>>

(* A write fails and its handler answers with an error.  The insert into the   *)
(* table of administrators fails without effect; the marker may be left behind. *)
WriteError(w) ==
    /\ faults < MaxFaults
    /\ faults' = faults + 1
    /\ \/ /\ Saving(w)
          /\ files' \in Interrupted(w)
          /\ torn' = TRUE
          /\ UNCHANGED <<marker, identity>>
       \/ /\ pc[w] = "admin"
          /\ identity' = Whole(NewIdentity(w))
          /\ UNCHANGED <<marker, files, torn>>
       \/ /\ pc[w] = "complete" /\ ~complete
          /\ marker' \in {marker, TRUE}
          /\ UNCHANGED <<files, identity, torn>>
    /\ Return(w)
    /\ alone' = alone \ {w}
    /\ UNCHANGED <<hashFile, admins, process, complete, token, used, expired, crashes,
                   expiries>>
-----------------------------------------------------------------------------
Step(w) ==
    \/ VerifyToken(w)
    \/ GenerateIdentity(w)
    \/ \E f \in KeyFiles : SaveKey(w, f)
    \/ CreateAdmin(w)
    \/ CompleteSetup(w)
    \/ Restored(w)

Next ==
    \/ Start \/ Stop \/ Stopped \/ Crash \/ Expire
    \/ \E w \in Workers :
          \/ \E t \in {"current", "other"}, u \in Usernames, p \in Passwords : Submit(w, t, u, p)
          \/ \E b \in Backups : RestoreKeys(w, b)
          \/ Step(w)
          \/ WriteError(w)

Spec == Init /\ [][Next]_vars

(* The operator tries again with a good password, and restarts a server whose  *)
(* token is of no more use; handlers run to their end.  Other requests may     *)
(* keep all workers busy by turns, hence the strong fairness: the server has a *)
(* goroutine for every request.                                                *)
Retry == \E w \in Workers, u \in Usernames : Submit(w, "current", u, "strong")
Restart == ~complete /\ (~token \/ used \/ expired) /\ Stop

FairSpec ==
    /\ Spec
    /\ WF_vars(Start)
    /\ WF_vars(Restart)
    /\ WF_vars(Stopped)
    /\ SF_vars(Retry)
    /\ \A w \in Workers : WF_vars(Step(w))
-----------------------------------------------------------------------------
(* Properties. *)

InSetup(w) == job[w].kind = "setup" /\ pc[w] # "verify"

(* The one-time token is the only lock of the setup handler: GenerateIdentity  *)
(* checks and writes without one, so at most one handler may be past           *)
(* VerifyToken at any time.                                                    *)
OneSetupAtATime ==
    \A v, w \in Workers : InSetup(v) /\ InSetup(w) => v = w

(* Once the marker file exists a restart skips setup for good.  So whenever it *)
(* exists, an administrator can log in and no key file is missing, whatever    *)
(* failed or crashed on the way.                                               *)
CompleteIsUsable ==
    marker => admins # {} /\ \A f \in KeyFiles : files[f] # None

(* Unless a write of the key files was disturbed (a crash, an error, another   *)
(* restore at the same time) and no later one repaired it, the four files hold *)
(* one identity or none, and the identity in memory is theirs.                 *)
IdentityIntact ==
    (\A w \in Workers : ~Saving(w)) /\ ~torn
       => /\ \E i \in Identities \cup {None} : files = Whole(i)
          /\ (\A w \in Workers : pc[w] \notin {"admin", "restored"})
                => identity \in {files, Whole(None)}

(* Setup never replaces a signing key that exists; only a restore does.        *)
SetupKeepsIdentity ==
    [][HasIdentity /\ files'[FirstFile] # files[FirstFile]
         => \E w \in Workers : Saving(w) /\ job[w].kind = "restore"]_vars

Untroubled ==
    /\ crashes = 0 /\ faults = 0
    /\ \A w \in Workers : job[w].kind = "setup" => job[w].password = "strong"

(* If the operator uses good passwords and nothing crashes or fails, setup     *)
(* completes in the end, in spite of expired tokens, wrong tokens, restarts    *)
(* and restores of backups at the same time.                                   *)
SetupCompletes == []Untroubled => <>complete

(* HandleSetupAPI answers a used or expired token with "Please restart the     *)
(* server to get a new token": after a restart setup can be completed.         *)
RestartRecovers == (process = "up" /\ ~complete /\ (used \/ expired)) ~> complete
=============================================================================
