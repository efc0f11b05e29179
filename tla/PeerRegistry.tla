---------------------------- MODULE PeerRegistry ----------------------------
(***************************************************************************)
(* The registry of known peers and their groups, its SQLite persistence    *)
(* and its HTTP handlers.                                                  *)
(*                                                                         *)
(* Every method of the registry holds its lock and ends by saving: each is *)
(* one step.  GetPeer returns a pointer to the registered object.  The     *)
(* handler updatePeer changes that object without the lock and then calls  *)
(* UpdatePeer, which registers it under its id: two steps, between which   *)
(* the peer may be removed and added anew as another object.               *)
(*                                                                         *)
(* A peer's trust level stands for all the fields a handler sets.          *)
(***************************************************************************)
EXTENDS Naturals, FiniteSets

CONSTANTS
    PeerIDs,
    Groups,
    Levels,          \* trust levels
    Trusted,         \* the level of a peer of the configuration
    TrustedPeers,    \* TrustedPeers of the configuration
    Editors,         \* goroutines inside updatePeer
    Objects,         \* TrustedPeer objects, by address
    Absent,          \* no object, no row
    MaxRegistryFaults  \* bound: saves that fail, and restarts

ASSUME PeersAssumption ==
    /\ Trusted \in Levels
    /\ TrustedPeers \subseteq PeerIDs
    /\ MaxRegistryFaults \in Nat

VARIABLES
    heap,        \* the objects: level and Groups
    peers,       \* peers: id to object
    groups,      \* groups: name to Members, or Absent
    peerRows,    \* table peers
    groupRows,   \* table peer_groups
    editing,     \* updatePeer: peer and object between its two steps
    registryFaults,
    unsaved,     \* history: the last save failed
    removed      \* history: peers removed and not added since

peersVars == <<heap, peers, groups, peerRows, groupRows, editing, registryFaults,
               unsaved, removed>>

PeerRecord == [level : Levels, groups : SUBSET Groups]

PeersTypeOK ==
    /\ heap \in [Objects -> PeerRecord \cup {Absent}]
    /\ peers \in [PeerIDs -> Objects \cup {Absent}]
    /\ groups \in [Groups -> SUBSET PeerIDs \cup {Absent}]
    /\ peerRows \in [PeerIDs -> PeerRecord \cup {Absent}]
    /\ groupRows \in [Groups -> SUBSET PeerIDs \cup {Absent}]
    /\ editing \in [Editors -> (PeerIDs \X Objects) \cup {Absent}]
    /\ registryFaults \in 0..MaxRegistryFaults
    /\ unsaved \in BOOLEAN
    /\ removed \subseteq PeerIDs

-----------------------------------------------------------------------------
Registered == {p \in PeerIDs : peers[p] # Absent}

InUse(o, ps, ed) ==
    \/ \E p \in PeerIDs : ps[p] = o
    \/ \E w \in Editors : ed[w] # Absent /\ ed[w][2] = o

\* The address of a new object is one that is free.
Free == {o \in Objects : ~InUse(o, peers, editing)}
New == CHOOSE o \in Free : TRUE

\* Save writes a row for every registered peer and group.
RowsOf(h, ps) ==
    [p \in PeerIDs |-> IF ps[p] # Absent THEN h[ps[p]] ELSE peerRows[p]]
GroupRowsOf(gs) ==
    [g \in Groups |-> IF gs[g] # Absent THEN gs[g] ELSE groupRows[g]]

\* A change of the registry and the save that ends it, whose error is ignored.
\* Objects that are no longer referred to are collected.
Change(h, ps, gs, ed) ==
    /\ heap' = [o \in Objects |-> IF InUse(o, ps, ed) THEN h[o] ELSE Absent]
    /\ peers' = ps /\ groups' = gs /\ editing' = ed
    /\ \/ /\ peerRows' = RowsOf(h, ps)
          /\ groupRows' = GroupRowsOf(gs)
          /\ unsaved' = FALSE
          /\ UNCHANGED registryFaults
       \/ /\ registryFaults < MaxRegistryFaults
          /\ registryFaults' = registryFaults + 1
          /\ unsaved' = TRUE
          /\ UNCHANGED <<peerRows, groupRows>>

NewPeer(level) == [level |-> level, groups |-> {}]

AddPeer(p, level) ==
    /\ p \notin Registered
    /\ Free # {}
    /\ Change([heap EXCEPT ![New] = NewPeer(level)], [peers EXCEPT ![p] = New], groups, editing)
    /\ removed' = removed \ {p}

RemovePeer(p) ==
    /\ p \in Registered
    /\ Change(heap, [peers EXCEPT ![p] = Absent], groups, editing)
    /\ removed' = removed \cup {p}

SetTrustLevel(p, level) ==
    /\ p \in Registered
    /\ Change([heap EXCEPT ![peers[p]].level = level], peers, groups, editing)
    /\ UNCHANGED removed

AddGroup(g) ==
    /\ groups[g] = Absent
    /\ Change(heap, peers, [groups EXCEPT ![g] = {}], editing)
    /\ UNCHANGED removed

RemoveGroup(g) ==
    /\ groups[g] # Absent
    /\ Change(heap, peers, [groups EXCEPT ![g] = Absent], editing)
    /\ UNCHANGED removed

\* A peer the group already lists is left as it is, without a save.
AddPeerToGroup(p, g) ==
    /\ groups[g] # Absent
    /\ p \in Registered
    /\ p \notin groups[g]
    /\ Change([heap EXCEPT ![peers[p]].groups = @ \cup {g}], peers,
              [groups EXCEPT ![g] = @ \cup {p}], editing)
    /\ UNCHANGED removed

RemovePeerFromGroup(p, g) ==
    /\ groups[g] # Absent
    /\ p \in Registered
    /\ Change([heap EXCEPT ![peers[p]].groups = @ \ {g}], peers,
              [groups EXCEPT ![g] = @ \ {p}], editing)
    /\ UNCHANGED removed

\* UpdateStats, for a connection or a message: a save, and counters.
RecordConnection(p) ==
    /\ p \in Registered
    /\ Change(heap, peers, groups, editing)
    /\ UNCHANGED removed

\* Import of one peer: merged into the registry, or in place of all it holds.
Import(p, level, merge) ==
    /\ merge => p \notin Registered
    /\ Free # {}
    /\ Change([heap EXCEPT ![New] = NewPeer(level)],
              [q \in PeerIDs |-> IF q = p THEN New ELSE IF merge THEN peers[q] ELSE Absent],
              IF merge THEN groups ELSE [g \in Groups |-> Absent], editing)
    /\ removed' = (IF merge THEN removed ELSE removed \cup Registered) \ {p}

-----------------------------------------------------------------------------
\* updatePeer: GetPeer, and the fields of the request written to the object.
StartUpdate(w, p, level) ==
    /\ editing[w] = Absent
    /\ p \in Registered
    /\ editing' = [editing EXCEPT ![w] = <<p, peers[p]>>]
    /\ heap' = [heap EXCEPT ![peers[p]].level = level]
    /\ UNCHANGED <<peers, groups, peerRows, groupRows, registryFaults, unsaved, removed>>

\* Mutant: the object is registered without being saved.
UpdateUnsaved(w) ==
    /\ editing[w] # Absent
    /\ editing[w][1] \in Registered
    /\ peers' = [peers EXCEPT ![editing[w][1]] = editing[w][2]]
    /\ editing' = [editing EXCEPT ![w] = Absent]
    /\ UNCHANGED <<heap, groups, peerRows, groupRows, registryFaults, unsaved, removed>>

\* updatePeer: UpdatePeer registers the object it was given.
UpdatePeer(w) ==
    /\ editing[w] # Absent
    /\ editing[w][1] \in Registered
    /\ Change(heap, [peers EXCEPT ![editing[w][1]] = editing[w][2]], groups,
              [editing EXCEPT ![w] = Absent])
    /\ UNCHANGED removed

\* updatePeer: the peer was removed meanwhile.
UpdateNotFound(w) ==
    /\ editing[w] # Absent
    /\ editing[w][1] \notin Registered
    /\ editing' = [editing EXCEPT ![w] = Absent]
    /\ heap' = [o \in Objects |-> IF InUse(o, peers, editing') THEN heap[o] ELSE Absent]
    /\ UNCHANGED <<peers, groups, peerRows, groupRows, registryFaults, unsaved, removed>>

\* An object for each peer that has a record.
Placed(rows) ==
    CHOOSE ps \in [PeerIDs -> Objects \cup {Absent}] :
        /\ \A p \in PeerIDs : ps[p] = Absent <=> rows[p] = Absent
        /\ \A p, q \in PeerIDs : ps[p] = ps[q] => p = q \/ ps[p] = Absent

Stored(rows, ps) ==
    [o \in Objects |-> IF \E p \in PeerIDs : ps[p] = o
                       THEN rows[CHOOSE p \in PeerIDs : ps[p] = o] ELSE Absent]

\* The configured peers that are not registered are added.
WithTrustedPeers(rows) ==
    [p \in PeerIDs |-> IF p \in TrustedPeers /\ rows[p] = Absent THEN NewPeer(Trusted)
                       ELSE rows[p]]

\* The node stops and starts again: NewRegistry with Load, whose error leaves the
\* registry empty, then an AddPeer, with its save, for each configured peer that
\* was not loaded.
Restart ==
    /\ registryFaults < MaxRegistryFaults
    /\ registryFaults' = registryFaults + 1
    /\ \E loads, saves \in BOOLEAN :
         LET loaded == IF loads THEN peerRows ELSE [p \in PeerIDs |-> Absent]
             rows == WithTrustedPeers(loaded)
         IN  /\ peers' = Placed(rows)
             /\ heap' = Stored(rows, Placed(rows))
             /\ groups' = IF loads THEN groupRows ELSE [g \in Groups |-> Absent]
             /\ peerRows' = IF ~saves THEN peerRows
                            ELSE [p \in PeerIDs |-> IF rows[p] # Absent THEN rows[p] ELSE peerRows[p]]
             /\ unsaved' = (~saves /\ rows # loaded)
    /\ editing' = [w \in Editors |-> Absent]
    /\ UNCHANGED <<groupRows, removed>>

PeersInit ==
    LET rows == WithTrustedPeers([p \in PeerIDs |-> Absent]) IN
    /\ peers = Placed(rows)
    /\ heap = Stored(rows, Placed(rows))
    /\ peerRows = rows
    /\ groups = [g \in Groups |-> Absent]
    /\ groupRows = groups
    /\ editing = [w \in Editors |-> Absent]
    /\ registryFaults = 0
    /\ unsaved = FALSE
    /\ removed = {}

PeersNext ==
    \/ \E p \in PeerIDs :
         \/ RemovePeer(p) \/ RecordConnection(p)
         \/ \E level \in Levels :
              \/ AddPeer(p, level) \/ SetTrustLevel(p, level)
              \/ \E merge \in BOOLEAN : Import(p, level, merge)
              \/ \E w \in Editors : StartUpdate(w, p, level)
         \/ \E g \in Groups : AddPeerToGroup(p, g) \/ RemovePeerFromGroup(p, g)
    \/ \E g \in Groups : AddGroup(g) \/ RemoveGroup(g)
    \/ \E w \in Editors : UpdatePeer(w) \/ UpdateNotFound(w)
    \/ Restart

PeersSpec == PeersInit /\ [][PeersNext]_peersVars

-----------------------------------------------------------------------------
\* Every registered peer and group is in the database as it is in memory, unless
\* the last save failed or an updatePeer that has changed the peer's object has
\* yet to save it: a restart brings no older trust level back.
SavedOrPending ==
    \/ unsaved
    \/ /\ \A p \in Registered :
            \/ peerRows[p] = heap[peers[p]]
            \/ \E w \in Editors : editing[w] # Absent /\ editing[w][2] = peers[p]
       /\ \A g \in Groups : groups[g] # Absent => groupRows[g] = groups[g]

\* A peer that was removed from the registry, and is not one of the configuration,
\* is not in it again until it is added: the registry forgets it, also on disk.
RemovedStaysRemoved == \A p \in removed \ TrustedPeers : p \notin Registered
=============================================================================
