------------------------------ MODULE Plugins ------------------------------
(***************************************************************************)
(* The plugin registry: uploaded bundles, one file each, a catalog file    *)
(* that lists them, and the assets in memory.  AddPlugin holds the         *)
(* registry's lock but makes its changes one by one, so a write may fail   *)
(* or the process may stop in between.  LoadPluginRegistry reads the       *)
(* catalog back at the next start, and fails on a file that is missing.    *)
(*                                                                         *)
(* A bundle is known by its version.  os.WriteFile truncates before it     *)
(* writes, so a failed write may leave a file that is torn.  Signatures,   *)
(* keys and bundles that are stored encrypted are left out.                *)
(***************************************************************************)
CONSTANTS
    PluginIDs, Versions,
    Missing,  \* no file, or not listed
    Torn      \* a file cut short

VARIABLES
    bundle,   \* bundle.wasm of each plugin
    catalog,  \* catalog.json: the version listed of each plugin, or Torn
    assets,   \* assets of the registry
    step,     \* what AddPlugin does next, or that the registry is not loaded
    adding,   \* the plugin being added and its version
    before,   \* history: the assets when AddPlugin began
    outcome   \* history: how the last AddPlugin ended

pluginVars == <<bundle, catalog, assets, step, adding, before, outcome>>

Listing == [PluginIDs -> Versions \cup {Missing}]

PluginsTypeOK ==
    /\ bundle \in [PluginIDs -> Versions \cup {Missing, Torn}]
    /\ catalog \in Listing \cup {Torn}
    /\ assets \in Listing
    /\ step \in {"idle", "register", "rollback", "down", "unloadable"}
    /\ adding \in PluginIDs \X Versions
    /\ before \in Listing
    /\ outcome \in {"none", "added", "not written", "not saved"}

PluginsInit ==
    /\ bundle = [id \in PluginIDs |-> Missing]
    /\ catalog = [id \in PluginIDs |-> Missing]
    /\ assets = [id \in PluginIDs |-> Missing]
    /\ step = "idle"
    /\ adding \in PluginIDs \X Versions
    /\ before = assets
    /\ outcome = "none"
-----------------------------------------------------------------------------
\* AddPlugin writes the bundle.
WriteBundle(id, version) ==
    /\ step = "idle"
    /\ adding' = <<id, version>>
    /\ before' = assets
    /\ \/ /\ bundle' = [bundle EXCEPT ![id] = version]
          /\ step' = "register" /\ UNCHANGED outcome
       \/ /\ bundle' \in {bundle, [bundle EXCEPT ![id] = Torn]}
          /\ outcome' = "not written" /\ UNCHANGED step
    /\ UNCHANGED <<catalog, assets>>

Registered == [assets EXCEPT ![adding[1]] = adding[2]]

\* AddPlugin registers the asset, and saveCatalogLocked writes the catalog.
SaveCatalog ==
    /\ step = "register"
    /\ assets' = Registered
    /\ \/ /\ catalog' = Registered
          /\ step' = "idle" /\ outcome' = "added"
       \/ /\ catalog' \in {catalog, Torn}
          /\ step' = "rollback" /\ UNCHANGED outcome
    /\ UNCHANGED <<bundle, adding, before>>

\* The rollback: the asset is deleted and the bundle removed, as far as it can be.
RollBack ==
    /\ step = "rollback"
    /\ assets' = [assets EXCEPT ![adding[1]] = Missing]
    /\ bundle' \in {bundle, [bundle EXCEPT ![adding[1]] = Missing]}
    /\ step' = "idle"
    /\ outcome' = "not saved"
    /\ UNCHANGED <<catalog, adding, before>>

\* The process stops.
Stop ==
    /\ step \notin {"down", "unloadable"}
    /\ step' = "down"
    /\ assets' = [id \in PluginIDs |-> Missing]
    /\ outcome' = "none"
    /\ UNCHANGED <<bundle, catalog, adding, before>>

\* A catalog that cannot be decoded, or that lists a missing file, fails the start.
LoadPluginRegistry ==
    /\ step = "down"
    /\ IF catalog = Torn \/ \E id \in PluginIDs : catalog[id] # Missing /\ bundle[id] = Missing
       THEN step' = "unloadable" /\ UNCHANGED assets
       ELSE step' = "idle" /\ assets' = catalog
    /\ UNCHANGED <<bundle, catalog, adding, before, outcome>>

PluginsNext ==
    \/ \E id \in PluginIDs, version \in Versions : WriteBundle(id, version)
    \/ SaveCatalog \/ RollBack \/ Stop \/ LoadPluginRegistry

PluginsSpec == PluginsInit /\ [][PluginsNext]_pluginVars
-----------------------------------------------------------------------------
(***************************************************************************)
(* An AddPlugin that could not save the catalog and rolled back leaves the *)
(* plugins of the registry as they were when it began.  This is what the   *)
(* comment on AddPlugin's error path says; it does not hold when the       *)
(* upload replaces a version that was there before.                        *)
(***************************************************************************)
RolledBack == outcome = "not saved" => assets = before
=============================================================================
