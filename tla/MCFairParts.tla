---------------------------- MODULE MCFairParts ----------------------------
(***************************************************************************)
(* One instance for the three parts whose liveness is checked, the files   *)
(* of the settings, the catalog cache and the browser's settings writes: a *)
(* behaviour picks one of them at the start and runs it.                   *)
(***************************************************************************)
EXTENDS MCSettingsFiles, CatalogCache, ClientSettings

VARIABLE part

fairPartsVars == <<part, vars, cacheVars, settingsVars>>

FairPartsInit ==
  /\ part \in {"files", "cache", "browser"}
  /\ Init /\ (part # "files" => <<settingsFile, secretsFile>> = Configured)
  /\ CacheInit
  /\ ClientSettingsInit
  /\ kept.on[a] = "on" /\ (part # "browser" => kept.on[b] = "on")

FairPartsNext ==
  \/ part = "files" /\ Next /\ UNCHANGED <<part, cacheVars, settingsVars>>
  \/ part = "cache" /\ CacheNext /\ UNCHANGED <<part, vars, settingsVars>>
  \/ part = "browser" /\ ClientSettingsNext /\ UNCHANGED <<part, vars, cacheVars>>

FairPartsSpec ==
  FairPartsInit /\ [][FairPartsNext]_fairPartsVars /\ WriterFairness /\ CacheFairness /\ LaneFairness
=============================================================================
