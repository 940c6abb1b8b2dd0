------------------------------ MODULE Settings ------------------------------
(***************************************************************************)
(* Saving the configuration: Service.SaveConfigurationContext              *)
(* (internal/application/service.go) calling the logger and the            *)
(* configuration store through callAdapter (adapter_guard.go), the store    *)
(* replacing config.yaml (internal/config/config.go), and Load reading it   *)
(* when a process starts.                                                  *)
(*                                                                         *)
(* A configuration is abstracted to what its users tell apart: the level   *)
(* of the log and the limit of the history (0 when it is disabled).        *)
(* Processes share the file; each has its own active copy and log level.   *)
(* Every save passes validation.                                           *)
(***************************************************************************)
EXTENDS Naturals, FiniteSets

CONSTANTS Processes, Savers,   \* processes and the goroutines that save
          OwnerOf(_),          \* the process of a goroutine
          Configs, Default,    \* configurations and config.Default()
          LevelOf(_),          \* Logging.Level of a configuration
          LimitOf(_),          \* History.MaxEntries, 0 when the history is disabled
          MaxSaves             \* saves made in a behaviour

ASSUME SettingsAssumption ==
  /\ Default \in Configs /\ "absent" \notin Configs
  /\ \A c \in Configs : LimitOf(c) \in Nat
  /\ \A t \in Savers : OwnerOf(t) \in Processes
  /\ MaxSaves \in Nat

CONSTANT Nobody
ASSUME NobodyAssumption == Nobody \notin Savers

VARIABLES
  windows,    \* the platform: replace and the directory sync differ
  file,       \* what config.yaml holds: a configuration or "absent"
  durable,    \* what it holds after a loss of power
  active,     \* Service.config of each process
  level,      \* the level of each process's logger; "silent" when it has no file
  store,      \* each process has a configuration store
  configMu,   \* Service.configMu
  saver,      \* each call of SaveConfigurationContext
  saves,      \* how many calls were made
  persisted,  \* history: the configurations the file has held
  stuck       \* history: processes whose level was left by a cancelled save

settings == <<windows, file, durable, active, level, store, configMu, saver, saves,
              persisted, stuck>>

\* previous: the configuration to go back to; changed: the levels differ;
\* done: the caller's context is done.
NoSave == [at |-> "idle", value |-> Default, previous |-> Default,
           changed |-> FALSE, done |-> FALSE]
Steps == {"idle", "lock", "level", "write", "rename", "retry", "sync", "finish", "restore"}

SettingsInit ==
  /\ windows \in BOOLEAN
  /\ file \in Configs \cup {"absent"}
  /\ durable = file
  /\ active = [p \in Processes |-> Default]
  /\ level = [p \in Processes |-> "silent"]
  /\ store = [p \in Processes |-> FALSE]
  /\ configMu = [p \in Processes |-> Nobody]
  /\ saver = [t \in Savers |-> NoSave]
  /\ saves = 0
  /\ persisted = {file} \cap Configs
  /\ stuck = {}

-----------------------------------------------------------------------------
(* A process starts and ends.                                              *)

\* Load, and the logger opened with the level it returns.  A missing file
\* gives the defaults; a file that cannot be read leaves the process with the
\* defaults and without a store; without a log file the logger that discards
\* its records stays.
LoadSettings(p) ==
  /\ \/ /\ active' = [active EXCEPT ![p] = IF file = "absent" THEN Default ELSE file]
        /\ store' = [store EXCEPT ![p] = TRUE]
     \/ /\ active' = [active EXCEPT ![p] = Default]
        /\ UNCHANGED store
  /\ \E l \in {LevelOf(active'[p]), "silent"} : level' = [level EXCEPT ![p] = l]
  /\ UNCHANGED <<windows, file, durable, configMu, saver, saves, persisted, stuck>>

\* The process ends, whatever its goroutines are doing.
Forget(ps) ==
  /\ active' = [p \in Processes |-> IF p \in ps THEN Default ELSE active[p]]
  /\ level' = [p \in Processes |-> IF p \in ps THEN "silent" ELSE level[p]]
  /\ store' = [p \in Processes |-> store[p] /\ p \notin ps]
  /\ configMu' = [p \in Processes |-> IF p \in ps THEN Nobody ELSE configMu[p]]
  /\ saver' = [t \in Savers |-> IF OwnerOf(t) \in ps THEN NoSave ELSE saver[t]]
  /\ stuck' = stuck \ ps
  /\ UNCHANGED <<windows, saves, persisted>>

EndSettings(p) == Forget({p}) /\ UNCHANGED <<file, durable>>

\* Power is lost: every process ends, and a rename that was not followed by a
\* sync of the directory may be undone.
PowerLoss ==
  /\ Forget(Processes)
  /\ file' \in {file, durable}
  /\ durable' = file'

-----------------------------------------------------------------------------
(* SaveConfigurationContext.                                               *)

At(t, step) == saver[t].at = step
Moved(t, step) == saver' = [saver EXCEPT ![t].at = step]
Owner(t) == OwnerOf(t)

\* setLogLevel; what a logger without a file does with it shows nowhere.
SetLogLevel(p, l) == level' = IF level[p] = "silent" THEN level ELSE [level EXCEPT ![p] = l]

Call(t, v) ==
  /\ At(t, "idle")
  /\ store[Owner(t)]
  /\ saves < MaxSaves
  /\ saver' = [saver EXCEPT ![t] = [NoSave EXCEPT !.at = "lock", !.value = v]]
  /\ saves' = saves + 1
  /\ UNCHANGED <<windows, file, durable, active, level, store, configMu, persisted, stuck>>

\* The caller's context is cancelled or reaches its deadline.
CtxDone(t) ==
  /\ ~At(t, "idle") /\ ~saver[t].done
  /\ saver' = [saver EXCEPT ![t].done = TRUE]
  /\ UNCHANGED <<windows, file, durable, active, level, store, configMu, saves,
                 persisted, stuck>>

Locked(t) ==
  LET c == active[Owner(t)] IN
  [saver[t] EXCEPT !.previous = c, !.changed = LevelOf(c) # LevelOf(saver[t].value),
                   !.at = IF LevelOf(c) # LevelOf(saver[t].value) THEN "level" ELSE "write"]

Lock(t) ==
  /\ At(t, "lock")
  /\ configMu[Owner(t)] = Nobody
  /\ configMu' = [configMu EXCEPT ![Owner(t)] = t]
  /\ saver' = [saver EXCEPT ![t] = Locked(t)]
  /\ UNCHANGED <<windows, file, durable, active, level, store, saves, persisted, stuck>>

Unlock(t) ==
  /\ configMu' = [configMu EXCEPT ![Owner(t)] = Nobody]
  /\ saver' = [saver EXCEPT ![t] = NoSave]

\* Mutant of SetLevel: the configuration is activated with its level.
SetLevelActivates(t) ==
  /\ At(t, "level")
  /\ SetLogLevel(Owner(t), LevelOf(saver[t].value))
  /\ active' = [active EXCEPT ![Owner(t)] = saver[t].value]
  /\ Moved(t, "write")
  /\ UNCHANGED <<windows, file, durable, store, configMu, saves, persisted, stuck>>

\* callAdapter runs setLogLevel, which ignores the context, and then reports
\* a context that is done as the adapter's error: the call returns.
SetLevel(t) ==
  /\ At(t, "level")
  /\ SetLogLevel(Owner(t), LevelOf(saver[t].value))
  /\ IF saver[t].done
       THEN Unlock(t) /\ stuck' = stuck \cup {Owner(t)}
       ELSE Moved(t, "write") /\ UNCHANGED <<configMu, stuck>>
  /\ UNCHANGED <<windows, file, durable, active, store, saves, persisted>>

\* Store.Save looks at the context; Save creates, fills, syncs and closes the
\* temporary file, and removes it when one of these fails.
WriteTemp(t) ==
  /\ At(t, "write")
  /\ \/ ~saver[t].done /\ Moved(t, "rename")
     \/ Moved(t, "restore")
  /\ UNCHANGED <<windows, file, durable, active, level, store, configMu, saves, persisted,
                 stuck>>

Replaced(t) ==
  /\ file' = saver[t].value
  /\ persisted' = persisted \cup {saver[t].value}
  /\ Moved(t, IF windows THEN "finish" ELSE "sync")

\* Mutant of Rename: the file is removed before the rename on every platform.
RenameRemoves(t) ==
  /\ At(t, "rename")
  /\ \/ Replaced(t)
     \/ Moved(t, "restore") /\ UNCHANGED <<file, persisted>>
     \/ file # "absent" /\ file' = "absent" /\ Moved(t, "retry") /\ UNCHANGED persisted
  /\ durable' = IF windows THEN file' ELSE durable
  /\ UNCHANGED <<windows, active, level, store, configMu, saves, stuck>>

\* replace: the rename; on Windows, when it fails, a destination that exists
\* is removed first.  A rename that fails leaves the file as it is.
Rename(t) ==
  /\ At(t, "rename")
  /\ \/ Replaced(t)
     \/ Moved(t, "restore") /\ UNCHANGED <<file, persisted>>
     \/ /\ windows /\ file # "absent"
        /\ file' = "absent"
        /\ Moved(t, "retry")
        /\ UNCHANGED persisted
  /\ durable' = IF windows THEN file' ELSE durable
  /\ UNCHANGED <<windows, active, level, store, configMu, saves, stuck>>

\* The second rename of the fallback; if it fails the temporary file goes too.
RenameAgain(t) ==
  /\ At(t, "retry")
  /\ \/ Replaced(t)
     \/ Moved(t, "restore") /\ UNCHANGED <<file, persisted>>
  /\ durable' = file'
  /\ UNCHANGED <<windows, active, level, store, configMu, saves, stuck>>

\* The directory is synced; an error is one of the save, which took effect.
SyncDir(t) ==
  /\ At(t, "sync")
  /\ \/ durable' = file /\ Moved(t, "finish")
     \/ durable' \in {durable, file} /\ Moved(t, "restore")
  /\ UNCHANGED <<windows, file, active, level, store, configMu, saves, persisted, stuck>>

\* The level now agrees with the configuration.
Settled(t) == IF saver[t].changed THEN stuck \ {Owner(t)} ELSE stuck

\* Store.Save and callAdapter report a context that is done, the adapter's own
\* five seconds included, although the file was replaced; otherwise s.config
\* is set and the call returns.
Finish(t) ==
  /\ At(t, "finish")
  /\ \/ /\ ~saver[t].done
        /\ active' = [active EXCEPT ![Owner(t)] = saver[t].value]
        /\ stuck' = Settled(t)
        /\ Unlock(t)
     \/ Moved(t, "restore") /\ UNCHANGED <<active, configMu, stuck>>
  /\ UNCHANGED <<windows, file, durable, level, store, saves, persisted>>

\* Mutant of Restore: the level is restored only while the context lives.
RestoreUnlessDone(t) ==
  /\ At(t, "restore")
  /\ IF saver[t].changed /\ ~saver[t].done
       THEN SetLogLevel(Owner(t), LevelOf(saver[t].previous)) ELSE UNCHANGED level
  /\ stuck' = Settled(t)
  /\ Unlock(t)
  /\ UNCHANGED <<windows, file, durable, active, store, saves, persisted>>

\* The save failed: the previous level is restored and the call returns.
Restore(t) ==
  /\ At(t, "restore")
  /\ IF saver[t].changed
       THEN SetLogLevel(Owner(t), LevelOf(saver[t].previous)) ELSE UNCHANGED level
  /\ stuck' = Settled(t)
  /\ Unlock(t)
  /\ UNCHANGED <<windows, file, durable, active, store, saves, persisted>>

SaverStep(t) ==
  \/ Lock(t) \/ SetLevel(t) \/ WriteTemp(t) \/ Rename(t) \/ RenameAgain(t)
  \/ SyncDir(t) \/ Finish(t) \/ Restore(t)

-----------------------------------------------------------------------------
\* Every variable of the settings has its type.
SettingsTypeOK ==
  /\ windows \in BOOLEAN
  /\ file \in Configs \cup {"absent"} /\ durable \in Configs \cup {"absent"}
  /\ active \in [Processes -> Configs]
  /\ level \in [Processes -> {LevelOf(c) : c \in Configs} \cup {"silent"}]
  /\ store \in [Processes -> BOOLEAN]
  /\ configMu \in [Processes -> Savers \cup {Nobody}]
  /\ saver \in [Savers -> [at : Steps, value : Configs, previous : Configs,
                           changed : BOOLEAN, done : BOOLEAN]]
  /\ saves \in 0 .. MaxSaves
  /\ persisted \subseteq Configs
  /\ stuck \subseteq Processes

\* A configuration that is safely on disk is never lost: whatever fails,
\* whichever process ends and even if power is lost, config.yaml goes on holding
\* a configuration (config.go: "Save validates and atomically replaces").  The
\* Windows fallback of replace is excepted, as its comment says.
SettingsSurvive ==
  [][~windows /\ durable # "absent" => file' # "absent" /\ durable' # "absent"]_settings

\* "SaveConfiguration validates and persists settings before activating them":
\* the active configuration of every process is one the file has held, or the
\* defaults.  So a save that fails before the rename activates nothing; of one that is
\* reported as failed after it, this says nothing.
PersistedBeforeActive == \A p \in Processes : active[p] \in persisted \cup {Default}

\* Between saves the logger has the level of the active configuration: a save
\* that fails, times out after it took effect or is cancelled puts the level
\* back, also when saves wait for each other.  Excepted is a save cancelled
\* before setLogLevel returned (see LevelFollowsConfiguration).
LevelRestored ==
  \A p \in Processes :
    configMu[p] = Nobody /\ p \notin stuck => level[p] \in {LevelOf(active[p]), "silent"}

\* What service_test.go:533 expects of every failed save ("failed save did not
\* restore active log level"): between saves the level is the active one's.
LevelFollowsConfiguration ==
  \A p \in Processes : configMu[p] = Nobody => level[p] \in {LevelOf(active[p]), "silent"}
=============================================================================
