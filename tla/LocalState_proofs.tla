-------------------------- MODULE LocalState_proofs --------------------------
(***************************************************************************)
(* Proofs about the local state, for every set of processes and            *)
(* goroutines, every configuration and every scenario.                     *)
(*                                                                         *)
(* First saving the configuration: what is active was saved, the level of  *)
(* the log follows the active configuration, and the file survives every   *)
(* failure.  The actions of the database change none of the variables      *)
(* concerned.  Then the database, for every number of releases, runs and   *)
(* backups.                                                                *)
(***************************************************************************)
EXTENDS LocalState, FiniteSetTheorems, TLAPS

\* Where configMu is held.
Holding(t) == saver[t].at \in {"level", "write", "rename", "retry", "sync", "finish", "restore"}

\* What is active or on disk was saved or is the default.
Remembered ==
  /\ \A p \in Processes : active[p] \in persisted \cup {Default}
  /\ file \in persisted \cup {"absent"}
  /\ durable \in persisted \cup {"absent"}
  /\ \A t \in Savers : saver[t].at \in {"sync", "finish"} => saver[t].value \in persisted

\* The file is never less than what a loss of power would leave of it.
Outlives ==
  /\ ~windows /\ durable # "absent" => file # "absent"
  /\ \A t \in Savers : saver[t].at = "retry" => windows

\* One goroutine of a process saves at a time.
Mutex ==
  /\ \A t \in Savers : Holding(t) <=> configMu[OwnerOf(t)] = t
  /\ \A p \in Processes : configMu[p] # Nobody => OwnerOf(configMu[p]) = p

\* The level of process p is that of configuration c, or shows nowhere.
Shows(p, c) == level[p] \in {LevelOf(c), "silent"}

\* The level while goroutine t saves: the active configuration's before
\* setLogLevel, the new configuration's afterwards.
HolderLevel(t) ==
  LET s == saver[t]  p == OwnerOf(t) IN
  /\ s.previous = active[p]
  /\ s.changed <=> LevelOf(active[p]) # LevelOf(s.value)
  /\ s.at = "level" => s.changed
  /\ IF s.changed /\ s.at # "level" THEN Shows(p, s.value)
     ELSE p \notin stuck => Shows(p, active[p])

Followed ==
  /\ \A p \in Processes : configMu[p] = Nobody /\ p \notin stuck => Shows(p, active[p])
  /\ \A t \in Savers : Holding(t) => HolderLevel(t)

\* A process that is down saves nothing.
Quiet ==
  /\ life \in [Processes -> {"down", "opening", "up"}]
  /\ \A t \in Savers : life[OwnerOf(t)] = "down" => saver[t].at = "idle"

IInv == SettingsTypeOK /\ Remembered /\ Outlives /\ Mutex /\ Followed /\ Quiet

\* The types, by name.
SaverStates == [at : Steps, value : Configs, previous : Configs, changed : BOOLEAN, done : BOOLEAN]
LevelNames == {LevelOf(c) : c \in Configs} \cup {"silent"}

USE SettingsAssumption, NobodyAssumption

-----------------------------------------------------------------------------
LEMMA InitEstablishes == Init => IInv
<1> SUFFICES ASSUME Init PROVE IInv
  OBVIOUS
<1>1. SettingsTypeOK
  BY LocalAssumption DEF Init, SettingsInit, SettingsTypeOK, NoSave, Steps
<1>2. Remembered /\ Outlives
  BY DEF Init, SettingsInit, Remembered, Outlives, NoSave
<1>3. Mutex /\ Followed /\ Quiet
  BY DEF Init, SettingsInit, Mutex, Followed, Quiet, NoSave, Holding, Shows
<1> QED BY <1>1, <1>2, <1>3 DEF IInv

\* Steps that only start, serve or use the database.
LEMMA Untouched ==
  ASSUME IInv, UNCHANGED settings, UNCHANGED life PROVE IInv'
  BY DEF IInv, settings, SettingsTypeOK, Remembered, Outlives, Mutex, Followed, Quiet,
         Holding, HolderLevel, Shows

-----------------------------------------------------------------------------
(* A process starts and ends.                                              *)

\* A process that was down loads its settings.
LEMMA LoadKeeps ==
  ASSUME IInv, NEW p \in Processes, life[p] = "down", LoadSettings(p),
         life' \in [Processes -> {"down", "opening", "up"}],
         \A q \in Processes \ {p} : life'[q] = life[q] PROVE IInv'
<1> USE DEF IInv, LoadSettings
<1>1. SettingsTypeOK'
  <2>1. active' \in [Processes -> Configs] /\ store' \in [Processes -> BOOLEAN]
    <3> DEFINE c == IF file = "absent" THEN Default ELSE file
    <3>1. c \in Configs BY DEF SettingsTypeOK
    <3>2. active' = [active EXCEPT ![p] = c] \/ active' = [active EXCEPT ![p] = Default]
      OBVIOUS
    <3> HIDE DEF c
    <3>3. active' \in [Processes -> Configs] BY <3>1, <3>2 DEF SettingsTypeOK
    <3>4. store' = [store EXCEPT ![p] = TRUE] \/ store' = store OBVIOUS
    <3>5. store' \in [Processes -> BOOLEAN] BY <3>4 DEF SettingsTypeOK
    <3> QED BY <3>3, <3>5
  <2>2. PICK l \in {LevelOf(active'[p]), "silent"} : level' = [level EXCEPT ![p] = l]
    OBVIOUS
  <2>3. l \in LevelNames BY <2>1 DEF LevelNames
  <2>4. level' \in [Processes -> LevelNames] BY <2>2, <2>3 DEF SettingsTypeOK, LevelNames
  <2> QED BY <2>1, <2>4 DEF SettingsTypeOK, LevelNames
<1>2. Remembered' BY DEF Remembered, SettingsTypeOK
<1>3. Outlives' BY DEF Outlives, SettingsTypeOK
<1>4. Mutex' BY DEF Mutex, Holding, SettingsTypeOK
<1>5. Followed'
  <2>1. \A t \in Savers : Holding(t)' => OwnerOf(t) # p
    BY DEF Quiet, Holding
  <2>2. level' \in [Processes -> LevelNames] /\ active' \in [Processes -> Configs]
    BY <1>1 DEF SettingsTypeOK, LevelNames
  <2>3. Shows(p, active[p])' BY DEF Shows, SettingsTypeOK
  <2>4. \A q \in Processes \ {p} : active'[q] = active[q] /\ level'[q] = level[q]
    BY DEF SettingsTypeOK
  <2>5. \A q \in Processes : configMu'[q] = Nobody /\ q \notin stuck' => Shows(q, active[q])'
    BY <2>3, <2>4 DEF Followed, Shows
  <2>6. \A t \in Savers : Holding(t)' => HolderLevel(t)'
    BY <2>1, <2>4 DEF Followed, Holding, HolderLevel, Shows
  <2> QED BY <2>5, <2>6 DEF Followed
<1>6. Quiet' BY DEF Quiet, SettingsTypeOK
<1> QED BY <1>1, <1>2, <1>3, <1>4, <1>5, <1>6

\* A process ends.
LEMMA EndKeeps ==
  ASSUME IInv, NEW p \in Processes, EndSettings(p),
         life' = [life EXCEPT ![p] = "down"] PROVE IInv'
<1> USE DEF IInv, EndSettings, Forget, NoSave
<1>1. SettingsTypeOK' BY DEF SettingsTypeOK, Steps
<1>2. Remembered' BY DEF Remembered, SettingsTypeOK
<1>3. Outlives' BY DEF Outlives, SettingsTypeOK
<1>4. Mutex' BY DEF Mutex, Holding, SettingsTypeOK
<1>5. Followed' BY DEF Followed, Holding, HolderLevel, Shows, Mutex, SettingsTypeOK
<1>6. Quiet' BY DEF Quiet, SettingsTypeOK
<1> QED BY <1>1, <1>2, <1>3, <1>4, <1>5, <1>6

\* Power is lost.
LEMMA PowerLossKeeps ==
  ASSUME IInv, PowerLoss, life' = [p \in Processes |-> "down"] PROVE IInv'
<1> USE DEF IInv, PowerLoss, Forget, NoSave
<1>1. SettingsTypeOK' BY DEF SettingsTypeOK, Steps
<1>2. Remembered' BY DEF Remembered, SettingsTypeOK
<1>3. Outlives' BY DEF Outlives, SettingsTypeOK
<1>4. Mutex' BY DEF Mutex, Holding, SettingsTypeOK
<1>5. Followed' BY DEF Followed, Holding, HolderLevel, Shows, Mutex, SettingsTypeOK
<1>6. Quiet' BY DEF Quiet, SettingsTypeOK
<1> QED BY <1>1, <1>2, <1>3, <1>4, <1>5, <1>6

-----------------------------------------------------------------------------
(* SaveConfigurationContext.                                               *)

\* A call goes on to its next step, or returns.
LEMMA MovedTypes ==
  ASSUME SettingsTypeOK, NEW t \in Savers, NEW step \in Steps, Moved(t, step)
  PROVE  /\ saver' \in [Savers -> SaverStates]
         /\ saver'[t].at = step /\ saver'[t].value = saver[t].value
         /\ saver'[t].previous = saver[t].previous
         /\ saver'[t].changed = saver[t].changed
         /\ \A u \in Savers \ {t} : saver'[u] = saver[u]
BY DEF Moved, SettingsTypeOK, SaverStates

LEMMA UnlockTypes ==
  ASSUME SettingsTypeOK, NEW t \in Savers, Unlock(t)
  PROVE  /\ saver' \in [Savers -> SaverStates] /\ saver'[t] = NoSave
         /\ \A u \in Savers \ {t} : saver'[u] = saver[u]
         /\ configMu' \in [Processes -> Savers \cup {Nobody}]
         /\ configMu'[OwnerOf(t)] = Nobody
         /\ \A p \in Processes \ {OwnerOf(t)} : configMu'[p] = configMu[p]
<1>1. NoSave \in SaverStates BY DEF NoSave, SaverStates, Steps
<1> QED BY <1>1 DEF Unlock, Owner, SettingsTypeOK, SaverStates

\* A call is made in a process that is up.
LEMMA CallKeeps ==
  ASSUME IInv, NEW t \in Savers, NEW v \in Configs, Call(t, v), life[OwnerOf(t)] = "up", UNCHANGED life PROVE IInv'
<1> USE DEF IInv, At, Moved, Owner, Call, NoSave
<1>1. SettingsTypeOK'
  <2>1. saver'[t] \in SaverStates BY DEF SettingsTypeOK, SaverStates, Steps
  <2>2. saver' \in [Savers -> SaverStates] BY <2>1 DEF SettingsTypeOK, SaverStates
  <2> QED BY <2>2 DEF SettingsTypeOK, SaverStates
<1>2. Remembered' BY DEF Remembered, SettingsTypeOK
<1>3. Outlives' BY DEF Outlives, SettingsTypeOK
<1>4. Mutex' BY DEF Mutex, Holding, SettingsTypeOK
<1>5. Followed' BY DEF Followed, Holding, HolderLevel, Shows, Mutex, SettingsTypeOK
<1>6. Quiet' BY DEF Quiet, SettingsTypeOK
<1> QED BY <1>1, <1>2, <1>3, <1>4, <1>5, <1>6

\* The context of a call ends.
LEMMA CtxDoneKeeps ==
  ASSUME IInv, NEW t \in Savers, CtxDone(t), UNCHANGED life PROVE IInv'
<1> USE DEF IInv, At, Moved, Owner, CtxDone
<1>1. SettingsTypeOK' BY ZenonT(30) DEF SettingsTypeOK, Steps
<1>2. Remembered' BY DEF Remembered, SettingsTypeOK
<1>3. Outlives' BY DEF Outlives, SettingsTypeOK
<1>4. Mutex' BY DEF Mutex, Holding, SettingsTypeOK
<1>5. Followed' BY DEF Followed, Holding, HolderLevel, Shows, Mutex, SettingsTypeOK
<1>6. Quiet' BY DEF Quiet, SettingsTypeOK
<1> QED BY <1>1, <1>2, <1>3, <1>4, <1>5, <1>6

\* configMu is locked.
LEMMA LockKeeps ==
  ASSUME IInv, NEW t \in Savers, Lock(t), UNCHANGED life PROVE IInv'
<1> USE DEF IInv, At, Moved, Owner, Lock, Locked
<1>1. SettingsTypeOK'
  <2>1. Locked(t) \in SaverStates
    BY ZenonT(30) DEF SettingsTypeOK, SaverStates, Steps
  <2>2. saver' \in [Savers -> SaverStates] BY <2>1 DEF SettingsTypeOK, SaverStates
  <2> QED BY <2>2 DEF SettingsTypeOK, SaverStates
<1>2. Remembered' BY DEF Remembered, SettingsTypeOK
<1>3. Outlives' BY DEF Outlives, SettingsTypeOK
<1>4. Mutex' BY DEF Mutex, Holding, SettingsTypeOK
<1>5. Followed'
  <2>1. saver'[t] = Locked(t) /\ \A u \in Savers \ {t} : saver'[u] = saver[u]
    BY DEF SettingsTypeOK
  <2> DEFINE p == OwnerOf(t)
  <2>5. /\ saver'[t].previous = active[p] /\ saver'[t].value = saver[t].value
        /\ saver'[t].changed <=> LevelOf(active[p]) # LevelOf(saver[t].value)
        /\ saver'[t].at = IF LevelOf(active[p]) # LevelOf(saver[t].value) THEN "level" ELSE "write"
    <3> DEFINE d == LevelOf(active[p]) # LevelOf(saver[t].value)
    <3>1. d \in BOOLEAN OBVIOUS
    <3>2. saver[t] \in SaverStates BY DEF SettingsTypeOK, SaverStates
    <3>3. saver'[t] = [saver[t] EXCEPT !.previous = active[p], !.changed = d,
                                      !.at = IF d THEN "level" ELSE "write"]
      BY <2>1
    <3> HIDE DEF d
    <3>4. /\ saver'[t].previous = active[p] /\ saver'[t].value = saver[t].value
          /\ saver'[t].changed = d /\ saver'[t].at = IF d THEN "level" ELSE "write"
      BY <3>2, <3>3, ZenonT(30) DEF SaverStates
    <3> QED BY <3>1, <3>4 DEF d
  <2>6. p \notin stuck => Shows(p, active[p]) BY DEF Followed
  <2>2. HolderLevel(t)'
    BY <2>5, <2>6 DEF HolderLevel, Shows
  <2>3. \A u \in Savers \ {t} : Holding(u)' => HolderLevel(u)'
    BY <2>1 DEF Followed, Holding, HolderLevel, Shows
  <2>4. \A q \in Processes : configMu'[q] = Nobody => configMu[q] = Nobody
    BY DEF SettingsTypeOK
  <2> QED BY <2>2, <2>3, <2>4 DEF Followed, Shows
<1>6. Quiet' BY DEF Quiet, SettingsTypeOK
<1> QED BY <1>1, <1>2, <1>3, <1>4, <1>5, <1>6

\* The level is set.
LEMMA SetLevelKeeps ==
  ASSUME IInv, NEW t \in Savers, SetLevel(t), UNCHANGED life PROVE IInv'
<1> USE DEF IInv, At, Moved, Owner, SetLevel, SetLogLevel
<1>1. SettingsTypeOK'
  <2>1. LevelOf(saver[t].value) \in LevelNames BY DEF SettingsTypeOK, LevelNames
  <2>2. level' \in [Processes -> LevelNames] BY <2>1 DEF SettingsTypeOK, LevelNames
  <2>3. saver' \in [Savers -> SaverStates]
    <3>1. CASE saver[t].done BY <3>1, UnlockTypes
    <3>2. CASE ~saver[t].done BY <3>2, MovedTypes DEF Steps
    <3> QED BY <3>1, <3>2
  <2>4. configMu' \in [Processes -> Savers \cup {Nobody}]
    BY UnlockTypes DEF SettingsTypeOK
  <2>5. stuck' \subseteq Processes
    BY DEF SettingsTypeOK
  <2> QED BY <2>2, <2>3, <2>4, <2>5 DEF SettingsTypeOK, SaverStates, LevelNames
<1> USE DEF Unlock, NoSave
<1>2. Remembered' BY DEF Remembered, SettingsTypeOK
<1>3. Outlives' BY DEF Outlives, SettingsTypeOK
<1>4. Mutex' BY SMTT(20) DEF Mutex, Holding, SettingsTypeOK
<1>5. Followed' BY SMTT(20) DEF Followed, Holding, HolderLevel, Shows, Mutex, SettingsTypeOK
<1>6. Quiet' BY DEF Quiet, SettingsTypeOK
<1> QED BY <1>1, <1>2, <1>3, <1>4, <1>5, <1>6

\* The temporary file is written.
LEMMA WriteTempKeeps ==
  ASSUME IInv, NEW t \in Savers, WriteTemp(t), UNCHANGED life PROVE IInv'
<1> USE DEF IInv, At, Moved, Owner, WriteTemp
<1>1. SettingsTypeOK' BY DEF SettingsTypeOK, Steps
<1>2. Remembered' BY DEF Remembered, SettingsTypeOK
<1>3. Outlives' BY SMTT(20) DEF Outlives, SettingsTypeOK
<1>4. Mutex' BY DEF Mutex, Holding, SettingsTypeOK
<1>5. Followed' BY DEF Followed, Holding, HolderLevel, Shows, Mutex, SettingsTypeOK
<1>6. Quiet' BY DEF Quiet, SettingsTypeOK
<1> QED BY <1>1, <1>2, <1>3, <1>4, <1>5, <1>6

\* The file is replaced.
LEMMA RenameKeeps ==
  ASSUME IInv, NEW t \in Savers, Rename(t), UNCHANGED life PROVE IInv'
<1> USE DEF IInv, At, Moved, Owner, Rename, Replaced
<1>1. SettingsTypeOK' BY DEF SettingsTypeOK, Steps
<1>2. Remembered' BY DEF Remembered, SettingsTypeOK
<1>3. Outlives' BY DEF Outlives, SettingsTypeOK
<1>4. Mutex' BY DEF Mutex, Holding, SettingsTypeOK
<1>5. Followed' BY DEF Followed, Holding, HolderLevel, Shows, Mutex, SettingsTypeOK
<1>6. Quiet' BY DEF Quiet, SettingsTypeOK
<1> QED BY <1>1, <1>2, <1>3, <1>4, <1>5, <1>6

\* The second rename of the fallback.
LEMMA RenameAgainKeeps ==
  ASSUME IInv, NEW t \in Savers, RenameAgain(t), UNCHANGED life PROVE IInv'
<1> USE DEF IInv, At, Moved, Owner, RenameAgain, Replaced
<1>1. SettingsTypeOK' BY SMTT(20) DEF SettingsTypeOK, Steps
<1>2. Remembered' BY DEF Remembered, SettingsTypeOK
<1>3. Outlives' BY DEF Outlives, SettingsTypeOK
<1>4. Mutex' BY DEF Mutex, Holding, SettingsTypeOK
<1>5. Followed' BY DEF Followed, Holding, HolderLevel, Shows, Mutex, SettingsTypeOK
<1>6. Quiet' BY DEF Quiet, SettingsTypeOK
<1> QED BY <1>1, <1>2, <1>3, <1>4, <1>5, <1>6

\* The directory is synced.
LEMMA SyncDirKeeps ==
  ASSUME IInv, NEW t \in Savers, SyncDir(t), UNCHANGED life PROVE IInv'
<1> USE DEF IInv, At, Moved, Owner, SyncDir
<1>1. SettingsTypeOK' BY SMTT(20) DEF SettingsTypeOK, Steps
<1>2. Remembered' BY DEF Remembered, SettingsTypeOK
<1>3. Outlives' BY DEF Outlives, SettingsTypeOK
<1>4. Mutex' BY DEF Mutex, Holding, SettingsTypeOK
<1>5. Followed' BY DEF Followed, Holding, HolderLevel, Shows, Mutex, SettingsTypeOK
<1>6. Quiet' BY DEF Quiet, SettingsTypeOK
<1> QED BY <1>1, <1>2, <1>3, <1>4, <1>5, <1>6

\* The save succeeds, or its context was done.
LEMMA FinishKeeps ==
  ASSUME IInv, NEW t \in Savers, Finish(t), UNCHANGED life PROVE IInv'
<1> DEFINE p == OwnerOf(t)
           v == saver[t].value
<1> USE DEF IInv
<1>0. /\ saver[t].at = "finish" /\ p \in Processes /\ v \in Configs
      /\ configMu[p] = t /\ HolderLevel(t) /\ v \in persisted
  BY DEF Finish, At, SettingsTypeOK, Mutex, Holding, Followed, Remembered
<1>1. CASE Moved(t, "restore") /\ UNCHANGED <<active, configMu, stuck>>
  <2> USE <1>1 DEF Finish
  <2>1. /\ saver' \in [Savers -> SaverStates]
        /\ saver'[t].at = "restore" /\ saver'[t].value = saver[t].value
        /\ saver'[t].previous = saver[t].previous
        /\ saver'[t].changed = saver[t].changed
        /\ \A u \in Savers \ {t} : saver'[u] = saver[u]
    BY MovedTypes DEF Steps
  <2>2. SettingsTypeOK' BY <2>1 DEF SettingsTypeOK, SaverStates
  <2>3. Remembered' /\ Outlives' /\ Quiet'
    BY <1>0, <2>1 DEF Remembered, Outlives, Quiet
  <2>4. Mutex' BY <1>0, <2>1 DEF Mutex, Holding
  <2>5. HolderLevel(t)'
    BY <1>0, <2>1 DEF HolderLevel, Shows, SettingsTypeOK
  <2>6. Followed' BY <1>0, <2>1, <2>5 DEF Followed, Holding, HolderLevel, Shows
  <2> QED BY <2>2, <2>3, <2>4, <2>6
<1>2. CASE active' = [active EXCEPT ![p] = v] /\ stuck' = Settled(t) /\ Unlock(t)
  <2> USE <1>2 DEF Finish
  <2>1. /\ saver' \in [Savers -> SaverStates] /\ saver'[t] = NoSave
        /\ \A u \in Savers \ {t} : saver'[u] = saver[u]
        /\ configMu' \in [Processes -> Savers \cup {Nobody}]
        /\ configMu'[p] = Nobody
        /\ \A q \in Processes \ {p} : configMu'[q] = configMu[q]
    BY UnlockTypes
  <2>2. /\ active' \in [Processes -> Configs] /\ active'[p] = v
        /\ \A q \in Processes \ {p} : active'[q] = active[q]
    BY <1>0 DEF SettingsTypeOK
  <2>3. stuck' \subseteq Processes /\ \A q \in Processes \ {p} : q \in stuck' <=> q \in stuck
    BY DEF Settled, Owner, SettingsTypeOK
  <2>4. SettingsTypeOK' BY <2>1, <2>2, <2>3 DEF SettingsTypeOK, SaverStates
  <2>5. Remembered' /\ Outlives' /\ Quiet'
    BY <1>0, <2>1, <2>2 DEF Remembered, Outlives, Quiet, NoSave
  <2>6. Mutex' BY <1>0, <2>1 DEF Mutex, Holding, NoSave
  <2>7. p \notin stuck' => Shows(p, active[p])'
    BY <1>0, <2>2 DEF HolderLevel, Shows, Settled, Owner
  <2>8. \A q \in Processes : configMu'[q] = Nobody /\ q \notin stuck' => Shows(q, active[q])'
    BY <2>1, <2>2, <2>3, <2>7 DEF Followed, Shows
  <2>9. \A u \in Savers : Holding(u)' => Holding(u) /\ OwnerOf(u) # p
    BY <1>0, <2>1 DEF Mutex, Holding, NoSave
  <2>10. \A u \in Savers : Holding(u)' => HolderLevel(u)'
    BY <2>1, <2>2, <2>3, <2>9 DEF Followed, HolderLevel, Holding, NoSave, Shows
  <2> QED BY <2>4, <2>5, <2>6, <2>8, <2>10 DEF Followed
<1> QED BY <1>1, <1>2 DEF Finish, Owner

\* The save failed.
LEMMA RestoreKeeps ==
  ASSUME IInv, NEW t \in Savers, Restore(t), UNCHANGED life PROVE IInv'
<1> USE DEF IInv, At, Moved, Owner, Restore, SetLogLevel, Settled, Unlock, NoSave
<1>1. SettingsTypeOK'
  <2>1. LevelOf(saver[t].previous) \in LevelNames BY DEF SettingsTypeOK, LevelNames
  <2>2. level' \in [Processes -> LevelNames] BY <2>1 DEF SettingsTypeOK, LevelNames
  <2>3. saver' \in [Savers -> SaverStates] BY DEF SettingsTypeOK, SaverStates, Steps
  <2>4. configMu' \in [Processes -> Savers \cup {Nobody}] /\ stuck' \subseteq Processes
    BY DEF SettingsTypeOK
  <2> QED BY <2>2, <2>3, <2>4 DEF SettingsTypeOK, SaverStates, LevelNames
<1>2. Remembered' BY DEF Remembered, SettingsTypeOK
<1>3. Outlives'
  <2>1. saver' = [saver EXCEPT ![t] = NoSave] /\ UNCHANGED <<windows, file, durable>>
    OBVIOUS
  <2> QED BY <2>1 DEF Outlives, SettingsTypeOK
<1>4. Mutex'
  <2>1. saver' = [saver EXCEPT ![t] = NoSave] /\ configMu' = [configMu EXCEPT ![OwnerOf(t)] = Nobody]
    OBVIOUS
  <2>2. configMu[OwnerOf(t)] = t BY DEF Mutex, Holding
  <2> QED BY <2>1, <2>2 DEF Mutex, Holding, SettingsTypeOK
<1>5. Followed' BY DEF Followed, Holding, HolderLevel, Shows, Mutex, SettingsTypeOK
<1>6. Quiet' BY DEF Quiet, SettingsTypeOK
<1> QED BY <1>1, <1>2, <1>3, <1>4, <1>5, <1>6

-----------------------------------------------------------------------------
(* The specification.                                                      *)

LEMMA SaverKeeps ==
  ASSUME IInv, NEW t \in Savers, SaverStep(t), UNCHANGED life PROVE IInv'
BY LockKeeps, SetLevelKeeps, WriteTempKeeps, RenameKeeps, RenameAgainKeeps, SyncDirKeeps,
   FinishKeeps, RestoreKeeps DEF SaverStep

\* Every step keeps the invariant: bootstrap and the ends of processes change
\* the settings of whole processes, a save one step at a time, and the database
\* none of them.
LEMMA NextKeeps == IInv /\ [Next]_vars => IInv'
<1> SUFFICES ASSUME IInv, [Next]_vars PROVE IInv'
  OBVIOUS
<1>1. ASSUME NEW p \in Processes, Boot(p) PROVE IInv'
  <2> DEFINE up == IF UsesDatabase(p) THEN "opening" ELSE "up"
  <2>1. life[p] = "down" /\ life' = [life EXCEPT ![p] = up] BY <1>1 DEF Boot
  <2>2. up \in {"down", "opening", "up"} /\ up # "down" OBVIOUS
  <2> HIDE DEF up
  <2>3. /\ life' \in [Processes -> {"down", "opening", "up"}]
        /\ \A q \in Processes \ {p} : life'[q] = life[q] /\ life'[p] # "down"
    BY <2>1, <2>2 DEF IInv, Quiet
  <2>4. CASE LoadSettings(p) BY <2>1, <2>3, <2>4, LoadKeeps
  <2>5. CASE UNCHANGED settings
    <3>1. Quiet' BY <2>1, <2>3, <2>5 DEF IInv, Quiet, settings
    <3>2. (SettingsTypeOK /\ Remembered /\ Outlives /\ Mutex /\ Followed)'
      BY <2>5 DEF IInv, settings, SettingsTypeOK, Remembered, Outlives, Mutex, Followed,
                  Holding, HolderLevel, Shows
    <3> QED BY <3>1, <3>2 DEF IInv
  <2> QED BY <1>1, <2>4, <2>5 DEF Boot
<1>2. ASSUME NEW p \in Processes, Serve(p) PROVE IInv'
  <2>1. Quiet' BY <1>2 DEF Serve, IInv, Quiet, settings
  <2>2. (SettingsTypeOK /\ Remembered /\ Outlives /\ Mutex /\ Followed)'
    BY <1>2 DEF Serve, IInv, settings, SettingsTypeOK, Remembered, Outlives, Mutex, Followed,
                Holding, HolderLevel, Shows
  <2> QED BY <2>1, <2>2 DEF IInv
<1>3. ASSUME NEW p \in Processes, End(p) PROVE IInv'
  BY <1>3, EndKeeps DEF End
<1>4. ASSUME NEW p \in Processes, DatabaseStep(p) PROVE IInv'
  BY <1>4, Untouched DEF DatabaseStep, local
<1>5. CASE SettingsStep
  <2>1. UNCHANGED life BY <1>5 DEF SettingsStep, local
  <2>2. ASSUME NEW t \in Savers, NEW v \in Configs, Does(OwnerOf(t), "save"), Call(t, v)
        PROVE IInv'
    BY <2>1, <2>2, CallKeeps DEF Does
  <2>3. ASSUME NEW t \in Savers, CtxDone(t) PROVE IInv' BY <2>1, <2>3, CtxDoneKeeps
  <2>4. ASSUME NEW t \in Savers, SaverStep(t) PROVE IInv' BY <2>1, <2>4, SaverKeeps
  <2> QED BY <1>5, <2>2, <2>3, <2>4 DEF SettingsStep
<1>6. CASE Outage BY <1>6, PowerLossKeeps DEF Outage
<1>7. CASE UNCHANGED vars BY <1>7, Untouched DEF vars, local
<1> QED BY <1>1, <1>2, <1>3, <1>4, <1>5, <1>6, <1>7 DEF Next

LEMMA Invariance == Spec => []IInv
BY InitEstablishes, NextKeeps, PTL DEF Spec

\* A process works with a configuration the file has held or with the defaults,
\* whatever saves failed, waited for each other or were cut off.
THEOREM OnlyPersistedIsActive == Spec => []PersistedBeforeActive
<1>1. IInv => PersistedBeforeActive BY DEF IInv, Remembered, PersistedBeforeActive
<1> QED BY <1>1, Invariance, PTL

\* Between saves the level of the log is the active configuration's, unless a
\* save was cancelled before setLogLevel returned.
THEOREM LevelIsRestored == Spec => []LevelRestored
<1>1. IInv => LevelRestored BY DEF IInv, Followed, Shows, LevelRestored
<1> QED BY <1>1, Invariance, PTL

\* Only a sync of the directory and a loss of power change what is durable
\* where rename replaces, and both take what config.yaml holds.
LEMMA DurableStays ==
  ASSUME IInv, [Next]_vars
  PROVE  windows' = windows /\ (~windows => durable' \in {durable, file})
<1>1. ASSUME NEW p \in Processes, Boot(p) \/ Serve(p) \/ DatabaseStep(p)
      PROVE  UNCHANGED <<windows, durable>>
  BY <1>1 DEF Boot, Serve, DatabaseStep, LoadSettings, settings
<1>2. ASSUME NEW p \in Processes, End(p) PROVE UNCHANGED <<windows, durable>>
  BY <1>2 DEF End, EndSettings, Forget
<1>3. CASE SettingsStep
  <2>1. ASSUME NEW t \in Savers, NEW v \in Configs, Call(t, v)
        PROVE  UNCHANGED <<windows, durable>>
    BY <2>1 DEF Call
  <2>2. ASSUME NEW t \in Savers, CtxDone(t) \/ Lock(t) \/ SetLevel(t) \/ WriteTemp(t)
                                 \/ Finish(t) \/ Restore(t)
        PROVE  UNCHANGED <<windows, durable>>
    BY <2>2 DEF CtxDone, Lock, SetLevel, WriteTemp, Finish, Restore
  <2>3. ASSUME NEW t \in Savers, Rename(t) \/ SyncDir(t)
        PROVE  windows' = windows /\ (~windows => durable' \in {durable, file})
    BY <2>3 DEF Rename, SyncDir
  <2>4. ASSUME NEW t \in Savers, RenameAgain(t) PROVE windows' = windows /\ windows
    BY <2>4 DEF RenameAgain, IInv, Outlives, At
  <2> QED BY <1>3, <2>1, <2>2, <2>3, <2>4 DEF SettingsStep, SaverStep
<1>4. CASE Outage BY <1>4 DEF Outage, PowerLoss, Forget
<1>5. CASE UNCHANGED vars BY <1>5 DEF vars, settings
<1> QED BY <1>1, <1>2, <1>3, <1>4, <1>5 DEF Next

\* Where rename replaces, no failure, crash or loss of power leaves config.yaml
\* without a configuration once one is safely on disk.
THEOREM FileSurvives == Spec => SettingsSurvive
<1>1. ASSUME IInv, [Next]_vars
      PROVE  ~windows /\ durable # "absent" => file' # "absent" /\ durable' # "absent"
  <2>1. IInv' BY <1>1, NextKeeps
  <2> QED BY <1>1, <2>1, DurableStays DEF IInv, Outlives
<1>2. IInv /\ [Next]_vars =>
        [~windows /\ durable # "absent" => file' # "absent" /\ durable' # "absent"]_settings
  BY <1>1
<1> QED BY <1>2, Invariance, PTL DEF Spec, SettingsSurvive

-----------------------------------------------------------------------------
(* The database: its schema changes only behind a verified backup of the   *)
(* data, and the diagnosis that started last survives every pruning.       *)

USE DatabaseAssumption

\* The database, the backups and the processes in OpenContext, as records.
DbStates == [pages : BOOLEAN, version : Schemas, rows : SUBSET Nat, sound : BOOLEAN]
BackupStates == [id : Nat \ {0}, label : Schemas, version : Schemas, rows : SUBSET Nat,
                 at : {"partial", "complete", "verified"}]
OpenerStates == [at : Opening \cup {"closed", "open", "failed"}, existed : BOOLEAN,
                 version : Schemas, backup : Nat]

Typed == /\ db \in DbStates
         /\ made \in Nat
         /\ backups \subseteq BackupStates
         /\ opener \in [Processes -> OpenerStates]

\* A database without pages has no schema; no two processes write one backup.
Separate ==
  /\ ~db.pages => db.version = 0
  /\ \A b \in backups : b.id <= made
  /\ \A p \in Processes : opener[p].backup <= made
  /\ \A p, q \in Processes :
       p # q /\ opener[p].backup = opener[q].backup => opener[p].backup = 0

\* What the step a process is at says of the schema: who is open, or about to
\* be, found or made it current, and who found no database found no old schema.
Fits(p) ==
  LET o == opener[p] IN
  /\ o.at \in {"record", "open"} => db.version = Current
  /\ o.at \in {"check", "backup", "vacuum", "manifest", "migrate"} => o.version < Current
  /\ o.at \in {"check", "backup", "vacuum", "manifest"} => o.existed
  /\ o.at \in {"configure", "version"} /\ ~o.existed => db.version \in {0, Current}
  /\ o.at = "migrate" /\ ~o.existed => o.version = 0

\* A backup of the schema that process state o read: unless another process has
\* migrated since, it holds what the database still holds.
Copies(b, o) ==
  /\ b.label = o.version
  /\ db.version = o.version => b.version = db.version /\ b.rows = db.rows

\* The backup a process is making, or has made for the migration it is at.
Making(p) ==
  LET o == opener[p] IN
  /\ o.at = "vacuum" => \A b \in backups : b.id = o.backup => b.at = "partial"
  /\ o.at = "manifest" => \A b \in backups : b.id = o.backup => b.at = "complete"
  /\ o.at \in {"vacuum", "manifest"} \/ (o.at = "migrate" /\ o.existed) =>
       \E b \in backups : /\ b.id = o.backup /\ Copies(b, o)
                          /\ o.at = "migrate" => b.at = "verified"

UInv == /\ Typed
        /\ Separate
        /\ \A p \in Processes : Fits(p) /\ Making(p)

\* What a step may do to the schema and the rows: the schema becomes current,
\* and rows change only under the current one.
Forward ==
  /\ db' \in DbStates
  /\ db'.version # db.version => db'.version = Current
  /\ db.version # Current => db'.rows = db.rows

-----------------------------------------------------------------------------
LEMMA InitUInv == Init => UInv
<1> SUFFICES ASSUME Init PROVE UInv
  OBVIOUS
<1>1. Closed \in OpenerStates BY DEF Closed, OpenerStates, Schemas
<1>2. /\ db \in [pages : {TRUE}, version : Schemas \ {0}, rows : SUBSET {1}, sound : BOOLEAN]
             \cup [pages : {FALSE}, version : {0}, rows : {{}}, sound : {TRUE}]
      /\ backups = {} /\ made = 0 /\ opener = [p \in Processes |-> Closed]
  BY DEF Init, DatabaseInit
<1>3. db \in DbStates /\ (~db.pages => db.version = 0)
  <2>1. 0 \in Schemas /\ \A rows \in SUBSET {1} : rows \in SUBSET Nat BY DEF Schemas
  <2>2. CASE db \in [pages : {TRUE}, version : Schemas \ {0}, rows : SUBSET {1}, sound : BOOLEAN]
    BY <2>1, <2>2 DEF DbStates
  <2>3. CASE db \in [pages : {FALSE}, version : {0}, rows : {{}}, sound : {TRUE}]
    BY <2>1, <2>3 DEF DbStates
  <2> QED BY <1>2, <2>2, <2>3
<1>4. Typed BY <1>1, <1>2, <1>3 DEF Typed
<1>5. Separate BY <1>2, <1>3 DEF Separate, Closed
<1>6. ASSUME NEW p \in Processes PROVE Fits(p) /\ Making(p)
  <2>1. opener[p].at = "closed" BY <1>2 DEF Closed
  <2> QED BY <2>1 DEF Fits, Making
<1> QED BY <1>4, <1>5, <1>6 DEF UInv

\* A process that does not move keeps what its step says, when its own backup
\* stays as it is.
LEMMA Bystander ==
  ASSUME UInv, Forward, NEW q \in Processes, opener'[q] = opener[q],
         \A b \in backups : b.id = opener[q].backup => b \in backups',
         \A b \in backups' : b.id = opener[q].backup => b \in backups
  PROVE  Fits(q)' /\ Making(q)'
<1> DEFINE o == opener[q]
<1>1. Fits(q) /\ Making(q) /\ o \in OpenerStates /\ db \in DbStates /\ db' \in DbStates
  BY DEF UInv, Typed, Forward
<1>2. Fits(q)' BY <1>1 DEF Fits, Forward
<1>3. ASSUME NEW b \in backups, Copies(b, o), o.version < Current PROVE Copies(b, o)'
  BY <1>1, <1>3 DEF Copies, Forward
<1>4. o.at \in {"vacuum", "manifest", "migrate"} => o.version < Current
  BY <1>1 DEF Fits
<1>5. Making(q)'
  <2>1. ASSUME o.at \in {"vacuum", "manifest"} \/ (o.at = "migrate" /\ o.existed)
        PROVE  \E b \in backups' : /\ b.id = o.backup /\ Copies(b, o)'
                                   /\ o.at = "migrate" => b.at = "verified"
    <3>1. PICK b \in backups : /\ b.id = o.backup /\ Copies(b, o)
                               /\ o.at = "migrate" => b.at = "verified"
      BY <1>1, <2>1 DEF Making
    <3>2. b \in backups' BY <3>1
    <3>3. Copies(b, o)' BY <1>3, <1>4, <2>1, <3>1
    <3> QED BY <3>1, <3>2, <3>3
  <2>2. /\ o.at = "vacuum" => \A b \in backups' : b.id = o.backup => b.at = "partial"
        /\ o.at = "manifest" => \A b \in backups' : b.id = o.backup => b.at = "complete"
    BY <1>1 DEF Making
  <2> QED BY <2>1, <2>2 DEF Making, Copies
<1> QED BY <1>2, <1>5

\* A step of one process that leaves the backups, or changes only its own.
LEMMA OneMoves ==
  ASSUME UInv, Forward, ~db'.pages => db'.version = 0,
         NEW p \in Processes, NEW o \in OpenerStates, opener' = [opener EXCEPT ![p] = o],
         o.backup = opener[p].backup, made' = made,
         backups' \subseteq BackupStates,
         \A b \in backups : b \in backups' \/ b.id = opener[p].backup,
         \A b \in backups' : b \in backups \/ (b.id = opener[p].backup /\ b.id <= made),
         Fits(p)', Making(p)'
  PROVE  UInv'
<1>0. /\ opener \in [Processes -> OpenerStates] /\ made \in Nat /\ backups \subseteq BackupStates
      /\ opener'[p] = o /\ \A q \in Processes \ {p} : opener'[q] = opener[q]
  BY DEF UInv, Typed
<1>1. Typed' BY <1>0 DEF Typed, Forward
<1>2. Separate' BY <1>0 DEF UInv, Separate
<1>3. ASSUME NEW q \in Processes, q # p PROVE Fits(q)' /\ Making(q)'
  <2>1. CASE opener[q].backup # 0
    <3>1. opener[q].backup # opener[p].backup BY <1>3, <2>1 DEF UInv, Separate
    <3> QED BY <1>0, <1>3, <3>1, Bystander
  <2>2. CASE opener[q].backup = 0
    <3>1. \A b \in backups \cup backups' : b.id # 0 BY <1>0 DEF BackupStates
    <3> QED BY <1>0, <1>3, <2>2, <3>1, Bystander
  <2> QED BY <2>1, <2>2
<1> QED BY <1>1, <1>2, <1>3 DEF UInv

\* The same when the database and the backups are left alone.
LEMMA OnlyMoves ==
  ASSUME UInv, UNCHANGED <<db, backups, made>>,
         NEW p \in Processes, NEW o \in OpenerStates, opener' = [opener EXCEPT ![p] = o],
         o.backup = opener[p].backup, Fits(p)', Making(p)'
  PROVE  UInv'
<1>1. Forward /\ (~db'.pages => db'.version = 0) BY DEF UInv, Typed, Separate, Forward
<1>2. backups' \subseteq BackupStates BY DEF UInv, Typed
<1> QED BY <1>1, <1>2, OneMoves

-----------------------------------------------------------------------------
(* OpenContext.                                                            *)

LEMMA InspectKeeps == ASSUME UInv, NEW p \in Processes, Inspect(p) PROVE UInv'
<1> DEFINE o == [opener[p] EXCEPT !.at = "configure", !.existed = db.pages]
<1>1. opener[p] \in OpenerStates /\ db \in DbStates /\ db.pages \in BOOLEAN
        /\ opener \in [Processes -> OpenerStates]
  BY DEF UInv, Typed, DbStates
<1>2. o \in OpenerStates BY <1>1 DEF OpenerStates, Opening
<1>3. o.at = "configure" /\ o.existed = db.pages /\ o.backup = opener[p].backup
  BY <1>1 DEF OpenerStates
<1>4. opener' = [opener EXCEPT ![p] = o] /\ UNCHANGED <<db, backups, made>>
  BY DEF Inspect
<1> HIDE DEF o
<1>5. opener'[p] = o BY <1>1, <1>4
<1>6. Fits(p)' BY <1>3, <1>4, <1>5 DEF Fits, UInv, Separate
<1>7. Making(p)' BY <1>3, <1>5 DEF Making
<1> QED BY <1>2, <1>3, <1>4, <1>6, <1>7, OnlyMoves

LEMMA ConfigureKeeps == ASSUME UInv, NEW p \in Processes, Configure(p) PROVE UInv'
<1> DEFINE o == [opener[p] EXCEPT !.at = "version"]
<1>1. opener[p] \in OpenerStates /\ db \in DbStates /\ opener \in [Processes -> OpenerStates]
        /\ backups \subseteq BackupStates
  BY DEF UInv, Typed
<1>2. o \in OpenerStates BY <1>1 DEF OpenerStates, Opening
<1>3. o.at = "version" /\ o.existed = opener[p].existed /\ o.backup = opener[p].backup
  BY <1>1 DEF OpenerStates
<1>4. opener[p].at = "configure" /\ opener' = [opener EXCEPT ![p] = o]
        /\ UNCHANGED <<backups, made>>
  BY DEF Configure, Goto, OpenAt
<1>5. PICK pages \in {db.pages, TRUE} : db' = [db EXCEPT !.pages = pages]
  BY DEF Configure
<1>6. /\ db' \in DbStates /\ db'.version = db.version /\ db'.rows = db.rows
      /\ db'.pages = pages /\ db.pages \in BOOLEAN
  BY <1>1, <1>5 DEF DbStates
<1>7. Forward /\ (~db'.pages => db'.version = 0) BY <1>6 DEF Forward, UInv, Separate
<1> HIDE DEF o
<1>8. opener'[p] = o BY <1>1, <1>4
<1>9. Fits(p)' BY <1>3, <1>4, <1>6, <1>8 DEF Fits, UInv
<1>10. Making(p)' BY <1>3, <1>8 DEF Making
<1> QED BY <1>1, <1>2, <1>3, <1>4, <1>7, <1>9, <1>10, OneMoves

LEMMA ReadVersionKeeps == ASSUME UInv, NEW p \in Processes, ReadVersion(p) PROVE UInv'
<1> DEFINE next == NextStep(opener[p].existed, db.version)
           o == [opener[p] EXCEPT !.version = db.version, !.at = next]
<1>1. opener[p] \in OpenerStates /\ db \in DbStates /\ db.version \in Schemas
        /\ opener \in [Processes -> OpenerStates] /\ opener[p].existed \in BOOLEAN
  BY DEF UInv, Typed, DbStates, OpenerStates
<1>2. /\ opener[p].at = "version" /\ opener' = [opener EXCEPT ![p] = o]
      /\ UNCHANGED <<db, backups, made>>
  BY DEF ReadVersion, OpenAt
<1>3. /\ next \in {"failed", "record", "check", "migrate"}
      /\ next = "record" => db.version = Current
      /\ next \in {"check", "migrate"} => db.version < Current
      /\ next = "check" => opener[p].existed
      /\ next = "migrate" => ~opener[p].existed
  BY <1>1 DEF NextStep, Schemas
<1> HIDE DEF next
<1>4. o \in OpenerStates BY <1>1, <1>3 DEF OpenerStates, Opening
<1>5. /\ o.at = next /\ o.existed = opener[p].existed /\ o.version = db.version
      /\ o.backup = opener[p].backup
  BY <1>1 DEF OpenerStates
<1> HIDE DEF o
<1>6. opener'[p] = o BY <1>1, <1>2
<1>7. Fits(p)'
  <2>1. ~opener[p].existed => db.version \in {0, Current} BY <1>2 DEF UInv, Fits
  <2> QED BY <1>1, <1>2, <1>3, <1>5, <1>6, <2>1 DEF Fits, Schemas
<1>8. Making(p)' BY <1>3, <1>5, <1>6 DEF Making
<1> QED BY <1>2, <1>4, <1>5, <1>7, <1>8, OnlyMoves

LEMMA QuickCheckKeeps == ASSUME UInv, NEW p \in Processes, QuickCheck(p) PROVE UInv'
<1> DEFINE next == IF db.sound THEN "backup" ELSE "failed"
           o == [opener[p] EXCEPT !.at = next]
<1>1. opener[p] \in OpenerStates /\ opener \in [Processes -> OpenerStates]
  BY DEF UInv, Typed
<1>2. /\ opener[p].at = "check" /\ opener' = [opener EXCEPT ![p] = o]
      /\ UNCHANGED <<db, backups, made>>
  BY DEF QuickCheck, Goto, OpenAt
<1>3. next \in {"backup", "failed"} OBVIOUS
<1> HIDE DEF next
<1>4. o \in OpenerStates BY <1>1, <1>3 DEF OpenerStates, Opening
<1>5. /\ o.at = next /\ o.existed = opener[p].existed /\ o.version = opener[p].version
      /\ o.backup = opener[p].backup
  BY <1>1 DEF OpenerStates
<1> HIDE DEF o
<1>6. opener'[p] = o BY <1>1, <1>2
<1>7. Fits(p)' BY <1>2, <1>3, <1>5, <1>6 DEF Fits, UInv
<1>8. Making(p)' BY <1>3, <1>5, <1>6 DEF Making
<1> QED BY <1>2, <1>4, <1>5, <1>7, <1>8, OnlyMoves

\* The name of a new backup is fresh, and it copies what the database holds.
LEMMA ReserveKeeps == ASSUME UInv, NEW p \in Processes, Reserve(p) PROVE UInv'
<1> DEFINE o == [opener[p] EXCEPT !.at = "vacuum", !.backup = made + 1]
           new == Backup(p, made + 1)
<1>1. /\ opener[p] \in OpenerStates /\ db \in DbStates /\ opener \in [Processes -> OpenerStates]
      /\ made \in Nat /\ made + 1 \in Nat \ {0} /\ backups \subseteq BackupStates
  BY DEF UInv, Typed
<1>2. /\ opener[p].at = "backup" /\ opener' = [opener EXCEPT ![p] = o]
      /\ made' = made + 1 /\ backups' = backups \cup {new} /\ UNCHANGED db
  BY DEF Reserve, OpenAt
<1>3. o \in OpenerStates BY <1>1 DEF OpenerStates, Opening
<1>4. /\ o.at = "vacuum" /\ o.existed = opener[p].existed /\ o.version = opener[p].version
      /\ o.backup = made + 1
  BY <1>1 DEF OpenerStates
<1>5. /\ new \in BackupStates /\ new.id = made + 1 /\ new.label = opener[p].version
      /\ new.version = db.version /\ new.rows = db.rows /\ new.at = "partial"
  BY <1>1 DEF Backup, BackupStates, OpenerStates, DbStates
<1> HIDE DEF o, new
<1>6. opener'[p] = o /\ \A q \in Processes \ {p} : opener'[q] = opener[q] BY <1>1, <1>2
<1>7. /\ \A b \in backups : b.id \in Nat /\ b.id <= made
      /\ \A q \in Processes : opener[q].backup \in Nat /\ opener[q].backup <= made
  BY <1>1 DEF UInv, Separate, BackupStates, OpenerStates
<1>8. Typed' BY <1>1, <1>2, <1>3, <1>5 DEF Typed
<1>9. Separate'
  <2>1. \A b \in backups' : b.id <= made' BY <1>1, <1>2, <1>5, <1>7
  <2>2. \A q \in Processes : opener'[q].backup <= made' BY <1>1, <1>2, <1>4, <1>6, <1>7
  <2>3. \A q, r \in Processes :
          q # r /\ opener'[q].backup = opener'[r].backup => opener'[q].backup = 0
    BY <1>1, <1>4, <1>6, <1>7 DEF UInv, Separate
  <2> QED BY <1>2, <2>1, <2>2, <2>3 DEF UInv, Separate
<1>10. Fits(p)' BY <1>2, <1>4, <1>6 DEF Fits, UInv
<1>11. Making(p)'
  <2>1. \A b \in backups' : b.id = o.backup => b = new BY <1>1, <1>2, <1>4, <1>7
  <2>n. PICK b : b = new
    OBVIOUS
  <2>2. b \in backups' /\ b.id = o.backup /\ Copies(b, opener[p])'
    BY <1>2, <1>4, <1>5, <1>6, <2>n DEF Copies
  <2> QED BY <1>4, <1>5, <1>6, <2>1, <2>n, <2>2 DEF Making
<1>12. ASSUME NEW q \in Processes, q # p PROVE Fits(q)' /\ Making(q)'
  <2>1. Forward BY <1>1, <1>2 DEF Forward
  <2>2. opener[q].backup # made + 1 BY <1>1, <1>7
  <2> QED BY <1>2, <1>5, <1>6, <1>12, <2>1, <2>2, Bystander
<1> QED BY <1>8, <1>9, <1>10, <1>11, <1>12 DEF UInv

\* What Marked does to the backups: it changes how far the process's own are.
LEMMA MarkedIs ==
  ASSUME UInv, NEW p \in Processes, NEW at \in {"partial", "complete", "verified"},
         backups' = Marked(p, at)
  PROVE  /\ backups' \subseteq BackupStates
         /\ \A b \in backups : b \in backups' \/ b.id = opener[p].backup
         /\ \A b \in backups' : b \in backups \/ (b.id = opener[p].backup /\ b.id <= made)
         /\ \A b \in backups' : b.id = opener[p].backup => b.at = at
         /\ \A b \in backups : b.id = opener[p].backup =>
              \E c \in backups' : /\ c.id = b.id /\ c.label = b.label /\ c.version = b.version
                                  /\ c.rows = b.rows /\ c.at = at
<1>0. backups \subseteq BackupStates /\ \A b \in backups : b.id <= made
  BY DEF UInv, Typed, Separate
<1>1. ASSUME NEW b \in backups
      PROVE  /\ [b EXCEPT !.at = at] \in BackupStates
             /\ [b EXCEPT !.at = at].id = b.id /\ [b EXCEPT !.at = at].label = b.label
             /\ [b EXCEPT !.at = at].version = b.version /\ [b EXCEPT !.at = at].rows = b.rows
             /\ [b EXCEPT !.at = at].at = at
  BY <1>0 DEF BackupStates
<1>2. \A b \in backups : b.id = opener[p].backup => [b EXCEPT !.at = at] \in backups'
  BY DEF Marked
<1>3. \A b \in backups : b.id # opener[p].backup => b \in backups'
  BY DEF Marked
<1>4. \A c \in backups' : \E b \in backups :
        IF b.id = opener[p].backup THEN c = [b EXCEPT !.at = at] ELSE c = b
  BY DEF Marked
<1>5. ASSUME NEW c \in backups'
      PROVE  /\ c \in BackupStates
             /\ c \in backups \/ (c.id = opener[p].backup /\ c.id <= made)
             /\ c.id = opener[p].backup => c.at = at
  <2>1. PICK b \in backups : IF b.id = opener[p].backup THEN c = [b EXCEPT !.at = at] ELSE c = b
    BY <1>4
  <2> QED BY <1>0, <1>1, <2>1
<1>6. ASSUME NEW b \in backups, b.id = opener[p].backup
      PROVE  \E c \in backups' : /\ c.id = b.id /\ c.label = b.label /\ c.version = b.version
                                 /\ c.rows = b.rows /\ c.at = at
  BY <1>1, <1>2, <1>6
<1> QED BY <1>3, <1>5, <1>6

LEMMA MarkKeeps ==
  ASSUME UInv, NEW p \in Processes,
         VacuumEnds(p) \/ Manifest(p)
  PROVE  UInv'
<1> DEFINE at == IF opener[p].at = "vacuum" THEN "complete" ELSE "verified"
           next == IF opener[p].at = "vacuum" THEN "manifest" ELSE "migrate"
           o == [opener[p] EXCEPT !.at = next]
<1>1. opener[p] \in OpenerStates /\ opener \in [Processes -> OpenerStates] /\ db \in DbStates
  BY DEF UInv, Typed
<1>2. /\ opener[p].at \in {"vacuum", "manifest"} /\ opener' = [opener EXCEPT ![p] = o]
      /\ backups' = Marked(p, at) /\ UNCHANGED <<db, made>>
  BY DEF VacuumEnds, Manifest, Goto, OpenAt
<1>3. /\ at \in {"partial", "complete", "verified"} /\ next \in {"manifest", "migrate"}
      /\ next = "manifest" => at = "complete"
      /\ next = "migrate" => at = "verified"
  OBVIOUS
<1> HIDE DEF at, next
<1>4. o \in OpenerStates BY <1>1, <1>3 DEF OpenerStates, Opening
<1>5. /\ o.at = next /\ o.existed = opener[p].existed /\ o.version = opener[p].version
      /\ o.backup = opener[p].backup
  BY <1>1 DEF OpenerStates
<1> HIDE DEF o
<1>6. opener'[p] = o BY <1>1, <1>2
<1>7. Fits(p)' BY <1>2, <1>3, <1>5, <1>6 DEF Fits, UInv
<1>8. Making(p)'
  <2>1. PICK b \in backups : b.id = opener[p].backup /\ Copies(b, opener[p])
    BY <1>2 DEF UInv, Making
  <2>2. PICK c \in backups' : /\ c.id = b.id /\ c.label = b.label /\ c.version = b.version
                              /\ c.rows = b.rows /\ c.at = at
    BY <1>2, <1>3, <2>1, MarkedIs
  <2>3. Copies(c, opener[p])' BY <1>2, <1>5, <1>6, <2>1, <2>2 DEF Copies
  <2>4. \A d \in backups' : d.id = o.backup => d.at = at
    BY <1>2, <1>3, <1>5, MarkedIs
  <2> QED BY <1>3, <1>5, <1>6, <2>1, <2>2, <2>3, <2>4 DEF Making
<1>9. Forward /\ (~db'.pages => db'.version = 0)
  BY <1>1, <1>2 DEF Forward, UInv, Separate
<1>10. /\ backups' \subseteq BackupStates
       /\ \A b \in backups : b \in backups' \/ b.id = opener[p].backup
       /\ \A b \in backups' : b \in backups \/ (b.id = opener[p].backup /\ b.id <= made)
  BY <1>2, <1>3, MarkedIs
<1> QED BY <1>2, <1>4, <1>5, <1>7, <1>8, <1>9, <1>10, OneMoves

LEMMA MigrateKeeps == ASSUME UInv, NEW p \in Processes, Migrate(p) PROVE UInv'
<1> DEFINE next == IF db.version = opener[p].version THEN "record" ELSE "failed"
           o == [opener[p] EXCEPT !.at = next]
<1>1. opener[p] \in OpenerStates /\ opener \in [Processes -> OpenerStates] /\ db \in DbStates
        /\ backups \subseteq BackupStates
  BY DEF UInv, Typed
<1>2. /\ opener[p].at = "migrate" /\ opener' = [opener EXCEPT ![p] = o]
      /\ UNCHANGED <<backups, made>>
      /\ IF db.version = opener[p].version
           THEN db' = [db EXCEPT !.pages = TRUE, !.version = Current]
           ELSE UNCHANGED db
  BY DEF Migrate, Goto, OpenAt
<1>3. /\ Current \in Schemas
      /\ db' \in DbStates /\ db'.rows = db.rows
      /\ db'.version # db.version => db'.version = Current
      /\ next = "record" => db'.version = Current
      /\ ~db'.pages => db'.version = 0
      /\ next \in {"record", "failed"}
  <2>1. Current \in Schemas BY DEF Schemas
  <2>2. CASE db.version = opener[p].version
    <3>1. db' = [db EXCEPT !.pages = TRUE, !.version = Current] BY <1>2, <2>2
    <3> QED BY <1>1, <2>1, <2>2, <3>1 DEF DbStates
  <2>3. CASE db.version # opener[p].version
    BY <1>1, <1>2, <2>1, <2>3 DEF UInv, Separate
  <2> QED BY <2>2, <2>3, <2>1
<1> HIDE DEF next
<1>4. o \in OpenerStates BY <1>1, <1>3 DEF OpenerStates, Opening
<1>5. o.at = next /\ o.backup = opener[p].backup BY <1>1 DEF OpenerStates
<1> HIDE DEF o
<1>6. opener'[p] = o BY <1>1, <1>2
<1>7. Fits(p)' /\ Making(p)' BY <1>3, <1>5, <1>6 DEF Fits, Making
<1>8. Forward BY <1>3 DEF Forward
<1> QED BY <1>1, <1>2, <1>3, <1>4, <1>5, <1>7, <1>8, OneMoves

LEMMA RecordKeeps == ASSUME UInv, NEW p \in Processes, Record(p) PROVE UInv'
<1> DEFINE o == [opener[p] EXCEPT !.at = "open"]
<1>1. opener[p] \in OpenerStates /\ opener \in [Processes -> OpenerStates]
  BY DEF UInv, Typed
<1>2. /\ opener[p].at = "record" /\ opener' = [opener EXCEPT ![p] = o]
      /\ UNCHANGED <<db, backups, made>>
  BY DEF Record, Goto, OpenAt
<1>3. o \in OpenerStates BY <1>1 DEF OpenerStates, Opening
<1>4. o.at = "open" /\ o.backup = opener[p].backup BY <1>1 DEF OpenerStates
<1> HIDE DEF o
<1>5. opener'[p] = o BY <1>1, <1>2
<1>6. Fits(p)' /\ Making(p)' BY <1>2, <1>4, <1>5 DEF Fits, Making, UInv
<1> QED BY <1>2, <1>3, <1>4, <1>6, OnlyMoves

LEMMA OpenFailsKeeps == ASSUME UInv, NEW p \in Processes, OpenFails(p) PROVE UInv'
<1> DEFINE o == [opener[p] EXCEPT !.at = "failed"]
<1>1. opener[p] \in OpenerStates /\ opener \in [Processes -> OpenerStates] /\ db \in DbStates
        /\ backups \subseteq BackupStates
  BY DEF UInv, Typed
<1>2. /\ opener' = [opener EXCEPT ![p] = o] /\ UNCHANGED <<db, made>>
      /\ backups' = {b \in backups : b.id # opener[p].backup \/ b.at = "verified"}
  BY DEF OpenFails, Goto
<1>3. o \in OpenerStates BY <1>1 DEF OpenerStates, Opening
<1>4. o.at = "failed" /\ o.backup = opener[p].backup BY <1>1 DEF OpenerStates
<1> HIDE DEF o
<1>5. opener'[p] = o BY <1>1, <1>2
<1>6. Fits(p)' /\ Making(p)' BY <1>4, <1>5 DEF Fits, Making
<1>7. Forward /\ (~db'.pages => db'.version = 0)
  BY <1>1, <1>2 DEF Forward, UInv, Separate
<1> QED BY <1>1, <1>2, <1>3, <1>4, <1>6, <1>7, OneMoves

-----------------------------------------------------------------------------
(* The history, the ends of processes and the specification.               *)

\* Rows change only in the hands of a process that has the database open.
LEMMA ChangeKeeps ==
  ASSUME UInv, NEW p \in Processes, IsOpen(p), NEW rows \in SUBSET Nat,
         db' = [db EXCEPT !.rows = rows], UNCHANGED <<backups, made, opener>>
  PROVE  UInv'
<1>1. db \in DbStates /\ db.version = Current
  BY DEF UInv, Typed, Fits, IsOpen, OpenAt
<1>2. db' \in DbStates /\ db'.version = db.version /\ db'.pages = db.pages
  BY <1>1 DEF DbStates
<1>3. Forward BY <1>1, <1>2 DEF Forward
<1>4. \A q \in Processes : Fits(q)' /\ Making(q)' BY <1>3, Bystander
<1> QED BY <1>2, <1>4 DEF UInv, Typed, Separate

LEMMA HistoryKeeps ==
  ASSUME UInv, NEW p \in Processes, HistoryStep(p)
  PROVE  UInv' /\ UNCHANGED <<backups, made>> /\ db'.version = db.version
<1>0. db \in DbStates BY DEF UInv, Typed
<1>1. ASSUME NEW d \in Runs, SaveRun(p, d)
      PROVE  UInv' /\ UNCHANGED <<backups, made>> /\ db'.version = db.version
  <2> DEFINE rows == Newest(db.rows \cup {d}, runs[d].limit)
  <2>1. rows \in SUBSET Nat BY <1>0 DEF Newest, DbStates, Runs
  <2>2. IsOpen(p) /\ db' = [db EXCEPT !.rows = rows] /\ UNCHANGED <<backups, made, opener>>
    BY <1>1 DEF SaveRun, Change
  <2> HIDE DEF rows
  <2>3. db'.version = db.version BY <1>0, <2>2 DEF DbStates
  <2> QED BY <2>1, <2>2, <2>3, ChangeKeeps
<1>2. ASSUME NEW ds \in SUBSET db.rows, Delete(p, ds)
      PROVE  UInv' /\ UNCHANGED <<backups, made>> /\ db'.version = db.version
  <2> DEFINE rows == db.rows \ ds
  <2>1. rows \in SUBSET Nat BY <1>0 DEF DbStates
  <2>2. IsOpen(p) /\ db' = [db EXCEPT !.rows = rows] /\ UNCHANGED <<backups, made, opener>>
    BY <1>2 DEF Delete, Change
  <2> HIDE DEF rows
  <2>3. db'.version = db.version BY <1>0, <2>2 DEF DbStates
  <2> QED BY <2>1, <2>2, <2>3, ChangeKeeps
<1>3. ASSUME UNCHANGED <<db, backups, made, opener>>
      PROVE  UInv' /\ UNCHANGED <<backups, made>> /\ db'.version = db.version
  BY <1>3 DEF UInv, Typed, Separate, Fits, Making, Copies
<1> QED BY <1>1, <1>2, <1>3
        DEF HistoryStep, StartRun, RunUnsaved, StartList, ListPage, ListEnds

\* A process starts over at inspect, or ends.
LEMMA RestartKeeps ==
  ASSUME UInv, UNCHANGED <<db, backups, made>>,
         opener' \in [Processes -> OpenerStates],
         \A q \in Processes : \/ opener'[q] = opener[q]
                              \/ opener'[q] = Closed
                              \/ opener'[q].at = "inspect" /\ opener'[q].backup = opener[q].backup
  PROVE  UInv'
<1>1. Closed.backup = 0 /\ Closed.at = "closed" BY DEF Closed
<1>2. Typed' BY DEF UInv, Typed
<1>3. Separate'
  <2>1. \A q \in Processes : opener'[q].backup \in {opener[q].backup, 0} BY <1>1
  <2>2. made \in Nat /\ 0 <= made BY DEF UInv, Typed
  <2> QED BY <2>1, <2>2 DEF UInv, Separate
<1>4. ASSUME NEW q \in Processes PROVE Fits(q)' /\ Making(q)'
  <2>1. CASE opener'[q] = opener[q]
    <3>1. Forward BY DEF Forward, UInv, Typed
    <3> QED BY <2>1, <3>1, Bystander
  <2>2. CASE opener'[q].at \in {"closed", "inspect"} BY <2>2 DEF Fits, Making
  <2> QED BY <1>1, <2>1, <2>2
<1> QED BY <1>2, <1>3, <1>4 DEF UInv

LEMMA SchemaKeeps == UInv /\ [Next]_vars => UInv'
<1> SUFFICES ASSUME UInv, [Next]_vars PROVE UInv'
  OBVIOUS
<1>0. opener \in [Processes -> OpenerStates] BY DEF UInv, Typed
<1>1. ASSUME UNCHANGED database PROVE UInv'
  BY <1>1 DEF database, UInv, Typed, Separate, Fits, Making, Copies
<1>2. ASSUME NEW p \in Processes, Boot(p) PROVE UInv'
  <2>1. CASE UNCHANGED database BY <1>1, <2>1
  <2>2. CASE opener' = [opener EXCEPT ![p].at = "inspect"] /\ UNCHANGED <<db, backups, made>>
    <3>1. [opener[p] EXCEPT !.at = "inspect"] \in OpenerStates
      BY <1>0 DEF OpenerStates, Opening
    <3>2. /\ opener' \in [Processes -> OpenerStates]
          /\ opener'[p].at = "inspect" /\ opener'[p].backup = opener[p].backup
          /\ \A q \in Processes \ {p} : opener'[q] = opener[q]
      BY <1>0, <2>2, <3>1 DEF OpenerStates
    <3> QED BY <2>2, <3>2, RestartKeeps
  <2> QED BY <1>2, <2>1, <2>2 DEF Boot
<1>3. ASSUME NEW ps, EndDatabase(ps) PROVE UInv'
  <2>1. Closed \in OpenerStates BY DEF Closed, OpenerStates, Schemas
  <2>2. /\ opener' \in [Processes -> OpenerStates]
        /\ \A q \in Processes : opener'[q] = opener[q] \/ opener'[q] = Closed
    BY <1>0, <1>3, <2>1 DEF EndDatabase
  <2> QED BY <1>3, <2>2, RestartKeeps DEF EndDatabase
<1>4. ASSUME NEW p \in Processes, DatabaseStep(p) PROVE UInv'
  BY <1>4, InspectKeeps, ConfigureKeeps, ReadVersionKeeps, QuickCheckKeeps, ReserveKeeps,
     MarkKeeps, MigrateKeeps, RecordKeeps, OpenFailsKeeps, HistoryKeeps
     DEF DatabaseStep, OpenStep
<1> QED BY <1>1, <1>2, <1>3, <1>4 DEF Next, Serve, End, Outage, SettingsStep, vars

LEMMA UpgradeInvariance == Spec => []UInv
BY InitUInv, SchemaKeeps, PTL DEF Spec

\* A verified backup stays as it is.
Kept == \A b \in backups : b.at = "verified" => b \in backups'

LEMMA VerifiedStay ==
  ASSUME UInv, NEW p \in Processes, OpenStep(p)
  PROVE  Kept
<1>1. ASSUME VacuumEnds(p) \/ Manifest(p) PROVE Kept
  <2>1. opener[p].at = "vacuum" \/ opener[p].at = "manifest"
    BY <1>1 DEF VacuumEnds, Manifest, OpenAt
  <2>2. \A b \in backups : b.at = "verified" => b.id # opener[p].backup
    BY <2>1 DEF UInv, Making
  <2>3. \A b \in backups : b.id # opener[p].backup => b \in backups'
    BY <1>1 DEF VacuumEnds, Manifest, Marked
  <2> QED BY <2>2, <2>3 DEF Kept
<1>2. ASSUME OpenFails(p) PROVE Kept
  BY <1>2 DEF OpenFails, Kept
<1> QED BY <1>1, <1>2
        DEF OpenStep, Inspect, Configure, ReadVersion, QuickCheck, Reserve, Migrate, Record, Kept

\* The schema of a database with data changes only behind a verified backup that
\* holds exactly what the database then holds, whatever other processes do
\* meanwhile, and a verified backup is kept for good (OpenContext).
THEOREM UpgradesAreBackedUp == Spec => UpgradeIsBackedUp
<1> DEFINE Backed == \E b \in backups : /\ b.at = "verified" /\ b.version = db.version
                                        /\ b.label = db.version /\ b.rows = db.rows
           Upgrade == db'.version # db.version =>
                        /\ db.version < Current /\ db'.version = Current
                        /\ db.version > 0 => Backed
<1>1. ASSUME UInv, [Next]_vars PROVE Upgrade /\ Kept
  <2>1. ASSUME UNCHANGED <<db, backups>> PROVE Upgrade /\ Kept BY <2>1 DEF Kept
  <2>2. ASSUME NEW p \in Processes, DatabaseStep(p) PROVE Upgrade /\ Kept
    <3>1. CASE HistoryStep(p) BY <1>1, <3>1, HistoryKeeps DEF Kept
    <3>2. CASE Migrate(p)
      <4>1. /\ opener[p].at = "migrate" /\ db \in DbStates /\ opener[p] \in OpenerStates
            /\ db'.version # db.version =>
                 db.version = opener[p].version /\ db' = [db EXCEPT !.pages = TRUE, !.version = Current]
        BY <1>1, <3>2 DEF Migrate, OpenAt, UInv, Typed
      <4>2. db'.version # db.version => db'.version = Current BY <4>1 DEF DbStates
      <4>3. opener[p].version < Current /\ (~opener[p].existed => opener[p].version = 0)
        BY <1>1, <4>1 DEF UInv, Fits
      <4>4. db.version = opener[p].version /\ opener[p].existed => Backed
        <5> SUFFICES ASSUME db.version = opener[p].version, opener[p].existed PROVE Backed
          OBVIOUS
        <5>1. PICK b \in backups : Copies(b, opener[p]) /\ b.at = "verified"
          BY <1>1, <4>1 DEF UInv, Making
        <5> QED BY <5>1 DEF Copies
      <4>5. db.version > 0 => db.version # 0 BY <4>1 DEF DbStates, Schemas
      <4>6. Upgrade BY <4>1, <4>2, <4>3, <4>4, <4>5
      <4>7. Kept BY <3>2 DEF Migrate, Kept
      <4> QED BY <4>6, <4>7
    <3>3. CASE OpenStep(p) /\ ~Migrate(p)
      <4>1. db'.version = db.version
        <5>1. db \in DbStates BY <1>1 DEF UInv, Typed
        <5> QED BY <3>3, <5>1 DEF OpenStep, Inspect, Configure, ReadVersion, QuickCheck, Reserve,
                                  VacuumEnds, Manifest, Record, OpenFails, DbStates
      <4> QED BY <1>1, <3>3, <4>1, VerifiedStay
    <3> QED BY <2>2, <3>1, <3>2, <3>3 DEF DatabaseStep
  <2> QED BY <1>1, <2>1, <2>2
          DEF Next, Boot, Serve, End, Outage, SettingsStep, EndDatabase, vars, database
<1>2. UInv /\ [Next]_vars => [Upgrade /\ Kept]_database BY <1>1
<1> QED BY <1>2, UpgradeInvariance, PTL DEF Spec, UpgradeIsBackedUp, Kept

-----------------------------------------------------------------------------
(* The history.                                                            *)

RunStates == [at : {"none", "running", "done"}, by : SUBSET Processes, limit : Nat]

\* What is in the history was stored, and the newest of all is still there.
HInv == /\ db \in DbStates
        /\ runs \in [Runs -> RunStates]
        /\ saved \subseteq Nat /\ db.rows \subseteq saved
        /\ NewestSurvives

\* Whatever of the history a step does not change.
LEMMA HistoryUntouched ==
  ASSUME HInv, db' \in DbStates, db'.rows = db.rows, runs' \in [Runs -> RunStates],
         UNCHANGED <<saved, removed>>
  PROVE  HInv'
BY DEF HInv, NewestSurvives

\* Pruning to a limit keeps the newest: none of those stored started later.
LEMMA SaveRunKeeps ==
  ASSUME HInv, NEW p \in Processes, NEW d \in Runs, SaveRun(p, d) PROVE HInv'
<1> DEFINE rows == db.rows \cup {d}
           limit == runs[d].limit
<1>0. limit \in Nat /\ d \in Nat
  <2>1. runs[d] \in RunStates BY DEF HInv
  <2> QED BY <2>1 DEF RunStates, Runs
<1>1. /\ limit > 0 /\ saved' = saved \cup {d}
      /\ removed' = removed /\ runs' = [runs EXCEPT ![d] = [NoRun EXCEPT !.at = "done"]]
      /\ db' = [db EXCEPT !.rows = Newest(rows, limit)]
  BY DEF SaveRun, RunEnds, Change
<1>2. rows \subseteq saved' /\ saved' \subseteq Nat /\ Newest(rows, limit) \subseteq rows
  BY <1>0, <1>1 DEF HInv, Newest
<1>3. db' \in DbStates /\ db'.rows = Newest(rows, limit)
  <2>1. db \in DbStates /\ Newest(rows, limit) \in SUBSET Nat BY <1>2 DEF HInv
  <2> HIDE DEF rows, limit
  <2> QED BY <1>1, <2>1 DEF DbStates
<1>4. runs' \in [Runs -> RunStates]
  <2>1. [NoRun EXCEPT !.at = "done"] \in RunStates BY DEF NoRun, RunStates
  <2> QED BY <1>1, <2>1 DEF HInv
<1>5. ASSUME NEW x \in rows, \A e \in saved' : e <= x
      PROVE  x \in Newest(rows, limit)
  <2>1. ASSUME NEW e \in rows PROVE ~(e > x)
    <3>1. e \in Nat /\ x \in Nat /\ e <= x BY <1>2, <1>5
    <3> QED BY <3>1
  <2>2. {e \in rows : e > x} = {} BY <2>1
  <2>3. Cardinality({e \in rows : e > x}) = 0 BY <2>2, FS_EmptySet
  <2> QED BY <1>0, <1>1, <1>5, <2>3 DEF Newest, Rank
<1>6. NewestSurvives'
  <2> SUFFICES ASSUME NEW x \in saved' \ removed', \A e \in saved' : e <= x
               PROVE  x \in db'.rows
    BY DEF NewestSurvives
  <2>1. x = d \/ x \in db.rows BY <1>1 DEF HInv, NewestSurvives
  <2> QED BY <1>3, <1>5, <2>1
<1> QED BY <1>2, <1>3, <1>4, <1>6 DEF HInv

\* What the user removes is accounted for.
LEMMA DeleteKeeps ==
  ASSUME HInv, NEW p \in Processes, NEW ds \in SUBSET db.rows, Delete(p, ds) PROVE HInv'
<1> DEFINE rows == db.rows \ ds
<1>1. /\ db' = [db EXCEPT !.rows = rows] /\ removed' = removed \cup ds
      /\ UNCHANGED <<runs, saved>>
  BY DEF Delete, Change
<1>2. db' \in DbStates /\ db'.rows = rows
  <2>1. db \in DbStates /\ rows \in SUBSET Nat BY DEF HInv, DbStates
  <2> HIDE DEF rows
  <2> QED BY <1>1, <2>1 DEF DbStates
<1> QED BY <1>1, <1>2 DEF HInv, NewestSurvives

LEMMA InitHInv == Init => HInv
<1> SUFFICES ASSUME Init PROVE HInv
  OBVIOUS
<1>1. db \in DbStates BY InitUInv DEF UInv, Typed
<1>2. runs \in [Runs -> RunStates] BY DEF Init, DatabaseInit, NoRun, RunStates
<1>3. saved = db.rows /\ db.rows \subseteq Nat BY <1>1 DEF Init, DatabaseInit, DbStates
<1> QED BY <1>1, <1>2, <1>3 DEF HInv, NewestSurvives

LEMMA HistoryStays == IInv /\ HInv /\ [Next]_vars => HInv'
<1> SUFFICES ASSUME IInv, HInv, [Next]_vars PROVE HInv'
  OBVIOUS
<1>0. db \in DbStates /\ runs \in [Runs -> RunStates] BY DEF HInv
<1>1. ASSUME UNCHANGED <<db, runs, saved, removed>> PROVE HInv'
  BY <1>0, <1>1, HistoryUntouched
<1>2. ASSUME NEW ps, EndDatabase(ps) PROVE HInv'
  <2>1. [NoRun EXCEPT !.at = "done"] \in RunStates BY DEF NoRun, RunStates
  <2>2. runs' \in [Runs -> RunStates] BY <1>0, <1>2, <2>1 DEF EndDatabase
  <2> QED BY <1>0, <1>2, <2>2, HistoryUntouched DEF EndDatabase
<1>3. ASSUME NEW p \in Processes, OpenStep(p) PROVE HInv'
  <2>1. db' \in DbStates /\ db'.rows = db.rows
    <3>1. Current \in Schemas BY DEF Schemas
    <3>2. CASE UNCHANGED db BY <1>0, <3>2
    <3>3. CASE \E pages \in {db.pages, TRUE} : db' = [db EXCEPT !.pages = pages]
      BY <1>0, <3>3 DEF DbStates
    <3>4. CASE db' = [db EXCEPT !.pages = TRUE, !.version = Current]
      BY <1>0, <3>1, <3>4 DEF DbStates
    <3> QED BY <1>3, <3>2, <3>3, <3>4
            DEF OpenStep, Inspect, Configure, ReadVersion, QuickCheck, Reserve, VacuumEnds,
                Manifest, Migrate, Record, OpenFails
  <2>2. UNCHANGED Rest
    BY <1>3 DEF OpenStep, Inspect, Configure, ReadVersion, QuickCheck, Reserve, VacuumEnds,
                Manifest, Migrate, Record, OpenFails
  <2> QED BY <1>0, <2>1, <2>2, HistoryUntouched DEF Rest
<1>4. ASSUME NEW p \in Processes, StartRun(p) PROVE HInv'
  <2>1. PICK d \in Fresh :
          runs' = [runs EXCEPT ![d] = [at |-> "running", by |-> {p}, limit |-> LimitOf(active[p])]]
    BY <1>4 DEF StartRun
  <2>2. LimitOf(active[p]) \in Nat BY SettingsAssumption DEF IInv, SettingsTypeOK
  <2>3. [at |-> "running", by |-> {p}, limit |-> LimitOf(active[p])] \in RunStates
    BY <2>2 DEF RunStates
  <2>4. runs' \in [Runs -> RunStates] BY <1>0, <2>1, <2>3
  <2> QED BY <1>0, <1>4, <2>4, HistoryUntouched DEF StartRun
<1>5. ASSUME NEW p \in Processes, NEW d \in Runs, RunUnsaved(p, d) PROVE HInv'
  <2>1. [NoRun EXCEPT !.at = "done"] \in RunStates BY DEF NoRun, RunStates
  <2>2. runs' \in [Runs -> RunStates] BY <1>0, <1>5, <2>1 DEF RunUnsaved, RunEnds
  <2> QED BY <1>0, <1>5, <2>2, HistoryUntouched DEF RunUnsaved
<1>6. ASSUME NEW p \in Processes, HistoryStep(p) PROVE HInv'
  <2>1. ASSUME StartList(p) \/ ListPage(p) \/ ListEnds(p)
        PROVE  UNCHANGED <<db, runs, saved, removed>>
    BY <2>1 DEF StartList, ListPage, ListEnds
  <2> QED BY <1>1, <1>4, <1>5, <1>6, <2>1, SaveRunKeeps, DeleteKeeps DEF HistoryStep
<1>7. ASSUME NEW p \in Processes, Boot(p) PROVE HInv'
  BY <1>1, <1>7 DEF Boot, database, Rest
<1> QED BY <1>1, <1>2, <1>3, <1>6, <1>7
        DEF Next, Serve, End, Outage, SettingsStep, DatabaseStep, vars, database

\* The diagnosis that started last of all that were stored stays in the history
\* until the user removes it: pruning by another process, with a smaller limit
\* or for a run that started earlier and ended later, never takes it
\* (SaveDiagnosis, pruneHistoryTx).
THEOREM NewestStays == Spec => []NewestSurvives
<1>1. HInv => NewestSurvives BY DEF HInv
<1> QED BY <1>1, InitHInv, HistoryStays, Invariance, PTL DEF Spec

-----------------------------------------------------------------------------
(* Listings.                                                               *)

ListStates == [at : {"idle", "paging", "listed"}, offset : Nat, got : Seq(Nat),
               stable : SUBSET Nat, disturbed : BOOLEAN]

InSeq(d, s) == \E i \in 1 .. Len(s) : s[i] = d

\* What was in the history all the time and was not read yet comes at or after
\* the offset of the next page.
Ahead(l, rows) ==
  \A d \in l.stable : d \in rows /\ (InSeq(d, l.got) \/ l.offset <= Rank(rows, d))

ListInv ==
  /\ db.rows \subseteq Nat /\ IsFiniteSet(db.rows)
  /\ lister \in [Processes -> ListStates]
  /\ \A p \in Processes : ~lister[p].disturbed =>
       /\ lister[p].at = "paging" => Ahead(lister[p], db.rows)
       /\ lister[p].at = "listed" => \A d \in lister[p].stable : InSeq(d, lister[p].got)

LEMMA FunctionIsSequence ==
  ASSUME NEW n \in Nat, NEW T, NEW s \in [1 .. n -> T]
  PROVE  s \in Seq(T) /\ Len(s) = n
OBVIOUS

LEMMA Sliced ==
  ASSUME NEW s \in Seq(Nat), NEW o \in Nat, NEW m \in Int, m <= Len(s)
  PROVE  /\ SubSeq(s, o + 1, m) \in Seq(Nat)
         /\ o < m => Len(SubSeq(s, o + 1, m)) = m - o
         /\ \A i \in 1 .. m - o : SubSeq(s, o + 1, m)[i] = s[o + i]
OBVIOUS

\* What is read is added at the end.
LEMMA Joined ==
  ASSUME NEW s \in Seq(Nat), NEW t \in Seq(Nat), NEW d
  PROVE  /\ s \o t \in Seq(Nat)
         /\ InSeq(d, s) \/ InSeq(d, t) => InSeq(d, s \o t)
<1>1. /\ Len(s) \in Nat /\ Len(t) \in Nat /\ s \o t \in Seq(Nat) /\ Len(s \o t) = Len(s) + Len(t)
  OBVIOUS
<1>2. \A i \in 1 .. Len(s) : (s \o t)[i] = s[i] OBVIOUS
<1>3. \A i \in 1 .. Len(t) : (s \o t)[Len(s) + i] = t[i] OBVIOUS
<1>4. ASSUME InSeq(d, s) PROVE InSeq(d, s \o t)
  <2>1. PICK i \in 1 .. Len(s) : s[i] = d BY <1>4 DEF InSeq
  <2>2. i \in 1 .. Len(s \o t) /\ (s \o t)[i] = d BY <1>1, <1>2, <2>1
  <2> QED BY <2>2 DEF InSeq
<1>5. ASSUME InSeq(d, t) PROVE InSeq(d, s \o t)
  <2>1. PICK i \in 1 .. Len(t) : t[i] = d BY <1>5 DEF InSeq
  <2>2. Len(s) + i \in 1 .. Len(s \o t) /\ (s \o t)[Len(s) + i] = d BY <1>1, <1>3, <2>1
  <2> QED BY <2>2 DEF InSeq
<1> QED BY <1>1, <1>4, <1>5

\* A diagnosis has fewer before it than there are, and fewer than any that
\* comes after it.
LEMMA RankIs ==
  ASSUME NEW rows \in SUBSET Nat, IsFiniteSet(rows)
  PROVE  /\ \A d \in rows : Rank(rows, d) \in Nat /\ Rank(rows, d) < Cardinality(rows)
         /\ \A d, e \in rows : d < e => Rank(rows, e) < Rank(rows, d)
         /\ \A d, e \in rows : Rank(rows, d) = Rank(rows, e) => d = e
<1> DEFINE Before(d) == {e \in rows : e > d}
<1>1. ASSUME NEW d \in rows
      PROVE  IsFiniteSet(Before(d)) /\ Cardinality(Before(d)) \in Nat
             /\ Cardinality(Before(d)) < Cardinality(rows)
  <2>1. d \in Nat /\ d \notin Before(d) /\ Before(d) \subseteq rows OBVIOUS
  <2> HIDE DEF Before
  <2> QED BY <2>1, FS_Subset, FS_CardinalityType
<1>2. ASSUME NEW d \in rows, NEW e \in rows, d < e
      PROVE  Cardinality(Before(e)) < Cardinality(Before(d))
  <2>0. d \in Nat /\ e \in Nat /\ \A x \in rows : x \in Nat OBVIOUS
  <2>1. e \in Before(d) /\ e \notin Before(e) BY <1>2, <2>0
  <2>3. Before(e) \subseteq Before(d)
    <3> SUFFICES ASSUME NEW x \in rows, x > e PROVE x > d
      OBVIOUS
    <3> QED BY <1>2, <2>0
  <2>2. IsFiniteSet(Before(d)) /\ IsFiniteSet(Before(e))
        /\ Cardinality(Before(d)) \in Nat /\ Cardinality(Before(e)) \in Nat
    BY <1>1
  <2> HIDE DEF Before
  <2> QED BY <2>1, <2>2, <2>3, FS_Subset
<1>3. \A d \in rows : Rank(rows, d) = Cardinality(Before(d)) BY DEF Rank
<1> HIDE DEF Before
<1>4. \A d \in rows : Rank(rows, d) \in Nat /\ Rank(rows, d) < Cardinality(rows)
  BY <1>1, <1>3
<1>5. \A d, e \in rows : d < e => Rank(rows, e) < Rank(rows, d)
  BY <1>2, <1>3
<1>6. ASSUME NEW d \in rows, NEW e \in rows, Rank(rows, d) = Rank(rows, e) PROVE d = e
  <2>1. d \in Nat /\ e \in Nat /\ Rank(rows, d) \in Nat BY <1>4
  <2>2. ~(d < e) /\ ~(e < d) BY <1>5, <1>6, <2>1
  <2> QED BY <2>1, <2>2
<1> QED BY <1>4, <1>5, <1>6

\* The order of a listing has every diagnosis at its rank.
LEMMA OrderIs ==
  ASSUME NEW rows \in SUBSET Nat, IsFiniteSet(rows)
  PROVE  /\ Order(rows) \in Seq(Nat) /\ Len(Order(rows)) = Cardinality(rows)
         /\ \A d \in rows : Order(rows)[Rank(rows, d) + 1] = d
<1> DEFINE n == Cardinality(rows)
           ranks == [d \in rows |-> Rank(rows, d)]
<1>0. n \in Nat BY FS_CardinalityType
<1>1. \A d \in rows : Rank(rows, d) \in 0 .. n - 1 BY <1>0, RankIs
<1>2. IsFiniteSet(0 .. n - 1) /\ Cardinality(0 .. n - 1) = n
  <2>1. 0 \in Int /\ n - 1 \in Int BY <1>0
  <2> QED BY <1>0, <2>1, FS_Interval
<1>3. ranks \in Injection(rows, 0 .. n - 1)
  BY <1>1, RankIs DEF Injection, IsInjective
<1>4. ranks \in Surjection(rows, 0 .. n - 1) BY <1>2, <1>3, FS_Injection
<1>5. \A k \in 0 .. n - 1 : \E d \in rows : Rank(rows, d) = k
  BY <1>4 DEF Surjection
<1> HIDE DEF ranks
<1>6. ASSUME NEW i \in 1 .. n
      PROVE  \E d \in rows : Rank(rows, d) = i - 1
  <2>1. i - 1 \in 0 .. n - 1 BY <1>0
  <2> QED BY <1>5, <2>1
<1>7. Order(rows) = [i \in 1 .. n |-> CHOOSE d \in rows : Rank(rows, d) = i - 1]
  BY DEF Order
<1> HIDE DEF n
<1>8. ASSUME NEW i \in 1 .. n
      PROVE  Order(rows)[i] \in rows /\ Rank(rows, Order(rows)[i]) = i - 1
  BY <1>6, <1>7
<1>9. Order(rows) \in [1 .. n -> Nat] BY <1>7, <1>8
<1>10. Order(rows) \in Seq(Nat) /\ Len(Order(rows)) = n
  BY <1>0, <1>9, FunctionIsSequence
<1>11. ASSUME NEW d \in rows PROVE Order(rows)[Rank(rows, d) + 1] = d
  <2> DEFINE i == Rank(rows, d) + 1
  <2>1. Rank(rows, d) \in Nat /\ i \in 1 .. n /\ i - 1 = Rank(rows, d) BY <1>0, <1>1
  <2>2. Order(rows)[i] \in rows /\ Rank(rows, Order(rows)[i]) = Rank(rows, d)
    BY <1>8, <2>1
  <2>3. \A x, y \in rows : Rank(rows, x) = Rank(rows, y) => x = y BY RankIs
  <2> QED BY <2>2, <2>3
<1> QED BY <1>10, <1>11 DEF n

\* A page has every diagnosis whose rank is in its window, and a short page is
\* the last one.
LEMMA PageIs ==
  ASSUME ListInv, NEW o \in Nat
  PROVE  /\ Page(o) \in Seq(Nat)
         /\ \A d \in db.rows : o <= Rank(db.rows, d) =>
              InSeq(d, Page(o)) \/ (Len(Page(o)) >= PageSize /\ o + PageSize <= Rank(db.rows, d))
<1> DEFINE all == Order(db.rows)
           n == Cardinality(db.rows)
           m == o + (IF n - o < PageSize THEN n - o ELSE PageSize)
<1>1. all \in Seq(Nat) /\ Len(all) = n /\ n \in Nat
  BY OrderIs, FS_CardinalityType DEF ListInv
<1>2. PageSize \in Nat BY DatabaseAssumption
<1>3. m \in Int /\ m <= n /\ (m = n \/ m = o + PageSize) BY <1>1, <1>2
<1>4. Page(o) = SubSeq(all, o + 1, m) BY <1>1 DEF Page
<1>5. \A d \in db.rows : Rank(db.rows, d) \in Nat /\ Rank(db.rows, d) < n
                         /\ all[Rank(db.rows, d) + 1] = d
  BY RankIs, OrderIs DEF ListInv
<1> HIDE DEF all, n, m
<1>6. /\ Page(o) \in Seq(Nat)
      /\ o < m => Len(Page(o)) = m - o
      /\ \A i \in 1 .. m - o : Page(o)[i] = all[o + i]
  BY <1>1, <1>3, <1>4, Sliced
<1>7. ASSUME NEW d \in db.rows, o <= Rank(db.rows, d)
      PROVE  InSeq(d, Page(o)) \/ (Len(Page(o)) >= PageSize /\ o + PageSize <= Rank(db.rows, d))
  <2> DEFINE r == Rank(db.rows, d)
  <2>1. r \in Nat /\ r < n /\ all[r + 1] = d /\ o <= r BY <1>5, <1>7
  <2> HIDE DEF r
  <2>2. CASE r < m
    <3> DEFINE i == r + 1 - o
    <3>1. i \in 1 .. m - o /\ o + i = r + 1 /\ o < m BY <1>3, <2>1, <2>2
    <3>2. Page(o)[i] = d BY <1>6, <2>1, <3>1
    <3>3. i \in 1 .. Len(Page(o)) BY <1>6, <3>1
    <3> QED BY <3>2, <3>3 DEF InSeq
  <2>3. CASE ~(r < m)
    <3>1. m = o + PageSize /\ o + PageSize <= r BY <1>1, <1>2, <1>3, <2>1, <2>3
    <3>2. o < m /\ m - o = PageSize
      <4>1. PageSize > 0 BY DatabaseAssumption
      <4> QED BY <1>2, <3>1, <4>1
    <3> QED BY <1>2, <1>6, <3>1, <3>2 DEF r
  <2> QED BY <2>2, <2>3
<1> QED BY <1>6, <1>7

\* What pruning keeps it leaves at its rank, and a new diagnosis moves others
\* back only.
LEMMA RankOfKept ==
  ASSUME NEW old \in SUBSET Nat, IsFiniteSet(old), NEW d \in Nat, NEW limit \in Nat,
         NEW x \in old \cap Newest(old \cup {d}, limit)
  PROVE  Rank(old, x) <= Rank(Newest(old \cup {d}, limit), x)
<1> DEFINE rows == old \cup {d}
           kept == Newest(rows, limit)
<1>1. rows \in SUBSET Nat /\ IsFiniteSet(rows) BY FS_AddElement
<1>2. kept \subseteq rows /\ \A e \in rows : e \in kept <=> Rank(rows, e) < limit
  BY DEF Newest
<1> HIDE DEF rows, kept
<1>3. IsFiniteSet(kept) BY <1>1, <1>2, FS_Subset
<1>4. x \in rows /\ x \in kept BY DEF rows, kept
<1>5. ASSUME NEW e \in rows, e > x PROVE e \in kept
  <2>1. e \in Nat /\ x \in Nat /\ x < e BY <1>1, <1>4, <1>5
  <2>2. Rank(rows, e) < Rank(rows, x) BY <1>1, <1>4, <2>1, RankIs
  <2>3. Rank(rows, x) < limit /\ Rank(rows, e) \in Nat /\ Rank(rows, x) \in Nat
    BY <1>1, <1>2, <1>4, RankIs
  <2>4. Rank(rows, e) < limit BY <2>2, <2>3
  <2> QED BY <1>2, <2>4
<1> DEFINE A == {e \in old : e > x}
           B == {e \in kept : e > x}
<1>6. A \subseteq B BY <1>5 DEF rows
<1>7. IsFiniteSet(B) BY <1>3, FS_Subset
<1>8. Rank(old, x) = Cardinality(A) /\ Rank(kept, x) = Cardinality(B) BY DEF Rank
<1> HIDE DEF A, B
<1>9. Cardinality(A) <= Cardinality(B) BY <1>6, <1>7, FS_Subset
<1> QED BY <1>8, <1>9 DEF kept, rows

\* Whatever a step leaves of the rows and the listings.
LEMMA ListUntouched ==
  ASSUME ListInv, db'.rows = db.rows, lister' = lister PROVE ListInv'
BY DEF ListInv, Ahead

\* The rows change by pruning, or in the hands of the user.
LEMMA ChangeKeepsList ==
  ASSUME ListInv, db \in DbStates, NEW rows \in SUBSET Nat, IsFiniteSet(rows), NEW byUser \in BOOLEAN,
         Change(rows, byUser),
         ~byUser => \A x \in db.rows \cap rows : Rank(db.rows, x) <= Rank(rows, x)
  PROVE  ListInv'
<1>1. db'.rows = rows BY DEF Change, DbStates
<1>2. ASSUME NEW p \in Processes
      PROVE  /\ lister'[p] \in ListStates
             /\ ~lister'[p].disturbed =>
                  /\ lister'[p].at = "paging" => Ahead(lister'[p], rows)
                  /\ lister'[p].at = "listed" =>
                       \A d \in lister'[p].stable : InSeq(d, lister'[p].got)
  <2>0. lister[p] \in ListStates BY DEF ListInv
  <2>1. CASE lister[p].at # "paging"
    <3>1. lister'[p] = lister[p] BY <2>1 DEF Change
    <3> QED BY <2>0, <2>1, <3>1 DEF ListInv
  <2>2. CASE lister[p].at = "paging"
    <3>1. lister'[p] = [lister[p] EXCEPT !.stable = @ \cap rows, !.disturbed = @ \/ byUser]
      BY <2>2 DEF Change
    <3>2. /\ lister'[p].at = "paging" /\ lister'[p].stable = lister[p].stable \cap rows
          /\ lister'[p].got = lister[p].got /\ lister'[p].offset = lister[p].offset
          /\ lister'[p].disturbed = (lister[p].disturbed \/ byUser)
      BY <2>0, <2>2, <3>1 DEF ListStates
    <3>3. lister'[p] \in ListStates BY <2>0, <3>1 DEF ListStates
    <3>4. ASSUME ~lister'[p].disturbed PROVE Ahead(lister'[p], rows)
      <4>1. ~byUser /\ ~lister[p].disturbed BY <3>2, <3>4
      <4>2. Ahead(lister[p], db.rows) BY <2>2, <4>1 DEF ListInv
      <4>3. ASSUME NEW d \in lister'[p].stable
            PROVE  d \in rows /\ (InSeq(d, lister'[p].got)
                                  \/ lister'[p].offset <= Rank(rows, d))
        <5>1. d \in rows /\ d \in lister[p].stable /\ d \in db.rows
          BY <3>2, <4>2 DEF Ahead
        <5>2. Rank(db.rows, d) <= Rank(rows, d) BY <4>1, <5>1
        <5>3. Rank(db.rows, d) \in Nat /\ Rank(rows, d) \in Nat
          BY <5>1, RankIs DEF ListInv
        <5>4. lister[p].offset \in Nat BY <2>0 DEF ListStates
        <5>5. InSeq(d, lister[p].got) \/ lister[p].offset <= Rank(db.rows, d)
          BY <4>2, <5>1 DEF Ahead
        <5> QED BY <3>2, <5>1, <5>2, <5>3, <5>4, <5>5
      <4> QED BY <4>3 DEF Ahead
    <3> QED BY <3>2, <3>3, <3>4
  <2> QED BY <2>1, <2>2
<1>3. lister' \in [Processes -> ListStates]
  <2>1. \A p \in Processes : lister'[p] \in ListStates BY <1>2
  <2>2. DOMAIN lister' = Processes /\ lister' = [p \in Processes |-> lister'[p]]
    BY DEF Change
  <2> QED BY <2>1, <2>2
<1> QED BY <1>1, <1>2, <1>3 DEF ListInv

LEMMA SaveRunKeepsList ==
  ASSUME HInv, ListInv, NEW p \in Processes, NEW d \in Runs, SaveRun(p, d) PROVE ListInv'
<1> DEFINE limit == runs[d].limit
           rows == Newest(db.rows \cup {d}, limit)
<1>1. d \in Nat /\ limit \in Nat
  <2>1. runs[d] \in RunStates BY DEF HInv
  <2> QED BY <2>1 DEF RunStates, Runs
<1>2. db.rows \in SUBSET Nat /\ IsFiniteSet(db.rows) BY DEF ListInv
<1>3. IsFiniteSet(db.rows \cup {d}) /\ rows \subseteq db.rows \cup {d}
  BY <1>2, FS_AddElement DEF Newest
<1>4. rows \in SUBSET Nat /\ IsFiniteSet(rows) BY <1>1, <1>2, <1>3, FS_Subset
<1>5. \A x \in db.rows \cap rows : Rank(db.rows, x) <= Rank(rows, x)
  BY <1>1, <1>2, RankOfKept
<1>6. Change(rows, FALSE) /\ db \in DbStates BY DEF SaveRun, HInv
<1> HIDE DEF rows, limit
<1> QED BY <1>4, <1>5, <1>6, ChangeKeepsList

LEMMA DeleteKeepsList ==
  ASSUME HInv, ListInv, NEW p \in Processes, NEW ds \in SUBSET db.rows, Delete(p, ds)
  PROVE  ListInv'
<1> DEFINE rows == db.rows \ ds
<1>1. rows \in SUBSET Nat /\ IsFiniteSet(rows) BY FS_Subset DEF ListInv
<1>2. Change(rows, TRUE) /\ db \in DbStates BY DEF Delete, HInv
<1> HIDE DEF rows
<1> QED BY <1>1, <1>2, ChangeKeepsList

\* One listing moves on.
LEMMA OneLists ==
  ASSUME ListInv, db'.rows = db.rows, NEW p \in Processes, NEW l \in ListStates,
         lister' = [lister EXCEPT ![p] = l],
         ~l.disturbed => /\ l.at = "paging" => Ahead(l, db.rows)
                         /\ l.at = "listed" => \A d \in l.stable : InSeq(d, l.got)
  PROVE  ListInv'
<1>1. lister' \in [Processes -> ListStates] BY DEF ListInv
<1>2. \A q \in Processes : lister'[q] = IF q = p THEN l ELSE lister[q] BY DEF ListInv
<1>3. ASSUME NEW q \in Processes, ~lister'[q].disturbed
      PROVE  /\ lister'[q].at = "paging" => Ahead(lister'[q], db.rows)
             /\ lister'[q].at = "listed" =>
                  \A d \in lister'[q].stable : InSeq(d, lister'[q].got)
  <2>1. CASE q = p BY <1>2, <1>3, <2>1
  <2>2. CASE q # p BY <1>2, <1>3, <2>2 DEF ListInv
  <2> QED BY <2>1, <2>2
<1> QED BY <1>1, <1>3 DEF ListInv

LEMMA NoListIs == NoList \in ListStates /\ NoList.at = "idle"
BY DEF NoList, ListStates

LEMMA StartListKeeps ==
  ASSUME ListInv, NEW p \in Processes, StartList(p) PROVE ListInv'
<1> DEFINE l == [NoList EXCEPT !.at = "paging", !.stable = db.rows]
<1>1. l \in ListStates
  <2>1. db.rows \in SUBSET Nat BY DEF ListInv
  <2> QED BY <2>1, NoListIs DEF ListStates
<1>2. l.stable = db.rows /\ l.offset = 0 /\ l.at = "paging" BY DEF NoList
<1>3. Ahead(l, db.rows)
  <2>1. \A d \in db.rows : Rank(db.rows, d) \in Nat BY RankIs DEF ListInv
  <2> HIDE DEF l
  <2> QED BY <1>2, <2>1 DEF Ahead
<1>4. lister' = [lister EXCEPT ![p] = l] /\ db'.rows = db.rows BY DEF StartList
<1> HIDE DEF l
<1> QED BY <1>1, <1>2, <1>3, <1>4, OneLists

\* The page read closes the gap between the last offset and the next.
LEMMA ListPageKeeps ==
  ASSUME ListInv, NEW p \in Processes, ListPage(p) PROVE ListInv'
<1> DEFINE page == Page(lister[p].offset)
           l == [lister[p] EXCEPT !.got = @ \o page, !.offset = @ + PageSize,
                                  !.at = IF Len(page) < PageSize THEN "listed" ELSE "paging"]
<1>0. lister[p] \in ListStates /\ lister[p].at = "paging" BY DEF ListPage, ListInv
<1>1. lister[p].offset \in Nat /\ lister[p].got \in Seq(Nat) /\ PageSize \in Nat
  BY <1>0, DatabaseAssumption DEF ListStates
<1>2. /\ page \in Seq(Nat)
      /\ \A d \in db.rows : lister[p].offset <= Rank(db.rows, d) =>
           InSeq(d, page) \/ (Len(page) >= PageSize
                              /\ lister[p].offset + PageSize <= Rank(db.rows, d))
  BY <1>1, PageIs
<1>3. lister' = [lister EXCEPT ![p] = l] /\ db'.rows = db.rows BY DEF ListPage
<1> HIDE DEF page
<1>4. /\ l.got = lister[p].got \o page /\ l.offset = lister[p].offset + PageSize
      /\ l.stable = lister[p].stable /\ l.disturbed = lister[p].disturbed
      /\ l.at = (IF Len(page) < PageSize THEN "listed" ELSE "paging")
  BY <1>0 DEF ListStates
<1>5. l \in ListStates
  <2>1. lister[p].got \o page \in Seq(Nat) BY <1>1, <1>2, Joined
  <2>2. lister[p].offset + PageSize \in Nat BY <1>1
  <2> QED BY <1>0, <2>1, <2>2 DEF ListStates
<1> HIDE DEF l
<1>6. ASSUME ~l.disturbed, NEW d \in l.stable
      PROVE  d \in db.rows /\ (InSeq(d, l.got)
                               \/ (Len(page) >= PageSize /\ l.offset <= Rank(db.rows, d)))
  <2>1. Ahead(lister[p], db.rows) BY <1>0, <1>4, <1>6 DEF ListInv
  <2>2. d \in db.rows /\ (InSeq(d, lister[p].got) \/ lister[p].offset <= Rank(db.rows, d))
    BY <1>4, <1>6, <2>1 DEF Ahead
  <2>3. InSeq(d, lister[p].got) \/ InSeq(d, page) => InSeq(d, l.got)
    BY <1>1, <1>2, <1>4, Joined
  <2> QED BY <1>2, <1>4, <2>2, <2>3
<1>7. Len(page) \in Nat BY <1>2
<1>8. ASSUME ~l.disturbed, l.at = "paging" PROVE Ahead(l, db.rows)
  BY <1>6, <1>8 DEF Ahead
<1>9. ASSUME ~l.disturbed, l.at = "listed" PROVE \A d \in l.stable : InSeq(d, l.got)
  <2>1. ~(Len(page) >= PageSize) BY <1>1, <1>4, <1>7, <1>9
  <2> QED BY <1>6, <1>9, <2>1
<1> QED BY <1>3, <1>5, <1>8, <1>9, OneLists

LEMMA ListStays == HInv /\ ListInv /\ [Next]_vars => ListInv'
<1> SUFFICES ASSUME HInv, ListInv, [Next]_vars PROVE ListInv'
  OBVIOUS
<1>0. db \in DbStates BY DEF HInv
<1>1. ASSUME UNCHANGED <<db, lister>> PROVE ListInv'
  BY <1>1, ListUntouched
<1>2. ASSUME NEW ps, EndDatabase(ps) PROVE ListInv'
  <2>1. lister' = [p \in Processes |-> IF p \in ps THEN NoList ELSE lister[p]] /\ db' = db
    BY <1>2 DEF EndDatabase
  <2>2. lister' \in [Processes -> ListStates] BY <2>1, NoListIs DEF ListInv
  <2>3. \A p \in Processes : lister'[p] = lister[p] \/ lister'[p].at = "idle"
    BY <2>1, NoListIs
  <2> QED BY <2>1, <2>2, <2>3 DEF ListInv
<1>3. ASSUME NEW p \in Processes, OpenStep(p) PROVE ListInv'
  <2>1. db'.rows = db.rows
    BY <1>0, <1>3 DEF OpenStep, Inspect, Configure, ReadVersion, QuickCheck, Reserve,
                      VacuumEnds, Manifest, Migrate, Record, OpenFails, DbStates
  <2>2. UNCHANGED lister
    BY <1>3 DEF OpenStep, Inspect, Configure, ReadVersion, QuickCheck, Reserve, VacuumEnds,
                Manifest, Migrate, Record, OpenFails, Rest
  <2> QED BY <2>1, <2>2, ListUntouched
<1>4. ASSUME NEW p \in Processes, ListEnds(p) PROVE ListInv'
  BY <1>4, NoListIs, OneLists DEF ListEnds
<1>5. ASSUME NEW p \in Processes, HistoryStep(p) PROVE ListInv'
  <2>1. CASE StartRun(p) \/ \E d \in Runs : RunUnsaved(p, d)
    BY <1>1, <2>1 DEF StartRun, RunUnsaved
  <2> QED BY <1>4, <1>5, <2>1, SaveRunKeepsList, DeleteKeepsList, StartListKeeps, ListPageKeeps
          DEF HistoryStep
<1>6. ASSUME NEW p \in Processes, Boot(p) PROVE ListInv'
  BY <1>1, <1>6 DEF Boot, database, Rest
<1> QED BY <1>1, <1>2, <1>3, <1>5, <1>6
        DEF Next, Serve, End, Outage, SettingsStep, DatabaseStep, vars, database

\* A listing of several pages misses no diagnosis that was in the history all
\* the time, although runs are stored and old ones pruned between its pages
\* (Service.ListHistory over Store.ListHistory).
THEOREM ListingsAreComplete == Spec => []ListingMissesNothing
<1>1. Init => ListInv
  <2> SUFFICES ASSUME Init PROVE ListInv
    OBVIOUS
  <2>1. lister = [p \in Processes |-> NoList] BY DEF Init, DatabaseInit
  <2>2. db.rows \in {{}, {1}}
    <3>1. db.rows \subseteq {1} BY DEF Init, DatabaseInit
    <3> QED BY <3>1
  <2>3. IsFiniteSet(db.rows)
    <3>1. IsFiniteSet({1}) BY FS_Singleton
    <3>2. IsFiniteSet({}) BY FS_EmptySet
    <3> QED BY <2>2, <3>1, <3>2
  <2>4. db.rows \subseteq Nat BY <2>2
  <2> QED BY <2>1, <2>3, <2>4, NoListIs DEF ListInv
<1>2. ListInv => ListingMissesNothing BY DEF ListInv, ListingMissesNothing, InSeq
<1> QED BY <1>1, <1>2, InitHInv, HistoryStays, Invariance, ListStays, PTL DEF Spec
=============================================================================
