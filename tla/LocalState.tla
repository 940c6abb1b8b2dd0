----------------------------- MODULE LocalState -----------------------------
(***************************************************************************)
(* The local state of Orynelo as its processes (desktop and CLI) share it: *)
(* bootstrap opens the configuration file and the database as the          *)
(* persistence policy says (openRuntimeWithOptions in                      *)
(* internal/bootstrap/runtime.go), the application service saves settings, *)
(* runs diagnoses and reads the history, and processes end at any moment.  *)
(* An adapter that cannot be opened is left out, and diagnoses go on.      *)
(***************************************************************************)
EXTENDS Database

CONSTANT Scenarios   \* what each process does, how often, and the disk it finds

\* starts, saves and runs bound what is started, saved and diagnosed.
ASSUME LocalAssumption ==
  \A s \in Scenarios : s.starts \in Nat /\ s.saves \in 0 .. MaxSaves /\ s.runs \in 0 .. MaxRuns

VARIABLES
  scenario,   \* the scenario of this behaviour
  life,       \* each process: down, opening or up
  starts      \* how many were started

local == <<scenario, life, starts>>
vars == <<settings, database, local>>

\* RuntimeOptions.Persistence of a process.
Policies == {"default", "no-history", "ephemeral"}
Policy(p) == scenario.policy[p]
Does(p, job) == job \in scenario.jobs[p] /\ life[p] = "up"

Init ==
  /\ scenario \in Scenarios
  /\ SettingsInit
  /\ DatabaseInit
  /\ windows \in scenario.platforms
  /\ file \in scenario.files
  /\ db.version \in scenario.schemas
  /\ life = [p \in Processes |-> "down"]
  /\ starts = 0

-----------------------------------------------------------------------------
(* Bootstrap.                                                              *)

UsesFiles(p) == Policy(p) # "ephemeral"
UsesDatabase(p) == Policy(p) = "default"

\* openRuntimeWithOptions: configuration, logging, and the database unless the
\* policy leaves it out.
Boot(p) ==
  /\ life[p] = "down"
  /\ starts < scenario.starts
  /\ starts' = starts + 1
  /\ life' = [life EXCEPT ![p] = IF UsesDatabase(p) THEN "opening" ELSE "up"]
  /\ IF UsesFiles(p) THEN LoadSettings(p) ELSE UNCHANGED settings
  /\ IF UsesDatabase(p)
       THEN /\ opener' = [opener EXCEPT ![p].at = "inspect"]
            /\ UNCHANGED <<db, backups, made, Rest>>
       ELSE UNCHANGED database
  /\ UNCHANGED scenario

\* The service is made, with the store or with a warning instead of it.
Serve(p) ==
  /\ life[p] = "opening"
  /\ opener[p].at \in {"open", "failed"}
  /\ life' = [life EXCEPT ![p] = "up"]
  /\ UNCHANGED <<settings, database, scenario, starts>>

\* A process ends: Runtime.Close, a second signal or a crash.
End(p) ==
  /\ life[p] # "down"
  /\ life' = [life EXCEPT ![p] = "down"]
  /\ EndSettings(p)
  /\ EndDatabase({p})
  /\ UNCHANGED <<scenario, starts>>

\* Loss of power, where no process has the database open.
Outage ==
  /\ scenario.power
  /\ \E p \in Processes : life[p] # "down"
  /\ life' = [p \in Processes |-> "down"]
  /\ PowerLoss
  /\ EndDatabase(Processes)
  /\ UNCHANGED <<scenario, starts>>

-----------------------------------------------------------------------------
(* What processes do.                                                      *)

SettingsStep ==
  /\ \/ \E t \in Savers, v \in Configs : 
        Does(OwnerOf(t), "save") /\ saves < scenario.saves /\ Call(t, v)
     \/ \E t \in Savers : CtxDone(t) \/ SaverStep(t)
  /\ UNCHANGED <<database, local>>

HistoryStep(p) ==
  \/ Does(p, "diagnose") /\ (\A d \in Fresh : d <= scenario.runs) /\ StartRun(p)
  \/ \E d \in Runs : SaveRun(p, d) \/ RunUnsaved(p, d)
  \/ Does(p, "delete") /\ \E ds \in SUBSET db.rows : Delete(p, ds)
  \/ Does(p, "list") /\ StartList(p)
  \/ ListPage(p)
  \/ ListEnds(p)

DatabaseStep(p) ==
  /\ OpenStep(p) \/ HistoryStep(p)
  /\ UNCHANGED <<settings, local>>

Next ==
  \/ \E p \in Processes : Boot(p) \/ Serve(p) \/ End(p) \/ DatabaseStep(p)
  \/ SettingsStep
  \/ Outage

Spec == Init /\ [][Next]_vars

-----------------------------------------------------------------------------
\* Every variable of the processes and of what they share has its type.
TypeOK ==
  /\ SettingsTypeOK /\ DatabaseTypeOK
  /\ scenario \in Scenarios
  /\ \A p \in Processes : Policy(p) \in Policies
  /\ life \in [Processes -> {"down", "opening", "up"}]
  /\ starts \in 0 .. scenario.starts
=============================================================================
