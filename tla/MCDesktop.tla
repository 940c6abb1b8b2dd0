------------------------------ MODULE MCDesktop ------------------------------
(* Sessions of a user for TLC to run Desktop with: what the user does, how *)
(* often, and whether another process meddles with the exported file.      *)
EXTENDS Desktop

CONSTANTS typed, stored, wrong,    \* targets: a good one, the history's, one refused
          old                      \* and one in the history that is no profile

MCTargets == {typed, wrong}
MCStored == {Diagnosis(0, stored), Diagnosis(0, old)}
Config(language, n) == [language |-> language, n |-> n]
English == Config("en", 1)
MCConfigs == {English, Config("ru", 1)}

Session(commands, budget, foreigners) ==
  [commands |-> commands, budget |-> budget, active |-> English, foreign |-> foreigners]

Diagnosing == Session({"run", "edit", "cancel", "about", "close"}, 4, 0)
Profiled == Session({"run", "edit", "profile", "profiles"}, 4, 0)
Reading == Session({"history", "open", "rerun", "run", "edit"}, 4, 0)
Removing == Session({"history", "mutate"}, 3, 0)
Configuring == Session({"settings", "change", "save", "diagnose"}, 6, 0)
Exporting == Session({"run", "edit", "export last", "about"}, 4, 1)
ExportingStored == Session({"history", "export"}, 2, 0)

MCSetups == {Diagnosing, Profiled, Reading, Removing, Configuring, Exporting, ExportingStored}
=============================================================================
