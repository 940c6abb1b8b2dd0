---------------------------- MODULE MCLocalState ----------------------------
(* Scenarios for TLC to run LocalState in.                                 *)
EXTENDS LocalState

CONSTANTS desktop, cli, first, second, factory, verbose, private

\* Both savers belong to the desktop application: the CLI saves no settings.
DesktopOwner(t) == desktop

Levels(c) == IF c = factory THEN "info" ELSE "debug"
Limits(c) == CASE c = factory -> 2 [] c = verbose -> 1 [] OTHER -> 0

Both(d, c) == [p \in Processes |-> IF p = desktop THEN d ELSE c]

\* Two processes start on a database of any release and end at any moment.
Upgrading == [policy |-> Both("default", "default"), jobs |-> Both({}, {}),
              platforms |-> {FALSE}, files |-> {"absent"},
              schemas |-> 0 .. Current + 1, power |-> FALSE,
              starts |-> 3, saves |-> 0, runs |-> 0]

\* Settings are saved by two goroutines, on both platforms, through crashes and
\* losses of power.
Saving == [policy |-> Both("no-history", "ephemeral"), jobs |-> Both({"save"}, {"save"}),
           platforms |-> BOOLEAN, files |-> Configs \cup {"absent"}, schemas |-> {0}, power |-> TRUE,
           starts |-> 2, saves |-> 2, runs |-> 0]

\* Runs of two processes, one of which may have failed to load its limit, are
\* stored, listed and removed.
Sharing == [policy |-> Both("default", "default"),
            jobs |-> Both({"diagnose", "list"}, {"diagnose", "delete"}),
            platforms |-> {FALSE}, files |-> {verbose}, schemas |-> {Current}, power |-> FALSE,
            starts |-> 2, saves |-> 0, runs |-> 3]

AllScenarios == {Upgrading, Saving, Sharing}
OnlySaving == {Saving}
=============================================================================
