---------------------------- MODULE LossyProgress ----------------------------
(***************************************************************************)
(* What the dispatcher of event_delivery.go amounts to for one run         *)
(* (docs/runtime-resilience.md, "Adapter and event delivery contract"):    *)
(* events are numbered in the order the run emits them, the consumer is    *)
(* handed a subsequence of them in that order, and the count of dropped    *)
(* events recorded with the diagnosis never understates how many the       *)
(* consumer was not handed.                                                *)
(***************************************************************************)
EXTENDS Naturals, FiniteSets

VARIABLES emitted,   \* how many events the run has emitted
          handed,    \* the events the consumer was handed
          finished,  \* the run has returned its report
          reported   \* the number of dropped events it reported

vars == <<emitted, handed, finished, reported>>

Init ==
  /\ emitted = 0
  /\ handed = {}
  /\ finished = FALSE
  /\ reported = 0

\* emit, whatever becomes of the event.
Emit ==
  /\ ~finished
  /\ emitted' = emitted + 1
  /\ UNCHANGED <<handed, finished, reported>>

\* run and deliver: any event later than every event handed before; those between are lost.
Hand(e) ==
  /\ \A h \in handed : h < e
  /\ handed' = handed \cup {e}
  /\ UNCHANGED <<emitted, finished, reported>>

\* close: at most one more than was emitted: the consumer may hold one, or none.
Report(n) ==
  /\ ~finished
  /\ n + Cardinality(handed) >= emitted
  /\ finished' = TRUE
  /\ reported' = n
  /\ UNCHANGED <<emitted, handed>>

Next == \/ Emit
        \/ \E e \in 1 .. emitted : Hand(e)
        \/ \E n \in 0 .. emitted + 1 : Report(n)

Spec == Init /\ [][Next]_vars
=============================================================================
