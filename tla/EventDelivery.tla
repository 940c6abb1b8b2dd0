---------------------------- MODULE EventDelivery ----------------------------
(***************************************************************************)
(* eventDispatcher (internal/diagnostics/event_delivery.go): the bounded   *)
(* queue between one diagnosis and the consumer of its progress events.    *)
(*                                                                         *)
(* Two goroutines: the producer is Diagnose, which emits events through    *)
(* the sink and at the end calls close(); the consumer is run(), which     *)
(* calls the external sink.  The external sink may be slow, may panic and  *)
(* may never return.  Events are numbered in the order they are emitted;   *)
(* an overflow notice is represented by the count it carries.              *)
(***************************************************************************)
EXTENDS Naturals, Sequences, FiniteSets

CONSTANTS Capacity,   \* defaultEventQueueCapacity
          MinEvents,  \* every run emits run_started and run_completed
          MaxEvents   \* bound on the events one run emits

ASSUME CapacityAssumption == Capacity \in Nat \ {0}
ASSUME EventsAssumption == /\ MinEvents \in Nat
                           /\ MaxEvents \in Nat

VARIABLES
  planned,    \* how many events this run emits
  emitted,    \* events emitted so far: the producer's position
  queue,      \* eventDispatcher.queue
  closed,     \* eventDispatcher.closed, and the queue's channel is closed
  dropped,    \* eventDispatcher.dropped
  announced,  \* eventDispatcher.announced
  panics,     \* eventDispatcher.panics
  producer,   \* where Diagnose is: emitting, in close(), returned
  consumer,   \* where run() is
  stats,      \* the EventDeliveryStats returned by close()
  handed,     \* history: the events the external sink was called with
  notices     \* history: the counts of the overflow notices it was called with

vars == <<planned, emitted, queue, closed, dropped, announced, panics, producer,
          consumer, stats, handed, notices>>

-----------------------------------------------------------------------------
Events == 1 .. MaxEvents

\* Before close() has taken its snapshot of the counters.
NoStats == [dropped |-> 0, panics |-> 0, timedOut |-> FALSE]

Init ==
  /\ planned \in MinEvents .. MaxEvents
  /\ emitted = 0
  /\ queue = <<>>
  /\ closed = FALSE
  /\ dropped = 0
  /\ announced = 0
  /\ panics = 0
  /\ producer = "emitting"
  /\ consumer = "receive"
  /\ stats = NoStats
  /\ handed = {}
  /\ notices = <<>>

-----------------------------------------------------------------------------
(* The producer.                                                           *)

\* Mutant of Emit: a dropped event is not counted.
EmitUncounted ==
  /\ producer = "emitting"
  /\ emitted < planned
  /\ emitted' = emitted + 1
  /\ queue' = IF Len(queue) = Capacity THEN queue ELSE Append(queue, emitted + 1)
  /\ UNCHANGED <<planned, closed, dropped, announced, panics, producer, consumer,
                 stats, handed, notices>>

\* emit: a full queue drops the event; nothing here waits for the consumer.
Emit ==
  /\ producer = "emitting"
  /\ emitted < planned
  /\ emitted' = emitted + 1
  /\ IF closed \/ Len(queue) = Capacity
       THEN dropped' = dropped + 1 /\ UNCHANGED queue
       ELSE queue' = Append(queue, emitted + 1) /\ UNCHANGED dropped
  /\ UNCHANGED <<planned, closed, announced, panics, producer, consumer, stats,
                 handed, notices>>

\* close: no more events, let the consumer drain the queue.
CloseQueue ==
  /\ producer = "emitting"
  /\ emitted = planned
  /\ closed' = TRUE
  /\ producer' = "draining"
  /\ UNCHANGED <<planned, emitted, queue, dropped, announced, panics, consumer, stats,
                 handed, notices>>

\* close: the consumer finished first ...
Drained ==
  /\ producer = "draining"
  /\ consumer = "done"
  /\ producer' = "drained"
  /\ UNCHANGED <<planned, emitted, queue, closed, dropped, announced, panics, consumer,
                 stats, handed, notices>>

\* Mutants of DrainTimedOut: the queued events are not counted, and the timer is
\* only started once the queue is empty.
DrainTimedOutInHand ==
  /\ producer = "draining"
  /\ dropped' = dropped + 1
  /\ producer' = "timedOut"
  /\ UNCHANGED <<planned, emitted, queue, closed, announced, panics, consumer, stats,
                 handed, notices>>
DrainTimedOutWhenEmpty ==
  /\ producer = "draining"
  /\ queue = <<>>
  /\ dropped' = dropped + 1
  /\ producer' = "timedOut"
  /\ UNCHANGED <<planned, emitted, queue, closed, announced, panics, consumer, stats,
                 handed, notices>>

\* ... or the timer fired, which select may prefer even when both are ready.
\* What is queued is written off, and one more for the event being handled.
DrainTimedOut ==
  /\ producer = "draining"
  /\ dropped' = dropped + Len(queue) + 1
  /\ producer' = "timedOut"
  /\ UNCHANGED <<planned, emitted, queue, closed, announced, panics, consumer, stats,
                 handed, notices>>

\* close: read the counters under a second acquisition of the mutex.
ReturnStats ==
  /\ producer \in {"drained", "timedOut"}
  /\ stats' = [dropped |-> dropped, panics |-> panics,
               timedOut |-> producer = "timedOut"]
  /\ producer' = "returned"
  /\ UNCHANGED <<planned, emitted, queue, closed, dropped, announced, panics, consumer,
                 handed, notices>>

-----------------------------------------------------------------------------
(* The consumer goroutine.                                                 *)

\* run: receive an event and call the external sink with it.
Receive ==
  /\ consumer = "receive"
  /\ queue # <<>>
  /\ handed' = handed \cup {Head(queue)}
  /\ queue' = Tail(queue)
  /\ consumer' = "sink"
  /\ UNCHANGED <<planned, emitted, closed, dropped, announced, panics, producer, stats,
                 notices>>

\* run: the channel is closed and empty.
ReceiveEnd ==
  /\ consumer = "receive"
  /\ queue = <<>>
  /\ closed
  /\ consumer' = "lastNotice"
  /\ UNCHANGED <<planned, emitted, queue, closed, dropped, announced, panics, producer,
                 stats, handed, notices>>

\* deliver: the external sink returns or panics; a panic is recovered.
SinkReturns ==
  /\ consumer \in {"sink", "noticeSink", "lastSink"}
  /\ panics' \in {panics, panics + 1}
  /\ consumer' = CASE consumer = "sink" -> "notice"
                   [] consumer = "noticeSink" -> "receive"
                   [] consumer = "lastSink" -> "done"
  /\ UNCHANGED <<planned, emitted, queue, closed, dropped, announced, producer, stats,
                 handed, notices>>

\* deliverOverflowNotice when nothing was dropped since the last notice.
NoNotice ==
  /\ consumer \in {"notice", "lastNotice"}
  /\ dropped = announced
  /\ consumer' = IF consumer = "notice" THEN "receive" ELSE "done"
  /\ UNCHANGED <<planned, emitted, queue, closed, dropped, announced, panics, producer,
                 stats, handed, notices>>

\* deliverOverflowNotice otherwise: call the external sink with the total.
Notice ==
  /\ consumer \in {"notice", "lastNotice"}
  /\ dropped # announced
  /\ announced' = dropped
  /\ notices' = Append(notices, dropped)
  /\ consumer' = IF consumer = "notice" THEN "noticeSink" ELSE "lastSink"
  /\ UNCHANGED <<planned, emitted, queue, closed, dropped, panics, producer, stats, handed>>

-----------------------------------------------------------------------------
\* Diagnose has returned and run has ended.
Terminated ==
  /\ producer = "returned"
  /\ consumer = "done"
  /\ UNCHANGED vars

ProducerStep == Emit \/ CloseQueue \/ Drained \/ DrainTimedOut \/ ReturnStats
ConsumerStep == Receive \/ ReceiveEnd \/ SinkReturns \/ NoNotice \/ Notice

Next == ProducerStep \/ ConsumerStep \/ Terminated

Spec == Init /\ [][Next]_vars

\* The diagnosis goes on and the drain timer fires.  Nothing is assumed of the
\* consumer: its sink may block for ever.
ProducerSpec == Spec /\ WF_vars(ProducerStep)

-----------------------------------------------------------------------------
\* Every variable has its type, and the queue never exceeds its capacity
\* (newEventDispatcher makes the channel, emit never grows it).
TypeOK ==
  /\ planned \in MinEvents .. MaxEvents
  /\ emitted \in 0 .. planned
  /\ queue \in Seq(Events)
  /\ Len(queue) <= Capacity
  /\ closed \in BOOLEAN
  /\ dropped \in Nat
  /\ announced \in Nat
  /\ panics \in Nat
  /\ producer \in {"emitting", "draining", "drained", "timedOut", "returned"}
  /\ consumer \in {"receive", "sink", "notice", "noticeSink", "lastNotice",
                   "lastSink", "done"}
  /\ stats \in [dropped : Nat, panics : Nat, timedOut : BOOLEAN]
  /\ handed \in SUBSET Events
  /\ notices \in Seq(Nat)

\* A complete drain is reported exactly: each emitted event was either handed
\* to the sink or counted as dropped, every panic is counted, and if anything
\* was dropped the last notice the sink saw carries the reported count (emit,
\* run, close; runtime-resilience.md: "Dropped events, consumer panics, and an
\* incomplete drain are recorded").
CompleteDrainIsExact ==
  producer = "returned" /\ ~stats.timedOut =>
    /\ stats.dropped + Cardinality(handed) = emitted
    /\ stats.panics = panics
    /\ stats.dropped > 0 => notices # <<>> /\ notices[Len(notices)] = stats.dropped

\* Overflow notices carry totals that only grow, and never announce an event
\* that was not dropped (deliverOverflowNotice).
NoticesGrow ==
  \A i \in 1 .. Len(notices) :
    /\ notices[i] <= dropped
    /\ \A j \in 1 .. i - 1 : notices[j] < notices[i]

\* The dispatcher implements the promise of LossyProgress.
Promise == INSTANCE LossyProgress WITH
             finished <- producer = "returned",
             reported <- stats.dropped
PromiseSpec == Promise!Spec

\* A stalled consumer cannot block the engine: emitting and close() end even
\* when the sink never returns (emit's default case, close's timer).
DiagnosisReturns == <>(producer = "returned")

\* Provided its sink returns, the consumer goroutine ends once the queue is
\* closed, also after a timed-out drain: no goroutine is left behind (run).
ConsumerEnds == WF_vars(ConsumerStep) => (closed ~> consumer = "done")

\* Neither side of the queue is left waiting for the other: the diagnosis returns
\* whatever the consumer does, and the consumer ends once the queue is closed.
BothSidesEnd == DiagnosisReturns /\ ConsumerEnds
=============================================================================
