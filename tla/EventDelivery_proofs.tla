------------------------ MODULE EventDelivery_proofs ------------------------
(***************************************************************************)
(* Proofs about EventDelivery for every capacity and every number of       *)
(* events: the type invariant, the accounts of the queue, and that the     *)
(* dispatcher implements LossyProgress.                                    *)
(***************************************************************************)
EXTENDS EventDelivery, FiniteSetTheorems, TLAPS

USE CapacityAssumption, EventsAssumption

\* The producer has closed the queue, and not before.
ClosedByProducer == closed <=> producer # "emitting"

\* What the sink was handed lies behind the queue, which is in emission order.
QueueOrdered ==
  /\ \A h \in handed : h \in 1 .. emitted
  /\ \A i \in 1 .. Len(queue) :
       /\ queue[i] \in 1 .. emitted
       /\ \A h \in handed : h < queue[i]
       /\ \A j \in 1 .. i - 1 : queue[j] < queue[i]

\* The drain of this run was given up.
GaveUp == producer = "timedOut" \/ (producer = "returned" /\ stats.timedOut)

\* Every emitted event is in exactly one of three places, until a timed-out
\* drain counts those in the queue, and one more, as dropped.
Accounts ==
  /\ IsFiniteSet(handed)
  /\ ~GaveUp => dropped + Cardinality(handed) + Len(queue) = emitted
  /\ GaveUp => dropped + Cardinality(handed) >= emitted /\ dropped <= emitted + 1

\* When the consumer ends, it has emptied the queue and announced every drop.
ConsumerAtEnd ==
  /\ consumer \in {"lastNotice", "lastSink", "done"} => closed /\ queue = <<>>
  /\ consumer \in {"lastSink", "done"} /\ ~GaveUp => announced = dropped
  /\ producer = "drained" => consumer = "done"
  /\ producer = "returned" /\ ~stats.timedOut => consumer = "done" /\ stats.panics = panics
  /\ producer = "returned" => stats.dropped = dropped

\* The notices form an increasing sequence that ends with the announced count.
Announcements ==
  /\ announced <= dropped
  /\ announced > 0 => notices # <<>>
  /\ notices # <<>> => notices[Len(notices)] = announced
  /\ \A i \in 1 .. Len(notices) :
       /\ notices[i] <= announced
       /\ \A j \in 1 .. i - 1 : notices[j] < notices[i]

IInv == TypeOK /\ ClosedByProducer /\ QueueOrdered /\ Accounts /\ ConsumerAtEnd
          /\ Announcements

-----------------------------------------------------------------------------
\* Counting the set of handed events: one more after a new event is handed.
LEMMA HandOne ==
  ASSUME NEW S, IsFiniteSet(S), NEW e, e \notin S
  PROVE  /\ IsFiniteSet(S \cup {e})
         /\ Cardinality(S) \in Nat
         /\ Cardinality(S \cup {e}) = Cardinality(S) + 1
BY FS_AddElement, FS_CardinalityType

\* The parts of the invariant hold before the first event.
LEMMA InitIInv == Init => IInv
<1> SUFFICES ASSUME Init PROVE IInv OBVIOUS
<1> USE DEF Init
<1>1. TypeOK
  <2>1. planned \in MinEvents .. MaxEvents /\ emitted \in 0 .. planned OBVIOUS
  <2>2. queue \in Seq(Events) /\ Len(queue) <= Capacity /\ notices \in Seq(Nat) OBVIOUS
  <2>3. stats \in [dropped : Nat, panics : Nat, timedOut : BOOLEAN] BY DEF NoStats
  <2> QED BY <2>1, <2>2, <2>3 DEF TypeOK
<1>2. ClosedByProducer BY DEF ClosedByProducer
<1>3. QueueOrdered BY DEF QueueOrdered
<1>4. Accounts BY FS_EmptySet DEF Accounts, GaveUp
<1>5. ConsumerAtEnd BY DEF ConsumerAtEnd
<1>6. Announcements BY DEF Announcements
<1> QED BY <1>1, <1>2, <1>3, <1>4, <1>5, <1>6 DEF IInv

\* No step of either goroutine breaks a type.
LEMMA NextTypeOK == TypeOK /\ [Next]_vars => TypeOK'
<1> SUFFICES ASSUME TypeOK, [Next]_vars PROVE TypeOK' OBVIOUS
<1> USE DEF TypeOK
<1>1. CASE Emit
  <2> USE <1>1 DEF Emit, Events
  <2>1. emitted' \in 0 .. planned' /\ planned' \in MinEvents .. MaxEvents OBVIOUS
  <2>2. emitted + 1 \in Events OBVIOUS
  <2>3. queue' \in Seq(Events) /\ Len(queue') <= Capacity /\ dropped' \in Nat
    <3>1. CASE closed \/ Len(queue) = Capacity BY <3>1
    <3>2. CASE ~(closed \/ Len(queue) = Capacity)
      <4>1. queue' = Append(queue, emitted + 1) /\ UNCHANGED dropped BY <3>2
      <4> QED BY <4>1, <3>2, <2>2 DEF Events
    <3> QED BY <3>1, <3>2
  <2> QED BY <2>1, <2>3
<1>2. CASE CloseQueue BY <1>2 DEF CloseQueue
<1>3. CASE Drained BY <1>3 DEF Drained
<1>4. CASE DrainTimedOut BY <1>4 DEF DrainTimedOut
<1>5. CASE ReturnStats BY <1>5 DEF ReturnStats
<1>6. CASE Receive BY <1>6 DEF Receive
<1>7. CASE ReceiveEnd BY <1>7 DEF ReceiveEnd
<1>8. CASE SinkReturns BY <1>8 DEF SinkReturns
<1>9. CASE NoNotice BY <1>9 DEF NoNotice
<1>10. CASE Notice BY <1>10 DEF Notice
<1>11. CASE UNCHANGED vars BY <1>11 DEF vars
<1> QED BY <1>1, <1>2, <1>3, <1>4, <1>5, <1>6, <1>7, <1>8, <1>9, <1>10, <1>11
        DEF Next, ProducerStep, ConsumerStep, Terminated

\* Nor the invariant: each case names the parts the action can disturb.
LEMMA NextIInv == IInv /\ [Next]_vars => IInv'
<1> SUFFICES ASSUME IInv, [Next]_vars PROVE IInv' OBVIOUS
<1>0. TypeOK' BY NextTypeOK DEF IInv
<1>0a. Cardinality(handed) \in Nat BY FS_CardinalityType DEF IInv, Accounts
<1> USE <1>0, <1>0a DEF IInv, GaveUp
<1>1. CASE Emit
  <2>0. /\ producer = "emitting" /\ UNCHANGED <<closed, announced, panics, producer, consumer, stats>>
        /\ UNCHANGED <<handed, notices>> /\ emitted' = emitted + 1
        /\ \/ queue' = queue /\ dropped' = dropped + 1
           \/ queue' = Append(queue, emitted + 1) /\ dropped' = dropped
    BY <1>1 DEF Emit
  <2>1. /\ queue \in Seq(Events) /\ emitted \in Nat /\ dropped \in Nat /\ announced \in Nat
        /\ Len(queue) \in Nat
    BY DEF TypeOK
  <2>2. ~GaveUp /\ ~GaveUp' BY <2>0
  <2>3. QueueOrdered'
    <3>1. CASE queue' = queue BY <3>1, <2>0, <2>1 DEF QueueOrdered
    <3>2. CASE queue' = Append(queue, emitted + 1)
      <4>1. \A i \in 1 .. Len(queue') :
              \/ i \in 1 .. Len(queue) /\ queue'[i] = queue[i]
              \/ i = Len(queue) + 1 /\ queue'[i] = emitted + 1
        BY <3>2, <2>1
      <4>2. \A h \in handed : h \in 1 .. emitted' /\ h < emitted + 1
        BY <2>0, <2>1 DEF QueueOrdered
      <4>3. ASSUME NEW i \in 1 .. Len(queue')
            PROVE  /\ queue'[i] \in 1 .. emitted'
                   /\ \A h \in handed : h < queue'[i]
                   /\ \A j \in 1 .. i - 1 : queue'[j] < queue'[i]
        <5>1. CASE i \in 1 .. Len(queue) /\ queue'[i] = queue[i]
          <6>1. \A j \in 1 .. i - 1 : queue'[j] = queue[j] /\ j \in 1 .. Len(queue)
            BY <5>1, <4>1, <2>1
          <6> QED BY <5>1, <6>1, <2>0, <2>1 DEF QueueOrdered
        <5>2. CASE i = Len(queue) + 1 /\ queue'[i] = emitted + 1
          <6>1. \A j \in 1 .. i - 1 : queue'[j] = queue[j] /\ queue[j] \in 1 .. emitted
            BY <5>2, <4>1, <2>1, <4>3, SMTT(20) DEF QueueOrdered
          <6> QED BY <5>2, <6>1, <4>2, <2>0, <2>1
        <5> QED BY <5>1, <5>2, <4>1
      <4> QED BY <4>2, <4>3, <2>0 DEF QueueOrdered
    <3> QED BY <2>0, <3>1, <3>2
  <2>4. Accounts'
    <3>1. handed' = handed /\ emitted' = emitted + 1 BY <2>0
    <3>2. dropped + Cardinality(handed) + Len(queue) = emitted /\ IsFiniteSet(handed)
      BY <2>2 DEF Accounts
    <3>3. dropped' + Cardinality(handed') + Len(queue') = emitted'
      <4>1. CASE queue' = queue /\ dropped' = dropped + 1 BY <4>1, <3>1, <3>2, <2>1
      <4>2. CASE queue' = Append(queue, emitted + 1) /\ dropped' = dropped
        <5>1. Len(queue') = Len(queue) + 1 BY <4>2, <2>1
        <5> QED BY <4>2, <5>1, <3>1, <3>2, <2>1
      <4> QED BY <4>1, <4>2, <2>0
    <3> QED BY <2>2, <3>1, <3>2, <3>3 DEF Accounts
  <2>5. ClosedByProducer' BY <2>0 DEF ClosedByProducer
  <2>6. ConsumerAtEnd' BY <2>0 DEF ConsumerAtEnd, ClosedByProducer
  <2>7. Announcements' BY <2>0, <2>1 DEF Announcements
  <2> QED BY <2>3, <2>4, <2>5, <2>6, <2>7
<1>2. CASE CloseQueue
  <2> USE <1>2 DEF CloseQueue, TypeOK
  <2>1. ClosedByProducer' BY DEF ClosedByProducer
  <2>2. QueueOrdered' BY DEF QueueOrdered
  <2>3. Accounts' BY DEF Accounts
  <2>4. ConsumerAtEnd' BY DEF ConsumerAtEnd
  <2>5. Announcements' BY DEF Announcements
  <2> QED BY <2>1, <2>2, <2>3, <2>4, <2>5
<1>3. CASE Drained
  <2> USE <1>3 DEF Drained, TypeOK
  <2>1. ClosedByProducer' BY DEF ClosedByProducer
  <2>2. QueueOrdered' BY DEF QueueOrdered
  <2>3. Accounts' BY DEF Accounts
  <2>4. ConsumerAtEnd' BY DEF ConsumerAtEnd
  <2>5. Announcements' BY DEF Announcements
  <2> QED BY <2>1, <2>2, <2>3, <2>4, <2>5
<1>4. CASE DrainTimedOut
  <2> USE <1>4 DEF DrainTimedOut, TypeOK
  <2>1. ClosedByProducer' BY DEF ClosedByProducer
  <2>2. QueueOrdered' BY DEF QueueOrdered
  <2>3. Accounts' BY DEF Accounts
  <2>4. ConsumerAtEnd' BY DEF ConsumerAtEnd
  <2>5. Announcements' BY DEF Announcements
  <2> QED BY <2>1, <2>2, <2>3, <2>4, <2>5
<1>5. CASE ReturnStats
  <2> USE <1>5 DEF ReturnStats, TypeOK
  <2>1. ClosedByProducer' BY DEF ClosedByProducer
  <2>2. QueueOrdered' BY DEF QueueOrdered
  <2>3. Accounts' BY DEF Accounts
  <2>4. ConsumerAtEnd' BY DEF ConsumerAtEnd
  <2>5. Announcements' BY DEF Announcements
  <2> QED BY <2>1, <2>2, <2>3, <2>4, <2>5
<1>6. CASE Receive
  <2> USE <1>6 DEF Receive, TypeOK
  <2>1. ClosedByProducer' BY DEF ClosedByProducer
  <2>2. QueueOrdered' BY DEF QueueOrdered
  <2>3. Accounts'
    <3>1. Head(queue) \notin handed
      <4>1. 1 \in 1 .. Len(queue) /\ Head(queue) = queue[1] OBVIOUS
      <4>2. queue[1] \in 1 .. emitted /\ \A h \in handed : h < queue[1] BY <4>1 DEF QueueOrdered
      <4> QED BY <4>1, <4>2
    <3>2. /\ IsFiniteSet(handed')
          /\ Cardinality(handed') = Cardinality(handed) + 1
      BY <3>1, HandOne DEF Accounts
    <3>3. Len(queue') + 1 = Len(queue) /\ Len(queue') \in Nat OBVIOUS
    <3>4. GaveUp' <=> GaveUp OBVIOUS
    <3>5. dropped' = dropped /\ emitted' = emitted /\ dropped \in Nat /\ emitted \in Nat OBVIOUS
    <3> HIDE DEF GaveUp, Receive, TypeOK
    <3> QED BY <3>2, <3>3, <3>4, <3>5 DEF Accounts
  <2>4. ConsumerAtEnd' BY DEF ConsumerAtEnd
  <2>5. Announcements' BY DEF Announcements
  <2> QED BY <2>1, <2>2, <2>3, <2>4, <2>5
<1>7. CASE ReceiveEnd
  <2> USE <1>7 DEF ReceiveEnd, TypeOK
  <2>1. ClosedByProducer' BY DEF ClosedByProducer
  <2>2. QueueOrdered' BY DEF QueueOrdered
  <2>3. Accounts' BY DEF Accounts
  <2>4. ConsumerAtEnd' BY DEF ConsumerAtEnd
  <2>5. Announcements' BY DEF Announcements
  <2> QED BY <2>1, <2>2, <2>3, <2>4, <2>5
<1>8. CASE SinkReturns
  <2> USE <1>8 DEF SinkReturns, TypeOK
  <2>1. ClosedByProducer' BY DEF ClosedByProducer
  <2>2. QueueOrdered' BY DEF QueueOrdered
  <2>3. Accounts' BY DEF Accounts
  <2>4. ConsumerAtEnd' BY DEF ConsumerAtEnd
  <2>5. Announcements' BY DEF Announcements
  <2> QED BY <2>1, <2>2, <2>3, <2>4, <2>5
<1>9. CASE NoNotice
  <2> USE <1>9 DEF NoNotice, TypeOK
  <2>1. ClosedByProducer' BY DEF ClosedByProducer
  <2>2. QueueOrdered' BY DEF QueueOrdered
  <2>3. Accounts' BY DEF Accounts
  <2>4. ConsumerAtEnd' BY DEF ConsumerAtEnd
  <2>5. Announcements' BY DEF Announcements
  <2> QED BY <2>1, <2>2, <2>3, <2>4, <2>5
<1>10. CASE Notice
  <2> USE <1>10 DEF Notice, TypeOK
  <2>1. ClosedByProducer' BY DEF ClosedByProducer
  <2>2. QueueOrdered' BY DEF QueueOrdered
  <2>3. Accounts' BY DEF Accounts
  <2>4. ConsumerAtEnd' BY DEF ConsumerAtEnd
  <2>5. Announcements' BY SMTT(20) DEF Announcements
  <2> QED BY <2>1, <2>2, <2>3, <2>4, <2>5
<1>11. CASE UNCHANGED vars
  BY <1>11 DEF vars, TypeOK, ClosedByProducer, QueueOrdered, Accounts, ConsumerAtEnd,
               Announcements
<1> QED BY <1>1, <1>2, <1>3, <1>4, <1>5, <1>6, <1>7, <1>8, <1>9, <1>10, <1>11
        DEF Next, ProducerStep, ConsumerStep, Terminated

-----------------------------------------------------------------------------
\* In every behaviour every variable has its type and the queue keeps within
\* its capacity (newEventDispatcher, emit).
THEOREM TypeCorrect == Spec => []TypeOK
<1>1. Init => TypeOK BY InitIInv DEF IInv
<1>2. TypeOK /\ [Next]_vars => TypeOK' BY NextTypeOK
<1> QED BY <1>1, <1>2, PTL DEF Spec

\* The strengthening from which the rest follows.
LEMMA Invariance == Spec => []IInv
BY InitIInv, NextIInv, PTL DEF Spec

\* A drain that completes is reported exactly, whatever the consumer did and
\* however many events there were (close, run).
THEOREM CompleteDrain == Spec => []CompleteDrainIsExact
<1>1. IInv => CompleteDrainIsExact
  <2> SUFFICES ASSUME IInv, producer = "returned", ~stats.timedOut
               PROVE  /\ stats.dropped + Cardinality(handed) = emitted
                      /\ stats.panics = panics
                      /\ stats.dropped > 0 =>
                           notices # <<>> /\ notices[Len(notices)] = stats.dropped
    BY DEF CompleteDrainIsExact
  <2> USE DEF IInv
  <2>1. Cardinality(handed) \in Nat BY FS_CardinalityType DEF Accounts
  <2>2. ~GaveUp /\ consumer = "done" /\ stats.panics = panics /\ stats.dropped = dropped
    BY DEF GaveUp, ConsumerAtEnd
  <2>3. queue = <<>> /\ announced = dropped BY <2>2 DEF ConsumerAtEnd
  <2>4. dropped + Cardinality(handed) = emitted
    BY <2>1, <2>2, <2>3 DEF Accounts, TypeOK
  <2> QED BY <2>2, <2>3, <2>4 DEF Announcements
<1> QED BY <1>1, Invariance, PTL

\* The totals that overflow notices carry grow and never exceed what was
\* dropped (deliverOverflowNotice).
THEOREM GrowingNotices == Spec => []NoticesGrow
<1>1. IInv => NoticesGrow
  BY DEF IInv, NoticesGrow, Announcements, TypeOK
<1> QED BY <1>1, Invariance, PTL

-----------------------------------------------------------------------------
\* A step of the dispatcher is a step of the abstract specification: emitting
\* is Emit, receiving is Hand, returning the counters is Report, and every
\* other step is invisible to it.
LEMMA StepSimulation == IInv /\ [Next]_vars => [Promise!Next]_(Promise!vars)
<1> SUFFICES ASSUME IInv, [Next]_vars PROVE [Promise!Next]_(Promise!vars) OBVIOUS
<1> USE DEF Promise!vars, IInv
<1>1. CASE Emit BY <1>1 DEF Emit, Promise!Next, Promise!Emit
<1>2. CASE Receive
  <2>1. Head(queue) \in 1 .. emitted /\ \A h \in handed : h < Head(queue)
    BY <1>2 DEF Receive, QueueOrdered, TypeOK
  <2>2. Promise!Hand(Head(queue)) BY <1>2, <2>1 DEF Receive, Promise!Hand
  <2> QED BY <2>1, <2>2 DEF Promise!Next
<1>3. CASE ReturnStats
  <2>1. Cardinality(handed) \in Nat BY FS_CardinalityType DEF Accounts
  <2>2. dropped \in 0 .. emitted + 1 /\ dropped + Cardinality(handed) >= emitted
    <3>1. CASE producer = "timedOut" BY <3>1, <2>1 DEF Accounts, GaveUp, TypeOK
    <3>2. CASE producer = "drained"
      <4>1. queue = <<>> BY <3>2 DEF ConsumerAtEnd
      <4> QED BY <3>2, <4>1, <2>1 DEF Accounts, GaveUp, TypeOK
    <3> QED BY <1>3, <3>1, <3>2 DEF ReturnStats
  <2>a. Promise!Cardinality(handed) = Cardinality(handed)
    BY DEF Promise!Cardinality, Cardinality
  <2>3. Promise!Report(dropped) BY <2>a, <1>3, <2>2 DEF ReturnStats, Promise!Report
  <2> QED BY <2>2, <2>3 DEF Promise!Next
<1>4. CASE CloseQueue BY <1>4 DEF CloseQueue
<1>5. CASE Drained BY <1>5 DEF Drained
<1>6. CASE DrainTimedOut BY <1>6 DEF DrainTimedOut
<1>7. CASE ReceiveEnd BY <1>7 DEF ReceiveEnd
<1>8. CASE SinkReturns BY <1>8 DEF SinkReturns
<1>9. CASE NoNotice BY <1>9 DEF NoNotice
<1>10. CASE Notice BY <1>10 DEF Notice
<1>11. CASE UNCHANGED vars BY <1>11 DEF vars
<1> QED BY <1>1, <1>2, <1>3, <1>4, <1>5, <1>6, <1>7, <1>8, <1>9, <1>10, <1>11
        DEF Next, ProducerStep, ConsumerStep, Terminated

\* The bounded queue, its timer and its notices keep the promise documented for
\* progress events: an ordered subsequence, and a count of losses that never
\* understates them.
THEOREM KeepsPromise == Spec => PromiseSpec
<1>1. Init => Promise!Init BY DEF Init, NoStats, Promise!Init
<1>2. IInv /\ [Next]_vars => [Promise!Next]_(Promise!vars) BY StepSimulation
<1> QED BY <1>1, <1>2, Invariance, PTL DEF Spec, PromiseSpec, Promise!Spec
=============================================================================
