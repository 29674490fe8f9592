--------------------------- MODULE MessageBusProofs ---------------------------
(***************************************************************************)
(* Proofs about MessageBus for any number of queues, producers and pushes. *)
(*                                                                         *)
(* BusInv strengthens the stated invariants: a finished coroutine or a     *)
(* returned thread means stop_ is set; a finished coroutine's thread is on *)
(* its way out; and the argument about stranded threads must already hold  *)
(* in the window "block", where the notification is missed.                *)
(***************************************************************************)
EXTENDS MessageBus, TLAPS

\* Why thread q may be (about to be) asleep with its predicate true.
Excused(q) ==
  \/ q \in missed
  \/ \E p \in Producer : producer[p] # Nobody
  \/ stop_pc = "notify"

BusInv ==
  /\ TypeOK
  /\ \A q \in finished : stop_ /\ pc[q] \in {"head", "return"}
  /\ \A q \in Queue : pc[q] = "return" => stop_
  /\ main # "start" => \A q \in Queue : pc[q] = "return"
  /\ \A q \in Queue : pc[q] \in {"block", "sleep"} /\ WaitPredicate(q) => Excused(q)

-------------------------------------------------------------------------------
\* Every initial state of the bus satisfies the invariant.
LEMMA BusInvInit ==
  ASSUME Init
  PROVE  BusInv
<1> USE BusAssumption DEF Init
<1>1. stop_ \in BOOLEAN
  BY Zenon
<1>2. TypeOK
  BY <1>1 DEF TypeOK, ThreadState
<1>3. QED
  BY <1>2 DEF BusInv

\* A notify_all keeps the excuse: whom it does not wake, it marks as missed.
LEMMA NotifyKeeps ==
  ASSUME BusInv, NotifyAll, UNCHANGED <<enqueued, dequeued, stop_, finished, main>>
  PROVE  /\ pc' \in [Queue -> ThreadState]
         /\ missed' \in SUBSET Queue
         /\ \A q \in Queue : pc'[q] = "return" <=> pc[q] = "return"
         /\ \A q \in Queue : pc[q] \in {"head", "return"} => pc'[q] = pc[q]
         /\ \A q \in Queue : pc'[q] \in {"block", "sleep"} => q \in missed'
BY DEF BusInv, TypeOK, ThreadState, NotifyAll

\* The steps outside the dispatch threads preserve BusInv.
LEMMA EnvironmentStep ==
  ASSUME BusInv,
         \/ \E p \in Producer : PushNotify(p) \/ \E q \in Queue : PushEnqueue(p, q)
         \/ StopSet \/ StopNotify \/ StartReturns \/ Destroy
  PROVE  BusInv'
<1> USE BusAssumption
<1>1. ASSUME NEW p \in Producer, NEW q \in Queue, PushEnqueue(p, q)
      PROVE  BusInv'
  BY <1>1 DEF BusInv, TypeOK, PushEnqueue, WaitPredicate, Excused
<1>2. ASSUME NEW p \in Producer, PushNotify(p)
      PROVE  BusInv'
  <2>1. TypeOK'
    BY <1>2, NotifyKeeps DEF BusInv, TypeOK, PushNotify
  <2>2. QED
    BY <1>2, <2>1, NotifyKeeps DEF BusInv, TypeOK, PushNotify, Excused
<1>3. CASE StopSet
  BY <1>3 DEF BusInv, TypeOK, StopSet, WaitPredicate, Excused
<1>4. CASE StopNotify
  <2>1. TypeOK'
    BY <1>4, NotifyKeeps DEF BusInv, TypeOK, StopNotify
  <2>2. QED
    BY <1>4, <2>1, NotifyKeeps DEF BusInv, TypeOK, StopNotify, Excused
<1>5. CASE StartReturns
  BY <1>5 DEF BusInv, TypeOK, StartReturns, WaitPredicate, Excused
<1>6. CASE Destroy
  BY <1>6 DEF BusInv, TypeOK, Destroy, WaitPredicate, Excused
<1>7. QED
  BY <1>1, <1>2, <1>3, <1>4, <1>5, <1>6

\* The steps of a dispatch thread preserve BusInv.
LEMMA ThreadStep ==
  ASSUME BusInv, NEW q \in Queue, Start(q) \/ Run(q) \/ SpuriousWake(q)
  PROVE  BusInv'
<1> USE BusAssumption DEF BusInv, TypeOK, ThreadState, WaitPredicate, Excused, Goto
<1>1. CASE Start(q)
  BY <1>1 DEF Start
<1>2. CASE DispatchLoop(q)
  BY <1>2 DEF DispatchLoop
<1>3. CASE DispatchOne(q)
  BY <1>3 DEF DispatchOne
<1>4. CASE DispatchSuspend(q)
  BY <1>4 DEF DispatchSuspend
<1>5. CASE RunHead(q)
  BY <1>5 DEF RunHead
<1>6. CASE RunLock(q)
  BY <1>6 DEF RunLock
<1>7. CASE RunProceed(q)
  BY <1>7 DEF RunProceed
<1>8. CASE RunBlock(q)
  BY <1>8 DEF RunBlock
<1>9. CASE RunSleep(q)
  BY <1>9 DEF RunSleep
<1>10. CASE SpuriousWake(q)
  BY <1>10 DEF SpuriousWake
<1>11. CASE RunResume(q)
  BY <1>11 DEF RunResume
<1>12. QED
  BY <1>1, <1>2, <1>3, <1>4, <1>5, <1>6, <1>7, <1>8, <1>9, <1>10, <1>11 DEF Run

\* Every step of the bus preserves the invariant.
LEMMA BusInvStep ==
  ASSUME BusInv, [Next]_vars
  PROVE  BusInv'
<1>1. CASE UNCHANGED vars
  BY <1>1 DEF vars, BusInv, TypeOK, WaitPredicate, Excused
<1>2. QED
  BY <1>1, EnvironmentStep, ThreadStep DEF Next

\* The inductive invariant of the bus holds in every reachable state.
LEMMA BusInvAlways == Spec => []BusInv
BY BusInvInit, BusInvStep, PTL DEF Spec

-------------------------------------------------------------------------------
\* Type correctness of the bus.
THEOREM BusTypeCorrect == Spec => []TypeOK
<1>1. BusInv => TypeOK
  BY DEF BusInv
<1>2. QED
  BY <1>1, BusInvAlways, PTL

\* run() never resumes a dispatch_message coroutine that has ended.
THEOREM FinishedStaysFinished == Spec => []NeverResumeFinished
<1>1. BusInv => NeverResumeFinished
  BY DEF BusInv, NeverResumeFinished
<1>2. QED
  BY <1>1, BusInvAlways, PTL

\* The window between predicate and sleep is the only way for a dispatch
\* thread to sleep on a non-empty queue or on a stopped bus.
THEOREM OnlyTheWindowStrands == Spec => []StrandedOnlyByWindow
<1>1. BusInv => StrandedOnlyByWindow
  BY DEF BusInv, StrandedOnlyByWindow, Excused
<1>2. QED
  BY <1>1, BusInvAlways, PTL

\* start() returns only after stop().
THEOREM StartReturnsAfterStop == Spec => []StartNeedsStop
<1>1. BusInv => StartNeedsStop
  BY BusAssumption DEF BusInv, StartNeedsStop
<1>2. QED
  BY <1>1, BusInvAlways, PTL

\* All of it together, for any queues and producers.
THEOREM SleepIsSound == Spec => []SleepSound
  BY BusTypeCorrect, OnlyTheWindowStrands, StartReturnsAfterStop, PTL DEF SleepSound
===============================================================================
