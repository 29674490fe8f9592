------------------------------ MODULE MessageBus ------------------------------
(***************************************************************************)
(* The two dispatch threads of MessageBus<T> (include/data_proxy/          *)
(* messagebus.h): when they sleep, who wakes them, and how they end.       *)
(*                                                                         *)
(* Both threads wait on one cv_ under one mutex_, each for its own queue.  *)
(* push_message, push_high_priority_message and stop change what the       *)
(* predicate reads and call notify_all without taking mutex_, so a         *)
(* notification can fall between a thread's evaluation of the predicate    *)
(* and its going to sleep (thread state "block"), where nobody hears it.   *)
(*                                                                         *)
(* A queue is abstracted to the numbers of messages enqueued on and        *)
(* dequeued from it: what happens to a message once it is dequeued is the  *)
(* subject of AwaitProtocol.                                               *)
(***************************************************************************)
EXTENDS Naturals

CONSTANTS
  Queue,      \* queue_ and high_priority_queue_; also names the two threads
  Producer,   \* threads that push messages
  MaxPush,    \* bound: messages pushed per queue
  Nobody      \* mutex_ is free

ASSUME BusAssumption == MaxPush \in Nat /\ Nobody \notin Queue /\ Queue # {}

VARIABLES
  enqueued, dequeued,  \* per queue
  mutex_,              \* the thread that holds mutex_, or Nobody
  stop_,               \* std::atomic<bool>
  stop_pc,             \* stop(): "idle", "notify" or "done"
  pc,                  \* where each dispatch thread is in run()
  finished,            \* queues whose dispatch_message coroutine has ended
  producer,            \* Nobody, or the queue whose push still has to notify
  main,                \* the caller of start() and ~MessageBus
  missed               \* history: threads that were in "block" when a
                       \* notify_all ran, and have not woken since

vars == <<enqueued, dequeued, mutex_, stop_, stop_pc, pc, finished, producer,
          main, missed>>

\* "loop": at `while (!stop_)` in dispatch_message; "dequeue": at try_dequeue;
\* "head": at `while (!stop_)` in run; "lock": acquiring mutex_; "check": at
\* the predicate; "block": predicate false, not asleep yet; "sleep";
\* "woken": notified, re-acquiring mutex_; "resume": at co_task.resume().
ThreadState == {"unborn", "loop", "dequeue", "head", "lock", "check", "block",
                "sleep", "woken", "resume", "return"}

Init ==
  /\ enqueued = [q \in Queue |-> 0]
  /\ dequeued = [q \in Queue |-> 0]
  /\ mutex_ = Nobody
  /\ stop_ = FALSE
  /\ stop_pc = "idle"
  /\ pc = [q \in Queue |-> "unborn"]
  /\ finished = {}
  /\ producer = [p \in Producer |-> Nobody]
  /\ main = "start"
  /\ missed = {}

\* Fault: notify_one, on a cv_ that two threads with different predicates share.
NotifyOne ==
  /\ IF \A q \in Queue : pc[q] # "sleep"
     THEN UNCHANGED pc
     ELSE \E q \in Queue : pc[q] = "sleep" /\ pc' = [pc EXCEPT ![q] = "woken"]
  /\ missed' = missed \cup {q \in Queue : pc[q] = "block"}

\* cv_.notify_all(): wakes the sleepers; a thread about to sleep misses it.
NotifyAll ==
  /\ pc' = [q \in Queue |-> IF pc[q] = "sleep" THEN "woken" ELSE pc[q]]
  /\ missed' = missed \cup {q \in Queue : pc[q] = "block"}

\* push_message / push_high_priority_message: enqueue ...
PushEnqueue(p, q) ==
  /\ main # "destroyed"
  /\ producer[p] = Nobody
  /\ enqueued[q] < MaxPush
  /\ enqueued' = [enqueued EXCEPT ![q] = @ + 1]
  /\ producer' = [producer EXCEPT ![p] = q]
  /\ UNCHANGED <<dequeued, mutex_, stop_, stop_pc, pc, finished, main, missed>>

\* ... then notify.
PushNotify(p) ==
  /\ producer[p] # Nobody
  /\ producer' = [producer EXCEPT ![p] = Nobody]
  /\ NotifyAll
  /\ UNCHANGED <<enqueued, dequeued, mutex_, stop_, stop_pc, finished, main>>

\* stop(): the flag, then the notification.
StopSet ==
  /\ main # "destroyed"
  /\ stop_pc = "idle"
  /\ stop_' = TRUE
  /\ stop_pc' = "notify"
  /\ UNCHANGED <<enqueued, dequeued, mutex_, pc, finished, producer, main, missed>>

StopNotify ==
  /\ stop_pc = "notify"
  /\ stop_pc' = "done"
  /\ NotifyAll
  /\ UNCHANGED <<enqueued, dequeued, mutex_, stop_, finished, producer, main>>

\* start() creates the threads; run() first calls dispatch_message, which
\* does not suspend initially.
Start(q) ==
  /\ main = "start"
  /\ pc[q] = "unborn"
  /\ pc' = [pc EXCEPT ![q] = "loop"]
  /\ UNCHANGED <<enqueued, dequeued, mutex_, stop_, stop_pc, finished, producer,
                 main, missed>>

\* Fault: the threads are detached instead of joined.
StartDetaches ==
  /\ main = "start"
  /\ main' = "started"
  /\ UNCHANGED <<enqueued, dequeued, mutex_, stop_, stop_pc, pc, finished,
                 producer, missed>>

\* start() joins both threads and returns.
StartReturns ==
  /\ main = "start"
  /\ \A q \in Queue : pc[q] = "return"
  /\ main' = "started"
  /\ UNCHANGED <<enqueued, dequeued, mutex_, stop_, stop_pc, pc, finished,
                 producer, missed>>

\* ~MessageBus after start(): nothing is left to stop or to join.
Destroy ==
  /\ main = "started"
  /\ stop_pc # "notify"
  /\ \A p \in Producer : producer[p] = Nobody
  /\ main' = "destroyed"
  /\ stop_' = TRUE
  /\ UNCHANGED <<enqueued, dequeued, mutex_, stop_pc, pc, finished, producer,
                 missed>>

\* A step of thread q to state s that touches nothing else.
Goto(q, s) ==
  /\ pc' = [pc EXCEPT ![q] = s]
  /\ UNCHANGED <<enqueued, dequeued, stop_, stop_pc, producer, main>>

(***************************************************************************)
(* dispatch_message, a coroutine that only its own thread resumes.         *)
(***************************************************************************)
DispatchLoop(q) ==
  /\ pc[q] = "loop"
  /\ Goto(q, IF stop_ THEN "head" ELSE "dequeue")
  /\ finished' = IF stop_ THEN finished \cup {q} ELSE finished
  /\ UNCHANGED <<mutex_, missed>>

\* Fault: the result of try_dequeue is ignored.
DispatchUnchecked(q) ==
  /\ pc[q] = "dequeue"
  /\ dequeued' = [dequeued EXCEPT ![q] = @ + 1]
  /\ pc' = [pc EXCEPT ![q] = "loop"]
  /\ UNCHANGED <<enqueued, mutex_, stop_, stop_pc, finished, producer, main,
                 missed>>

\* try_dequeue succeeds: the message goes to its awaits.
DispatchOne(q) ==
  /\ pc[q] = "dequeue"
  /\ dequeued[q] < enqueued[q]
  /\ dequeued' = [dequeued EXCEPT ![q] = @ + 1]
  /\ pc' = [pc EXCEPT ![q] = "loop"]
  /\ UNCHANGED <<enqueued, mutex_, stop_, stop_pc, finished, producer, main,
                 missed>>

\* try_dequeue fails: co_await suspend_always returns to run().
DispatchSuspend(q) ==
  /\ pc[q] = "dequeue"
  /\ dequeued[q] = enqueued[q]
  /\ Goto(q, "head")
  /\ UNCHANGED <<mutex_, finished, missed>>

(***************************************************************************)
(* run(queue).                                                             *)
(***************************************************************************)
\* Fault: `while (true)` in run().
RunForever(q) ==
  /\ pc[q] = "head"
  /\ Goto(q, "lock")
  /\ UNCHANGED <<mutex_, finished, missed>>

RunHead(q) ==
  /\ pc[q] = "head"
  /\ Goto(q, IF stop_ THEN "return" ELSE "lock")
  /\ UNCHANGED <<mutex_, finished, missed>>

\* unique_lock, or the re-locking inside cv_.wait.
RunLock(q) ==
  /\ pc[q] \in {"lock", "woken"}
  /\ mutex_ = Nobody
  /\ mutex_' = q
  /\ Goto(q, "check")
  /\ missed' = missed \ {q}
  /\ UNCHANGED finished

\* Fault: the predicate forgets stop_.
WaitPredicateNoStop(q) == enqueued[q] > dequeued[q]

\* The predicate of cv_.wait.
WaitPredicate(q) == enqueued[q] > dequeued[q] \/ stop_

\* It holds: the wait returns and lk.unlock() follows.
RunProceed(q) ==
  /\ pc[q] = "check"
  /\ WaitPredicate(q)
  /\ mutex_' = Nobody
  /\ Goto(q, "resume")
  /\ UNCHANGED <<finished, missed>>

\* It does not: the thread is on its way to sleep, mutex_ still held.
RunBlock(q) ==
  /\ pc[q] = "check"
  /\ ~WaitPredicate(q)
  /\ Goto(q, "block")
  /\ UNCHANGED <<mutex_, finished, missed>>

\* cv_.wait unlocks mutex_ and sleeps.
RunSleep(q) ==
  /\ pc[q] = "block"
  /\ mutex_' = Nobody
  /\ Goto(q, "sleep")
  /\ UNCHANGED <<finished, missed>>

SpuriousWake(q) ==
  /\ pc[q] = "sleep"
  /\ Goto(q, "woken")
  /\ UNCHANGED <<mutex_, finished, missed>>

\* co_task.resume(): back into the loop of dispatch_message.
RunResume(q) ==
  /\ pc[q] = "resume"
  /\ Goto(q, "loop")
  /\ UNCHANGED <<mutex_, finished, missed>>

Run(q) ==
  \/ DispatchLoop(q) \/ DispatchOne(q) \/ DispatchSuspend(q)
  \/ RunHead(q) \/ RunLock(q) \/ RunProceed(q) \/ RunBlock(q) \/ RunSleep(q)
  \/ RunResume(q)

Next ==
  \/ \E p \in Producer : PushNotify(p) \/ \E q \in Queue : PushEnqueue(p, q)
  \/ \E q \in Queue : Start(q) \/ Run(q) \/ SpuriousWake(q)
  \/ StopSet \/ StopNotify \/ StartReturns \/ Destroy

Spec == Init /\ [][Next]_vars

(***************************************************************************)
(* Fairness.  Threads that exist run; a push or stop() that has begun      *)
(* reaches its notify_all; start() goes on once it can.  RunLock is        *)
(* strongly fair: the other thread holds mutex_ for a few instructions at  *)
(* a time, and only a scheduler that favoured its endless spurious         *)
(* wake-ups could keep a thread out of mutex_ for ever.  Nobody is obliged *)
(* to push or to call stop().                                              *)
(***************************************************************************)
Fairness ==
  /\ \A q \in Queue : WF_vars(Start(q)) /\ WF_vars(Run(q)) /\ SF_vars(RunLock(q))
  /\ \A p \in Producer : WF_vars(PushNotify(p))
  /\ WF_vars(StopNotify) /\ WF_vars(StartReturns)

FairSpec == Spec /\ Fairness
-------------------------------------------------------------------------------
\* Type correctness: the counts of push_message() and try_dequeue() stay in range,
\* the owner of mutex_ is a dispatch thread or nobody, and every thread is at a line of run(), dispatch_message(), start() or stop().
TypeOK ==
  /\ enqueued \in [Queue -> 0..MaxPush] /\ dequeued \in [Queue -> 0..MaxPush]
  /\ mutex_ \in Queue \cup {Nobody}
  /\ stop_ \in BOOLEAN
  /\ stop_pc \in {"idle", "notify", "done"}
  /\ pc \in [Queue -> ThreadState]
  /\ finished \in SUBSET Queue
  /\ producer \in [Producer -> Queue \cup {Nobody}]
  /\ main \in {"start", "started", "destroyed"}
  /\ missed \in SUBSET Queue

\* run() never resumes its dispatch_message coroutine after it has ended (its
\* frame is gone: final_suspend does not suspend): the coroutine ends only on
\* stop_, which run() tests again before every wait.
NeverResumeFinished ==
  \A q \in Queue : pc[q] \in {"loop", "dequeue", "lock", "check", "block",
                              "sleep", "woken", "resume"} => q \notin finished

\* A dispatch thread sleeps although it has messages, or although the bus is
\* stopped, only if the notification is still to come or the thread was
\* between predicate and sleep when it came: that window is the one hole that
\* notifying without mutex_ leaves.
StrandedOnlyByWindow ==
  \A q \in Queue : pc[q] = "sleep" /\ WaitPredicate(q) =>
    \/ q \in missed
    \/ \E p \in Producer : producer[p] # Nobody
    \/ stop_pc = "notify"

\* start() returns, and so the process can end, only after stop().
StartNeedsStop == main # "start" => stop_

\* A stranded queue is rescued by the next push to either queue: cv_ is shared
\* and notify_all wakes both threads.
NextPushRescues ==
  \A q \in Queue : \A k \in 1..MaxPush :
    /\ pc[q] = "sleep" /\ enqueued[q] >= k
    /\ \E p \in Producer : producer[p] # Nobody
    ~> dequeued[q] >= k \/ stop_

\* stop() ends every thread that is not in that window when the flag is set,
\* asleep or not, with messages left in its queue or not.
StopEndsThread ==
  \A q \in Queue :
    stop_pc = "notify" /\ pc[q] # "block" ~> pc[q] = "return"

\* The dispatch threads' sleep: types, a thread asleep on work only through the
\* window between predicate and sleep, and start() returning only after stop().
SleepSound == TypeOK /\ StrandedOnlyByWindow /\ StartNeedsStop
===============================================================================
