----------------------------- MODULE CoExecutor -----------------------------
(***************************************************************************)
(* The coroutine thread pool of include/data_proxy/messagebus.h            *)
(* (class CoExecutor).  resume_coroutine pushes a handle into a priority   *)
(* queue and signals a worker only when wait_thread_num says one is        *)
(* waiting; every worker loops: lock, count itself as waiting, cv_.wait,   *)
(* pop the top handle, unlock, resume it.                                  *)
(*                                                                         *)
(* queue_, wait_thread_num and stop_ are only touched with mutex_ held and *)
(* cv_.wait releases mutex_ atomically with going to sleep, so each        *)
(* critical section is one action; what is not covered by the mutex (the   *)
(* notify_all of stop, the run of a coroutine, the time between a          *)
(* notification and the woken thread's re-locking) is a separate action.   *)
(***************************************************************************)
EXTENDS Integers, FiniteSets

CONSTANTS
  Worker,       \* threads of thread_pool_
  Priority,     \* values of wait_co_priority_ (uint8_t)
  MaxPush       \* bound: calls of resume_coroutine considered

ASSUME WorkerAssumption == IsFiniteSet(Worker) /\ Worker # {}
ASSUME PriorityAssumption == Priority \subseteq 0..255
ASSUME MaxPushAssumption == MaxPush \in Nat

VARIABLES
  queue_,           \* std::priority_queue: set of [id, priority]
  wait_thread_num,  \* workers counted as waiting
  stop_,            \* set by stop(), never cleared
  stop_pc,          \* progress of stop(): "idle", "notify" or "done"
  pc,               \* where each worker is in loop_resume_coroutine
  co_handle,        \* each worker's local co_handle
  pushed,           \* number of calls of resume_coroutine so far
  resumed,          \* ids whose coroutine ran to its next suspension
  joined            \* ~CoExecutor has returned

vars == <<queue_, wait_thread_num, stop_, stop_pc, pc, co_handle, pushed,
          resumed, joined>>

Entry == [id : 1..MaxPush, priority : Priority]
NoHandle == [id |-> 0, priority |-> 0]

\* "unborn": not yet emplaced; "loop": at the head of the while loop;
\* "wait": asleep in cv_.wait; "woken": notified (or spuriously awake), not
\* yet holding mutex_ again; "resume": inside co_handle.first.resume();
\* "return": left the loop.
WorkerState == {"unborn", "loop", "wait", "woken", "resume", "return"}

Asleep == {w \in Worker : pc[w] = "wait"}
Woken == {w \in Worker : pc[w] = "woken"}

Init ==
  /\ queue_ = {}
  /\ wait_thread_num = 0
  /\ stop_ = FALSE
  /\ stop_pc = "idle"
  /\ pc = [w \in Worker |-> "unborn"]
  /\ co_handle = [w \in Worker |-> NoHandle]
  /\ pushed = 0
  /\ resumed = {}
  /\ joined = FALSE

\* start(): emplaces the threads one after the other.
Start(w) ==
  /\ ~joined
  /\ pc[w] = "unborn"
  /\ pc' = [pc EXCEPT ![w] = "loop"]
  /\ UNCHANGED <<queue_, wait_thread_num, stop_, stop_pc, co_handle, pushed,
                 resumed, joined>>

\* Fault: the signal goes nowhere.
NotifyNobody == UNCHANGED pc

\* cv_.notify_one(): some sleeping worker, if there is one.
NotifyOne ==
  IF Asleep = {}
  THEN UNCHANGED pc
  ELSE \E w \in Asleep : pc' = [pc EXCEPT ![w] = "woken"]

\* Fault: a single waiting worker is taken for none.
ResumeCoroutineOffByOne(p) ==
  /\ ~joined
  /\ pushed < MaxPush
  /\ pushed' = pushed + 1
  /\ queue_' = queue_ \cup {[id |-> pushed + 1, priority |-> p]}
  /\ IF wait_thread_num > 1 THEN NotifyOne ELSE UNCHANGED pc
  /\ UNCHANGED <<wait_thread_num, stop_, stop_pc, co_handle, resumed, joined>>

\* resume_coroutine(handle, priority), called by a dispatch thread.
ResumeCoroutine(p) ==
  /\ ~joined
  /\ pushed < MaxPush
  /\ pushed' = pushed + 1
  /\ queue_' = queue_ \cup {[id |-> pushed + 1, priority |-> p]}
  /\ IF wait_thread_num > 0 THEN NotifyOne ELSE UNCHANGED pc
  /\ UNCHANGED <<wait_thread_num, stop_, stop_pc, co_handle, resumed, joined>>

\* The predicate of cv_.wait.
WaitPredicate == queue_ # {} \/ stop_

\* queue_.top(): an entry of greatest priority (std::less compares only the
\* priority, so among equals the heap may return any).
IsTop(e) == e \in queue_ /\ \A f \in queue_ : f.priority <= e.priority

\* Fault: queue_.pop() is forgotten.
LeaveWaitNoPop(w) ==
  IF stop_
  THEN /\ pc' = [pc EXCEPT ![w] = "return"]
       /\ UNCHANGED <<queue_, co_handle>>
  ELSE \E e \in queue_ :
         /\ IsTop(e)
         /\ queue_' = queue_
         /\ co_handle' = [co_handle EXCEPT ![w] = e]
         /\ pc' = [pc EXCEPT ![w] = "resume"]

\* What follows a wait that returned: leave on stop_, else pop and resume.
LeaveWait(w) ==
  IF stop_
  THEN /\ pc' = [pc EXCEPT ![w] = "return"]
       /\ UNCHANGED <<queue_, co_handle>>
  ELSE \E e \in queue_ :
         /\ IsTop(e)
         /\ queue_' = queue_ \ {e}
         /\ co_handle' = [co_handle EXCEPT ![w] = e]
         /\ pc' = [pc EXCEPT ![w] = "resume"]

\* Fault: ++wait_thread_num is forgotten.
SleepUncounted(w) ==
  /\ pc[w] = "loop"
  /\ ~WaitPredicate
  /\ pc' = [pc EXCEPT ![w] = "wait"]
  /\ UNCHANGED <<queue_, wait_thread_num, stop_, stop_pc, co_handle, pushed,
                 resumed, joined>>

\* Head of the loop: lock, ++wait_thread_num, evaluate the predicate.
Sleep(w) ==
  /\ pc[w] = "loop"
  /\ ~WaitPredicate
  /\ wait_thread_num' = wait_thread_num + 1
  /\ pc' = [pc EXCEPT ![w] = "wait"]
  /\ UNCHANGED <<queue_, stop_, stop_pc, co_handle, pushed, resumed, joined>>

\* ... and when it holds at once, --wait_thread_num undoes the increment.
TakeAtOnce(w) ==
  /\ pc[w] = "loop"
  /\ WaitPredicate
  /\ LeaveWait(w)
  /\ UNCHANGED <<wait_thread_num, stop_, stop_pc, pushed, resumed, joined>>

\* A woken worker re-locks mutex_ and evaluates the predicate again.
SleepAgain(w) ==
  /\ pc[w] = "woken"
  /\ ~WaitPredicate
  /\ pc' = [pc EXCEPT ![w] = "wait"]
  /\ UNCHANGED <<queue_, wait_thread_num, stop_, stop_pc, co_handle, pushed,
                 resumed, joined>>

\* Fault: --wait_thread_num is forgotten.
TakeWokenStillCounted(w) ==
  /\ pc[w] = "woken"
  /\ WaitPredicate
  /\ LeaveWait(w)
  /\ UNCHANGED <<wait_thread_num, stop_, stop_pc, pushed, resumed, joined>>

TakeWoken(w) ==
  /\ pc[w] = "woken"
  /\ WaitPredicate
  /\ wait_thread_num' = wait_thread_num - 1
  /\ LeaveWait(w)
  /\ UNCHANGED <<stop_, stop_pc, pushed, resumed, joined>>

\* std::condition_variable may wake a waiter without a notification.
SpuriousWake(w) ==
  /\ pc[w] = "wait"
  /\ pc' = [pc EXCEPT ![w] = "woken"]
  /\ UNCHANGED <<queue_, wait_thread_num, stop_, stop_pc, co_handle, pushed,
                 resumed, joined>>

\* The coroutine suspends (or ends) and resume() returns to the loop.
Finish(w) ==
  /\ pc[w] = "resume"
  /\ pc' = [pc EXCEPT ![w] = "loop"]
  /\ resumed' = resumed \cup {co_handle[w].id}
  /\ UNCHANGED <<queue_, wait_thread_num, stop_, stop_pc, co_handle, pushed,
                 joined>>

\* stop(): the flag under mutex_, the notification after unlocking.
StopSet ==
  /\ ~joined
  /\ stop_pc = "idle"
  /\ stop_' = TRUE
  /\ stop_pc' = "notify"
  /\ UNCHANGED <<queue_, wait_thread_num, pc, co_handle, pushed, resumed,
                 joined>>

\* Fault: notify_one where stop() needs notify_all.
StopNotifyOne ==
  /\ stop_pc = "notify"
  /\ stop_pc' = "done"
  /\ NotifyOne
  /\ UNCHANGED <<queue_, wait_thread_num, stop_, co_handle, pushed, resumed,
                 joined>>

StopNotify ==
  /\ stop_pc = "notify"
  /\ stop_pc' = "done"
  /\ pc' = [w \in Worker |-> IF pc[w] = "wait" THEN "woken" ELSE pc[w]]
  /\ UNCHANGED <<queue_, wait_thread_num, stop_, co_handle, pushed, resumed,
                 joined>>

\* Fault: threads are detached instead of joined.
DestroyDetached ==
  /\ ~joined
  /\ stop_pc # "notify"
  /\ joined' = TRUE
  /\ UNCHANGED <<queue_, wait_thread_num, stop_, stop_pc, pc, co_handle,
                 pushed, resumed>>

\* ~CoExecutor, of an executor whose start() has returned: joins every
\* thread of thread_pool_; it does not call stop().
Destroy ==
  /\ ~joined
  /\ stop_pc # "notify"
  /\ \A w \in Worker : pc[w] = "return"
  /\ joined' = TRUE
  /\ UNCHANGED <<queue_, wait_thread_num, stop_, stop_pc, pc, co_handle,
                 pushed, resumed>>

\* One iteration step of loop_resume_coroutine, by worker w.
LoopResumeCoroutine(w) ==
  Sleep(w) \/ TakeAtOnce(w) \/ SleepAgain(w) \/ TakeWoken(w) \/ Finish(w)

Next ==
  \/ \E w \in Worker :
       Start(w) \/ LoopResumeCoroutine(w) \/ SpuriousWake(w)
  \/ \E p \in Priority : ResumeCoroutine(p)
  \/ StopSet
  \/ StopNotify
  \/ Destroy

Spec == Init /\ [][Next]_vars

(***************************************************************************)
(* Fairness.  The operating system runs every thread, and mutex_ is only   *)
(* held for the bounded critical sections above; start() and a stop() that *)
(* has begun run to their end; a resumed coroutine reaches its next        *)
(* co_await.  Nothing is assumed of callers of resume_coroutine or stop,   *)
(* nor of spurious wake-ups.                                               *)
(***************************************************************************)
Fairness ==
  /\ \A w \in Worker : WF_vars(LoopResumeCoroutine(w)) /\ WF_vars(Start(w))
  /\ WF_vars(StopNotify)

FairSpec == Spec /\ Fairness
------------------------------------------------------------------------------
\* Type correctness: queue_ holds handles with their priority, wait_thread_num
\* never drops below zero, and a worker is at a line of loop_resume_coroutine().
TypeOK ==
  /\ queue_ \in SUBSET Entry
  /\ wait_thread_num \in Nat
  /\ stop_ \in BOOLEAN
  /\ stop_pc \in {"idle", "notify", "done"}
  /\ pc \in [Worker -> WorkerState]
  /\ co_handle \in [Worker -> Entry \cup {NoHandle}]
  /\ pushed \in 0..MaxPush
  /\ resumed \in SUBSET (1..MaxPush)
  /\ joined \in BOOLEAN

\* wait_thread_num counts exactly the workers inside cv_.wait, the notified
\* ones that have not re-locked mutex_ yet included: the test
\* `wait_thread_num > 0` of resume_coroutine never skips a needed signal.
WaitCount == wait_thread_num = Cardinality(Asleep \cup Woken)

\* No lost wake-up: while some worker sleeps in cv_.wait, every queued handle
\* is matched by a worker that has been woken and will look at the queue
\* before it sleeps again.  resume_coroutine signals one worker per push and
\* only when wait_thread_num > 0, so this is where a missed notify would show.
NoIdleWorkerMissed ==
  ~stop_ /\ Asleep # {} => Cardinality(queue_) <= Cardinality(Woken)

\* The destructor joins without calling stop(), so it can only have returned
\* because somebody called stop() before: no worker leaves its loop on its own,
\* not even when the queue is empty and every coroutine has ended.
JoinNeedsStop == joined => stop_

\* The executor implements the abstract service: a handle given to
\* resume_coroutine is resumed at most once, by one worker, and is abandoned
\* in queue_ only after stop().
Service == INSTANCE ResumeService WITH
             Request  <- 1..MaxPush,
             pending  <- {e.id : e \in queue_},
             running  <- {co_handle[w].id : w \in {x \in Worker : pc[x] = "resume"}},
             finished <- resumed,
             stopped  <- stop_

\* CoExecutor implements the abstract resume service: a handle passed to
\* resume_coroutine() is resumed at most once, in no case before it was pushed.
ImplementsService == Service!Spec

\* Every accepted resume_coroutine eventually runs to its next suspension,
\* unless the executor is stopped (wake-ups are not lost and, for finitely
\* many pushes, priorities only delay).
EveryResumeRuns ==
  \A r \in 1..MaxPush : pushed >= r ~> (r \in resumed \/ stop_)

\* stop() makes every started worker leave its loop, even those asleep in
\* cv_.wait when the flag was set (notify_all comes after the unlock).
StopEndsWorkers == stop_ ~> \A w \in Worker : pc[w] = "return"

\* The accounting behind resume_coroutine's test of wait_thread_num: types, the
\* count of sleepers, no handle queued beside a sleeper nobody signalled, and
\* threads joined only after stop().
WakeUpsSound == TypeOK /\ WaitCount /\ NoIdleWorkerMissed /\ JoinNeedsStop
==============================================================================
