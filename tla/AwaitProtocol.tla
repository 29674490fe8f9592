---------------------------- MODULE AwaitProtocol ----------------------------
(***************************************************************************)
(* How a message reaches a coroutine: the three await classes of           *)
(* include/data_proxy/messagebus.h (SharedMessageAwait, MessageAwait,      *)
(* TempMessageAwait), the dispatch loop of MessageBus::dispatch_message    *)
(* that calls them, and the worker threads that run the coroutines.        *)
(*                                                                         *)
(* A dispatcher and a suspending coroutine synchronise only through three  *)
(* words: promise.state_ (atomic), promise.await (plain) and the await's   *)
(* queue.  Each access to one of them is a step of its own, so a           *)
(* dispatcher can be anywhere between its reads while a worker is between  *)
(* the three assignments of await_suspend:                                 *)
(*                                                                         *)
(*   worker:      handle_ = h;  state_ = StopState;  promise.await = this  *)
(*   dispatcher:  enqueue;      read state_;         read promise.await    *)
(*                                                                         *)
(* state_ is sequentially consistent and the build emits the plain         *)
(* accesses around it in program order, so the racy accesses to            *)
(* promise.await are interleaved, not torn.  After state_ = StopState the  *)
(* coroutine counts as suspended although await_suspend has not returned:  *)
(* another worker may run it while the first still has its last            *)
(* assignment to do (worker state "tail").                                 *)
(*                                                                         *)
(* The executor is the abstract one of ResumeService: a bag of resume      *)
(* requests ("tickets") any idle worker may begin.                         *)
(***************************************************************************)
EXTENDS Naturals, Sequences, FiniteSets

CONSTANTS
  Co,            \* coroutines
  Await,         \* await objects, named by the frame slot they live in
  Worker,        \* threads of the CoExecutor
  Dispatcher,    \* dispatch_thread_ and high_priority_msg_dispatch_thread_
  Name,          \* message names
  Owner,         \* Owner[a]: the coroutine whose frame holds await a
  Kind,          \* Kind[a]: "Shared", "Normal" or "Temp" (AwaitType)
  WaitName,      \* WaitName[a]: wait_message_name_
  Accept,        \* Accept[a]: ids that pass filter_, or are timeouts
  Program,       \* Program[c]: the awaits c co_awaits in turn, for ever
  Scoped,        \* awaits built before and destroyed after their co_await
  Timed,         \* temp awaits with a timeout (timer_id_ > 0)
  TimeAwait,     \* temp awaits of create_time_await (name "__T-...")
  RemoveTimer,   \* the name "__RemoveTimer"
  DispatcherOf,  \* DispatcherOf[n]: the thread that dispatches name n
  MaxMsg,        \* bound: messages pushed per name by producers
  Null           \* nullptr

Message == [name : Name \cup {Null}, id : Nat]
\* A default-constructed or moved-from InternalMessage.
Empty == [name |-> Null, id |-> 0]

ASSUME StaticAssumption ==
  /\ Null \notin Await /\ Null \notin Co /\ Null \notin Name /\ Null \notin Message
  /\ MaxMsg \in Nat
  /\ Owner \in [Await -> Co]
  /\ Kind \in [Await -> {"Shared", "Normal", "Temp"}]
  /\ WaitName \in [Await -> Name]
  /\ Accept \in [Await -> SUBSET Nat]
  /\ Scoped \cup Timed \cup TimeAwait \subseteq {a \in Await : Kind[a] = "Temp"}
  /\ RemoveTimer \in Name
  /\ DispatcherOf \in [Name -> Dispatcher]

ASSUME ProgramAssumption ==
  \A c \in Co : /\ Program[c] \in Seq(Await)
                /\ Len(Program[c]) > 0
                /\ Program[c][1] \notin Scoped
                /\ \A i \in 1..Len(Program[c]) : Owner[Program[c][i]] = c

\* Every name a coroutine waits for arrives on the same bus queue: only the
\* "__T-" messages of create_time_await use the high-priority queue, and the
\* coroutines that await those await nothing else.
ASSUME OneDispatcher ==
  \A a, b \in Await :
    Owner[a] = Owner[b] => DispatcherOf[WaitName[a]] = DispatcherOf[WaitName[b]]

VARIABLES
  pushed, taken,  \* per name: messages enqueued on, dequeued from the bus
  live,           \* awaits registered in the bus's multimaps
  handle_,        \* awaits whose handle_ has been set
  suspend_,       \* MessageAwaits whose suspend_ flag is set
  queue_,         \* MessageAwait::queue_
  shared_queue_,  \* per name: the queue_ all clones of a shared await share
  data_,          \* data_ of each await
  state_,         \* promise.state_: "Running", "Stop" or "QueueResume"
  await_,         \* promise.await
  co_pc, at,      \* where each coroutine is, and at which co_await
  tickets,        \* resume requests of each coroutine in the executor
  worker, wco, waw,               \* worker state, its coroutine, its await
  phase, step, msg, todo, cur, resume_one,  \* locals of dispatch_message
  nums_, got                      \* what the coroutines' bodies recorded

busVars == <<pushed, taken>>
awaitVars == <<live, handle_, suspend_, queue_, shared_queue_, data_>>
coVars == <<state_, await_, co_pc, at, tickets>>
workerVars == <<worker, wco, waw>>
dispatchVars == <<phase, step, msg, todo, cur, resume_one>>
bodyVars == <<nums_, got>>
vars == <<busVars, awaitVars, coVars, workerVars, dispatchVars, bodyVars>>

CoPc == {"construct", "ready", "susp", "suspended", "resume", "destroy"}

\* The await c is at, and the coroutine's next await.
Cur(c) == Program[c][at[c]]
NextAt(c) == IF at[c] = Len(Program[c]) THEN 1 ELSE at[c] + 1
EnterPc(a) == IF a \in Scoped THEN "construct" ELSE "ready"

\* equal_range(name) of the map of one await class.
Registered(k, n) == {a \in live : Kind[a] = k /\ WaitName[a] = n}
------------------------------------------------------------------------------
(***************************************************************************)
(* LogicMgr::start calls every init() before the bus is started: each      *)
(* coroutine has run, on the calling thread, to its first co_await.        *)
(***************************************************************************)
Init ==
  /\ pushed = [n \in Name |-> 0]
  /\ taken = [n \in Name |-> 0]
  /\ live = Await \ Scoped
  /\ handle_ = {Program[c][1] : c \in Co}
  /\ suspend_ = {a \in {Program[c][1] : c \in Co} : Kind[a] = "Normal"}
  /\ queue_ = [a \in Await |-> <<>>]
  /\ shared_queue_ = [n \in Name |-> <<>>]
  /\ data_ = [a \in Await |-> Empty]
  /\ state_ = [c \in Co |-> "Stop"]
  /\ await_ = [c \in Co |-> Program[c][1]]
  /\ co_pc = [c \in Co |-> "suspended"]
  /\ at = [c \in Co |-> 1]
  /\ tickets = [c \in Co |-> 0]
  /\ worker = [w \in Worker |-> "idle"]
  /\ wco = [w \in Worker |-> Null]
  /\ waw = [w \in Worker |-> Null]
  /\ phase = [d \in Dispatcher |-> "idle"]
  /\ step = [d \in Dispatcher |-> "pick"]
  /\ msg = [d \in Dispatcher |-> Empty]
  /\ todo = [d \in Dispatcher |-> {}]
  /\ cur = [d \in Dispatcher |-> Null]
  /\ resume_one = [d \in Dispatcher |-> FALSE]
  /\ nums_ = [n \in Name |-> {}]
  /\ got = [a \in Await |-> Null]

\* MessageBus::push_message by the producer of name n.
Push(n) ==
  /\ n # RemoveTimer
  /\ pushed[n] < MaxMsg
  /\ pushed' = [pushed EXCEPT ![n] = @ + 1]
  /\ UNCHANGED <<taken, awaitVars, coVars, workerVars, dispatchVars, bodyVars>>

\* push_message of "__RemoveTimer" by an await that has a timer.
PushRemoveTimer(timer) ==
  pushed' = IF timer THEN [pushed EXCEPT ![RemoveTimer] = @ + 1] ELSE pushed

(***************************************************************************)
(* dispatch_message.  phase[d] is the map whose shared_lock is held; todo  *)
(* what is left of its equal_range; the order of a multimap is not known.  *)
(***************************************************************************)
\* Fault: the result of try_dequeue is ignored.
TakeUnchecked(d, n) ==
  /\ phase[d] = "idle"
  /\ DispatcherOf[n] = d
  /\ taken' = [taken EXCEPT ![n] = @ + 1]
  /\ msg' = [msg EXCEPT ![d] = [name |-> n, id |-> taken[n] + 1]]
  /\ phase' = [phase EXCEPT ![d] = "shared"]
  /\ todo' = [todo EXCEPT ![d] = Registered("Shared", n)]
  /\ resume_one' = [resume_one EXCEPT ![d] = FALSE]
  /\ UNCHANGED <<pushed, awaitVars, coVars, workerVars, step, cur, bodyVars>>

\* try_dequeue (FIFO per producer) and the first equal_range.
Take(d, n) ==
  /\ phase[d] = "idle"
  /\ DispatcherOf[n] = d
  /\ taken[n] < pushed[n]
  /\ taken' = [taken EXCEPT ![n] = @ + 1]
  /\ msg' = [msg EXCEPT ![d] = [name |-> n, id |-> taken[n] + 1]]
  /\ phase' = [phase EXCEPT ![d] = "shared"]
  /\ todo' = [todo EXCEPT ![d] = Registered("Shared", n)]
  /\ resume_one' = [resume_one EXCEPT ![d] = FALSE]
  /\ UNCHANGED <<pushed, awaitVars, coVars, workerVars, step, cur, bodyVars>>

\* The iterator moves to a; when the first test of a's push_message or
\* resume_one_coroutine fails it is done with a at once.
Visit(d, a, go) ==
  /\ step[d] = "pick"
  /\ a \in todo[d]
  /\ todo' = [todo EXCEPT ![d] = @ \ {a}]
  /\ cur' = [cur EXCEPT ![d] = a]
  /\ step' = [step EXCEPT ![d] = IF go THEN "state" ELSE "pick"]
  /\ UNCHANGED <<busVars, coVars, workerVars, phase, msg, resume_one, bodyVars>>

\* SharedMessageAwait::resume_one_coroutine: handle_ and promise.await.
VisitShared(d, a) ==
  /\ phase[d] = "shared"
  /\ Visit(d, a, a \in handle_ /\ await_[Owner[a]] = a)
  /\ UNCHANGED awaitVars

\* Fault: only a waiting coroutine is given the message.
VisitNormalIfStopped(d, a) ==
  /\ phase[d] = "normal"
  /\ Visit(d, a, a \in handle_ /\ state_[Owner[a]] = "Stop")
  /\ queue_' = IF a \in handle_ /\ state_[Owner[a]] = "Stop"
               THEN [queue_ EXCEPT ![a] = Append(@, msg[d])] ELSE queue_
  /\ UNCHANGED <<live, handle_, suspend_, shared_queue_, data_>>

\* Fault: the coroutine is only resumed when its queue was empty before.
VisitNormalIfEmpty(d, a) ==
  /\ phase[d] = "normal"
  /\ Visit(d, a, a \in handle_ /\ queue_[a] = <<>>)
  /\ queue_' = IF a \in handle_ THEN [queue_ EXCEPT ![a] = Append(@, msg[d])]
               ELSE queue_
  /\ UNCHANGED <<live, handle_, suspend_, shared_queue_, data_>>

\* MessageAwait::push_message: a message that comes before the first
\* suspension is dropped, any other is enqueued before state_ is read.
VisitNormal(d, a) ==
  /\ phase[d] = "normal"
  /\ Visit(d, a, a \in handle_)
  /\ queue_' = IF a \in handle_ THEN [queue_ EXCEPT ![a] = Append(@, msg[d])]
               ELSE queue_
  /\ UNCHANGED <<live, handle_, suspend_, shared_queue_, data_>>

\* TempMessageAwait::push_message: filter_ and handle_.
VisitTemp(d, a) ==
  /\ phase[d] = "temp"
  /\ Visit(d, a, a \in handle_ /\ msg[d].id \in Accept[a])
  /\ UNCHANGED awaitVars

\* Fault: state_ is not tested.
ReadStateSkipped(d) ==
  /\ step[d] = "state"
  /\ step' = [step EXCEPT ![d] = IF phase[d] = "shared" THEN "act" ELSE "await"]
  /\ UNCHANGED <<busVars, awaitVars, coVars, workerVars, phase, msg, todo, cur,
                 resume_one, bodyVars>>

\* The test of promise.state_.
ReadState(d) ==
  /\ step[d] = "state"
  /\ step' = [step EXCEPT ![d] =
                IF state_[Owner[cur[d]]] # "Stop" THEN "pick"
                ELSE IF phase[d] = "shared" THEN "act" ELSE "await"]
  /\ UNCHANGED <<busVars, awaitVars, coVars, workerVars, phase, msg, todo, cur,
                 resume_one, bodyVars>>

\* The test `promise.await == this` of MessageAwait and TempMessageAwait.
ReadAwait(d) ==
  /\ step[d] = "await"
  /\ step' = [step EXCEPT ![d] =
                IF await_[Owner[cur[d]]] = cur[d] THEN "act" ELSE "pick"]
  /\ UNCHANGED <<busVars, awaitVars, coVars, workerVars, phase, msg, todo, cur,
                 resume_one, bodyVars>>

\* The rest of Act, for the faults below.
ActRest(d) ==
  /\ step[d] = "act"
  /\ step' = [step EXCEPT ![d] = "pick"]
  /\ tickets' = [tickets EXCEPT ![Owner[cur[d]]] = @ + 1]
  /\ resume_one' = IF phase[d] = "shared"
                   THEN [resume_one EXCEPT ![d] = TRUE] ELSE resume_one
  /\ PushRemoveTimer(cur[d] \in Timed)
  /\ UNCHANGED <<taken, live, handle_, suspend_, queue_, shared_queue_,
                 await_, co_pc, at, workerVars, phase, msg, cur, bodyVars>>

\* Fault: resume_coroutine does not set QueueResume.
ActUnmarked(d) ==
  /\ ActRest(d)
  /\ data_' = IF phase[d] = "normal" THEN data_
              ELSE [data_ EXCEPT ![cur[d]] = msg[d]]
  /\ todo' = IF phase[d] = "shared" THEN [todo EXCEPT ![d] = {}] ELSE todo
  /\ UNCHANGED state_

\* Fault: the loop over shared awaits does not break.
ActNoBreak(d) ==
  /\ ActRest(d)
  /\ data_' = IF phase[d] = "normal" THEN data_
              ELSE [data_ EXCEPT ![cur[d]] = msg[d]]
  /\ state_' = [state_ EXCEPT ![Owner[cur[d]]] = "QueueResume"]
  /\ UNCHANGED todo

\* Fault: data_ = data is forgotten.
ActNoData(d) ==
  /\ ActRest(d)
  /\ state_' = [state_ EXCEPT ![Owner[cur[d]]] = "QueueResume"]
  /\ todo' = IF phase[d] = "shared" THEN [todo EXCEPT ![d] = {}] ELSE todo
  /\ UNCHANGED data_

\* data_ = data (not for MessageAwait) and CoExecutor::resume_coroutine; the
\* loop over shared awaits breaks after its first success; a temp await with
\* a timeout asks TimerMgr to cancel its timer.
Act(d) ==
  /\ step[d] = "act"
  /\ step' = [step EXCEPT ![d] = "pick"]
  /\ data_' = IF phase[d] = "normal" THEN data_
              ELSE [data_ EXCEPT ![cur[d]] = msg[d]]
  /\ state_' = [state_ EXCEPT ![Owner[cur[d]]] = "QueueResume"]
  /\ tickets' = [tickets EXCEPT ![Owner[cur[d]]] = @ + 1]
  /\ todo' = IF phase[d] = "shared" THEN [todo EXCEPT ![d] = {}] ELSE todo
  /\ resume_one' = IF phase[d] = "shared"
                   THEN [resume_one EXCEPT ![d] = TRUE] ELSE resume_one
  /\ PushRemoveTimer(cur[d] \in Timed)
  /\ UNCHANGED <<taken, live, handle_, suspend_, queue_, shared_queue_,
                 await_, co_pc, at, workerVars, phase, msg, cur, bodyVars>>

\* End of the shared block: a message no coroutine took is kept for the next
\* await_ready; then message_await_map_ is locked.
LeaveShared(d) ==
  /\ phase[d] = "shared" /\ step[d] = "pick" /\ todo[d] = {}
  /\ shared_queue_' =
       IF ~resume_one[d] /\ Registered("Shared", msg[d].name) # {}
       THEN [shared_queue_ EXCEPT ![msg[d].name] = Append(@, msg[d])]
       ELSE shared_queue_
  /\ phase' = [phase EXCEPT ![d] = "normal"]
  /\ todo' = [todo EXCEPT ![d] = Registered("Normal", msg[d].name)]
  /\ UNCHANGED <<busVars, live, handle_, suspend_, queue_, data_, coVars,
                 workerVars, step, msg, cur, resume_one, bodyVars>>

LeaveNormal(d) ==
  /\ phase[d] = "normal" /\ step[d] = "pick" /\ todo[d] = {}
  /\ phase' = [phase EXCEPT ![d] = "temp"]
  /\ todo' = [todo EXCEPT ![d] = Registered("Temp", msg[d].name)]
  /\ UNCHANGED <<busVars, awaitVars, coVars, workerVars, step, msg, cur,
                 resume_one, bodyVars>>

LeaveTemp(d) ==
  /\ phase[d] = "temp" /\ step[d] = "pick" /\ todo[d] = {}
  /\ phase' = [phase EXCEPT ![d] = "idle"]
  /\ UNCHANGED <<busVars, awaitVars, coVars, workerVars, step, msg, todo, cur,
                 resume_one, bodyVars>>

Dispatch(d) ==
  \/ \E n \in Name : Take(d, n)
  \/ \E a \in todo[d] : VisitShared(d, a) \/ VisitNormal(d, a) \/ VisitTemp(d, a)
  \/ ReadState(d) \/ ReadAwait(d) \/ Act(d)
  \/ LeaveShared(d) \/ LeaveNormal(d) \/ LeaveTemp(d)

(***************************************************************************)
(* Workers and the coroutines they run.                                    *)
(***************************************************************************)
\* An idle worker of the executor resumes a queued coroutine.
Begin(w, c) ==
  /\ worker[w] = "idle"
  /\ tickets[c] > 0
  /\ tickets' = [tickets EXCEPT ![c] = @ - 1]
  /\ worker' = [worker EXCEPT ![w] = "run"]
  /\ wco' = [wco EXCEPT ![w] = c]
  /\ co_pc' = [co_pc EXCEPT ![c] = "resume"]
  /\ UNCHANGED <<busVars, awaitVars, state_, await_, at, waw, dispatchVars,
                 bodyVars>>

\* The body of the loop around co_await receives m: the message was moved out
\* of data_, state_ is running, and the coroutine goes on to its next await.
Receive(c, a, m) ==
  /\ state_' = [state_ EXCEPT ![c] = "Running"]
  /\ data_' = [data_ EXCEPT ![a] = Empty]
  /\ nums_' = IF Kind[a] = "Shared" /\ m # Empty
              THEN [nums_ EXCEPT ![m.name] = @ \cup {m.id}] ELSE nums_
  /\ got' = [got EXCEPT ![a] = m]
  /\ IF a \in Scoped
     THEN co_pc' = [co_pc EXCEPT ![c] = "destroy"] /\ UNCHANGED at
     ELSE /\ at' = [at EXCEPT ![c] = NextAt(c)]
          /\ co_pc' = [co_pc EXCEPT ![c] = EnterPc(Program[c][NextAt(c)])]

Running(w, c, p) == worker[w] = "run" /\ wco[w] = c /\ co_pc[c] = p

\* await_ready of SharedMessageAwait / MessageAwait finds a message: no
\* suspension, await_resume follows at once (suspend_ is false here).
ReadyTrue(w, c) ==
  LET a == Cur(c) IN
  /\ Running(w, c, "ready")
  /\ \/ /\ Kind[a] = "Shared" /\ shared_queue_[WaitName[a]] # <<>>
        /\ shared_queue_' = [shared_queue_ EXCEPT ![WaitName[a]] = Tail(@)]
        /\ Receive(c, a, Head(shared_queue_[WaitName[a]]))
        /\ UNCHANGED queue_
     \/ /\ Kind[a] = "Normal" /\ queue_[a] # <<>>
        /\ queue_' = [queue_ EXCEPT ![a] = Tail(@)]
        /\ Receive(c, a, Head(queue_[a]))
        /\ UNCHANGED shared_queue_
  /\ UNCHANGED <<busVars, live, handle_, suspend_, await_, tickets, workerVars,
                 dispatchVars>>

\* Fault: await_ready of a shared await does not look at the shared queue.
ReadyFalseUnchecked(w, c) ==
  LET a == Cur(c) IN
  /\ Running(w, c, "ready")
  /\ Kind[a] = "Normal" => queue_[a] = <<>>
  /\ handle_' = handle_ \cup {a}
  /\ suspend_' = IF Kind[a] = "Normal" THEN suspend_ \cup {a} ELSE suspend_
  /\ co_pc' = [co_pc EXCEPT ![c] = "susp"]
  /\ UNCHANGED <<busVars, live, queue_, shared_queue_, data_, state_, await_,
                 at, tickets, workerVars, dispatchVars, bodyVars>>

\* await_ready is false; await_suspend sets suspend_ (MessageAwait) and handle_.
ReadyFalse(w, c) ==
  LET a == Cur(c) IN
  /\ Running(w, c, "ready")
  /\ Kind[a] = "Shared" => shared_queue_[WaitName[a]] = <<>>
  /\ Kind[a] = "Normal" => queue_[a] = <<>>
  /\ handle_' = handle_ \cup {a}
  /\ suspend_' = IF Kind[a] = "Normal" THEN suspend_ \cup {a} ELSE suspend_
  /\ co_pc' = [co_pc EXCEPT ![c] = "susp"]
  /\ UNCHANGED <<busVars, live, queue_, shared_queue_, data_, state_, await_,
                 at, tickets, workerVars, dispatchVars, bodyVars>>

\* await_suspend: state_ = StopState.  From here on the coroutine is
\* suspended; the worker still owes the assignment of promise.await.
SetStop(w, c) ==
  /\ Running(w, c, "susp")
  /\ state_' = [state_ EXCEPT ![c] = "Stop"]
  /\ co_pc' = [co_pc EXCEPT ![c] = "suspended"]
  /\ worker' = [worker EXCEPT ![w] = "tail"]
  /\ waw' = [waw EXCEPT ![w] = Cur(c)]
  /\ UNCHANGED <<busVars, awaitVars, await_, at, tickets, wco, dispatchVars,
                 bodyVars>>

\* await_suspend: promise.await = this, whatever the coroutine does by now.  The
\* promise is found through handle_ of the await.  A temp await that is gone by now
\* (its coroutine was resumed without a message, see MatchingName) leaves the handle
\* in the frame, as here, or a null one once it is built again, which ends the
\* program.
SetAwait(w) ==
  /\ worker[w] = "tail"
  /\ await_' = [await_ EXCEPT ![wco[w]] = waw[w]]
  /\ worker' = [worker EXCEPT ![w] = "idle"]
  /\ wco' = [wco EXCEPT ![w] = Null]
  /\ waw' = [waw EXCEPT ![w] = Null]
  /\ UNCHANGED <<busVars, awaitVars, state_, co_pc, at, tickets, dispatchVars,
                 bodyVars>>

\* await_resume.  A MessageAwait that was suspended spins until its queue
\* yields a message; the other two return whatever data_ holds.
AwaitResume(w, c) ==
  LET a == Cur(c) IN
  /\ Running(w, c, "resume")
  /\ IF Kind[a] = "Normal" /\ a \in suspend_
     THEN /\ queue_[a] # <<>>
          /\ queue_' = [queue_ EXCEPT ![a] = Tail(@)]
          /\ Receive(c, a, Head(queue_[a]))
     ELSE Receive(c, a, data_[a]) /\ UNCHANGED queue_
  /\ suspend_' = suspend_ \ {a}
  /\ UNCHANGED <<busVars, live, handle_, shared_queue_, await_, tickets,
                 workerVars, dispatchVars>>

\* Construction of a scoped temp await: it is inserted in the map under
\* unique_lock, with a null handle_.
Construct(w, c) ==
  /\ Running(w, c, "construct")
  /\ \A d \in Dispatcher : phase[d] # "temp"
  /\ live' = live \cup {Cur(c)}
  /\ handle_' = handle_ \ {Cur(c)}
  /\ data_' = [data_ EXCEPT ![Cur(c)] = Empty]
  /\ co_pc' = [co_pc EXCEPT ![c] = "ready"]
  /\ UNCHANGED <<busVars, suspend_, queue_, shared_queue_, state_, await_, at,
                 tickets, workerVars, dispatchVars, bodyVars>>

\* Fault: remove_await without the map lock.
DestroyUnlocked(w, c) ==
  /\ Running(w, c, "destroy")
  /\ live' = live \ {Cur(c)}
  /\ at' = [at EXCEPT ![c] = NextAt(c)]
  /\ co_pc' = [co_pc EXCEPT ![c] = EnterPc(Program[c][NextAt(c)])]
  /\ PushRemoveTimer(Cur(c) \in TimeAwait)
  /\ UNCHANGED <<taken, handle_, suspend_, queue_, shared_queue_, data_,
                 state_, await_, tickets, workerVars, dispatchVars, bodyVars>>

\* Its destructor at the end of the scope: remove_await under unique_lock; the
\* await of a timer asks for the timer's removal.
Destroy(w, c) ==
  /\ Running(w, c, "destroy")
  /\ \A d \in Dispatcher : phase[d] # "temp"
  /\ live' = live \ {Cur(c)}
  /\ at' = [at EXCEPT ![c] = NextAt(c)]
  /\ co_pc' = [co_pc EXCEPT ![c] = EnterPc(Program[c][NextAt(c)])]
  /\ PushRemoveTimer(Cur(c) \in TimeAwait)
  /\ UNCHANGED <<taken, handle_, suspend_, queue_, shared_queue_, data_,
                 state_, await_, tickets, workerVars, dispatchVars, bodyVars>>

Work(w) ==
  \/ \E c \in Co :
       \/ Begin(w, c) \/ ReadyTrue(w, c) \/ ReadyFalse(w, c) \/ SetStop(w, c)
       \/ AwaitResume(w, c) \/ Construct(w, c) \/ Destroy(w, c)
  \/ SetAwait(w)

Next ==
  \/ \E n \in Name : Push(n)
  \/ \E d \in Dispatcher : Dispatch(d)
  \/ \E w \in Worker : Work(w)

Spec == Init /\ [][Next]_vars

(***************************************************************************)
(* Fairness.  Dispatch threads and workers are operating-system threads    *)
(* that never wait for each other here except for the map locks, which are *)
(* held for bounded blocks; that the dispatch thread wakes up for a queued *)
(* message is MessageBus's business, that an idle worker takes a ticket    *)
(* CoExecutor's.  Producers need not push.                                 *)
(***************************************************************************)
Fairness ==
  /\ \A d \in Dispatcher : WF_vars(Dispatch(d))
  /\ \A w \in Worker : WF_vars(Work(w))

FairSpec == Spec /\ Fairness
------------------------------------------------------------------------------
\* Type correctness: coroutines, dispatch threads and await queues keep their
\* ranges, and no more messages of a name are taken than were pushed.
TypeOK ==
  /\ pushed \in [Name -> Nat] /\ taken \in [Name -> Nat]
  /\ \A n \in Name : taken[n] <= pushed[n]
  /\ live \in SUBSET Await /\ handle_ \in SUBSET Await /\ suspend_ \in SUBSET Await
  /\ queue_ \in [Await -> Seq(Message)]
  /\ shared_queue_ \in [Name -> Seq(Message)]
  /\ data_ \in [Await -> Message]
  /\ state_ \in [Co -> {"Running", "Stop", "QueueResume"}]
  /\ await_ \in [Co -> Await]
  /\ co_pc \in [Co -> CoPc]
  /\ at \in [Co -> Nat] /\ \A c \in Co : at[c] \in 1..Len(Program[c])
  /\ tickets \in [Co -> Nat]
  /\ worker \in [Worker -> {"idle", "run", "tail"}]
  /\ wco \in [Worker -> Co \cup {Null}] /\ waw \in [Worker -> Await \cup {Null}]
  /\ phase \in [Dispatcher -> {"idle", "shared", "normal", "temp"}]
  /\ step \in [Dispatcher -> {"pick", "state", "await", "act"}]
  /\ msg \in [Dispatcher -> Message]
  /\ todo \in [Dispatcher -> SUBSET Await]
  /\ cur \in [Dispatcher -> Await \cup {Null}]
  /\ resume_one \in [Dispatcher -> BOOLEAN]
  /\ nums_ \in [Name -> SUBSET Nat]
  /\ got \in [Await -> Message \cup {Null}]

\* A coroutine is handed to the executor at most once per suspension, and only
\* while it is suspended: handle.resume() is never called on a running
\* coroutine and never twice.  push_message and resume_one_coroutine test
\* state_ and set it in separate steps, so this rests on one dispatch thread
\* serving each coroutine.
NoDoubleResume ==
  \A c \in Co : tickets[c] > 0 =>
    tickets[c] = 1 /\ co_pc[c] = "suspended" /\ state_[c] = "QueueResume"

\* MessageAwaits that were suspended in init(), before the first message.
FirstNormal == {a \in {Program[c][1] : c \in Co} : Kind[a] = "Normal"}

\* The id of the last message the loop around a received.
LastId(a) == IF got[a] = Null THEN 0 ELSE got[a].id

\* How many messages of a's name dispatch_message has offered to a.
Offered(a) ==
  LET n == WaitName[a]
      d == DispatcherOf[n]
  IN  IF /\ msg[d].name = n
         /\ phase[d] = "shared" \/ (phase[d] = "normal" /\ a \in todo[d])
      THEN taken[n] - 1
      ELSE taken[n]

\* A MessageAwait delivers every message of its name, once and in the order of
\* the producer, whatever the state of the coroutine when each arrives: what
\* it has not yet returned is exactly its queue (test.cpp asserts
\* last_id + 1 == id on receipt).
NormalInOrder ==
  \A a \in FirstNormal :
    /\ LastId(a) <= Offered(a)
    /\ queue_[a] = [i \in 1..(Offered(a) - LastId(a)) |->
                      [name |-> WaitName[a], id |-> LastId(a) + i]]

\* Where message k of name n is, as seen by the shared awaits of n.
Holders(n, k) ==
       {<<"body", x>> : x \in nums_[n] \cap {k}}
  \cup {<<"queue", i>> : i \in {j \in DOMAIN shared_queue_[n] : shared_queue_[n][j].id = k}}
  \cup {<<"await", a>> : a \in {b \in Registered("Shared", n) : data_[b].id = k}}
  \cup {<<"dispatch", d>> : d \in {e \in Dispatcher :
          phase[e] = "shared" /\ ~resume_one[e] /\ msg[e] = [name |-> n, id |-> k]}}

\* Every message of a name with shared awaits is in exactly one place: still
\* with the dispatcher, parked in the shared queue, in the data_ of the one
\* coroutine it was given to, or handled.  None is lost and none is handled by
\* two of the competing coroutines (test.cpp asserts !nums_.contains(id)).
SharedConserved ==
  \A n \in Name : Registered("Shared", n) # {} =>
    \A k \in 1..taken[n] : Cardinality(Holders(n, k)) = 1

\* co_await returns a message of the awaited name (test.cpp asserts msg.name in
\* every loop) that the await's filter_ let through.
MatchingName ==
  \A a \in Await : got[a] # Null =>
    /\ got[a].name = WaitName[a]
    /\ Kind[a] = "Temp" => got[a].id \in Accept[a]

\* The dispatcher only touches awaits that are registered: an await whose
\* destructor has run is never visited, because remove_await needs the map
\* lock the dispatcher holds during the whole block.
OnlyLiveAwaits ==
  \A d \in Dispatcher : /\ todo[d] \subseteq live
                        /\ step[d] # "pick" => cur[d] \in live

\* A message stored in data_ is not overwritten by a later one before the
\* coroutine it resumed has moved it out.
DataNotOverwritten ==
  [][\A a \in Await : data_[a] # Empty => data_'[a] \in {data_[a], Empty}]_vars

\* The names with competing awaits.
SharedName == {WaitName[a] : a \in {b \in Await : Kind[b] = "Shared"}}

\* A message enqueued while the coroutine is between await_ready and
\* state_ = StopState resumes nobody: it may wait in queue_ with the coroutine
\* suspended.  The next message of the name wakes the coroutine, which then
\* handles everything that was stuck.
NextMessageUnsticks ==
  \A a \in FirstNormal : \A p \in 1..(MaxMsg - 1) :
    /\ state_[Owner[a]] = "Stop" /\ queue_[a] # <<>>
    /\ taken[WaitName[a]] = p /\ pushed[WaitName[a]] > p
    ~> LastId(a) >= p

\* The same for the queue that clones of a shared await share: what was parked
\* there while no clone could be resumed, and is still there when all of them have
\* suspended, is handled once the next message of the name has been dispatched.
NextMessageUnparks ==
  \A n \in SharedName : \A p \in 1..(MaxMsg - 1) :
    /\ shared_queue_[n] # <<>> /\ taken[n] = p /\ pushed[n] > p
    /\ \A a \in Registered("Shared", n) : state_[Owner[a]] = "Stop"
    ~> 1..p \subseteq nums_[n]

\* The hand-over between dispatch thread and coroutine as a whole: types, one
\* resumption per suspension, the messages of a normal await in order and
\* complete, and every co_await returning a message of its name.
HandOverSound == TypeOK /\ NoDoubleResume /\ NormalInOrder /\ MatchingName
==============================================================================
