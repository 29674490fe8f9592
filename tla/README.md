# A TLA+ verification of data_proxy

data_proxy is a C++20 message proxy.  Messages from an MQTT broker, from ROS 2 topics and from
timers enter a message bus; application logic is written as coroutines that `co_await` messages
by name; a thread pool runs the coroutines.  What makes it hard is that a message and a
suspending coroutine meet without a common lock: a dispatch thread and a worker thread agree
through an atomic word, a plain pointer and a lock-free queue.  That queue, moodycamel's
`ConcurrentQueue` with its blocking variant and semaphore, is kept in the repository's own include
directory and is most of its code.

This directory models the bus, its channels, its start-up and the queues below it, checks them
with TLC on small instances and proves the most important safety properties with TLAPS for every
instance.

## 1. Inventory

Paths are relative to the repository; headers are in `include/data_proxy/`.  "Threads" says which
threads run a component's code.

| Component | Source | State | Operations | Threads |
|---|---|---|---|---|
| `CoExecutor` | `messagebus.h` 27-101 | priority queue of handles, `wait_thread_num`, `stop_`, one mutex, one cv | `start`, `resume_coroutine`, `loop_resume_coroutine`, `stop`, destructor | 10 workers; callers of `resume_coroutine` are the dispatch threads |
| Awaits | `messagebus.h` 106-297, `src/messagebus.cpp` | per await: `handle_`, `data_`, `queue_`, `suspend_`, `filter_`, `timer_id_`; per coroutine: `promise.state_`, `promise.await` | `await_ready`, `await_suspend`, `await_resume`, `push_message`, `resume_one_coroutine`, construction, destruction | worker that runs the coroutine, dispatch thread that delivers |
| `MessageBus` | `messagebus.h` 329-521 | two queues, three multimaps with a `shared_mutex` each, `mutex_`, `cv_`, `stop_` | `push_message`, `push_high_priority_message`, `run`, `dispatch_message`, `create_*_await`, `add_await`, `remove_await`, `start`, `stop` | two dispatch threads, producers, workers |
| `CoTask` | `co_task.h` | promise: `state_`, `await` | `resume`, suspend points | all |
| `TimerMgr` | `timer_mgr.h`, `src/timer_mgr.cpp` | map of asio timers, `sid_` | `create_time_await`, `set_await_timeout`, `cancel_timer`, `co_handle_remove_timer`, `timer_callback` | io_context thread, workers, main |
| `MqttChannel` | `mqtt_channel.h` | `subscribe_topics_`, `disconnected_` | `init`, `publish`, `subscribe`, `on_connect`, `on_disconnect`, `on_message` | mosquitto loop thread, workers, main |
| `Ros2Channel` | `ros2_channel.h` | publisher and subscriber maps, a mutex each | `will_pulish`, `publish`, `subscribe`, subscription callback | ROS spin thread, workers, main |
| `LogicMgr`, `ILogic`, `ThreadTask`, `main` | `src/logic/logic_mgr.h`, `logic.h`, `thread_task.h`, `data_proxy.cpp` | the parts above | constructor, `add_logic`, `start`, joins in destructors | main |
| `SchedulerLogic` | `src/logic/scheduler_logic.cpp` | coroutine locals | coroutines that forward between ROS and MQTT | workers |
| `Test` | `src/logic/test.cpp` | `nums_`, coroutine locals | producers and consumers whose asserts state what the bus promises | own threads, workers |
| `ConcurrentQueue`, blocks | `concurrentqueue.h`, `FreeList`, `requisition_block` | initial pool, free list with a reference count per block | `try_get`, `add`, `requisition_block`, `add_block_to_free_list` | every user of the queue |
| `ConcurrentQueue`, sub-queues | `ProducerBase`, `ImplicitProducer`, `ExplicitProducer` | four counters, blocks, a circular block index | `enqueue(_bulk)`, `dequeue(_bulk)`, `new_block_index`, destructors | one producer thread, any consumer |
| `ConcurrentQueue`, producers | `get_or_add_implicit_producer`, `recycle_or_create_producer`, `ThreadExitNotifier` | chain of hash tables, list of producers | first enqueue of a thread, its exit | producer threads |
| `ConcurrentQueue`, dequeueing | `try_dequeue`, `try_dequeue_bulk`, token forms | producer list, `globalExplicitConsumerOffset`, `ConsumerToken` | search over the producers, rotation | consumers |
| `LightweightSemaphore` | `lightweightsemaphore.h` | `m_count`, the OS semaphore | `wait`, `tryWait`, `waitMany`, `tryWaitMany`, timed forms, `signal` | any |
| `BlockingConcurrentQueue` | `blockingconcurrentqueue.h` | inner queue and semaphore | `enqueue*`, `try_dequeue*`, `wait_dequeue*`, timed and bulk | any |
| utils, proto, `coroutine.h`, `third_party/` | | | conversions, generated or foreign code | |

How they interact.  Producers (`MqttChannel::on_message`, the ROS callback, timer callbacks, test
threads, coroutines) call `MessageBus::push_message`, which enqueues (without a token, so through an
`ImplicitProducer` found in the hash table) and notifies.  A dispatch thread dequeues and offers
the message to the awaits registered under its name: to one of the shared awaits, to all normal and
to all temp awaits.  An await whose coroutine is in `StopState` calls
`CoExecutor::resume_coroutine`; a worker resumes the coroutine, which runs to its next `co_await`.
A temp await with a timeout sends `__RemoveTimer` through the same bus to a coroutine of
`TimerMgr`.  `LogicMgr::start` starts channels, executor and timers, initialises the logics and
starts the bus last.  Explicit producers, consumer tokens and the blocking queue belong to the
headers the repository keeps; the proxy itself does not call them.

Hard behaviours, and the properties that matter:

* `CoExecutor`: wake-ups are conditional on a counter.  No handle may wait while a worker sleeps
  unsignalled; every handle runs once; `stop` ends every worker.
* Awaits: test and set of `state_` are separate; `state_`, `promise.await` and the queue are
  written in an order.  A coroutine is resumed once per suspension, never while it runs; a normal
  await loses and reorders nothing; a shared message is handled exactly once; the message a
  `co_await` returns is the one awaited; a destroyed await is not touched.
* `MessageBus`: notifications are sent without the mutex.  A thread sleeps on work only through
  the one window this leaves, and not for good while traffic goes on; shutdown ends the threads
  and never resumes a finished dispatch coroutine.
* `TimerMgr`: timeouts are broadcast by name and race the awaited message, cancellation races the
  callback.
* Channels: reconnection and resubscription, containers shared between threads, a lock held by
  hand across calls that throw.
* Start-up: messages arrive while the logics are initialised; none may pass a handler that is
  about to listen.
* `ConcurrentQueue`: an element is claimed before it is known to be there, and the claim given
  back; blocks are found through an index that is filled, rewound and replaced meanwhile, and
  reused as soon as their last consumer is done; a free list with ABA; a hash table that grows while
  threads come and go.  Every element is taken exactly once, no block is in two places, a thread
  keeps its producer, an empty-handed search has missed nothing it could have had.
* `LightweightSemaphore`: a timeout races a signal; no permit may be lost, invented or left over.

`PROJECT.json` lists the hazards one by one with their lines and the properties aimed at them.

## 2. Plan

1. **Done.** `CoExecutor` against the abstract `ResumeService`; `AwaitProtocol` on top of that
   service; `MessageBus`, the life of the dispatch threads; `TimerMgr` with the coroutines that
   wait with a timeout or for ticks; proofs of type correctness and of the main safety invariants
   of each.
2. **Done.** `MqttChannel` with the broker's view of subscriptions, `Ros2Channel` with exceptions in
   `publish`, the start-up order of `LogicMgr`.
3. **Done.** The queue from the bottom up: `BlockPool`; the claim protocol `ProducerBase` with its
   proof; `ImplicitProducer` and `ExplicitProducer`, which implement it; `ProducerHash`;
   `TryDequeue`; `LightweightSemaphore` with its proof and `BlockingQueue`, which implements its
   interface.
4. **Done.** What the awaits deliver (`AwaitProofs`); elements behind permits in `BlockingQueueProofs`;
   `StartUpProofs` for the channels and the start-up; the free list in `QueuePartsProofs`; the
   refinement proof of `ExplicitProducer` in `ProducerProofs`.
5. **Done.** Where the elements are in `ImplicitProducer`: `BlocksInPlace` and `DestroyReturnsAll`, with
   the inductive invariant `LifeInv` in `ProducerProofs`.
6. **Done.** The hash table of the producers: `ProducersSafe`, with the invariant `HashInv` in
   `QueuePartsProofs`.
7. **Done.** The search over all producers: `NothingOverlooked`, with the invariants `ListInv` and
   `SpreadInv` in `QueuePartsProofs`.

## 3. Modules

| Module | Role |
|---|---|
| `ResumeService` | abstract: a resume request is accepted, begun at most once, ended at most once, abandoned only after stop |
| `CoExecutor`, `CoExecutorProofs` | the thread pool; it refines `ResumeService` |
| `AwaitProtocol`, `AwaitProofs` | awaits, dispatch loop, coroutines and workers |
| `MessageBus`, `MessageBusProofs` | sleeping, waking and ending of the dispatch threads |
| `TimerMgr`, `TimerMgrProofs` | timers, timeouts, their removal, and the coroutines that use them |
| `MqttChannel`, `Ros2Channel` | the channels and their use by `SchedulerLogic` |
| `LogicMgr` | start-up: composes the threads of the other parts |
| `StartUp`, `StartUpProofs` | the last three together, their properties and their proofs |
| `BlockPool` | initial pool, free list and heap blocks of a `ConcurrentQueue` |
| `ProducerBase` | the four counters of a sub-queue: the claim protocol, abstract specification of the next two |
| `ImplicitProducer` | the sub-queue of a thread; EXTENDS `ProducerBase` and refines `BaseSpec` |
| `ExplicitProducer` | the sub-queue of a `ProducerToken`; EXTENDS `ProducerBase` and refines `BaseSpec` |
| `ProducerProofs` | proofs about the last three |
| `ProducerHash` | from a thread to its implicit producer |
| `TryDequeue` | the search of consumers over all producers |
| `QueueParts`, `QueuePartsProofs` | what the threads of a queue share: `BlockPool`, `ProducerHash`, `TryDequeue` and the liveness of `ProducerBase`; proofs about `BlockPool`, `ProducerHash` and `TryDequeue` |
| `LightweightSemaphore` | the semaphore |
| `BlockingQueue`, `BlockingQueueProofs` | the blocking queue; EXTENDS `LightweightSemaphore` and refines `SemSpec`; the proofs about both |
| `MC...` | instances for TLC |

Conventions.  Definitions whose comment begins with "Fault" are wrong variants of the definition
that follows them.  They occur in no specification; each shows, when put in place of its original,
that some property notices.  A run checks named conjunctions (`HandOverSound`, `BlocksInPlace`,
`PermitsSound`, ...) whose conjuncts are the properties discussed below; each is stated, with its
comment, in the module it is about.

`QueueParts` and `StartUp` each hold several modules that share no variable.  A variable `part`
is chosen at the start and only the module it names moves; this is the union of their
behaviours, where a conjunction of specifications would be the product, with nothing to gain from
it.  `MCImplicitProducer` and `MCExplicitProducer` use `part` in the same way for instances of one
module with different bounds.  `MCExplicitProducer` also has a history variable, `undone`: whether an
enqueue that had taken one block, or several, was undone.  No action reads it but for its bound.

### CoExecutor

`queue_`, `wait_thread_num` and `stop_` are only touched under `mutex_`, so a critical section is
one action.  `ResumeCoroutine` is the whole locked part of `resume_coroutine` (the store to the
promise's state, which precedes it, belongs to `AwaitProtocol`).  `loop_resume_coroutine` is split
where the mutex is released: `Sleep` (predicate false), `TakeAtOnce` (predicate true at once),
`SleepAgain` and `TakeWoken` (after a wake-up), `Finish` (`resume()` has returned).  Between a
notification and re-locking a worker is `"woken"`; `SpuriousWake` is always possible.  `stop` is
two actions because it notifies after unlocking.  The heap compares priorities only, so any entry
of greatest priority may be the top.

### AwaitProtocol

A dispatcher's visit to an await is `VisitShared`, `VisitNormal` or `VisitTemp` (tests that need no
second look, and the enqueue), then `ReadState`, `ReadAwait` and `Act`, one step for each word
it shares with the worker.  `Act` is `data_ = data`, `resume_coroutine` and `remove_timer`: nobody
else writes these words while `state_` is `StopState` and the map lock is held, and the
`__RemoveTimer` message is for another coroutine, so later steps cannot tell in which order they
happened.  `phase` says which map lock the dispatcher holds; the blocks follow each other in the
order of the code, and the order within an `equal_range` is unknown.

A worker's step through a `co_await` is `ReadyTrue` (the message was there) or `ReadyFalse`,
`SetStop`, `SetAwait`; then, when the executor runs the coroutine again, `Begin` and
`AwaitResume`.  C++ regards a coroutine as suspended before `await_suspend` is called, so from
`SetStop` on another worker may resume it while the first is still in state `"tail"`, about to
write `promise.await`.  The plain accesses to `promise.await` race in the C++ sense; a pointer
store is not torn on the platforms the build targets and the sequentially consistent `state_`
keeps the surrounding accesses in program order, so the race is modelled as every interleaving.

`Program[c]` is the sequence of awaits coroutine c goes through for ever.  An await in `Scoped` is
built before its `co_await` and destroyed after it (the temp await of
`handle_mqtt_test_topic`); the others are built before the loop.  The initial state is that of
`LogicMgr::start` just before `message_bus_.start()`: `init()` has run every coroutine to its first
`co_await`.  `OneDispatcher` is an assumption of the code, not of the model: only timers push to
the high-priority queue, and the coroutines that await a timer await nothing else.

A message is its name and its number among the messages of that name.  The bus queue is the pair
`pushed`, `taken` per name, which is what FIFO per producer gives when a name has one producer.
A filter is the set of numbers it lets through; timeouts, which bypass it, are in the set too.

### MessageBus

The thread states follow `run` and `dispatch_message` statement by statement, `cv_.wait`
included: `"check"` evaluates the predicate, `"block"` is the time between a false predicate and
sleeping (the mutex is held, but producers do not need it), `"sleep"` is waiting.  `missed` is a
history variable: threads that were in `"block"` when a notification ran.  It is read by no action.

### TimerMgr

Four threads' worth of code meet here: the io_context thread (`TimeoutCallback`, `LoopCallback`,
`Rearm`, `AbortedCallback`), the dispatch threads, the workers that run
`handle_mqtt_test_topic` and `co_handle_remove_timer`, and asio itself (`Expire`, external: an
armed timer may expire at any time, so durations are left out).  The pending wait of timer i is
`asio[i]`; `cancel()` turns `"armed"` into `"aborted"` and does nothing to a timer that has expired
already.  `func()` and the re-arming are separate steps, because `cancel_timer` may run between
them.

The hand-over is `AwaitProtocol`'s at a coarser grain.  A dispatcher's reads and its resume are one
step, which `AwaitProofs` justifies (what it has read from `state_` stays true until it acts); the
enqueue of a `MessageAwait` before them and the two stores of `await_suspend` stay separate, so
messages caught between `await_ready` and suspension, resumptions through the wrong await and late
stores of `promise.await` (`tails`) all occur.  Messages of one name are counted; timeouts and
removals carry their timer's id and may overtake each other, which is more than the queue allows.
`stray` is a history variable: the timers of awaits that were resumed without a message.

`TimedWaitEnds` begins where `promise.await` is in place and the timer still runs.  Without the
second condition it fails: a timeout dispatched before the await has suspended is dropped and the
timer does not fire again.  A timeout names no await, so one that was under way when its own wait
ended by a notify ends the next wait; `ArmedTimerKnown` says that this is the only way.

### MqttChannel and Ros2Channel

`MqttChannel` has the two threads that call `subscribe()`: main, in `SchedulerLogic::init`, and the
mosquitto thread, in `on_connect`.  `subscribe()` is `Contains` (the early return), `Ask` (the call
into the library, which fails without a socket) and `Insert`, because the container has no lock.
`OnConnect` and `Iterate` are the callback with its loop; `torn` is a history variable, set when an
insertion meets an iteration.  mosquitto and the broker are external: `Connack`, `Lose`,
`Reconnect` and `Grant`.  The session is a clean one, the library's default, so that a lost
connection loses what the broker had granted.

In `Ros2Channel` every lock, every call into rclcpp and every unlock is a step of one of several
callers.  The calls may throw: a `lock_guard` then releases its mutex, `publish`, which locks by
hand, does not, and `OnlyPublishAbandons` and `CallsReturn` say exactly what is lost.

### LogicMgr

The statements of `start()` in their order, the steps of each `init()` (subscribe, create an await,
first `co_await`), and what the threads started so far do meanwhile: push, and, once the bus runs,
dispatch to the awaits that exist at that moment.  `lost` is a history variable: the handlers that a
dispatched message did not reach.  The destructors are not there because `start()` does not return.

### The queue

Throughout, atomics are sequentially consistent, `index_t` does not wrap around, a loop around a
compare-and-swap is its successful round, and each access to a word that another thread writes is
a step.

`BlockPool` keeps a block's `freeListRefs` in its two parts, the count and the
`SHOULD_BE_ON_FREELIST` bit, and has one step per atomic access of `try_get` and
`add_knowing_refcount_is_zero`.

`ProducerBase` is the protocol by which consumers take elements: `LoadTail`, `LoadOvercommit`,
`LoadOptimistic`, `Claim`, `Reload`, then `GiveBack` or `FetchHead`, and `Taken` when the elements
have been moved out.  It is the same code in both kinds of producer, and `dequeue` is
`dequeue_bulk` with `max = 1`.  `void` and `won` are history variables: the claims given back and
the claims that advanced `headIndex`.

`ImplicitProducer` adds `enqueue_bulk` block by block (`InsertKey`, `NewBlockIndex`, `Requisition`,
`Construct`, publication), its undo after a failed allocation or a throwing constructor, and the
consumer's way through the index (`LoadIndex`, `LoadIndexTail`, `LoadKeyAtTail`, `LoadValue`, `Move`,
`SetManyEmpty`, `ClearEntry`, `FreeBlock`).  `enqueue` is a bulk of one.  `ExplicitProducer` does the
same for the ring of blocks a token keeps, with `Reuse` of an empty block before a new one.  In both,
`slot` holds the number of the element in each place, so that `ReadsOwnElements` can say that a
consumer moves out what it claimed, and the destructors are actions.

`ProducerHash` is the chain of tables.  A search for one's own id is one step, since nobody else
writes or removes that key; an insertion is one step per slot probed.  A thread that exits gives its
producer up (`Exit`, `Remove`) and its id may be given to a new thread.

`TryDequeue` has many producers, each with the claim protocol in three steps, look, claim and
settle.  `start` and `disturbed` are history variables: what each producer held when a call began,
and where another consumer's open claim was met.

### LightweightSemaphore and BlockingQueue

`m_sema` is the OS semaphore (external).  A wait that finds no permit decrements `m_count`
(`FetchSub`), sleeps (`SemaWait`) or times out (`TimeOut`) and then takes its decrement back (`Undo`)
or, when a signal has counted it in, takes the permit that is on its way (`UndoLate`, `TryAgain`).
A `Signal` owes one `Post` per waiter it saw.  The spinning before a wait is left out: it is a
`TakeMany` that comes later.  `signalled` and `granted` are history variables.

`BlockingQueue` adds the elements.  An enqueue puts them into the inner queue and signals; a dequeue
waits as the semaphore does and then fetches until it has an element for every permit.

## 4. Runs

| Run | Instance | Shows |
|---|---|---|
| `co_executor` | 3 workers, 2 priorities, 3 pushes | `WakeUpsSound` (`WaitCount`, `NoIdleWorkerMissed`, `JoinNeedsStop`), refinement of `ResumeService`, `EveryResumeRuns`, `StopEndsWorkers` |
| `await_test` | 4 messages for a shared and a normal await on one name, or for 2 shared awaits; 2 workers | `HandOverSound` (`NoDoubleResume`, `NormalInOrder`, `MatchingName`), `SharedConserved`, `DataNotOverwritten`, `NextMessageUnsticks`, `NextMessageUnparks` |
| `await_scheduler` | 3 coroutines, 4 awaits, 2 dispatchers, 2 workers, 2 messages per name | `NoDoubleResume`, `NormalInOrder`, `OnlyLiveAwaits` |
| `await_stray` | as `await_scheduler` | `MatchingName` is violated: see section 6 |
| `message_bus` | 2 threads, 2 producers, 2 messages per queue | `SleepSound` (`StrandedOnlyByWindow`, `StartNeedsStop`), `NeverResumeFinished`, `NextPushRescues`, `StopEndsThread` |
| `timer_mgr` | 1 loop timer, 2 MQTT messages, 1 notify, 1 tick waiting | `TimersTracked` (`RemovalTracked`, `ArmedTimerKnown`), `OwnTimerKept`, `TimedWaitEnds`, `TicksKeepComing` |
| `start_up` | 3 logics with 7 handlers, 2 messages per name; 2 topics, 3 lost connections; 2 callers with 3 calls each | `HandlersReady`, `FirstSession`, `Ros2Consistent`, `NothingWaitsForEver` |
| `queue_parts` | 2 threads; 2 pool blocks and 1 heap block; tables of 4 slots with colliding ids and of 2 slots, 2 exits, 1 failed allocation; 2 producers with every kind of dequeue; 2 elements claimed by 2 consumers | `BlocksSafe`, `ProducersSafe`, `NothingOverlooked`, `CallsEnd`, `EveryElementTaken`, no deadlock |
| `implicit_producer` | blocks of 2, 3 blocks, index of 2 that may grow once; 2 consumers and single operations up to 5 elements, or 1 consumer and bulks of 3 up to 7 | `ClaimsSound` (`OnlyPublished`, `ExactlyOnce`, `NothingHidden`), `BlocksInPlace` (`LookupHits`, `ReadsOwnElements`, `PoolBlocksUnused`), `DestroyReturnsAll`, refinement of `ProducerBase` |
| `explicit_producer` | as above, with 4 blocks for bulks; every allocation may fail, every constructor may throw, at most 6 elements are held; ends when a bulk over several blocks was undone | `FoundUnlessUndone` (until such a bulk is undone: `LookupHits`, `ReadsOwnElements`, `MarkedOnce`), `DestroyedUnlessUndone` (until then `DestroysWhatIsLeft`; until any call that took a block is undone `DestroysOnlyElements`, `HalfDequeuedBelowHead`), refinement of `ProducerBase` |
| `explicit_room` | the same without throwing constructors, and going on after such a bulk | `LookupHits` is violated: see section 6 |
| `blocking_queue` | 3 threads, waits for 2 permits, 2 permits signalled | `PermitsSound` (`PermitsBacked`, `Conserved`, `NoLostSignal`), `ElementsSound`, refinement of `LightweightSemaphore`, `WaitersReturn` |

Why the bounds are enough.

* *Executor:* as many handles as workers, so that a woken worker can be overtaken by one that never
  slept while a third must not be missed; without proof this would call for more, but the safety
  part is proved for every instance.
* *Awaits:* a message can meet a coroutine running, about to suspend, suspended, queued, or resumed
  with the old worker in its tail; the last needs two workers and two messages, and a third
  message arrives after the disorder.  Two shared awaits are the fewest that compete: the first two
  messages resume both, the third is parked while they are about to suspend, the fourth rescues it.  Two messages of each name are enough for
  `handle_mqtt_test_topic` to be in its second iteration with the first one's tail pending.
* *Bus:* two producers overlap their enqueue and notify, both threads can be in the window, and two
  messages per queue let one strand a thread and the next rescue it.
* *Timers:* two MQTT messages give two timers, enough for a timeout, a removal and a late store of
  the first wait to meet the second.  With `Loops = 1` the one loop timer is the ticking one; the
  timer that keeps the io_context busy, a loop timer before it that sends nothing, is left to the
  proofs, which hold for any number of them.
* *Start-up:* the third logic is one `add_logic` allows; it shares a name with a running generator.
  Losing the connection before, during and after the subscriptions takes three losses.
* *Blocks:* the ABA of the free list needs two threads, of which one takes, uses and gives back a
  block while the other holds its `next`; the third block is the stale one.
* *Sub-queues:* seven elements in blocks of two go round an index of two, make it grow and begin
  a third block; three elements of a bulk span two or three blocks, so an undo has several blocks to
  take back.  In the explicit producer bulks have a fourth block, the one
  that a bulk injects and an undo leaves in the ring.  What `explicit_producer` says of blocks ends with
  the first bulk over several blocks that is undone, so its behaviours end there (`AfterUndone`);
  those of `explicit_room` go on, with no further call undone.  The refinement after that point is
  proved.
* *Producers:* the hash of 4 fills to the point of resizing while ids collide, the hash of 2 must be
  replaced at once; two exits reuse a producer, a slot and an id.
* *Semaphore:* three threads are a signaller, a waiter that times out and one that takes its place.

Deadlock is checked in `queue_parts`, where `Rest` is the only stuttering step allowed.  Elsewhere
producers stop at their bound, and without producers the system rests.  Symmetry is used in
`implicit_producer` and `explicit_producer` only, for consumers and blocks; these runs check safety
and a refinement without fairness.

Fairness.  Weak fairness of each thread's steps: the operating system runs every runnable thread
and no lock is held across a wait.  In `MessageBus`, `RunLock` is strongly fair, because an endless
chain of spurious wake-ups of the other thread would otherwise be able to keep the mutex from it.
A `push` or `stop` that has begun goes on to its notification.  In `TimerMgr` time passes, so
every armed timer expires, and each timer's handler is served, because asio keeps them in a
queue.  In `start_up`, `loop_forever` reconnects and a connected broker answers.  In
`queue_parts` a call that has begun goes on, the mutex of `ThreadExitNotifier` is strongly fair (one
of its waiters could otherwise be passed over by the exits of others), and one consumer keeps
calling, as a dispatch thread does.  In `blocking_queue` the wait on the OS semaphore is strongly
fair: a sleeper is not passed over for ever; time passes, so a timed wait runs out.  Nothing is
assumed of producers, of callers of `stop` or of spurious wake-ups.

`NextMessageUnsticks`, `NextMessageUnparks` and `NextPushRescues` are stated with the condition
"once more traffic comes" because the unconditional properties do not hold: the last message of a
burst can wait in a queue next to a suspended coroutine, or in the bus next to a sleeping thread,
until something else arrives.  `CallsEnd` allows a call to the free list to be held up by others
that keep finishing, which is what lock-free means; it includes `SlotFree`, without which a probe
would go round a full table.  `NothingOverlooked` excepts what another
consumer's open claim hid; each bus queue has one consumer, so the bus never meets it.

## 5. Proofs

All of it holds for arbitrary constants under the named assumptions of the modules: finitely many
and at least one worker (`thread_num < 1` is corrected to 1 in `start`), each coroutine's awaits its
own (`ProgramAssumption`), one dispatcher per coroutine (`OneDispatcher`), finitely many threads at
a semaphore (`SemaphoreAssumption`), a positive bulk size, blocks and a first index of at least two
(`ImplicitAssumption`; the code's are 32 by default), finitely many threads, whose ids are neither
`invalid_thread_id` nor `invalid_thread_id2`, which differ (`HashAssumption`), and a positive rotation
quota and at least one producer to be listed (`TryDequeueAssumption`; the bounds on producers and
elements are any natural numbers).

* `CoExecutorProofs`.  `WaitCount` is inductive with the types.  `NoIdleWorkerMissed` needs it (the
  signal is conditional on the counter) and, for `Sleep`, that a worker goes to sleep only on an
  empty queue.  The refinement needs in addition that ids are unique across `queue_`, the workers'
  `co_handle` and `resumed`, so that the sets of the abstract service stay disjoint.
* `AwaitProofs`.  `NoDoubleResume` is not inductive: it says nothing of a dispatcher between its
  reads.  `ResumeInv` adds `CoInv` (which combinations of `state_`, place and tickets occur),
  `WorkerInv` (a coroutine that is not suspended belongs to one worker) and `DispatchInv`, whose
  last conjunct is the heart: what a dispatcher has read from `state_` is still true when it acts.
  Workers keep it because they do not run a stopped coroutine, other dispatchers because of
  `OneDispatcher`.
  The same invariant carries the rest.  `LiveInv`: a dispatcher visits awaits that are registered,
  of its phase and of its message's name, and only scoped awaits come and go, under the lock that
  the dispatcher holds; hence `OnlyLiveAwaits`.  `NormalInOrder` needs `PlaceInv` (the message
  under way is the last one taken of its name, and a coroutine suspended in a `MessageAwait` takes
  from the queue), since the queue holds exactly the ids between the last one returned and the last
  one offered.  `SingleAwaitHandOver` and `SingleAwaitKeepsData` have the hypothesis that each
  coroutine has one await, as those of `test.cpp` do; without it the statement is false, which is
  what `await_stray` shows.  `DataInv` then says that `data_` is empty except between the resume
  request and the resumption, when it holds a message that was awaited.  `SharedDeliveredOnce`
  assumes that coroutines with a shared await have no other; `ShareInv` says where each message of
  the name is (handled, parked in the shared queue, in the `data_` of one await or under way) and
  `LoopInv` that the loop over the competing awaits ends with the first that takes it.
* `MessageBusProofs`.  `BusInv` adds who holds the mutex in which thread state, that a finished
  coroutine implies `stop_`, and that a thread in `"block"` with a true predicate is either in
  `missed` or has a notification coming.
* `TimerMgrProofs`.  `OwnTimerKept` and `RemovalTracked` need `RemovalInv`: no removal under way
  names a loop timer or the timer of the await that waits now, because a request is made only when
  an await is resumed and new ids are larger than all ids in use.  `ArmedTimerKnown` needs
  `AsioInv`: a timer about to be re-armed is a loop timer, and `RemovalInv` keeps those from
  `cancel_timer`.
* `StartUpProofs`.  `Ros2Inv`: being between `lock()` and `unlock()` and holding the mutex are the
  same thing, so a topic found missing from the map is still missing when its publisher is created.
  `MqttInv`: `disconnected_` is set by the first loss and guards the iteration in `on_connect`, and a
  topic about to be remembered was handed to the library.  `StartInv`: until `message_bus_` is
  started nothing is dispatched, and it is started when every logic has been initialised.
* `QueuePartsProofs`.  `BlocksSafe`, for any number of threads and blocks and both values of
  `RECYCLE_ALLOCATED_BLOCKS`.  `PlaceInv` gives every block one place: not handed out, on the list,
  waiting to be added, or in the hands of one thread.  `CountInv` says what `freeListRefs` counts:
  the threads that took a reference, and one for the list, which the adder stores in advance and the
  taker takes over.  `LinkInv` is the answer to ABA: whoever holds a reference to a block finds its
  `freeListNext` unchanged, because only an adder writes it and a block is added only at count zero;
  so the compare-and-swap on the head installs the true rest of the list even if the block has been
  taken and added again meanwhile.  The list is `Reached`, the least set closed under `next`; five
  lemmas about it replace induction over the list, and that no block is reached from its own successor
  is part of the invariant.  `IndexInv` bounds how far `initialBlockPoolIndex` overshoots.

  `ProducersSafe` (`ProducersAreSafe`), for any hash function, any number of threads, exits and chained
  tables, and any first capacity.  That a thread finds its producer again is not inductive: it
  depends on every slot between its hash and its id having stayed occupied, in each table of the
  chain, while others insert, reuse tombstones, resize and exit.  `HashInv` is made of:

  * `OwnAt`: a producer that a thread has, or has taken and is about to return, is active and nobody
    else's; a thread that searches for one has none;
  * `KeyAt`: a slot with a thread's id is `Reachable`, i.e. the probe for it meets no empty slot on
    the way, its value is the thread's producer, and while the thread exits such slots are left
    only in the tables still to be visited;
  * `ProbeAt`: a probe in progress has passed no empty slot of the table it took for the main one, so
    that the slot it fills is reachable too, also in a table that has been replaced meanwhile;
  * `ResizeInv`: the flag is set exactly while one thread is between taking and clearing it;
    `HashCountInv`: the count covers the threads that are counted and under way, and exceeds
    the threads under way or with a producer by the number of exits at most.

  Each step is a step of one thread.  `HashStep` reduces it to what changes for that thread and to
  `Evolves`: no slot of another thread is changed and none is emptied.  The walk of a probe round the
  table is `(hash + k) % capacity`; `SlotRound` shows that after `capacity` steps it has been
  everywhere, so `Reachable` may be bounded by the capacity although the code's index is not.

  `NothingOverlooked` (`NothingIsOverlooked`), for any number of consumers, producers and elements.  That a
  failed call has left nothing behind is a statement about its past: what it saw at each producer
  was stale when it moved on.  `ListInv` is the types and:

  * `StreamInv`, for each producer: `TryDequeue` keeps only counters, so the invariant asserts that
    there is a ledger behind them.  Every number `dequeueOptimisticCount` has handed out is void, won
    or open at one consumer (`Ledger`), the overcommit and the head count the void and the won ones,
    and a consumer has seen at most the void claims below its own; so of the claims up to the highest
    won at most `tail` are not void, and no stream is read past its tail.  When nobody else's claim
    is open, the ledger adds up (`LedgerTotal`): a stream that looks empty has been taken to its tail
    (`FoundEmpty`), and a claim that gets less than was wanted takes what the call had to see
    (`SettledOver`).
  * `SearchInv`, for each consumer: every producer it has left behind is `Over`, i.e. taken up to what
    it held when the call began, or disturbed.  Which ones those are depends on the operation:
    `SizeInv` while `try_dequeue` looks for the fullest, `AnyInv` on its second round, `BulkInv` down
    the list, and `WalkInv` for a token, whose walk has `Visited` an arc of the list as it was when
    the walk wrapped, and whose end moves when something is taken.  A producer that came later held
    nothing when the call began (`NotListed`).  `ClaimAt` keeps what the claim in progress was
    computed from.

  `SpreadInv`: with all producers listed, a token that has followed the global offset `known` is
  designated producer `(initialOffset - known - 1) % producers`, counted down the list; hence two
  tokens that follow the same offset differ as their initial offsets do.  The four instances of
  `TryDequeue` differ only in which operation is called; that their steps are the same is
  `BulkIsSearch`, `WalkIsSearch` and `TokenIsSearch`.  With a token the instances ask for one element
  at a time; the lemmas on the steps hold for any number.
* `BlockingQueueProofs`, about the semaphore.  `SemInv` is the types, `CallInv` (what a thread in each place may
  hold and owe) and `Conserved`: the permits on the count, those reserved for waiters, and those
  handed out add up to what was signalled, and every waiter counted in has its post, made or coming.
  `PermitsBacked` and `NoLostSignal` follow from it.
  About the queue: every step is a step of the semaphore or leaves it alone
  (`QueueImplementsSemaphore`), so the theorems above hold of it too.  `ElementsSound` needs
  `ElementsBacked`: the elements in the inner queue are those of the permits not handed out, of the
  permits handed out but not used yet, and of the enqueues that have not signalled yet.
* `ProducerProofs`.  The claim of a consumer is made on stale values, so nothing that matters is
  inductive alone.  `BaseInv` is the types and: `ClaimInv`, every number `dequeueOptimisticCount`
  has handed out is void, won or open at one consumer, in exactly one way; `CountInv`,
  `dequeueOvercommit` and `headIndex` count the void and the won ones; `LocalInv`, the overcommit a
  consumer loaded before its claim counts void claims below it, so that a claim it finds good is
  `Reached`: of the claims up to it at most `tailIndex` are not void; `TopInv`, the highest claim won
  is `Reached`; `TakeInv`, what a consumer holds has left the queue and nobody else holds it.  The
  counting rests on `FiniteSetTheorems`.

  Each action of `ImplicitProducer` maps to a `Publish`, a consumer's step or a stutter of
  `ProducerBase` (`ImplicitImplementsBase`).  The publication needs the invariant `CountKept`: a call
  in progress still knows how many elements it was asked to add, whatever it has allocated, grown
  and constructed since.  `ClaimsSound` of the real sub-queue is then a corollary.  `ExplicitProducer` is
  treated in the same way (`ExplicitImplementsBase`, `ExplicitTakesExactlyOnce`).

  `ImplicitBlocksInPlace` and `ImplicitDestroyReturnsAll` are about what the layout adds, for any
  number of consumers, blocks and elements and any sizes of block, index and bulk.  `BlocksInPlace` is
  far from inductive: that a consumer finds its element when it reads depends on an index header,
  a tail and a position it has loaded earlier, while the producer wraps around the index, copies it into
  a larger one, takes blocks back when an allocation fails, and other consumers clear entries.
  `LifeInv` is `DestroyedInv` or `BlockInv`, and the parts of `BlockInv` are:

  * `CallInv`: the call in progress has in its chain the blocks from the first it needs up to the one
    it is at; in `"undo"`, those it has not yet taken out of the index come first.
  * `HeaderInv`: there is an offset for each header, such that block number `m` belongs at
    `(m + offset) % capacity`.  `new_block_index` copies the entries from the tail on, so the larger
    index has another offset; the old header is kept for consumers that have loaded it, and an
    entry the two share is the entry of the same blocks in both.
  * `WindowInv`: round the circle of the present index, back from the last block keyed, the keys are
    the bases of the blocks up to the oldest that has one; before that they are invalid.  Thus the
    distance of two keys is the distance of two positions, which is what
    `get_block_index_index_for_index` computes, and it is right from a stale tail too.
  * `LinkInv`: a block with an element not counted yet is linked.  Its entry has its base as key and
    its address as value, so `insert_block_index_entry` finds the entry occupied and does not reuse
    it; `elementsCompletelyDequeued` is the number of its elements that were counted (`Counted`), so
    exactly one consumer sees it reach `BLOCK_SIZE`.
  * `ReaderInv`: what a consumer remembers from earlier steps is still true while it holds elements
    that it has not counted.
  * `OwnerInv`: a block is in the pool, in one entry, with the call that has just taken it, or
    with the consumer that is about to return it, and in one of these only.  `SlotInv`: an element that
    is there is in its place, and no place holds anything else.

  The destructor runs at rest; then every block in use is linked, `EntryForFinds` gives its entry,
  and with `OwnerInv` nothing is left outside the pool.  The lemmas on `\div` and `%` at the start of
  the section are needed because capacity and block size are symbols; the provers decide them for
  numerals only.

Left to TLC:

* liveness under fairness, which the prover does not handle;
* what `ExplicitProducer` says of its blocks: `BlocksInPlace` and `DestroysWhatIsLeft` are false in
  general (section 6), and `FoundUnlessUndone` and `DestroyedUnlessUndone`, which say how far they
  hold, are checked for the instance of `explicit_producer` only;
* `SlotFree`, the safety part of `CallsEnd`: it is not a matter of counting, because a reused tombstone
  can make a table use more slots than `implicitProducerHashCount` counts (section 6).

## 6. Findings

`await_stray`: `await_suspend` publishes `state_ = StopState` before `promise.await = this`.  A
dispatcher with a message for the coroutine's *previous* await, arriving between the two stores,
finds `StopState` and itself in `promise.await` and resumes the coroutine.  In
`SchedulerLogic::handle_mqtt_test_topic` the wait for `platform/notify` then returns an empty
message, neither a notify nor a timeout, and is reported as "recv notify".  The coroutines of
`test.cpp`, with one await each, cannot meet it, and their asserts hold (`await_test`).

The worker whose `await_suspend` was overtaken in this way also reads `handle_` (line 237) of a temp
await that may be gone or built anew by then.  The model lets its store reach the promise, as it does
while the old handle is still in the frame.

`explicit_room`: an `ExplicitProducer::enqueue_bulk` that fails after it injected a block
(`concurrentqueue.h` 2079-2121) keeps the block in the ring but takes back its index slot.  In the
trace a bulk of three puts its first block in, gets no second one, and leaves `pr_blockIndexSlotsUsed`
at 0 beside a ring of one block.  The next enqueue reuses that block without counting it, since a
reused block is "guaranteed to be room" for (line 1862).  With an index of two that believes it has
two slots free, a bulk then writes the entries of two further blocks, the second over that of
the first block, whose element is not dequeued; its consumer finds the entry of another block.

The index is also wrong, without a block injected in vain, when the bulk that is undone had reused
a block and then grown the index: `new_block_index` copies the entry of the reused block with the old
ones, and the undo leaves it there, twice after the next enqueue.  And a failed bulk that reused a
block leaves the oldest entry overwritten; the destructor begins its search there, its
assertion that the entry found begins below `headIndex` (line 1803) fails, and in a build without
assertions the block dequeued in part is destroyed from its first place on.
`FoundUnlessUndone` says that undone calls of one new block do no harm to lookups, and
`DestroyedUnlessUndone` that they leave no element behind.

The proxy itself has no explicit producer; this concerns the queue as a library, when memory runs
out or `MAX_SUBQUEUE_SIZE` is reached.

Observations, met while the bounds and the statements of passing runs were chosen:

* When a constructor throws in the first place of a block that an explicit producer has just taken, the
  comments promise that the element does not appear in the queue, "without corrupting the queue"
  (line 1916), and that the block is left "available for next time" (line 1922).  The flags of the
  block were reset before and nobody will dequeue from it, so `is_empty` is false for good: it is
  not reused, and the destructor of the producer, which is to "Destruct any elements not yet
  dequeued" (line 1790), calls `~T` on every place of it, although nothing was built there.  This is
  why `DestroyedUnlessUndone` states `DestroysOnlyElements` only until a call that took a block
  is undone; with `MayFail` and `MayThrow` exchanged in `MCExplicitRoom.cfg` and `DestroysOnlyElements`
  as its invariant, TLC shows the case in seven states.
* "there's guaranteed to be room in the current hash table" (line 3419): a thread that inserts into
  a table already replaced may reuse a tombstone there and lower the count, while the newer table
  holds a copy of that tombstone and then the thread's entry.  More slots are used than counted.
  `SlotFree`, which says that a probe still ends, is checked.
* `MqttChannel::on_connect` calls `subscribe()` for the topics it remembers, and `subscribe()`
  returns early for exactly those ("subscribe already sub", `mqtt_channel.h` 55).  After a reconnect
  with a clean session nothing is subscribed.  `NothingWaitsForEver` therefore excepts topics whose
  connection was lost.
* A timeout that is dispatched before its await has suspended is dropped, and the timer does not
  fire again; `TimedWaitEnds` begins after that point (section 3).

## 7. Not modelled

* Payload contents, serialisation and the generated protobuf code: no property depends on them.
* `coroutine.h` (a shim for compilers without coroutines) and `third_party/`; asio, mosquitto, rclcpp
  and the OS semaphores beyond how the code calls them.
* Destruction of the program: `LogicMgr::start()` never returns, because it joins the dispatch
  threads and only `~MessageBus`, which runs later, calls `stop()`.  `stop()` itself is modelled in
  `CoExecutor` and `MessageBus`.
* Construction, move and swap of a `ConcurrentQueue`, which the headers allow to one thread only;
  `MemStats`; `size_approx`.
* Weak memory.  The models show the interleavings of sequentially consistent accesses; whether each
  acquire and release of the queue suffices is not examined.
* A cancelled loop timer.  The destructor of a time await cancels its timer (`messagebus.cpp` 65-71),
  but the time awaits of the repository live in coroutines that loop for ever, so the destructor never
  runs; `cancel_timer` is called for timeouts only.
* A `try_dequeue` of the shared message queue that finds nothing because another consumer's claim is
  open, although the queue has an element.  `ReadyFalse` requires an empty queue.  A missed message
  stays parked beside a suspended coroutine, as one does that arrives just after `await_ready`; what
  the properties say of the latter, that the next message takes it along, covers the former.
* In `TryDequeue` the three loads before a claim are one step, `Look`; `ProducerBase` has them apart,
  and its `ClaimsSound` shows that the claim stands on stale values.
* An untimed `m_sema.wait()` that fails (`lightweightsemaphore.h` 294, 333): on POSIX the only
  failure is an interrupted call, which is repeated (200-203).
* Wrap-around of 64-bit indices and of `m_count`.  `uint16_t wait_thread_num` cannot overflow, since
  it is at most the number of workers.
* Actions past the bounds (`MaxPush`, `MaxMsg`, `MaxTail`, ...) are cut off; each bound is a named
  constant of its module.
