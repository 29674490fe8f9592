----------------------------- MODULE BlockingQueue -----------------------------
(***************************************************************************)
(* BlockingConcurrentQueue of include/data_proxy/blockingconcurrentqueue.h *)
(* the inner ConcurrentQueue and a LightweightSemaphore that counts its    *)
(* elements.  Every enqueue operation adds to the inner queue and then     *)
(* signals; every dequeue operation first waits, in one of the ways of the *)
(* semaphore, and then repeats the inner try_dequeue(_bulk) until it has   *)
(* as many elements as permits.  The single-element operations are the     *)
(* bulk ones with one element, and a token changes only the inner call.    *)
(*                                                                         *)
(* The inner queue is its number of elements: a try_dequeue that overlooks *)
(* an element (module TryDequeue) changes nothing and is repeated.         *)
(***************************************************************************)
EXTENDS LightweightSemaphore

VARIABLES
  inner,      \* elements in the inner queue
  unsig,      \* elements each thread has enqueued and not yet signalled
  held        \* permits each thread has and no element for yet

queueVars == <<inner, unsig, held>>
vars == <<semVars, queueVars>>

Init ==
  /\ SemInit
  /\ inner = 0
  /\ unsig = [t \in Thread |-> 0]
  /\ held = [t \in Thread |-> 0]

\* The sum of f[t] over all threads: a pair for every unit.
Units(f) == UNION {{t} \X (1 .. f[t]) : t \in Thread}
TotalOf(f) == Cardinality(Units(f))
Free(t) == pc[t] = "idle" /\ unsig[t] = 0 /\ held[t] = 0

\* enqueue, enqueue_bulk and the try_ variants, if the inner one succeeds.
Enqueue(t, n) ==
  /\ Free(t) /\ signalled + TotalOf(unsig) + n <= MaxSignal
  /\ inner' = inner + n
  /\ unsig' = [unsig EXCEPT ![t] = n]
  /\ UNCHANGED <<semVars, held>>

\* Fault: the count is raised and nobody woken.
SignalQuietly(t) ==
  /\ unsig[t] > 0
  /\ m_count' = m_count + unsig[t]
  /\ signalled' = signalled + unsig[t]
  /\ unsig' = [unsig EXCEPT ![t] = 0]
  /\ UNCHANGED <<m_sema, pc, kind, max, got, owe, granted, inner, held>>

SignalEnqueued(t) ==
  /\ unsig[t] > 0
  /\ Signal(t, unsig[t])
  /\ unsig' = [unsig EXCEPT ![t] = 0]
  /\ UNCHANGED <<inner, held>>

\* try_dequeue, wait_dequeue, wait_dequeue_timed and their bulk variants.
Dequeue(t, k, n) ==
  /\ Free(t)
  /\ Call(t, k, n)
  /\ UNCHANGED queueVars

\* Fault: the operation goes on as if the wait had succeeded.
EntitledAnyway(t) ==
  /\ Return(t)
  /\ held' = [held EXCEPT ![t] = max[t]]
  /\ UNCHANGED <<inner, unsig>>

\* The semaphore returns: 0, or that many elements to fetch.
Entitled(t) ==
  /\ Return(t)
  /\ held' = [held EXCEPT ![t] = got[t]]
  /\ UNCHANGED <<inner, unsig>>

\* Fault: one call of the inner try_dequeue_bulk is taken to fetch them all.
FetchOnce(t) ==
  /\ held[t] > 0
  /\ \E n \in 1 .. held[t] : n <= inner /\ inner' = inner - n
  /\ held' = [held EXCEPT ![t] = 0]
  /\ UNCHANGED <<semVars, unsig>>

\* The inner try_dequeue(_bulk) that fetches n of them.
Fetch(t) ==
  /\ held[t] > 0
  /\ \E n \in 1 .. held[t] :
       /\ n <= inner
       /\ inner' = inner - n
       /\ held' = [held EXCEPT ![t] = @ - n]
  /\ UNCHANGED <<semVars, unsig>>

Next ==
  \E t \in Thread :
    \/ \E n \in 1..MaxWait : Enqueue(t, n)
    \/ SignalEnqueued(t)
    \/ \E k \in {"try", "timed", "forever"}, n \in 1..MaxWait : Dequeue(t, k, n)
    \/ (Waiting(t) \/ TimeOut(t) \/ Signalling(t)) /\ UNCHANGED queueVars
    \/ Entitled(t) \/ Fetch(t)

Spec == Init /\ [][Next]_vars

\* A thread inside a call goes on, and a thread asleep on the operating system's
\* semaphore is not passed over for ever.
Going(t) ==
  \/ SignalEnqueued(t) \/ Entitled(t) \/ Fetch(t)
  \/ (Waiting(t) \/ Signalling(t)) /\ UNCHANGED queueVars

FairSpec ==
  /\ Spec
  /\ \A t \in Thread : WF_vars(Going(t)) /\ SF_vars(SemaWait(t) /\ UNCHANGED queueVars)
-------------------------------------------------------------------------------
\* Every element is accounted for, by a permit not handed out, by one a thread
\* has, or by a signal still to come: so whoever is entitled to an element finds
\* one, however late, and the loop around the inner try_dequeue ends.
ElementsBacked ==
  inner = (signalled - granted) + TotalOf(got) + TotalOf(held) + TotalOf(unsig)

\* Nobody is left asleep in wait_dequeue beside an element: when every other
\* thread has finished its call, a sleeper means that the queue is empty.
NobodySleepsBesideElements ==
  (\E t \in Thread : pc[t] = "sema") /\ m_sema = 0
    /\ (\A t \in Thread : pc[t] = "sema" \/ Free(t)) => inner = 0

\* A thread asleep in wait_dequeue is woken if elements stay in the queue.
SleeperWakes ==
  \A t \in Thread : (pc[t] = "sema" /\ inner > 0) ~> (pc[t] # "sema" \/ inner = 0)

\* The blocking queue uses its semaphore as the module LightweightSemaphore
\* says, so what is proved there holds here.
ImplementsSemaphore == SemSpec

\* Elements and permits agree, and nobody sleeps beside an element.
ElementsSound == ElementsBacked /\ NobodySleepsBesideElements

\* Waits end: of whoever's time is up, and of sleepers while elements stay.
WaitersReturn == TimedOutReturns /\ SleeperWakes
===============================================================================
