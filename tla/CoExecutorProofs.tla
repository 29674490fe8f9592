-------------------------- MODULE CoExecutorProofs --------------------------
(***************************************************************************)
(* Proofs about CoExecutor for any number of workers, any priorities and   *)
(* any number of resume_coroutine calls.                                   *)
(*                                                                         *)
(* IInv is the inductive invariant: besides the stated invariants it says  *)
(* where each resume request is (queue_, one worker's co_handle, or        *)
(* resumed; never two of them), which is what makes TakeWoken and Finish   *)
(* steps of the abstract service.                                          *)
(***************************************************************************)
EXTENDS CoExecutor, FiniteSetTheorems, TLAPS

Resuming == {w \in Worker : pc[w] = "resume"}

\* Every request has exactly one holder.
OneHolder ==
  /\ \A e, f \in queue_ : e.id = f.id => e = f
  /\ \A e \in queue_ : e.id <= pushed /\ e.id \notin resumed
  /\ \A w \in Resuming : /\ co_handle[w] \in Entry
                         /\ co_handle[w].id <= pushed
                         /\ co_handle[w].id \notin resumed
                         /\ \A e \in queue_ : e.id # co_handle[w].id
  /\ \A v, w \in Resuming : co_handle[v].id = co_handle[w].id => v = w
  /\ \A r \in resumed : r <= pushed

IInv ==
  /\ TypeOK
  /\ IsFiniteSet(queue_)
  /\ WaitCount
  /\ NoIdleWorkerMissed
  /\ OneHolder
  /\ \A w \in Worker : pc[w] = "return" => stop_
  /\ joined => \A w \in Worker : pc[w] = "return"

------------------------------------------------------------------------------
\* The sets of workers counted in the invariants are finite.
LEMMA WorkersFinite ==
  /\ IsFiniteSet(Asleep) /\ Cardinality(Asleep) \in Nat
  /\ IsFiniteSet(Woken) /\ Cardinality(Woken) \in Nat
  /\ IsFiniteSet(Asleep \cup Woken) /\ Cardinality(Asleep \cup Woken) \in Nat
<1>1. Asleep \in SUBSET Worker /\ Woken \in SUBSET Worker
      /\ (Asleep \cup Woken) \in SUBSET Worker
  BY DEF Asleep, Woken
<1>2. IsFiniteSet(Asleep) /\ IsFiniteSet(Woken) /\ IsFiniteSet(Asleep \cup Woken)
  BY <1>1, WorkerAssumption, FS_Subset
<1>3. QED
  BY <1>2, FS_CardinalityType

\* A sleeping worker is counted: resume_coroutine sees wait_thread_num > 0.
LEMMA SleeperIsCounted ==
  ASSUME WaitCount, Asleep # {}
  PROVE  wait_thread_num > 0
<1>1. PICK w \in Asleep : TRUE
  OBVIOUS
<1>2. Asleep \cup Woken # {}
  BY <1>1
<1>3. Cardinality(Asleep \cup Woken) # 0
  BY <1>2, WorkersFinite, FS_EmptySet
<1>4. QED
  BY <1>3, WorkersFinite DEF WaitCount

\* A worker that leaves cv_.wait was counted, so --wait_thread_num cannot wrap.
LEMMA WokenIsCounted ==
  ASSUME WaitCount, NEW w \in Worker, pc[w] = "woken"
  PROVE  wait_thread_num > 0
<1>1. Asleep \cup Woken # {}
  BY DEF Woken
<1>2. Cardinality(Asleep \cup Woken) # 0
  BY <1>1, WorkersFinite, FS_EmptySet
<1>3. QED
  BY <1>2, WorkersFinite DEF WaitCount

\* The variables of loop_resume_coroutine and resume_coroutine keep their types.
LEMMA TypeStep ==
  ASSUME IInv, [Next]_vars
  PROVE  TypeOK'
<1> USE MaxPushAssumption DEF TypeOK, WorkerState, IInv
<1>1. ASSUME NEW w \in Worker, Start(w)
      PROVE  TypeOK'
  BY <1>1 DEF Start
<1>2. ASSUME NEW w \in Worker, Sleep(w)
      PROVE  TypeOK'
  BY <1>2 DEF Sleep
<1>3. ASSUME NEW w \in Worker, TakeAtOnce(w)
      PROVE  TypeOK'
  BY <1>3 DEF TakeAtOnce, LeaveWait
<1>4. ASSUME NEW w \in Worker, SleepAgain(w)
      PROVE  TypeOK'
  BY <1>4 DEF SleepAgain
<1>5. ASSUME NEW w \in Worker, TakeWoken(w)
      PROVE  TypeOK'
  <2>1. wait_thread_num' \in Nat
    BY <1>5, WokenIsCounted DEF TakeWoken
  <2>2. QED
    BY <1>5, <2>1 DEF TakeWoken, LeaveWait
<1>6. ASSUME NEW w \in Worker, SpuriousWake(w)
      PROVE  TypeOK'
  BY <1>6 DEF SpuriousWake
<1>7. ASSUME NEW w \in Worker, Finish(w)
      PROVE  TypeOK'
  <2>1. co_handle[w].id \in 1..MaxPush
    BY <1>7 DEF Finish, OneHolder, Resuming, Entry
  <2>2. QED
    BY <1>7, <2>1 DEF Finish
<1>8. ASSUME NEW p \in Priority, ResumeCoroutine(p)
      PROVE  TypeOK'
  BY <1>8 DEF ResumeCoroutine, NotifyOne, Asleep, Entry
<1>9. CASE StopSet
  BY <1>9 DEF StopSet
<1>10. CASE StopNotify
  BY <1>10 DEF StopNotify
<1>11. CASE Destroy
  BY <1>11 DEF Destroy
<1>12. CASE UNCHANGED vars
  BY <1>12 DEF vars
<1>13. QED
  BY <1>1, <1>2, <1>3, <1>4, <1>5, <1>6, <1>7, <1>8, <1>9, <1>10, <1>11, <1>12
     DEF Next, LoopResumeCoroutine

\* queue_ stays finite: one entry per resume_coroutine.
LEMMA QueueFinite ==
  ASSUME IInv, [Next]_vars
  PROVE  IsFiniteSet(queue_')
<1> USE DEF IInv
<1>1. ASSUME NEW p \in Priority, ResumeCoroutine(p)
      PROVE  IsFiniteSet(queue_')
  BY <1>1, FS_AddElement DEF ResumeCoroutine
<1>2. ASSUME NEW w \in Worker, LeaveWait(w)
      PROVE  IsFiniteSet(queue_')
  BY <1>2, FS_RemoveElement DEF LeaveWait
<1>3. CASE UNCHANGED queue_
  BY <1>3
<1>4. QED
  BY <1>1, <1>2, <1>3
     DEF Next, LoopResumeCoroutine, Start, Sleep, TakeAtOnce, SleepAgain, TakeWoken,
         SpuriousWake, Finish, StopSet, StopNotify, Destroy, vars

\* wait_thread_num keeps counting the workers inside cv_.wait.
LEMMA WaitCountStep ==
  ASSUME IInv, [Next]_vars
  PROVE  WaitCount'
<1> USE DEF IInv, TypeOK, WaitCount
<1> DEFINE Waiting == Asleep \cup Woken
<1>0. IsFiniteSet(Waiting) /\ Cardinality(Waiting) \in Nat
  BY WorkersFinite
<1>1. ASSUME NEW w \in Worker, Sleep(w)
      PROVE  WaitCount'
  <2>1. w \notin Waiting /\ Waiting' = Waiting \cup {w}
    BY <1>1 DEF Sleep, Asleep, Woken
  <2>2. Cardinality(Waiting') = Cardinality(Waiting) + 1
    BY <2>1, <1>0, FS_AddElement
  <2>3. QED
    BY <1>1, <2>2 DEF Sleep
<1>2. ASSUME NEW w \in Worker, TakeWoken(w)
      PROVE  WaitCount'
  <2>1. w \in Waiting /\ Waiting' = Waiting \ {w}
    BY <1>2 DEF TakeWoken, LeaveWait, Asleep, Woken
  <2>2. ASSUME NEW S, IsFiniteSet(S), w \in S
        PROVE  Cardinality(S \ {w}) = Cardinality(S) - 1
    BY <2>2, FS_RemoveElement
  <2>3. Cardinality(Waiting \ {w}) = Cardinality(Waiting) - 1
    <3> HIDE DEF Waiting
    <3> QED
      BY <2>1, <1>0, <2>2
  <2>4. QED
    BY <1>2, <2>1, <2>3 DEF TakeWoken
<1>3. ASSUME Waiting' = Waiting, wait_thread_num' = wait_thread_num
      PROVE  WaitCount'
  BY <1>3
<1>4. ASSUME NEW w \in Worker,
             Start(w) \/ TakeAtOnce(w) \/ SleepAgain(w) \/ SpuriousWake(w) \/ Finish(w)
      PROVE  Waiting' = Waiting /\ wait_thread_num' = wait_thread_num
  BY <1>4 DEF Start, TakeAtOnce, LeaveWait, SleepAgain, SpuriousWake, Finish, Asleep, Woken
<1>5. ASSUME NEW p \in Priority, ResumeCoroutine(p)
      PROVE  Waiting' = Waiting /\ wait_thread_num' = wait_thread_num
  BY <1>5 DEF ResumeCoroutine, NotifyOne, Asleep, Woken
<1>6. ASSUME StopSet \/ StopNotify \/ Destroy \/ UNCHANGED vars
      PROVE  Waiting' = Waiting /\ wait_thread_num' = wait_thread_num
  BY <1>6 DEF StopSet, StopNotify, Destroy, vars, Asleep, Woken
<1>7. QED
  BY <1>1, <1>2, <1>3, <1>4, <1>5, <1>6 DEF Next, LoopResumeCoroutine

\* A push wakes a sleeper for the entry it adds; a worker that takes an entry
\* is at most one of the woken ones; nobody falls asleep on a non-empty queue.
LEMMA NoIdleStep ==
  ASSUME IInv, [Next]_vars
  PROVE  NoIdleWorkerMissed'
<1> USE DEF IInv, TypeOK
<1>0. /\ IsFiniteSet(queue_) /\ Cardinality(queue_) \in Nat
      /\ IsFiniteSet(Woken) /\ Cardinality(Woken) \in Nat
  BY WorkersFinite, FS_CardinalityType
<1>1. ASSUME ~WaitPredicate, UNCHANGED queue_
      PROVE  NoIdleWorkerMissed'
  <2>1. Cardinality(queue_') = 0
    BY <1>1, FS_EmptySet DEF WaitPredicate
  <2>2. (Cardinality(Woken) \in Nat)'
    <3>1. (Woken \in SUBSET Worker)'
      BY DEF Woken
    <3>2. QED
      BY <3>1, WorkerAssumption, FS_Subset, FS_CardinalityType
  <2>3. QED
    BY <2>1, <2>2 DEF NoIdleWorkerMissed
<1>2. ASSUME NEW w \in Worker, LeaveWait(w), ~stop_,
             UNCHANGED stop_,
             pc[w] \in {"loop", "woken"}
      PROVE  NoIdleWorkerMissed'
  <2>1. PICK e \in queue_ : queue_' = queue_ \ {e} /\ pc' = [pc EXCEPT ![w] = "resume"]
    BY <1>2 DEF LeaveWait
  <2>2. Cardinality(queue_') = Cardinality(queue_) - 1
    BY <2>1, <1>0, FS_RemoveElement
  <2>3. Asleep' = Asleep
    BY <1>2, <2>1 DEF Asleep
  <2>4. CASE pc[w] = "loop"
    <3>1. Woken' = Woken
      BY <2>1, <2>4 DEF Woken
    <3>2. QED
      BY <1>0, <1>2, <2>2, <2>3, <3>1 DEF NoIdleWorkerMissed
  <2>5. CASE pc[w] = "woken"
    <3>1. w \in Woken /\ Woken' = Woken \ {w}
      BY <2>1, <2>5 DEF Woken
    <3>2. Cardinality(Woken') = Cardinality(Woken) - 1
      BY <3>1, <1>0, FS_RemoveElement
    <3>3. QED
      BY <1>0, <1>2, <2>2, <2>3, <3>2 DEF NoIdleWorkerMissed
  <2>6. QED
    BY <1>2, <2>4, <2>5
<1>3. ASSUME NEW p \in Priority, ResumeCoroutine(p)
      PROVE  NoIdleWorkerMissed'
  <2>1. CASE Asleep = {}
    <3>1. Asleep' = {}
      BY <1>3, <2>1 DEF ResumeCoroutine, NotifyOne, Asleep
    <3>2. QED
      BY <3>1 DEF NoIdleWorkerMissed
  <2>2. CASE Asleep # {}
    <3>1. wait_thread_num > 0
      BY <2>2, SleeperIsCounted
    <3>2. PICK w \in Asleep : pc' = [pc EXCEPT ![w] = "woken"]
      BY <1>3, <2>2, <3>1 DEF ResumeCoroutine, NotifyOne
    <3>3. w \notin Woken /\ Woken' = Woken \cup {w}
      BY <3>2 DEF Asleep, Woken
    <3>4. Cardinality(Woken') = Cardinality(Woken) + 1
      BY <3>3, <1>0, FS_AddElement
    <3>5. Cardinality(queue_') \in Nat /\ Cardinality(queue_') <= Cardinality(queue_) + 1
      <4>1. ASSUME NEW S, NEW e, IsFiniteSet(S)
            PROVE  /\ Cardinality(S \cup {e}) \in Nat
                   /\ Cardinality(S \cup {e}) <= Cardinality(S) + 1
        <5>1. IsFiniteSet(S \cup {e}) /\ Cardinality(S) \in Nat
          BY <4>1, FS_AddElement, FS_CardinalityType
        <5>2. Cardinality(S \cup {e}) \in Nat
          BY <5>1, FS_CardinalityType
        <5>3. QED
          BY <4>1, <5>1, <5>2, FS_AddElement
      <4>2. PICK e : queue_' = queue_ \cup {e}
        BY <1>3 DEF ResumeCoroutine
      <4>3. QED
        BY <1>0, <4>1, <4>2
    <3>6. stop_' = stop_
      BY <1>3 DEF ResumeCoroutine
    <3>7. QED
      BY <1>0, <2>2, <3>4, <3>5, <3>6 DEF NoIdleWorkerMissed
  <2>3. QED
    BY <2>1, <2>2
<1>4. ASSUME NEW w \in Worker, SpuriousWake(w)
      PROVE  NoIdleWorkerMissed'
  <2>1. w \notin Woken /\ Woken' = Woken \cup {w} /\ w \in Asleep
    BY <1>4 DEF SpuriousWake, Asleep, Woken
  <2>2. Cardinality(Woken') = Cardinality(Woken) + 1
    BY <2>1, <1>0, FS_AddElement
  <2>3. QED
    BY <1>0, <1>4, <2>1, <2>2 DEF SpuriousWake, NoIdleWorkerMissed
<1>5. ASSUME stop_'
      PROVE  NoIdleWorkerMissed'
  BY <1>5 DEF NoIdleWorkerMissed
<1>6. CASE StopNotify
  <2>1. Asleep' = {}
    BY <1>6 DEF StopNotify, Asleep
  <2>2. QED
    BY <2>1 DEF NoIdleWorkerMissed
<1>7. ASSUME Asleep' = Asleep, Woken' = Woken, UNCHANGED <<queue_, stop_>>
      PROVE  NoIdleWorkerMissed'
  BY <1>7 DEF NoIdleWorkerMissed
<1>8. ASSUME NEW w \in Worker, Start(w) \/ Finish(w)
      PROVE  NoIdleWorkerMissed'
  BY <1>7, <1>8 DEF Start, Finish, Asleep, Woken
<1>9. CASE Destroy \/ UNCHANGED vars
  BY <1>7, <1>9 DEF Destroy, vars, Asleep, Woken
<1>10. ASSUME NEW w \in Worker, Sleep(w) \/ SleepAgain(w)
       PROVE  NoIdleWorkerMissed'
  BY <1>1, <1>10 DEF Sleep, SleepAgain
<1>11. ASSUME NEW w \in Worker, TakeAtOnce(w) \/ TakeWoken(w)
       PROVE  NoIdleWorkerMissed'
  BY <1>2, <1>5, <1>11 DEF TakeAtOnce, TakeWoken
<1>12. CASE StopSet
  BY <1>5, <1>12 DEF StopSet
<1>13. QED
  BY <1>3, <1>4, <1>6, <1>8, <1>9, <1>10, <1>11, <1>12 DEF Next, LoopResumeCoroutine

\* A request moves from queue_ to one co_handle and from there to resumed.
LEMMA OneHolderStep ==
  ASSUME IInv, [Next]_vars
  PROVE  OneHolder'
<1> USE MaxPushAssumption DEF IInv, TypeOK, Resuming
<1>1. ASSUME UNCHANGED <<queue_, co_handle, pushed, resumed>>, Resuming' = Resuming
      PROVE  OneHolder'
  BY <1>1 DEF OneHolder
<1>2. ASSUME NEW p \in Priority, ResumeCoroutine(p)
      PROVE  OneHolder'
  <2>1. Resuming' = Resuming
    BY <1>2 DEF ResumeCoroutine, NotifyOne, Asleep
  <2>2. QED
    BY <1>2, <2>1 DEF ResumeCoroutine, OneHolder, Entry
<1>3. ASSUME NEW w \in Worker, LeaveWait(w), pc[w] # "resume",
             UNCHANGED <<pushed, resumed>>
      PROVE  OneHolder'
  <2>1. CASE stop_
    BY <1>1, <1>3, <2>1 DEF LeaveWait
  <2>2. CASE ~stop_
    <3>1. PICK e \in queue_ : /\ queue_' = queue_ \ {e}
                              /\ co_handle' = [co_handle EXCEPT ![w] = e]
                              /\ pc' = [pc EXCEPT ![w] = "resume"]
      BY <1>3, <2>2 DEF LeaveWait
    <3>2. Resuming' = Resuming \cup {w} /\ w \notin Resuming
      BY <1>3, <3>1
    <3>3. \A v \in Resuming : co_handle'[v] = co_handle[v]
      BY <3>1, <3>2
    <3>4. co_handle'[w] = e /\ e \in Entry
      BY <3>1
    <3>5. QED
      BY <1>3, <3>1, <3>2, <3>3, <3>4 DEF OneHolder
  <2>3. QED
    BY <2>1, <2>2
<1>4. ASSUME NEW w \in Worker, Finish(w)
      PROVE  OneHolder'
  <2>1. w \in Resuming /\ Resuming' = Resuming \ {w}
    BY <1>4 DEF Finish
  <2>2. QED
    BY <1>4, <2>1 DEF Finish, OneHolder
<1>5. ASSUME NEW w \in Worker, Start(w) \/ Sleep(w) \/ SleepAgain(w) \/ SpuriousWake(w)
      PROVE  OneHolder'
  BY <1>1, <1>5 DEF Start, Sleep, SleepAgain, SpuriousWake
<1>6. CASE StopSet \/ StopNotify \/ Destroy \/ UNCHANGED vars
  BY <1>1, <1>6 DEF StopSet, StopNotify, Destroy, vars
<1>7. ASSUME NEW w \in Worker, TakeAtOnce(w) \/ TakeWoken(w)
      PROVE  OneHolder'
  BY <1>3, <1>7 DEF TakeAtOnce, TakeWoken
<1>8. QED
  BY <1>2, <1>4, <1>5, <1>6, <1>7 DEF Next, LoopResumeCoroutine

\* Workers leave the loop only on stop_, which nothing clears, and a worker
\* that left never comes back.
LEMMA ReturnStep ==
  ASSUME IInv, [Next]_vars
  PROVE  /\ (\A w \in Worker : pc[w] = "return" => stop_)'
         /\ (joined => \A w \in Worker : pc[w] = "return")'
<1> USE DEF IInv, TypeOK
<1>1. ASSUME NEW w \in Worker,
             Start(w) \/ Sleep(w) \/ SleepAgain(w) \/ SpuriousWake(w) \/ Finish(w)
      PROVE  /\ (\A v \in Worker : pc[v] = "return" => stop_)'
             /\ (joined => \A v \in Worker : pc[v] = "return")'
  BY <1>1 DEF Start, Sleep, SleepAgain, SpuriousWake, Finish
<1>2. ASSUME NEW w \in Worker, TakeAtOnce(w) \/ TakeWoken(w)
      PROVE  /\ (\A v \in Worker : pc[v] = "return" => stop_)'
             /\ (joined => \A v \in Worker : pc[v] = "return")'
  BY <1>2 DEF TakeAtOnce, TakeWoken, LeaveWait
<1>3. ASSUME NEW p \in Priority, ResumeCoroutine(p)
      PROVE  /\ (\A v \in Worker : pc[v] = "return" => stop_)'
             /\ (joined => \A v \in Worker : pc[v] = "return")'
  BY <1>3 DEF ResumeCoroutine, NotifyOne, Asleep
<1>4. CASE StopSet \/ StopNotify \/ Destroy \/ UNCHANGED vars
  BY <1>4 DEF StopSet, StopNotify, Destroy, vars
<1>5. QED
  BY <1>1, <1>2, <1>3, <1>4 DEF Next, LoopResumeCoroutine

------------------------------------------------------------------------------
\* IInv holds when the executor is constructed.
LEMMA IInvInit ==
  ASSUME Init
  PROVE  IInv
<1> USE MaxPushAssumption DEF Init
<1>1. TypeOK
  <2>1. /\ queue_ \in SUBSET Entry /\ wait_thread_num \in Nat
        /\ pushed \in 0..MaxPush /\ resumed \in SUBSET (1..MaxPush)
    OBVIOUS
  <2>2. pc \in [Worker -> WorkerState] /\ co_handle \in [Worker -> Entry \cup {NoHandle}]
    BY DEF WorkerState
  <2>3. stop_ \in BOOLEAN /\ joined \in BOOLEAN
    BY Zenon
  <2>4. QED
    BY <2>1, <2>2, <2>3 DEF TypeOK
<1>2. Asleep = {} /\ Woken = {} /\ Resuming = {}
  BY DEF Asleep, Woken, Resuming
<1>3. WaitCount
  BY <1>2, FS_EmptySet DEF WaitCount
<1>4. NoIdleWorkerMissed
  BY <1>2 DEF NoIdleWorkerMissed
<1>5. OneHolder
  BY <1>2 DEF OneHolder
<1>6. IsFiniteSet(queue_)
  BY FS_EmptySet
<1>7. QED
  BY <1>1, <1>3, <1>4, <1>5, <1>6 DEF IInv

\* IInv is inductive.
LEMMA IInvStep ==
  ASSUME IInv, [Next]_vars
  PROVE  IInv'
BY TypeStep, QueueFinite, WaitCountStep, NoIdleStep, OneHolderStep, ReturnStep DEF IInv

\* The inductive invariant of the thread pool holds in every reachable state.
LEMMA IInvAlways == Spec => []IInv
BY IInvInit, IInvStep, PTL DEF Spec

\* Type correctness of the executor, for any pool size.
THEOREM TypeCorrect == Spec => []TypeOK
<1>1. IInv => TypeOK
  BY DEF IInv
<1>2. QED
  BY <1>1, IInvAlways, PTL

\* wait_thread_num is exactly the number of workers inside cv_.wait, so the
\* test of resume_coroutine reads a true count whatever the interleaving of
\* pushes, notifications, spurious wake-ups and stop().
THEOREM WaitCountCorrect == Spec => []WaitCount
<1>1. IInv => WaitCount
  BY DEF IInv
<1>2. QED
  BY <1>1, IInvAlways, PTL

\* No wake-up is lost by signalling only when wait_thread_num > 0.
THEOREM NoLostWakeUp == Spec => []NoIdleWorkerMissed
<1>1. IInv => NoIdleWorkerMissed
  BY DEF IInv
<1>2. QED
  BY <1>1, IInvAlways, PTL

\* ~CoExecutor returns only after stop().
THEOREM DestructorNeedsStop == Spec => []JoinNeedsStop
<1>1. IInv => JoinNeedsStop
  BY WorkerAssumption DEF IInv, JoinNeedsStop
<1>2. QED
  BY <1>1, IInvAlways, PTL

------------------------------------------------------------------------------
\* The state of the abstract service, as CoExecutor's Service maps it.
Pending == {e.id : e \in queue_}
Running == {co_handle[w].id : w \in {x \in Worker : pc[x] = "resume"}}

\* A push adds a request nobody has seen: Submit.
LEMMA SubmitStep ==
  ASSUME IInv, NEW p \in Priority, ResumeCoroutine(p)
  PROVE  \E r \in 1..MaxPush : Service!Submit(r)
<1> USE MaxPushAssumption DEF IInv, TypeOK
<1>1. pushed + 1 \in 1..MaxPush
  BY DEF ResumeCoroutine
<1>2. pushed + 1 \notin Pending \cup Running \cup resumed
  BY DEF Pending, Running, OneHolder, Resuming, Entry
<1>3. Pending' = Pending \cup {pushed + 1}
  <2> DEFINE e == [id |-> pushed + 1, priority |-> p]
  <2>1. queue_' = queue_ \cup {e} /\ e.id = pushed + 1
    BY DEF ResumeCoroutine
  <2> HIDE DEF e
  <2>2. QED
    BY <2>1 DEF Pending
<1>4. Running' = Running
  <2>1. {x \in Worker : pc'[x] = "resume"} = {x \in Worker : pc[x] = "resume"}
    BY DEF ResumeCoroutine, NotifyOne, Asleep
  <2>2. QED
    BY <2>1 DEF ResumeCoroutine, Running
<1>5. PICK r \in 1..MaxPush : r = pushed + 1
  BY <1>1
<1>6. Service!Submit(r)
  BY <1>2, <1>3, <1>4, <1>5 DEF ResumeCoroutine, Service!Submit, Pending, Running
<1>7. QED
  BY <1>6

\* A worker that pops the top handle starts that request: Begin; a worker that
\* sees stop_ changes nothing the service shows.
LEMMA BeginStep ==
  ASSUME IInv, NEW w \in Worker, LeaveWait(w), pc[w] # "resume",
         UNCHANGED <<stop_, resumed>>
  PROVE  (\E r \in 1..MaxPush : Service!Begin(r)) \/ UNCHANGED Service!vars
<1> USE DEF IInv, TypeOK
<1>1. CASE stop_
  <2>1. Running' = Running /\ Pending' = Pending
    <3>1. {x \in Worker : pc'[x] = "resume"} = {x \in Worker : pc[x] = "resume"}
      BY <1>1 DEF LeaveWait
    <3>2. QED
      BY <1>1, <3>1 DEF LeaveWait, Running, Pending
  <2>2. QED
    BY <2>1 DEF Service!vars, Running, Pending
<1>2. CASE ~stop_
  <2>1. PICK e \in queue_ : /\ queue_' = queue_ \ {e}
                            /\ co_handle' = [co_handle EXCEPT ![w] = e]
                            /\ pc' = [pc EXCEPT ![w] = "resume"]
    BY <1>2 DEF LeaveWait
  <2>2. e.id \in 1..MaxPush /\ e.id \in Pending
    BY DEF Entry, Pending
  <2>3. Pending' = Pending \ {e.id}
    BY <2>1 DEF Pending, OneHolder
  <2>4. Running' = Running \cup {e.id}
    <3>1. Resuming' = Resuming \cup {w}
      BY <2>1 DEF Resuming
    <3>2. \A v \in Resuming : co_handle'[v] = co_handle[v]
      BY <2>1 DEF Resuming
    <3>3. co_handle'[w] = e
      BY <2>1
    <3>4. Running = {co_handle[v].id : v \in Resuming}
          /\ Running' = {co_handle'[v].id : v \in Resuming'}
      BY DEF Running, Resuming
    <3>5. QED
      BY <3>1, <3>2, <3>3, <3>4
  <2>5. Service!Begin(e.id)
    BY <1>2, <2>2, <2>3, <2>4 DEF Service!Begin, Pending, Running
  <2>6. QED
    BY <2>2, <2>5
<1>3. QED
  BY <1>1, <1>2

\* A coroutine that suspends ends its request: End.
LEMMA EndStep ==
  ASSUME IInv, NEW w \in Worker, Finish(w)
  PROVE  \E r \in 1..MaxPush : Service!End(r)
<1> USE DEF IInv, TypeOK
<1>1. w \in Resuming /\ Resuming' = Resuming \ {w} /\ co_handle' = co_handle
  BY DEF Finish, Resuming
<1>2. Running = {co_handle[v].id : v \in Resuming}
      /\ Running' = {co_handle'[v].id : v \in Resuming'}
  BY DEF Running, Resuming
<1>3. Running' = Running \ {co_handle[w].id}
  BY <1>1, <1>2 DEF OneHolder
<1>4. co_handle[w].id \in Running /\ co_handle[w].id \in 1..MaxPush
  BY <1>1, <1>2 DEF OneHolder, Entry
<1>5. Pending' = Pending
  BY DEF Finish, Pending
<1>6. PICK r \in 1..MaxPush : r = co_handle[w].id
  BY <1>4
<1>7. Service!End(r)
  BY <1>3, <1>4, <1>5, <1>6 DEF Finish, Service!End, Pending, Running
<1>8. QED
  BY <1>7

\* Every step of the pool is a step of the service or invisible to it.
LEMMA ServiceStep ==
  ASSUME IInv, [Next]_vars
  PROVE  [Service!Next]_(Service!vars)
<1>1. ASSUME NEW p \in Priority, ResumeCoroutine(p)
      PROVE  Service!Next
  BY <1>1, SubmitStep DEF Service!Next
<1>2. ASSUME NEW w \in Worker, TakeAtOnce(w) \/ TakeWoken(w)
      PROVE  Service!Next \/ UNCHANGED Service!vars
  <2>1. LeaveWait(w) /\ pc[w] # "resume" /\ UNCHANGED <<stop_, resumed>>
    BY <1>2 DEF TakeAtOnce, TakeWoken
  <2>2. QED
    BY <2>1, BeginStep DEF Service!Next
<1>3. ASSUME NEW w \in Worker, Finish(w)
      PROVE  Service!Next
  BY <1>3, EndStep DEF Service!Next
<1>4. ASSUME UNCHANGED <<queue_, co_handle, resumed, stop_>>,
             Resuming' = Resuming
      PROVE  UNCHANGED Service!vars
  BY <1>4 DEF Service!vars, Resuming
<1>5. ASSUME NEW w \in Worker, Start(w) \/ Sleep(w) \/ SleepAgain(w) \/ SpuriousWake(w)
      PROVE  UNCHANGED Service!vars
  BY <1>4, <1>5 DEF Start, Sleep, SleepAgain, SpuriousWake, Resuming, IInv, TypeOK
<1>6. CASE StopNotify \/ Destroy \/ UNCHANGED vars
  BY <1>4, <1>6 DEF StopNotify, Destroy, vars, Resuming
<1>7. CASE StopSet
  <2>1. Service!Stop
    BY <1>7 DEF StopSet, Service!Stop
  <2>2. QED
    BY <2>1 DEF Service!Next
<1>8. QED
  BY <1>1, <1>2, <1>3, <1>5, <1>6, <1>7 DEF Next, LoopResumeCoroutine

\* The pool implements the abstract resume service: every handle is resumed at
\* most once, by one worker, and given up only after stop().
THEOREM ExecutorImplementsService == Spec => ImplementsService
<1>1. Init => Service!Init
  BY DEF Init, Service!Init
<1>2. IInv /\ [Next]_vars => [Service!Next]_(Service!vars)
  BY ServiceStep
<1>3. QED
  BY <1>1, <1>2, IInvAlways, PTL DEF Spec, ImplementsService, Service!Spec

\* All of it together, for any workers, priorities and handles.
THEOREM WakeUpsAreSound == Spec => []WakeUpsSound
  BY TypeCorrect, WaitCountCorrect, NoLostWakeUp, DestructorNeedsStop, PTL
  DEF WakeUpsSound
==============================================================================
