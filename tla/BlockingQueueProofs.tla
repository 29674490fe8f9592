------------------------- MODULE BlockingQueueProofs -------------------------
(***************************************************************************)
(* Proofs about LightweightSemaphore and BlockingQueue for any number of   *)
(* threads, permits, signals and elements.                                 *)
(*                                                                         *)
(* The semaphore: the two equations of Conserved are inductive together,   *)
(* for the second says how many waiters a signal has counted in, which is  *)
(* what makes Undo (the count is negative, so this waiter may go) and      *)
(* SemaWait (there is a post for it) keep the first.  SemInv adds where a  *)
(* thread can owe posts and why a caller without a timeout cannot return   *)
(* empty-handed.                                                           *)
(*                                                                         *)
(* The queue: every step is a step of the semaphore or leaves its          *)
(* variables alone, so SemInv holds inside the queue; ElementInv adds that *)
(* elements and permits are created and used up together.                  *)
(***************************************************************************)
EXTENDS BlockingQueue, FiniteSetTheorems, TLAPS

CallInv ==
  \A t \in Thread :
    /\ owe[t] <= signalled
    /\ pc[t] # "post" => owe[t] = 0
    /\ pc[t] \notin {"idle", "post"} => max[t] >= 1
    /\ pc[t] = "more" => got[t] >= 1
    /\ pc[t] \in {"undo", "late"} => kind[t] = "timed"
    /\ pc[t] = "return" /\ kind[t] = "forever" => got[t] > 0

SemInv == SemTypeOK /\ CallInv /\ Conserved

-------------------------------------------------------------------------------
\* Only finitely many threads wait.
LEMMA WaiterFinite ==
  IsFiniteSet(Waiter) /\ Cardinality(Waiter) \in Nat
<1>1. Waiter \in SUBSET Thread
  BY DEF Waiter
<1>2. IsFiniteSet(Thread)
  BY SemaphoreAssumption
<1>3. IsFiniteSet(Waiter)
  BY <1>1, <1>2, FS_Subset, Zenon
<1>4. QED
  BY <1>3, FS_CardinalityType, Zenon

\* Only finitely many posts are owed: nobody owes more than was signalled.
LEMMA OwedFinite ==
  ASSUME SemTypeOK, CallInv
  PROVE  IsFiniteSet(Owed) /\ Cardinality(Owed) \in Nat
<1>1. Owed \in SUBSET (Thread \X (1 .. signalled))
  <2> SUFFICES ASSUME NEW t \in Thread, NEW i \in 1 .. owe[t]
               PROVE  <<t, i>> \in Thread \X (1 .. signalled)
    BY DEF Owed
  <2>1. i \in 1 .. signalled
    BY DEF SemTypeOK, CallInv
  <2>2. QED
    BY <2>1
<1>2. IsFiniteSet(1 .. signalled)
  BY FS_Interval DEF SemTypeOK
<1>3. IsFiniteSet(Thread \X (1 .. signalled))
  BY <1>2, SemaphoreAssumption, FS_Product, Zenon
<1>4. IsFiniteSet(Owed)
  BY <1>1, <1>3, FS_Subset, Zenon
<1>5. QED
  BY <1>4, FS_CardinalityType, Zenon

\* How the set of waiters changes when one thread moves from one state to
\* another.
LEMMA WaiterMoves ==
  ASSUME SemTypeOK, NEW t \in Thread, NEW p, Goto(t, p)
  PROVE  /\ t \notin Waiter /\ p \notin {"sema", "undo", "late"} =>
              Waiter' = Waiter
         /\ t \in Waiter /\ p \in {"sema", "undo", "late"} => Waiter' = Waiter
         /\ t \notin Waiter /\ p \in {"sema", "undo", "late"} =>
              Cardinality(Waiter') = Cardinality(Waiter) + 1
         /\ t \in Waiter /\ p \notin {"sema", "undo", "late"} =>
              Cardinality(Waiter') = Cardinality(Waiter) - 1
<1>1. \A u \in Thread : pc'[u] = IF u = t THEN p ELSE pc[u]
  BY DEF SemTypeOK, Goto
<1>2. p \in {"sema", "undo", "late"} => Waiter' = Waiter \cup {t}
  BY <1>1 DEF Waiter
<1>3. p \notin {"sema", "undo", "late"} => Waiter' = Waiter \ {t}
  BY <1>1 DEF Waiter
<1>4. Cardinality(Waiter \cup {t}) =
        IF t \in Waiter THEN Cardinality(Waiter) ELSE Cardinality(Waiter) + 1
  BY WaiterFinite, FS_AddElement, Zenon
<1>5. Cardinality(Waiter \ {t}) =
        IF t \in Waiter THEN Cardinality(Waiter) - 1 ELSE Cardinality(Waiter)
  BY WaiterFinite, FS_RemoveElement, Zenon
<1>6. t \notin Waiter => Waiter \ {t} = Waiter
  OBVIOUS
<1>7. t \in Waiter => Waiter \cup {t} = Waiter
  OBVIOUS
<1>8. QED
  BY <1>2, <1>3, <1>4, <1>5, <1>6, <1>7

\* Every initial state of the semaphore satisfies the invariant.
LEMMA SemInvInit ==
  ASSUME SemInit
  PROVE  SemInv
<1>1. SemTypeOK /\ CallInv
  BY DEF SemInit, SemTypeOK, CallInv
<1>2. Waiter = {}
  BY DEF SemInit, Waiter
<1>3. Owed = {}
  BY DEF SemInit, Owed
<1>4. Cardinality({}) = 0
  BY FS_EmptySet, Zenon
<1>5. Conserved
  BY <1>2, <1>3, <1>4 DEF Conserved, SemInit
<1>6. QED
  BY <1>1, <1>5 DEF SemInv

-------------------------------------------------------------------------------
\* The steps of a waiting thread touch owe, signalled and the posts not at all.
LEMMA WaitStep ==
  ASSUME SemInv, NEW t \in Thread,
         \/ Waiting(t) \/ TimeOut(t) \/ Return(t)
         \/ \E k \in {"try", "timed", "forever"}, n \in 1..MaxWait : Call(t, k, n)
  PROVE  SemInv'
<1> DEFINE W == Cardinality(Waiter)
           O == Cardinality(Owed)
<1> USE SemaphoreAssumption
<1>0. W \in Nat /\ O \in Nat
  BY WaiterFinite, OwedFinite DEF SemInv
<1>1. owe' = owe /\ signalled' = signalled /\ Owed' = Owed
  <2>1. owe' = owe /\ signalled' = signalled
    BY DEF Waiting, TakeMany, TryFails, FetchSub, SemaWait, Undo, UndoLate,
           TryAgain, TakeMore, TimeOut, Return, Call
  <2>2. QED
    BY <2>1 DEF Owed
<1>2. SemTypeOK' /\ CallInv'
  <2>1. CASE TakeMany(t)
    BY <2>1, <1>1 DEF SemInv, SemTypeOK, CallInv, TakeMany, Goto, Smaller
  <2>2. CASE TryFails(t)
    BY <2>2, <1>1 DEF SemInv, SemTypeOK, CallInv, TryFails, Goto
  <2>3. CASE FetchSub(t)
    BY <2>3, <1>1 DEF SemInv, SemTypeOK, CallInv, FetchSub, Granted, Goto
  <2>4. CASE SemaWait(t)
    BY <2>4, <1>1 DEF SemInv, SemTypeOK, CallInv, SemaWait, Granted, Goto
  <2>5. CASE Undo(t)
    BY <2>5, <1>1 DEF SemInv, SemTypeOK, CallInv, Undo, Goto
  <2>6. CASE UndoLate(t) \/ TryAgain(t) \/ TimeOut(t)
    BY <2>6, <1>1 DEF SemInv, SemTypeOK, CallInv, UndoLate, TryAgain, TimeOut, Goto
  <2>7. CASE TakeMore(t)
    BY <2>7, <1>1 DEF SemInv, SemTypeOK, CallInv, TakeMore, Goto, Smaller
  <2>8. CASE Return(t)
    BY <2>8, <1>1 DEF SemInv, SemTypeOK, CallInv, Return, Goto
  <2>9. ASSUME NEW k \in {"try", "timed", "forever"}, NEW n \in 1..MaxWait, Call(t, k, n)
        PROVE  SemTypeOK' /\ CallInv'
    BY <2>9, <1>1 DEF SemInv, SemTypeOK, CallInv, Call, Goto
  <2>10. QED
    BY <2>1, <2>2, <2>3, <2>4, <2>5, <2>6, <2>7, <2>8, <2>9 DEF Waiting
<1>3. Conserved'
  <2>1. CASE TakeMany(t)
    <3>0. t \notin Waiter /\ Goto(t, "return")
      BY <2>1 DEF TakeMany, Waiter
    <3>1. Waiter' = Waiter
      BY <3>0, WaiterMoves DEF SemInv
    <3>2. QED
      BY <2>1, <3>1, <1>0, <1>1 DEF SemInv, SemTypeOK, CallInv, Conserved, TakeMany, Smaller
  <2>2. CASE TryFails(t) \/ UndoLate(t) \/ TryAgain(t) \/ TimeOut(t) \/ Return(t)
             \/ \E k \in {"try", "timed", "forever"}, n \in 1..MaxWait : Call(t, k, n)
    <3>1. Waiter' = Waiter
      BY <2>2 DEF SemInv, SemTypeOK, TryFails, UndoLate, TryAgain, TimeOut, Return, Call,
                  Goto, Waiter
    <3>2. m_count' = m_count /\ m_sema' = m_sema /\ granted' = granted
      BY <2>2 DEF TryFails, UndoLate, TryAgain, TimeOut, Return, Call
    <3>3. QED
      BY <3>1, <3>2, <1>1 DEF SemInv, Conserved
  <2>3. CASE FetchSub(t) /\ m_count > 0
    <3>0. t \notin Waiter /\ Goto(t, "more")
      BY <2>3 DEF FetchSub, Granted, Waiter
    <3>1. Waiter' = Waiter
      BY <3>0, WaiterMoves DEF SemInv
    <3>2. QED
      BY <2>3, <3>1, <1>0, <1>1 DEF SemInv, SemTypeOK, Conserved, FetchSub, Granted
  <2>4. CASE FetchSub(t) /\ ~ m_count > 0
    <3>0. t \notin Waiter /\ Goto(t, "sema")
      BY <2>4 DEF FetchSub, Waiter
    <3>1. Cardinality(Waiter') = W + 1
      BY <3>0, WaiterMoves DEF SemInv
    <3>2. QED
      BY <2>4, <3>1, <1>0, <1>1 DEF SemInv, SemTypeOK, Conserved, FetchSub
  <2>5. CASE SemaWait(t)
    <3>1. t \in Waiter
      BY <2>5 DEF SemaWait, Waiter
    <3>2. Cardinality(Waiter') = W - 1
      BY <2>5, <3>1, WaiterMoves DEF SemInv, SemaWait, Granted
    <3>3. QED
      BY <2>5, <3>2, <1>0, <1>1 DEF SemInv, SemTypeOK, Conserved, SemaWait, Granted
  <2>6. CASE Undo(t)
    <3>1. t \in Waiter
      BY <2>6 DEF Undo, Waiter
    <3>2. Cardinality(Waiter') = W - 1
      BY <2>6, <3>1, WaiterMoves DEF SemInv, Undo
    <3>3. QED
      BY <2>6, <3>2, <1>0, <1>1 DEF SemInv, SemTypeOK, Conserved, Undo
  <2>7. CASE TakeMore(t)
    <3>0. t \notin Waiter /\ Goto(t, "return")
      BY <2>7 DEF TakeMore, Waiter
    <3>1. Waiter' = Waiter
      BY <3>0, WaiterMoves DEF SemInv
    <3>2. QED
      BY <2>7, <3>1, <1>0, <1>1 DEF SemInv, SemTypeOK, CallInv, Conserved, TakeMore, Smaller
  <2>8. QED
    BY <2>1, <2>2, <2>3, <2>4, <2>5, <2>6, <2>7 DEF Waiting
<1>4. QED
  BY <1>2, <1>3 DEF SemInv

\* signal counts min(-m_count, n) of the waiters in, and owes them a post each.
LEMMA SignalStep ==
  ASSUME SemInv, NEW t \in Thread, NEW n \in 1..MaxSignal, Signal(t, n)
  PROVE  SemInv'
<1> DEFINE k == IF m_count < 0 THEN Smaller(-m_count, n) ELSE 0
           W == Cardinality(Waiter)
           O == Cardinality(Owed)
<1> USE SemaphoreAssumption
<1>0. W \in Nat /\ O \in Nat /\ k \in 0..n
  BY WaiterFinite, OwedFinite DEF SemInv, SemTypeOK, Smaller
<1>1. Waiter' = Waiter
  <2>1. t \notin Waiter /\ Goto(t, "post")
    BY DEF Signal, Waiter
  <2>2. QED
    BY <2>1, WaiterMoves DEF SemInv
<1>2. SemTypeOK' /\ CallInv'
  <2>1. owe'[t] = k /\ \A u \in Thread \ {t} : owe'[u] = owe[u]
    BY DEF Signal, SemInv, SemTypeOK
  <2>2. k <= signalled'
    BY <1>0 DEF Signal, SemInv, SemTypeOK
  <2>3. SemTypeOK'
    BY <1>0 DEF SemInv, SemTypeOK, Signal, Goto
  <2>4. CallInv'
    BY <1>0, <2>1, <2>2, <2>3 DEF SemInv, SemTypeOK, CallInv, Signal, Goto
  <2>5. QED
    BY <2>3, <2>4
<1>3. Cardinality(Owed') = O + k
  <2>1. owe[t] = 0
    BY DEF SemInv, CallInv, Signal
  <2>2. owe' = [owe EXCEPT ![t] = k]
    BY DEF Signal
  <2>3. Owed' = Owed \cup ({t} \X (1 .. k))
    <3> HIDE DEF k
    <3>1. \A u \in Thread : owe'[u] = IF u = t THEN k ELSE owe[u]
      BY <2>2 DEF SemInv, SemTypeOK
    <3>2. ASSUME NEW x \in Owed' PROVE x \in Owed \cup ({t} \X (1 .. k))
      <4>1. PICK u \in Thread : x \in {u} \X (1 .. owe'[u])
        BY <3>2 DEF Owed
      <4>2. CASE u = t
        BY <4>1, <4>2, <3>1
      <4>3. CASE u # t
        BY <4>1, <4>3, <3>1 DEF Owed
      <4>4. QED
        BY <4>2, <4>3
    <3>3. ASSUME NEW x \in {t} \X (1 .. k) PROVE x \in Owed'
      BY <3>3, <3>1 DEF Owed
    <3>4. ASSUME NEW x \in Owed PROVE x \in Owed'
      <4>1. PICK u \in Thread : x \in {u} \X (1 .. owe[u])
        BY <3>4 DEF Owed
      <4>2. u # t
        BY <4>1, <2>1
      <4>3. QED
        BY <4>1, <4>2, <3>1 DEF Owed
    <3>5. QED
      BY <3>2, <3>3, <3>4
  <2>4. Owed \cap ({t} \X (1 .. k)) = {}
    <3>1. ASSUME NEW x \in Owed, x \in {t} \X (1 .. k) PROVE FALSE
      <4>1. PICK u \in Thread : x \in {u} \X (1 .. owe[u])
        BY <3>1 DEF Owed
      <4>2. u = t
        BY <3>1, <4>1
      <4>3. QED
        BY <4>1, <4>2, <2>1
    <3>2. QED
      BY <3>1
  <2>5. IsFiniteSet({t} \X (1 .. k)) /\ Cardinality({t} \X (1 .. k)) = k
    <3>1. IsFiniteSet({t}) /\ Cardinality({t}) = 1
      BY FS_Singleton, Zenon
    <3>2. IsFiniteSet(1 .. k) /\ Cardinality(1 .. k) = k
      <4> HIDE DEF k
      <4>1. k \in Nat
        BY <1>0
      <4>2. IsFiniteSet(1 .. k) /\ Cardinality(1 .. k) = IF 1 > k THEN 0 ELSE k - 1 + 1
        BY <4>1, FS_Interval
      <4>3. QED
        BY <4>1, <4>2
    <3>3. IsFiniteSet({t} \X (1 .. k)) /\ Cardinality({t} \X (1 .. k)) = 1 * k
      BY <3>1, <3>2, FS_Product
    <3>4. QED
      BY <3>3, <1>0
  <2>6. Cardinality(Owed \cup ({t} \X (1 .. k))) =
          Cardinality(Owed) + Cardinality({t} \X (1 .. k))
            - Cardinality(Owed \cap ({t} \X (1 .. k)))
    <3> HIDE DEF k
    <3>1. IsFiniteSet(Owed)
      BY OwedFinite DEF SemInv
    <3>2. QED
      BY <3>1, <2>5, FS_Union, Zenon
  <2>7. Cardinality(Owed \cap ({t} \X (1 .. k))) = 0
    BY <2>4, FS_EmptySet
  <2>8. QED
    BY <2>3, <2>5, <2>6, <2>7, <1>0
<1>4. Conserved'
  BY <1>0, <1>1, <1>3 DEF SemInv, SemTypeOK, Conserved, Signal, Smaller
<1>5. QED
  BY <1>2, <1>4 DEF SemInv

\* A post moves from Owed to m_sema.
LEMMA PostStep ==
  ASSUME SemInv, NEW t \in Thread, Post(t)
  PROVE  SemInv'
<1> DEFINE W == Cardinality(Waiter)
           O == Cardinality(Owed)
<1>0. W \in Nat /\ O \in Nat
  BY WaiterFinite, OwedFinite DEF SemInv
<1>1. SemTypeOK' /\ CallInv'
  BY DEF SemInv, SemTypeOK, CallInv, Post
<1>2. Waiter' = Waiter
  BY DEF Waiter, Post
<1>3. Owed' = Owed \ {<<t, owe[t]>>}
  <2>1. \A u \in Thread : owe'[u] = IF u = t THEN owe[u] - 1 ELSE owe[u]
    BY DEF SemInv, SemTypeOK, Post
  <2>2. ASSUME NEW u \in Thread, NEW i \in 1 .. owe'[u]
        PROVE  <<u, i>> \in Owed \ {<<t, owe[t]>>}
    <3>1. i \in 1 .. owe[u] /\ (u = t => i # owe[t])
      BY <2>1 DEF SemInv, SemTypeOK
    <3>2. <<u, i>> \in Owed
      BY <3>1 DEF Owed
    <3>3. QED
      BY <3>1, <3>2
  <2>3. ASSUME NEW u \in Thread, NEW i \in 1 .. owe[u], <<u, i>> # <<t, owe[t]>>
        PROVE  <<u, i>> \in Owed'
    <3>1. i \in 1 .. owe'[u]
      BY <2>1, <2>3 DEF SemInv, SemTypeOK
    <3>2. QED
      BY <3>1 DEF Owed
  <2>4. Owed' \subseteq Owed \ {<<t, owe[t]>>}
    BY <2>2 DEF Owed
  <2>5. Owed \ {<<t, owe[t]>>} \subseteq Owed'
    BY <2>3 DEF Owed
  <2>6. QED
    BY <2>4, <2>5
<1>4. <<t, owe[t]>> \in Owed
  <2>1. owe[t] \in 1 .. owe[t]
    BY DEF SemInv, SemTypeOK, Post
  <2>2. QED
    BY <2>1 DEF Owed
<1>5. Cardinality(Owed') = O - 1
  <2>1. IsFiniteSet(Owed)
    BY OwedFinite DEF SemInv
  <2>2. Cardinality(Owed \ {<<t, owe[t]>>}) =
          IF <<t, owe[t]>> \in Owed THEN Cardinality(Owed) - 1 ELSE Cardinality(Owed)
    BY <2>1, FS_RemoveElement, Zenon
  <2>3. QED
    BY <2>2, <1>3, <1>4
<1>6. Conserved'
  BY <1>0, <1>2, <1>5 DEF SemInv, SemTypeOK, Conserved, Post
<1>7. QED
  BY <1>1, <1>6 DEF SemInv

\* A signaller that has posted its last permit leaves the invariant alone.
LEMMA PostedStep ==
  ASSUME SemInv, NEW t \in Thread, Posted(t)
  PROVE  SemInv'
<1>1. SemTypeOK' /\ CallInv'
  BY DEF SemInv, SemTypeOK, CallInv, Posted, Goto
<1>2. Waiter' = Waiter
  <2>1. t \notin Waiter /\ Goto(t, "idle")
    BY DEF Posted, Waiter
  <2>2. QED
    BY <2>1, WaiterMoves DEF SemInv
<1>3. Owed' = Owed
  BY DEF Owed, Posted
<1>4. QED
  BY <1>1, <1>2, <1>3 DEF SemInv, Conserved, Posted

\* Every step of the semaphore preserves the invariant.
LEMMA SemInvNext ==
  ASSUME SemInv, [SemNext]_semVars
  PROVE  SemInv'
<1>1. ASSUME NEW t \in Thread, Waiting(t) \/ TimeOut(t) \/ Return(t)
             \/ \E k \in {"try", "timed", "forever"}, n \in 1..MaxWait : Call(t, k, n)
      PROVE  SemInv'
  BY <1>1, WaitStep
<1>2. ASSUME NEW t \in Thread, NEW n \in 1..MaxSignal, Signal(t, n)
      PROVE  SemInv'
  BY <1>2, SignalStep
<1>3. ASSUME NEW t \in Thread, Signalling(t)
      PROVE  SemInv'
  BY <1>3, PostStep, PostedStep DEF Signalling
<1>4. CASE UNCHANGED semVars
  BY <1>4 DEF semVars, SemInv, SemTypeOK, CallInv, Conserved, Waiter, Owed
<1>5. QED
  BY <1>1, <1>2, <1>3, <1>4 DEF SemNext

\* What follows from the invariant in any one state.
LEMMA SemInvImplies ==
  ASSUME SemInv
  PROVE  PermitsBacked /\ NoLostSignal
<1> DEFINE W == Cardinality(Waiter)
           O == Cardinality(Owed)
<1>0. W \in Nat /\ O \in Nat
  BY WaiterFinite, OwedFinite DEF SemInv
<1>1. PermitsBacked
  BY <1>0 DEF SemInv, SemTypeOK, CallInv, Conserved, PermitsBacked
<1>2. ASSUME NEW t \in Thread, pc[t] = "sema", m_sema = 0, Owed = {}
      PROVE  granted = signalled
  <2>1. O = 0
    BY <1>2, FS_EmptySet
  <2>2. Waiter # {}
    BY <1>2 DEF Waiter
  <2>3. W # 0
    BY <2>2, WaiterFinite, FS_EmptySet, Zenon
  <2>4. QED
    BY <1>0, <1>2, <2>1, <2>3 DEF SemInv, SemTypeOK, Conserved
<1>3. QED
  BY <1>1, <1>2 DEF NoLostSignal

-------------------------------------------------------------------------------
\* m_sema is never decremented below zero, for any threads and any interleaving
\* of signals, waits and timeouts.
THEOREM SemTypeCorrect == SemSpec => []SemTypeOK
<1>1. SemInv => SemTypeOK
  BY DEF SemInv
<1>2. QED
  BY SemInvInit, SemInvNext, <1>1, PTL DEF SemSpec

\* The accounting of waitManyWithPartialSpinning and signal: a timeout that
\* races with a signal neither eats a permit nor leaves one behind.
THEOREM PermitsConserved == SemSpec => []Conserved
<1>1. SemInv => Conserved
  BY DEF SemInv
<1>2. QED
  BY SemInvInit, SemInvNext, <1>1, PTL DEF SemSpec

\* Nobody gets a permit that was not signalled, and a waitMany without a
\* timeout never returns 0.
THEOREM PermitsAreBacked == SemSpec => []PermitsBacked
<1>1. SemInv => PermitsBacked
  BY SemInvImplies
<1>2. QED
  BY SemInvInit, SemInvNext, <1>1, PTL DEF SemSpec

\* No wake-up is lost: with no post in m_sema or under way, a sleeper means
\* that every permit signalled is handed out.
THEOREM NoSignalLost == SemSpec => []NoLostSignal
<1>1. SemInv => NoLostSignal
  BY SemInvImplies
<1>2. QED
  BY SemInvInit, SemInvNext, <1>1, PTL DEF SemSpec

\* All of it together, for any threads, signals, waits and timeouts.
THEOREM PermitsAreSound == SemSpec => []PermitsSound
  BY SemTypeCorrect, PermitsAreBacked, PermitsConserved, NoSignalLost, PTL
  DEF PermitsSound

-------------------------------------------------------------------------------
\* A signal is of at least one element, and of no more than may be signalled.
QueueInv == signalled \in Nat /\ unsig \in [Thread -> Nat]

\* Every initial state of the blocking queue satisfies the invariant.
LEMMA QueueInvInit ==
  ASSUME Init
  PROVE  QueueInv
BY DEF Init, SemInit, QueueInv

\* Only Enqueue and SignalEnqueued change signalled or unsig.
LEMMA QueueInvNext ==
  ASSUME QueueInv, [Next]_vars
  PROVE  QueueInv'
<1> USE SemaphoreAssumption DEF QueueInv
<1>1. ASSUME NEW t \in Thread, NEW n \in 1..MaxWait, Enqueue(t, n)
      PROVE  QueueInv'
  BY <1>1 DEF Enqueue, semVars
<1>2. ASSUME NEW t \in Thread, SignalEnqueued(t)
      PROVE  QueueInv'
  BY <1>2 DEF SignalEnqueued, Signal
<1>3. ASSUME NEW t \in Thread, NEW k \in {"try", "timed", "forever"},
             NEW n \in 1..MaxWait, Dequeue(t, k, n)
      PROVE  QueueInv'
  BY <1>3 DEF Dequeue, Call, queueVars
<1>4. ASSUME NEW t \in Thread,
             Waiting(t) \/ TimeOut(t) \/ Signalling(t), UNCHANGED queueVars
      PROVE  QueueInv'
  <2>1. signalled' = signalled
    BY <1>4 DEF Waiting, TimeOut, Signalling, TakeMany, TryFails, FetchSub,
                SemaWait, Undo, UndoLate, TryAgain, TakeMore, Post, Posted
  <2>2. QED
    BY <1>4, <2>1 DEF queueVars
<1>5. ASSUME NEW t \in Thread, Entitled(t) \/ Fetch(t)
      PROVE  QueueInv'
  BY <1>5 DEF Entitled, Return, Fetch, semVars
<1>6. CASE UNCHANGED vars
  BY <1>6 DEF vars, semVars, queueVars
<1>7. QED
  BY <1>1, <1>2, <1>3, <1>4, <1>5, <1>6 DEF Next

\* A step of the queue is a step of the semaphore or leaves it alone.
LEMMA QueueStep ==
  ASSUME QueueInv, [Next]_vars
  PROVE  [SemNext]_semVars
<1> USE SemaphoreAssumption
<1>1. ASSUME NEW t \in Thread, NEW n \in 1..MaxWait, Enqueue(t, n)
      PROVE  UNCHANGED semVars
  BY <1>1 DEF Enqueue
<1>2. ASSUME NEW t \in Thread, SignalEnqueued(t)
      PROVE  SemNext
  <2>1. unsig[t] \in 1..MaxSignal
    BY <1>2 DEF QueueInv, SignalEnqueued, Signal
  <2>2. QED
    BY <1>2, <2>1 DEF SignalEnqueued, SemNext
<1>3. ASSUME NEW t \in Thread, NEW k \in {"try", "timed", "forever"},
             NEW n \in 1..MaxWait, Dequeue(t, k, n)
      PROVE  SemNext
  BY <1>3 DEF Dequeue, SemNext
<1>4. ASSUME NEW t \in Thread, Waiting(t) \/ TimeOut(t) \/ Signalling(t)
      PROVE  SemNext
  BY <1>4 DEF SemNext
<1>5. ASSUME NEW t \in Thread, Entitled(t)
      PROVE  SemNext
  BY <1>5 DEF Entitled, SemNext
<1>6. ASSUME NEW t \in Thread, Fetch(t)
      PROVE  UNCHANGED semVars
  BY <1>6 DEF Fetch
<1>7. CASE UNCHANGED vars
  BY <1>7 DEF vars
<1>8. QED
  BY <1>1, <1>2, <1>3, <1>4, <1>5, <1>6, <1>7 DEF Next

\* The blocking queue uses its semaphore only through signal, wait and their
\* variants: it implements LightweightSemaphore.
THEOREM QueueImplementsSemaphore == Spec => ImplementsSemaphore
<1>1. Init => SemInit
  BY DEF Init
<1>2. QED
  BY <1>1, QueueInvInit, QueueInvNext, QueueStep, PTL
     DEF Spec, ImplementsSemaphore, SemSpec

\* Inside the blocking queue too, a wait_dequeue_timed whose time is up while
\* an enqueue signals neither eats a permit nor leaves one behind, and nobody
\* sleeps while a permit is left.
THEOREM QueuePermitsConserved == Spec => [](Conserved /\ NoLostSignal)
<1>1. Spec => SemSpec
  BY QueueImplementsSemaphore DEF ImplementsSemaphore
<1>2. QED
  BY <1>1, PermitsConserved, NoSignalLost, PTL

-------------------------------------------------------------------------------
\* A thread has one thing to do at a time, and permits only at the end of a wait.
OwnInv ==
  \A t \in Thread :
    /\ held[t] > 0 => pc[t] = "idle" /\ unsig[t] = 0
    /\ unsig[t] > 0 => pc[t] = "idle"
    /\ got[t] > 0 => pc[t] \in {"more", "return"}

ElementInv ==
  /\ inner \in Nat /\ unsig \in [Thread -> Nat] /\ held \in [Thread -> Nat]
  /\ OwnInv /\ ElementsBacked

-------------------------------------------------------------------------------
\* The units of one thread.
LEMMA OneThreadUnits ==
  ASSUME NEW t, NEW k \in Nat
  PROVE  IsFiniteSet({t} \X (1 .. k)) /\ Cardinality({t} \X (1 .. k)) = k
<1>1. IsFiniteSet({t}) /\ Cardinality({t}) = 1
  BY FS_Singleton
<1>2. IsFiniteSet(1 .. k) /\ Cardinality(1 .. k) = k
  BY FS_Interval
<1>3. /\ IsFiniteSet({t} \X (1 .. k))
      /\ Cardinality({t} \X (1 .. k)) = Cardinality({t}) * Cardinality(1 .. k)
  BY <1>1, <1>2, FS_Product, Zenon
<1>4. QED
  BY <1>1, <1>2, <1>3

\* Finitely many threads have finitely many units.
LEMMA UnitsFinite ==
  ASSUME NEW f \in [Thread -> Nat]
  PROVE  IsFiniteSet(Units(f)) /\ TotalOf(f) \in Nat
<1> DEFINE P == [t \in Thread |-> {t} \X (1 .. f[t])]
           T == {{t} \X (1 .. f[t]) : t \in Thread}
<1>1. P \in Surjection(Thread, T)
  BY DEF Surjection
<1>2. IsFiniteSet(T)
  BY <1>1, SemaphoreAssumption, FS_Surjection
<1>3. ASSUME NEW t \in Thread
      PROVE  IsFiniteSet({t} \X (1 .. f[t]))
  BY OneThreadUnits
<1>4. IsFiniteSet(UNION T)
  BY <1>2, <1>3, FS_UNION
<1>5. QED
  BY <1>4, FS_CardinalityType DEF Units, TotalOf

\* The sum of f is that of the others and f[t].
LEMMA TotalSplit ==
  ASSUME NEW f \in [Thread -> Nat], NEW t \in Thread
  PROVE  LET R == UNION {{u} \X (1 .. f[u]) : u \in Thread \ {t}}
         IN  IsFiniteSet(R) /\ Cardinality(R) \in Nat /\ TotalOf(f) = Cardinality(R) + f[t]
<1> DEFINE R == UNION {{u} \X (1 .. f[u]) : u \in Thread \ {t}}
           O == {t} \X (1 .. f[t])
<1>1. Units(f) = R \cup O
  BY DEF Units
<1>2. R \cap O = {}
  OBVIOUS
<1>3. IsFiniteSet(O) /\ Cardinality(O) = f[t] /\ f[t] \in Nat
  BY OneThreadUnits
<1>4. R \in SUBSET Units(f)
  BY <1>1
<1> HIDE DEF R, O
<1>5. IsFiniteSet(R)
  BY <1>4, UnitsFinite, FS_Subset
<1>6. Cardinality(R) \in Nat
  BY <1>5, FS_CardinalityType
<1>7. Cardinality(R \cup O) = Cardinality(R) + Cardinality(O) - Cardinality(R \cap O)
  BY <1>3, <1>5, FS_Union
<1>8. Cardinality(R \cap O) = 0
  BY <1>2, FS_EmptySet
<1>9. TotalOf(f) = Cardinality(R) + f[t]
  BY <1>1, <1>3, <1>6, <1>7, <1>8 DEF TotalOf
<1>10. QED
  BY <1>5, <1>6, <1>9 DEF R

\* One thread's count changes: the sum changes by the difference.
LEMMA TotalUpdate ==
  ASSUME NEW f \in [Thread -> Nat], NEW g \in [Thread -> Nat], NEW t \in Thread,
         \A u \in Thread \ {t} : g[u] = f[u]
  PROVE  TotalOf(g) = TotalOf(f) - f[t] + g[t]
<1> DEFINE R == UNION {{u} \X (1 .. f[u]) : u \in Thread \ {t}}
           S == UNION {{u} \X (1 .. g[u]) : u \in Thread \ {t}}
<1>1. R = S
  OBVIOUS
<1>2. Cardinality(R) \in Nat /\ TotalOf(f) = Cardinality(R) + f[t]
  BY TotalSplit
<1>3. TotalOf(g) = Cardinality(S) + g[t]
  BY TotalSplit
<1> HIDE DEF R, S
<1>4. QED
  BY <1>1, <1>2, <1>3

\* Nothing anywhere.
LEMMA TotalZero ==
  ASSUME NEW f \in [Thread -> Nat], \A t \in Thread : f[t] = 0
  PROVE  TotalOf(f) = 0
<1>1. Units(f) = {}
  BY DEF Units
<1>2. QED
  BY <1>1, FS_EmptySet DEF TotalOf
\* Every initial state satisfies the invariant.
LEMMA ElementInvInit ==
  ASSUME Init
  PROVE  ElementInv
<1>1. /\ got \in [Thread -> Nat] /\ held \in [Thread -> Nat] /\ unsig \in [Thread -> Nat]
      /\ \A t \in Thread : got[t] = 0 /\ held[t] = 0 /\ unsig[t] = 0
      /\ inner = 0 /\ signalled = 0 /\ granted = 0
  BY DEF Init, SemInit
<1>2. TotalOf(got) = 0 /\ TotalOf(held) = 0 /\ TotalOf(unsig) = 0
  BY <1>1, TotalZero
<1>3. QED
  BY <1>1, <1>2 DEF ElementInv, OwnInv, ElementsBacked

\* A step of a waiting thread: what it is granted, it has.
LEMMA WaitingElements ==
  ASSUME SemInv, ElementInv, NEW t \in Thread,
         Waiting(t) \/ TimeOut(t) \/ Signalling(t), UNCHANGED queueVars
  PROVE  ElementInv'
<1>0. /\ SemTypeOK /\ CallInv /\ OwnInv /\ ElementsBacked /\ inner \in Nat
      /\ unsig \in [Thread -> Nat] /\ held \in [Thread -> Nat]
  BY DEF SemInv, ElementInv
<1>1. UNCHANGED <<inner, unsig, held>>
  BY DEF queueVars
<1>2. OwnInv'
  <2>1. CASE TakeMany(t) \/ TryFails(t) \/ FetchSub(t)
    BY <1>0, <1>1, <2>1 DEF SemTypeOK, CallInv, OwnInv, TakeMany, TryFails, FetchSub, Granted, Goto
  <2>2. CASE SemaWait(t) \/ Undo(t) \/ UndoLate(t) \/ TryAgain(t) \/ TimeOut(t)
    BY <1>0, <1>1, <2>2 DEF SemTypeOK, CallInv, OwnInv, SemaWait, Undo, UndoLate, TryAgain,
                            TimeOut, Granted, Goto
  <2>3. CASE TakeMore(t) \/ Post(t) \/ Posted(t)
    BY <1>0, <1>1, <2>3 DEF SemTypeOK, CallInv, OwnInv, TakeMore, Post, Posted, Goto
  <2>4. QED
    BY <2>1, <2>2, <2>3 DEF Waiting, Signalling
<1>3. ElementsBacked'
  <2>1. CASE /\ signalled' = signalled
             /\ \E n \in Nat : granted' = granted + n /\ got' = [got EXCEPT ![t] = got[t] + n]
    <3>1. PICK n \in Nat : granted' = granted + n /\ got' = [got EXCEPT ![t] = got[t] + n]
      BY <2>1
    <3>2. got \in [Thread -> Nat] /\ got[t] + n \in Nat /\ granted \in Nat /\ signalled \in Nat
      BY <1>0 DEF SemTypeOK
    <3>3. TotalOf(got') = TotalOf(got) - got[t] + (got[t] + n) /\ TotalOf(got) \in Nat
      <4>1. /\ got' \in [Thread -> Nat] /\ got'[t] = got[t] + n
            /\ \A u \in Thread \ {t} : got'[u] = got[u]
        BY <3>1, <3>2
      <4>2. QED
        BY <3>2, <4>1, TotalUpdate, UnitsFinite
    <3>4. TotalOf(held) \in Nat /\ TotalOf(unsig) \in Nat
      BY <1>0, UnitsFinite
    <3>5. TotalOf(held') = TotalOf(held) /\ TotalOf(unsig') = TotalOf(unsig)
      BY <1>1
    <3>6. inner' = (signalled' - granted') + TotalOf(got') + TotalOf(held') + TotalOf(unsig')
      BY <1>0, <1>1, <2>1, <3>1, <3>2, <3>3, <3>4, <3>5 DEF ElementsBacked
    <3>7. QED
      BY <3>6 DEF ElementsBacked, TotalOf, Units
  <2>2. CASE UNCHANGED <<signalled, granted, got>>
    BY <1>0, <1>1, <2>2 DEF ElementsBacked, TotalOf, Units
  <2>3. CASE TakeMany(t)
    <3>1. got[t] = 0
      BY <1>0, <2>3 DEF TakeMany, OwnInv, SemTypeOK
    <3>2. Smaller(m_count, max[t]) \in Nat
      BY <1>0, <2>3 DEF TakeMany, SemTypeOK, Smaller
    <3>3. got[t] + Smaller(m_count, max[t]) = Smaller(m_count, max[t])
      BY <3>1, <3>2
    <3>4. QED
      BY <2>1, <2>3, <3>2, <3>3 DEF TakeMany
  <2>4. CASE (FetchSub(t) /\ m_count > 0) \/ SemaWait(t)
    <3>1. got[t] = 0
      BY <1>0, <2>4 DEF FetchSub, SemaWait, OwnInv, SemTypeOK
    <3>2. signalled' = signalled /\ granted' = granted + 1 /\ got' = [got EXCEPT ![t] = got[t] + 1]
      BY <2>4, <3>1 DEF FetchSub, SemaWait, Granted
    <3>3. QED
      BY <2>1, <3>2
  <2>5. CASE TakeMore(t)
    <3> DEFINE n == IF m_count > 0 THEN Smaller(m_count, max[t] - 1) ELSE 0
    <3>1. n \in Nat
      BY <1>0, <2>5 DEF TakeMore, SemTypeOK, CallInv, Smaller
    <3>2. signalled' = signalled /\ granted' = granted + n /\ got' = [got EXCEPT ![t] = got[t] + n]
      BY <2>5 DEF TakeMore
    <3> HIDE DEF n
    <3>3. QED
      BY <2>1, <3>1, <3>2
  <2>6. CASE \/ TryFails(t) \/ (FetchSub(t) /\ ~(m_count > 0)) \/ Undo(t) \/ UndoLate(t)
             \/ TryAgain(t) \/ TimeOut(t) \/ Post(t) \/ Posted(t)
    BY <2>2, <2>6 DEF TryFails, FetchSub, Undo, UndoLate, TryAgain, TimeOut, Post, Posted
  <2>7. QED
    BY <2>3, <2>4, <2>5, <2>6 DEF Waiting, Signalling
<1>4. QED
  BY <1>0, <1>1, <1>2, <1>3 DEF ElementInv

\* Every step of the blocking queue keeps elements and permits together.
LEMMA ElementInvNext ==
  ASSUME SemInv, ElementInv, [Next]_vars
  PROVE  ElementInv'
<1>0. /\ SemTypeOK /\ OwnInv /\ ElementsBacked /\ inner \in Nat
      /\ unsig \in [Thread -> Nat] /\ held \in [Thread -> Nat] /\ got \in [Thread -> Nat]
      /\ signalled \in Nat /\ granted \in Nat
  BY DEF SemInv, ElementInv, SemTypeOK
<1>a. TotalOf(got) \in Nat /\ TotalOf(held) \in Nat /\ TotalOf(unsig) \in Nat
  BY <1>0, UnitsFinite
<1> USE SemaphoreAssumption
<1>1. ASSUME NEW t \in Thread, NEW n \in 1..MaxWait, Enqueue(t, n)
      PROVE  ElementInv'
  <2>1. /\ unsig[t] = 0 /\ held[t] = 0 /\ pc[t] = "idle" /\ inner' = inner + n
        /\ unsig' = [unsig EXCEPT ![t] = n] /\ n \in Nat /\ UNCHANGED <<semVars, held>>
    BY <1>1 DEF Enqueue, Free
  <2>2. TotalOf(unsig') = TotalOf(unsig) - unsig[t] + n /\ unsig' \in [Thread -> Nat]
    <3>1. /\ unsig' \in [Thread -> Nat] /\ unsig'[t] = n
          /\ \A u \in Thread \ {t} : unsig'[u] = unsig[u]
      BY <1>0, <2>1
    <3>2. QED
      BY <1>0, <3>1, TotalUpdate
  <2>3. TotalOf(got') = TotalOf(got) /\ TotalOf(held') = TotalOf(held)
    BY <2>1 DEF semVars
  <2>4. inner' = (signalled' - granted') + TotalOf(got') + TotalOf(held') + TotalOf(unsig')
    BY <1>0, <1>a, <2>1, <2>2, <2>3 DEF ElementsBacked, semVars
  <2>5. OwnInv'
    BY <1>0, <2>1 DEF OwnInv, semVars
  <2>6. QED
    BY <1>0, <2>1, <2>2, <2>4, <2>5 DEF ElementInv, ElementsBacked, TotalOf, Units
<1>2. ASSUME NEW t \in Thread, SignalEnqueued(t)
      PROVE  ElementInv'
  <2>1. /\ signalled' = signalled + unsig[t] /\ unsig' = [unsig EXCEPT ![t] = 0]
        /\ UNCHANGED <<granted, got, inner, held>> /\ pc[t] = "idle" /\ unsig[t] \in Nat
        /\ pc' = [pc EXCEPT ![t] = "post"] /\ unsig[t] > 0
    BY <1>0, <1>2 DEF SignalEnqueued, Signal, Goto
  <2>2. TotalOf(unsig') = TotalOf(unsig) - unsig[t] + 0 /\ unsig' \in [Thread -> Nat]
    <3>1. /\ unsig' \in [Thread -> Nat] /\ unsig'[t] = 0
          /\ \A u \in Thread \ {t} : unsig'[u] = unsig[u]
      BY <1>0, <2>1
    <3>2. QED
      BY <1>0, <3>1, TotalUpdate
  <2>3. TotalOf(got') = TotalOf(got) /\ TotalOf(held') = TotalOf(held)
    BY <2>1
  <2>4. inner' = (signalled' - granted') + TotalOf(got') + TotalOf(held') + TotalOf(unsig')
    BY <1>0, <1>a, <2>1, <2>2, <2>3 DEF ElementsBacked
  <2>5. OwnInv'
    BY <1>0, <2>1 DEF OwnInv, SemTypeOK
  <2>6. QED
    BY <1>0, <2>1, <2>2, <2>4, <2>5 DEF ElementInv, ElementsBacked, TotalOf, Units
<1>3. ASSUME NEW t \in Thread, NEW k \in {"try", "timed", "forever"},
             NEW n \in 1..MaxWait, Dequeue(t, k, n)
      PROVE  ElementInv'
  <2>1. UNCHANGED <<inner, unsig, held, got, signalled, granted>> /\ Free(t)
        /\ pc' = [pc EXCEPT ![t] = "try"]
    BY <1>3 DEF Dequeue, Call, queueVars, Goto
  <2>2. OwnInv'
    BY <1>0, <2>1 DEF OwnInv, Free, SemTypeOK
  <2>3. QED
    BY <1>0, <2>1, <2>2 DEF ElementInv, ElementsBacked, TotalOf, Units
<1>4. ASSUME NEW t \in Thread,
             Waiting(t) \/ TimeOut(t) \/ Signalling(t), UNCHANGED queueVars
      PROVE  ElementInv'
  BY <1>4, WaitingElements
<1>5. ASSUME NEW t \in Thread, Entitled(t)
      PROVE  ElementInv'
  <2>1. /\ got' = [got EXCEPT ![t] = 0] /\ held' = [held EXCEPT ![t] = got[t]]
        /\ UNCHANGED <<inner, unsig, signalled, granted>> /\ pc[t] = "return"
        /\ pc' = [pc EXCEPT ![t] = "idle"] /\ got[t] \in Nat /\ held[t] = 0 /\ unsig[t] = 0
    BY <1>0, <1>5 DEF Entitled, Return, Goto, OwnInv
  <2>2. TotalOf(got') = TotalOf(got) - got[t] + 0
    <3>1. /\ got' \in [Thread -> Nat] /\ got'[t] = 0
          /\ \A u \in Thread \ {t} : got'[u] = got[u]
      BY <1>0, <2>1
    <3>2. QED
      BY <1>0, <3>1, TotalUpdate
  <2>3. TotalOf(held') = TotalOf(held) - held[t] + got[t] /\ held' \in [Thread -> Nat]
    <3>1. /\ held' \in [Thread -> Nat] /\ held'[t] = got[t]
          /\ \A u \in Thread \ {t} : held'[u] = held[u]
      BY <1>0, <2>1
    <3>2. QED
      BY <1>0, <3>1, TotalUpdate
  <2>4. TotalOf(unsig') = TotalOf(unsig)
    BY <2>1
  <2>5. inner' = (signalled' - granted') + TotalOf(got') + TotalOf(held') + TotalOf(unsig')
    BY <1>0, <1>a, <2>1, <2>2, <2>3, <2>4 DEF ElementsBacked
  <2>6. OwnInv'
    BY <1>0, <2>1 DEF OwnInv, SemTypeOK
  <2>7. QED
    BY <1>0, <2>1, <2>3, <2>5, <2>6 DEF ElementInv, ElementsBacked, TotalOf, Units
<1>6. ASSUME NEW t \in Thread, Fetch(t)
      PROVE  ElementInv'
  <2>1. PICK n \in 1 .. held[t] : /\ n <= inner /\ inner' = inner - n
                                  /\ held' = [held EXCEPT ![t] = held[t] - n]
    BY <1>6 DEF Fetch
  <2>2. UNCHANGED <<semVars, unsig>> /\ held[t] \in Nat /\ held[t] - n \in Nat /\ n \in Nat
        /\ held[t] > 0
    BY <1>0, <1>6, <2>1 DEF Fetch
  <2>3. TotalOf(held') = TotalOf(held) - held[t] + (held[t] - n) /\ held' \in [Thread -> Nat]
    <3>1. /\ held' \in [Thread -> Nat] /\ held'[t] = (held[t] - n)
          /\ \A u \in Thread \ {t} : held'[u] = held[u]
      BY <1>0, <2>1, <2>2
    <3>2. QED
      BY <1>0, <3>1, TotalUpdate
  <2>4. TotalOf(got') = TotalOf(got) /\ TotalOf(unsig') = TotalOf(unsig)
    BY <2>2 DEF semVars
  <2>5. inner' = (signalled' - granted') + TotalOf(got') + TotalOf(held') + TotalOf(unsig')
    BY <1>0, <1>a, <2>1, <2>2, <2>3, <2>4 DEF ElementsBacked, semVars
  <2>6. inner' \in Nat
    BY <1>0, <2>1, <2>2
  <2>7. OwnInv'
    BY <1>0, <2>1, <2>2 DEF OwnInv, semVars
  <2>8. QED
    BY <1>0, <2>2, <2>3, <2>5, <2>6, <2>7 DEF ElementInv, ElementsBacked, TotalOf, Units
<1>7. CASE UNCHANGED vars
  BY <1>0, <1>7 DEF vars, semVars, queueVars, ElementInv, OwnInv, ElementsBacked, TotalOf, Units
<1>8. QED
  BY <1>1, <1>2, <1>3, <1>4, <1>5, <1>6, <1>7 DEF Next

\* With nobody between two steps of a call, a sleeper means an empty queue.
LEMMA SleeperMeansEmpty ==
  ASSUME SemInv, ElementInv
  PROVE  NobodySleepsBesideElements
<1> SUFFICES ASSUME NEW s \in Thread, pc[s] = "sema", m_sema = 0,
                    \A t \in Thread : pc[t] = "sema" \/ Free(t)
             PROVE  inner = 0
  BY DEF NobodySleepsBesideElements
<1>0. /\ OwnInv /\ ElementsBacked /\ CallInv /\ unsig \in [Thread -> Nat]
      /\ held \in [Thread -> Nat] /\ got \in [Thread -> Nat] /\ owe \in [Thread -> Nat]
      /\ signalled \in Nat /\ granted \in Nat
  BY DEF SemInv, ElementInv, SemTypeOK
<1>1. \A t \in Thread : got[t] = 0 /\ held[t] = 0 /\ unsig[t] = 0 /\ owe[t] = 0
  BY <1>0 DEF OwnInv, Free, CallInv
<1>2. Owed = {}
  BY <1>1 DEF Owed
<1>3. granted = signalled
  BY <1>2, SemInvImplies DEF NoLostSignal
<1>4. TotalOf(got) = 0 /\ TotalOf(held) = 0 /\ TotalOf(unsig) = 0
  BY <1>0, <1>1, TotalZero
<1>5. QED
  BY <1>0, <1>3, <1>4 DEF ElementsBacked

\* Whoever is entitled to an element finds one, and nobody is left asleep in
\* wait_dequeue beside an element: for any threads and elements.
THEOREM ElementsAreSound == Spec => []ElementsSound
<1>1. Spec => []SemInv
  <2>1. Spec => SemSpec
    BY QueueImplementsSemaphore DEF ImplementsSemaphore
  <2>2. SemSpec => []SemInv
    BY SemInvInit, SemInvNext, PTL DEF SemSpec
  <2>3. QED
    BY <2>1, <2>2, PTL
<1>2. SemInv /\ ElementInv /\ [Next]_vars => ElementInv'
  BY ElementInvNext
<1>3. SemInv /\ ElementInv => ElementsSound
  BY SleeperMeansEmpty DEF ElementsSound, ElementInv
<1>4. QED
  BY <1>1, <1>2, <1>3, ElementInvInit, PTL DEF Spec
===============================================================================
