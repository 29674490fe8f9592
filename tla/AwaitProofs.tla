----------------------------- MODULE AwaitProofs -----------------------------
(***************************************************************************)
(* Proofs about AwaitProtocol for any coroutines, awaits, workers and      *)
(* dispatch threads that satisfy its assumptions.                          *)
(*                                                                         *)
(* ResumeInv is the inductive invariant behind NoDoubleResume.  CoInv ties *)
(* state_, the place of the coroutine and its tickets together; WorkerInv  *)
(* says that a coroutine that is not suspended is run by one worker; and   *)
(* DispatchInv that a dispatcher which has read StopState still finds it   *)
(* there when it acts: no other dispatcher serves that coroutine, and no   *)
(* worker may run it.  On top of it stand LiveInv (the awaits a dispatcher *)
(* visits are registered), PlaceInv and NormalInOrder (a MessageAwait      *)
(* misses nothing), NameInv and DataInv (what co_await returns was         *)
(* awaited, if the coroutine has no second await) and ShareInv (a message  *)
(* for competing coroutines is in one place).                              *)
(***************************************************************************)
EXTENDS AwaitProtocol, FiniteSetTheorems, TLAPS

CoInv ==
  \A c \in Co :
    \/ state_[c] = "Stop" /\ co_pc[c] = "suspended" /\ tickets[c] = 0
    \/ state_[c] = "QueueResume" /\ co_pc[c] = "suspended" /\ tickets[c] = 1
    \/ state_[c] = "QueueResume" /\ co_pc[c] = "resume" /\ tickets[c] = 0
    \/ /\ state_[c] = "Running" /\ tickets[c] = 0
       /\ co_pc[c] \in {"construct", "ready", "susp", "destroy"}

WorkerInv ==
  /\ \A w \in Worker : worker[w] = "run" => wco[w] \in Co /\ co_pc[wco[w]] # "suspended"
  /\ \A w \in Worker : worker[w] = "tail" => wco[w] \in Co /\ waw[w] \in Await
  /\ \A v, w \in Worker :
       worker[v] = "run" /\ worker[w] = "run" /\ wco[v] = wco[w] => v = w

DispatchInv ==
  \A d \in Dispatcher :
    /\ phase[d] # "idle" => msg[d].name \in Name /\ DispatcherOf[msg[d].name] = d
    /\ phase[d] = "idle" => step[d] = "pick" /\ todo[d] = {}
    /\ \A a \in todo[d] : DispatcherOf[WaitName[a]] = d
    /\ step[d] # "pick" => cur[d] \in Await /\ DispatcherOf[WaitName[cur[d]]] = d
    /\ step[d] \in {"await", "act"} => state_[Owner[cur[d]]] = "Stop"

ResumeInv == TypeOK /\ CoInv /\ WorkerInv /\ DispatchInv

(***************************************************************************)
(* What a dispatcher visits is registered, of the class of the phase and   *)
(* of the name of its message; and only scoped awaits come and go.         *)
(***************************************************************************)
InPhase(d, a) ==
  /\ a \in live /\ WaitName[a] = msg[d].name
  /\ \/ phase[d] = "shared" /\ Kind[a] = "Shared"
     \/ phase[d] = "normal" /\ Kind[a] = "Normal"
     \/ phase[d] = "temp" /\ Kind[a] = "Temp"

LiveInv ==
  /\ Await \ Scoped \subseteq live
  /\ \A c \in Co : co_pc[c] \in {"construct", "destroy"} => Cur(c) \in Scoped
  /\ \A d \in Dispatcher :
       /\ \A a \in todo[d] : InPhase(d, a)
       /\ step[d] # "pick" => InPhase(d, cur[d])

(***************************************************************************)
(* The order of a MessageAwait: the message under way is the last one      *)
(* taken of its name, a coroutine suspended in a MessageAwait will take    *)
(* from the queue, and what the queue holds is an interval of ids.         *)
(***************************************************************************)
PlaceInv ==
  /\ \A d \in Dispatcher : phase[d] # "idle" => msg[d].id = taken[msg[d].name]
  /\ \A c \in Co :
       Kind[Cur(c)] = "Normal" /\ co_pc[c] \in {"susp", "suspended", "resume"}
         => Cur(c) \in suspend_
  /\ FirstNormal \subseteq handle_

\* The messages of name n with the ids from lo + 1 to hi.
Interval(n, lo, hi) == [i \in 1..(hi - lo) |-> [name |-> n, id |-> lo + i]]

InOrder(a) ==
  /\ LastId(a) <= Offered(a)
  /\ queue_[a] = Interval(WaitName[a], LastId(a), Offered(a))

(***************************************************************************)
(* What a coroutine with a single await receives: data_ is empty unless    *)
(* the coroutine is on its way to it, and then it holds a message that     *)
(* was awaited.                                                            *)
(***************************************************************************)
Alone(a) == \A b \in Await : Owner[b] = Owner[a] => b = a
Awaited(a, m) == m.name = WaitName[a] /\ (Kind[a] = "Temp" => m.id \in Accept[a])

DataInv ==
  \A a \in Await : Alone(a) =>
    /\ state_[Owner[a]] # "QueueResume" => data_[a] = Empty
    /\ state_[Owner[a]] = "QueueResume" /\ Kind[a] # "Normal" => Awaited(a, data_[a])
    /\ got[a] # Null => Awaited(a, got[a])

NameInv ==
  /\ \A d \in Dispatcher : step[d] # "pick" => Awaited(cur[d], msg[d])
  /\ \A a \in Await : \A i \in DOMAIN queue_[a] : queue_[a][i].name = WaitName[a]
  /\ \A n \in Name : \A i \in DOMAIN shared_queue_[n] : shared_queue_[n][i].name = n

(***************************************************************************)
(* Where a message of a name with shared awaits is.  LoopInv says that the *)
(* loop over the shared awaits is over once one coroutine took the         *)
(* message; Shares(n) that the messages taken so far are each in exactly   *)
(* one place, and no later one is anywhere.                                *)
(***************************************************************************)
SharedOf(n) == {a \in Await : Kind[a] = "Shared" /\ WaitName[a] = n}

Parked(n, k, i) == i \in DOMAIN shared_queue_[n] /\ shared_queue_[n][i].id = k
Given(n, k, a) == a \in SharedOf(n) /\ data_[a].id = k
UnderWay(n, k) ==
  LET d == DispatcherOf[n]
  IN  phase[d] = "shared" /\ ~resume_one[d] /\ msg[d] = [name |-> n, id |-> k]

Somewhere(n, k) ==
  \/ k \in nums_[n] \/ UnderWay(n, k)
  \/ (\E i : Parked(n, k, i)) \/ (\E a : Given(n, k, a))

NotTwice(n, k) ==
  /\ k \in nums_[n] => ~UnderWay(n, k)
  /\ \A i : Parked(n, k, i) => k \notin nums_[n] /\ ~UnderWay(n, k)
  /\ \A a : Given(n, k, a) => k \notin nums_[n] /\ ~UnderWay(n, k)
  /\ \A i, a : ~(Parked(n, k, i) /\ Given(n, k, a))
  /\ \A i, j : Parked(n, k, i) /\ Parked(n, k, j) => i = j
  /\ \A a, b : Given(n, k, a) /\ Given(n, k, b) => a = b

Shares(n) ==
  \A k \in Nat \ {0} : (Somewhere(n, k) <=> k <= taken[n]) /\ NotTwice(n, k)

LoopInv ==
  \A d \in Dispatcher :
    phase[d] = "shared" /\ resume_one[d] => todo[d] = {} /\ step[d] = "pick"

ShareInv ==
  (\A a \in Await : Kind[a] = "Shared" => Alone(a)) =>
    \A n \in Name : SharedOf(n) # {} => Shares(n)
------------------------------------------------------------------------------
\* The await a coroutine is at is one of its own; the next one too.
LEMMA ProgramFacts ==
  ASSUME TypeOK, NEW c \in Co
  PROVE  /\ Cur(c) \in Await /\ Owner[Cur(c)] = c
         /\ NextAt(c) \in Nat /\ NextAt(c) \in 1..Len(Program[c])
         /\ EnterPc(Program[c][NextAt(c)]) \in {"construct", "ready"}
<1>1. /\ Program[c] \in Seq(Await) /\ Len(Program[c]) > 0
      /\ \A i \in 1..Len(Program[c]) : Owner[Program[c][i]] = c
  BY ProgramAssumption
<1>2. at[c] \in 1..Len(Program[c])
  BY DEF TypeOK
<1>3. Len(Program[c]) \in Nat
  BY <1>1
<1>4. QED
  BY <1>1, <1>2, <1>3 DEF Cur, NextAt, EnterPc

\* Taking the first message off a queue.
LEMMA DequeueFacts ==
  ASSUME NEW s \in Seq(Message), s # <<>>
  PROVE  Head(s) \in Message /\ Tail(s) \in Seq(Message)
OBVIOUS

\* What the body of a co_await loop changes.
LEMMA ReceiveFacts ==
  ASSUME TypeOK, NEW c \in Co, NEW m \in Message, Receive(c, Cur(c), m)
  PROVE  /\ state_' = [state_ EXCEPT ![c] = "Running"]
         /\ data_' \in [Await -> Message]
         /\ nums_' \in [Name -> SUBSET Nat]
         /\ got' \in [Await -> Message \cup {Null}]
         /\ at' \in [Co -> Nat] /\ \A x \in Co : at'[x] \in 1..Len(Program[x])
         /\ \E p \in {"construct", "ready", "destroy"} : co_pc' = [co_pc EXCEPT ![c] = p]
<1>1. Empty \in Message
  BY StaticAssumption DEF Empty, Message
<1>2. m.id \in Nat
  BY DEF Message
<1>3. nums_' \in [Name -> SUBSET Nat]
  BY <1>2 DEF TypeOK, Receive
<1>4. data_' \in [Await -> Message] /\ got' \in [Await -> Message \cup {Null}]
  BY <1>1 DEF TypeOK, Receive
<1>5. at' \in [Co -> Nat] /\ \A x \in Co : at'[x] \in 1..Len(Program[x])
  <2>1. at \in [Co -> Nat] /\ \A x \in Co : at[x] \in 1..Len(Program[x])
    BY DEF TypeOK
  <2>2. NextAt(c) \in Nat /\ NextAt(c) \in 1..Len(Program[c])
    BY ProgramFacts
  <2>3. QED
    BY <2>1, <2>2 DEF Receive
<1>6. \E p \in {"construct", "ready", "destroy"} : co_pc' = [co_pc EXCEPT ![c] = p]
  BY ProgramFacts DEF Receive
<1>7. QED
  BY <1>3, <1>4, <1>5, <1>6 DEF Receive

\* A request to cancel a timer is one more message on the bus.
LEMMA PushRemoveTimerFacts ==
  ASSUME TypeOK, NEW timer, PushRemoveTimer(timer), taken' = taken
  PROVE  pushed' \in [Name -> Nat] /\ \A n \in Name : taken'[n] <= pushed'[n]
<1>1. /\ pushed \in [Name -> Nat] /\ taken \in [Name -> Nat]
      /\ \A n \in Name : taken[n] <= pushed[n]
  BY DEF TypeOK
<1>2. CASE pushed' = pushed
  BY <1>1, <1>2
<1>3. CASE pushed' = [pushed EXCEPT ![RemoveTimer] = @ + 1]
  BY <1>1, <1>3, StaticAssumption
<1>4. QED
  BY <1>2, <1>3 DEF PushRemoveTimer

\* Every step keeps the types.
LEMMA TypeStep ==
  ASSUME ResumeInv, [Next]_vars
  PROVE  TypeOK'
<1> USE StaticAssumption DEF busVars, awaitVars, coVars, workerVars,
           dispatchVars, bodyVars
<1>1. ASSUME NEW n \in Name, Push(n)
      PROVE  TypeOK'
  <2>1. /\ pushed \in [Name -> Nat] /\ taken \in [Name -> Nat]
        /\ \A x \in Name : taken[x] <= pushed[x]
    BY DEF ResumeInv, TypeOK
  <2>2. pushed' \in [Name -> Nat] /\ \A x \in Name : taken'[x] <= pushed'[x]
    BY <1>1, <2>1 DEF Push
  <2>3. QED
    BY <1>1, <2>2 DEF ResumeInv, TypeOK, Push
<1>2. ASSUME NEW d \in Dispatcher, NEW n \in Name, Take(d, n)
      PROVE  TypeOK'
  <2>1. /\ pushed \in [Name -> Nat] /\ taken \in [Name -> Nat]
        /\ \A x \in Name : taken[x] <= pushed[x]
    BY DEF ResumeInv, TypeOK
  <2>2. taken[n] + 1 \in Nat
    BY <2>1
  <2>3. [name |-> n, id |-> taken[n] + 1] \in Message
    BY <2>2 DEF Message
  <2>4. taken' \in [Name -> Nat] /\ \A x \in Name : taken'[x] <= pushed'[x]
    BY <1>2, <2>1, <2>2 DEF Take
  <2>5. msg' \in [Dispatcher -> Message]
    BY <1>2, <2>3 DEF ResumeInv, TypeOK, Take
  <2>6. Registered("Shared", n) \in SUBSET Await
    BY DEF ResumeInv, TypeOK, Registered
  <2>7. QED
    BY <1>2, <2>4, <2>5, <2>6 DEF ResumeInv, TypeOK, Take
<1>3. ASSUME NEW d \in Dispatcher, NEW a \in Await, VisitShared(d, a)
      PROVE  TypeOK'
  BY <1>3 DEF ResumeInv, TypeOK, VisitShared, Visit
<1>4. ASSUME NEW d \in Dispatcher, NEW a \in Await, VisitNormal(d, a)
      PROVE  TypeOK'
  <2>1. queue_ \in [Await -> Seq(Message)] /\ msg[d] \in Message
    BY DEF ResumeInv, TypeOK
  <2>2. queue_' \in [Await -> Seq(Message)]
    BY <1>4, <2>1 DEF VisitNormal
  <2>3. QED
    BY <1>4, <2>2 DEF ResumeInv, TypeOK, VisitNormal, Visit
<1>5. ASSUME NEW d \in Dispatcher, NEW a \in Await, VisitTemp(d, a)
      PROVE  TypeOK'
  BY <1>5 DEF ResumeInv, TypeOK, VisitTemp, Visit
<1>6. ASSUME NEW d \in Dispatcher, ReadState(d)
      PROVE  TypeOK'
  BY <1>6 DEF ResumeInv, TypeOK, ReadState
<1>7. ASSUME NEW d \in Dispatcher, ReadAwait(d)
      PROVE  TypeOK'
  BY <1>7 DEF ResumeInv, TypeOK, ReadAwait
<1>8. ASSUME NEW d \in Dispatcher, Act(d)
      PROVE  TypeOK'
  <2>1. cur[d] \in Await /\ Owner[cur[d]] \in Co
    BY <1>8 DEF ResumeInv, Act, DispatchInv
  <2>2. data_ \in [Await -> Message] /\ msg[d] \in Message /\ tickets \in [Co -> Nat]
    BY DEF ResumeInv, TypeOK
  <2>3. data_' \in [Await -> Message]
    BY <1>8, <2>1, <2>2 DEF Act
  <2>4. tickets' \in [Co -> Nat]
    BY <1>8, <2>1, <2>2 DEF Act
  <2>5. pushed' \in [Name -> Nat] /\ \A x \in Name : taken'[x] <= pushed'[x]
    BY <1>8, PushRemoveTimerFacts DEF ResumeInv, Act
  <2>6. QED
    BY <1>8, <2>1, <2>3, <2>4, <2>5 DEF ResumeInv, TypeOK, Act
<1>9. ASSUME NEW d \in Dispatcher, LeaveShared(d)
      PROVE  TypeOK'
  <2>1. msg[d].name \in Name
    BY <1>9 DEF ResumeInv, LeaveShared, DispatchInv
  <2>2. shared_queue_ \in [Name -> Seq(Message)] /\ msg[d] \in Message
    BY DEF ResumeInv, TypeOK
  <2>3. shared_queue_' \in [Name -> Seq(Message)]
    BY <1>9, <2>1, <2>2 DEF LeaveShared
  <2>4. Registered("Normal", msg[d].name) \in SUBSET Await
    BY DEF ResumeInv, TypeOK, Registered
  <2>5. QED
    BY <1>9, <2>3, <2>4 DEF ResumeInv, TypeOK, LeaveShared
<1>10. ASSUME NEW d \in Dispatcher, LeaveNormal(d)
       PROVE  TypeOK'
  <2>1. Registered("Temp", msg[d].name) \in SUBSET Await
    BY DEF ResumeInv, TypeOK, Registered
  <2>2. QED
    BY <1>10, <2>1 DEF ResumeInv, TypeOK, LeaveNormal
<1>11. ASSUME NEW d \in Dispatcher, LeaveTemp(d)
       PROVE  TypeOK'
  BY <1>11 DEF ResumeInv, TypeOK, LeaveTemp
<1>12. ASSUME NEW w \in Worker, NEW c \in Co, Begin(w, c)
       PROVE  TypeOK'
  <2>1. tickets \in [Co -> Nat]
    BY DEF ResumeInv, TypeOK
  <2>2. tickets' \in [Co -> Nat]
    BY <1>12, <2>1 DEF Begin
  <2>3. QED
    BY <1>12, <2>2 DEF ResumeInv, TypeOK, CoPc, Begin
<1>13. ASSUME NEW w \in Worker, NEW c \in Co, ReadyTrue(w, c)
       PROVE  TypeOK'
  <2>1. Cur(c) \in Await /\ Owner[Cur(c)] = c
    BY ProgramFacts DEF ResumeInv
  <2>2. queue_ \in [Await -> Seq(Message)] /\ shared_queue_ \in [Name -> Seq(Message)]
        /\ data_ \in [Await -> Message] /\ suspend_ \in SUBSET Await
    BY DEF ResumeInv, TypeOK
  <2>3. WaitName[Cur(c)] \in Name
    BY <2>1
  <2>4. \E m \in Message : Receive(c, Cur(c), m)
    BY <1>13, <2>1, <2>2, <2>3, DequeueFacts DEF ReadyTrue
  <2>5. queue_' \in [Await -> Seq(Message)]
    <3>1. \/ queue_' = queue_
          \/ /\ queue_[Cur(c)] # <<>>
             /\ queue_' = [queue_ EXCEPT ![Cur(c)] = Tail(queue_[Cur(c)])]
      BY <1>13 DEF ReadyTrue
    <3>2. queue_[Cur(c)] # <<>> => Tail(queue_[Cur(c)]) \in Seq(Message)
      BY <2>1, <2>2, DequeueFacts
    <3>3. QED
      BY <2>2, <2>1, <3>1, <3>2
  <2>6. shared_queue_' \in [Name -> Seq(Message)]
    <3>1. \/ shared_queue_' = shared_queue_
          \/ /\ shared_queue_[WaitName[Cur(c)]] # <<>>
             /\ shared_queue_' = [shared_queue_ EXCEPT ![WaitName[Cur(c)]] = Tail(shared_queue_[WaitName[Cur(c)]])]
      BY <1>13 DEF ReadyTrue
    <3>2. shared_queue_[WaitName[Cur(c)]] # <<>> => Tail(shared_queue_[WaitName[Cur(c)]]) \in Seq(Message)
      BY <2>3, <2>2, DequeueFacts
    <3>3. QED
      BY <2>2, <2>3, <3>1, <3>2
  <2>7. /\ data_' \in [Await -> Message]
        /\ nums_' \in [Name -> SUBSET Nat]
        /\ got' \in [Await -> Message \cup {Null}]
        /\ at' \in [Co -> Nat] /\ \A x \in Co : at'[x] \in 1..Len(Program[x])
        /\ state_' = [state_ EXCEPT ![c] = "Running"]
        /\ \E p \in {"construct", "ready", "destroy"} : co_pc' = [co_pc EXCEPT ![c] = p]
    BY <2>4, ReceiveFacts DEF ResumeInv
  <2>8. /\ state_' \in [Co -> {"Running", "Stop", "QueueResume"}]
        /\ co_pc' \in [Co -> CoPc]
    <3>1. state_ \in [Co -> {"Running", "Stop", "QueueResume"}] /\ co_pc \in [Co -> CoPc]
      BY DEF ResumeInv, TypeOK
    <3>2. PICK p \in {"construct", "ready", "destroy"} : co_pc' = [co_pc EXCEPT ![c] = p]
      BY <2>7
    <3>3. p \in CoPc
      BY DEF CoPc
    <3>4. QED
      BY <2>7, <3>1, <3>2, <3>3
  <2>9. QED
    BY <1>13, <2>5, <2>6, <2>7, <2>8 DEF ResumeInv, TypeOK, ReadyTrue
<1>14. ASSUME NEW w \in Worker, NEW c \in Co, ReadyFalse(w, c)
       PROVE  TypeOK'
  <2>1. Cur(c) \in Await /\ Owner[Cur(c)] = c
    BY ProgramFacts DEF ResumeInv
  <2>2. handle_ \in SUBSET Await /\ suspend_ \in SUBSET Await
    BY DEF ResumeInv, TypeOK
  <2>3. handle_' \in SUBSET Await
    BY <1>14, <2>1, <2>2 DEF ReadyFalse
  <2>4. suspend_' \in SUBSET Await
    BY <1>14, <2>1, <2>2 DEF ReadyFalse
  <2>5. QED
    BY <1>14, <2>3, <2>4 DEF ResumeInv, TypeOK, CoPc, ReadyFalse
<1>15. ASSUME NEW w \in Worker, NEW c \in Co, SetStop(w, c)
       PROVE  TypeOK'
  <2>1. Cur(c) \in Await /\ Owner[Cur(c)] = c
    BY ProgramFacts DEF ResumeInv
  <2>2. QED
    BY <1>15, <2>1 DEF ResumeInv, TypeOK, CoPc, SetStop
<1>16. ASSUME NEW w \in Worker, NEW c \in Co, AwaitResume(w, c)
       PROVE  TypeOK'
  <2>1. Cur(c) \in Await /\ Owner[Cur(c)] = c
    BY ProgramFacts DEF ResumeInv
  <2>2. queue_ \in [Await -> Seq(Message)] /\ shared_queue_ \in [Name -> Seq(Message)]
        /\ data_ \in [Await -> Message] /\ suspend_ \in SUBSET Await
    BY DEF ResumeInv, TypeOK
  <2>3. \E m \in Message : Receive(c, Cur(c), m)
    BY <1>16, <2>1, <2>2, DequeueFacts DEF AwaitResume
  <2>4. queue_' \in [Await -> Seq(Message)]
    <3>1. \/ queue_' = queue_
          \/ /\ queue_[Cur(c)] # <<>>
             /\ queue_' = [queue_ EXCEPT ![Cur(c)] = Tail(queue_[Cur(c)])]
      BY <1>16 DEF AwaitResume
    <3>2. queue_[Cur(c)] # <<>> => Tail(queue_[Cur(c)]) \in Seq(Message)
      BY <2>1, <2>2, DequeueFacts
    <3>3. QED
      BY <2>2, <2>1, <3>1, <3>2
  <2>5. suspend_' \in SUBSET Await
    BY <1>16, <2>2 DEF AwaitResume
  <2>6. /\ data_' \in [Await -> Message]
        /\ nums_' \in [Name -> SUBSET Nat]
        /\ got' \in [Await -> Message \cup {Null}]
        /\ at' \in [Co -> Nat] /\ \A x \in Co : at'[x] \in 1..Len(Program[x])
        /\ state_' = [state_ EXCEPT ![c] = "Running"]
        /\ \E p \in {"construct", "ready", "destroy"} : co_pc' = [co_pc EXCEPT ![c] = p]
    BY <2>3, ReceiveFacts DEF ResumeInv
  <2>7. /\ state_' \in [Co -> {"Running", "Stop", "QueueResume"}]
        /\ co_pc' \in [Co -> CoPc]
    <3>1. state_ \in [Co -> {"Running", "Stop", "QueueResume"}] /\ co_pc \in [Co -> CoPc]
      BY DEF ResumeInv, TypeOK
    <3>2. PICK p \in {"construct", "ready", "destroy"} : co_pc' = [co_pc EXCEPT ![c] = p]
      BY <2>6
    <3>3. p \in CoPc
      BY DEF CoPc
    <3>4. QED
      BY <2>6, <3>1, <3>2, <3>3
  <2>8. QED
    BY <1>16, <2>4, <2>5, <2>6, <2>7 DEF ResumeInv, TypeOK, AwaitResume
<1>17. ASSUME NEW w \in Worker, NEW c \in Co, Construct(w, c)
       PROVE  TypeOK'
  <2>1. Cur(c) \in Await /\ Owner[Cur(c)] = c
    BY ProgramFacts DEF ResumeInv
  <2>2. Empty \in Message
    BY DEF Empty, Message
  <2>3. data_ \in [Await -> Message] /\ live \in SUBSET Await /\ handle_ \in SUBSET Await
    BY DEF ResumeInv, TypeOK
  <2>4. data_' \in [Await -> Message]
    BY <1>17, <2>1, <2>2, <2>3 DEF Construct
  <2>5. live' \in SUBSET Await
    BY <1>17, <2>1, <2>3 DEF Construct
  <2>6. handle_' \in SUBSET Await
    BY <1>17, <2>1, <2>3 DEF Construct
  <2>7. QED
    BY <1>17, <2>4, <2>5, <2>6 DEF ResumeInv, TypeOK, CoPc, Construct
<1>18. ASSUME NEW w \in Worker, NEW c \in Co, Destroy(w, c)
       PROVE  TypeOK'
  <2>1. NextAt(c) \in Nat /\ NextAt(c) \in 1..Len(Program[c])
    BY ProgramFacts DEF ResumeInv
  <2>2. EnterPc(Program[c][NextAt(c)]) \in CoPc
    BY ProgramFacts DEF ResumeInv, CoPc
  <2>3. at \in [Co -> Nat] /\ \A x \in Co : at[x] \in 1..Len(Program[x])
    BY DEF ResumeInv, TypeOK
  <2>4. at' \in [Co -> Nat] /\ \A x \in Co : at'[x] \in 1..Len(Program[x])
    BY <1>18, <2>1, <2>3 DEF Destroy
  <2>5. pushed' \in [Name -> Nat] /\ \A x \in Name : taken'[x] <= pushed'[x]
    BY <1>18, PushRemoveTimerFacts DEF ResumeInv, Destroy
  <2>6. QED
    BY <1>18, <2>2, <2>4, <2>5 DEF ResumeInv, TypeOK, Destroy
<1>19. ASSUME NEW w \in Worker, SetAwait(w)
       PROVE  TypeOK'
  <2>1. wco[w] \in Co /\ waw[w] \in Await
    BY <1>19 DEF ResumeInv, SetAwait, WorkerInv
  <2>2. QED
    BY <1>19, <2>1 DEF ResumeInv, TypeOK, SetAwait
<1>20. ASSUME UNCHANGED vars
       PROVE  TypeOK'
  BY <1>20 DEF ResumeInv, TypeOK, vars
<1>21. QED
  <2>1. \A d \in Dispatcher : todo[d] \subseteq Await
    BY DEF ResumeInv, TypeOK
  <2> HIDE DEF busVars, awaitVars, coVars, workerVars, dispatchVars, bodyVars
  <2>2. QED
    BY <2>1, <1>1, <1>2, <1>3, <1>4, <1>5, <1>6, <1>7, <1>8, <1>9, <1>10, <1>11, <1>12,
       <1>13, <1>14, <1>15, <1>16, <1>17, <1>18, <1>19, <1>20
       DEF Next, Dispatch, Work

\* await_ready and await_resume that return hand the body some message.
LEMMA ReceiveSome ==
  ASSUME TypeOK, NEW w \in Worker, NEW c \in Co, ReadyTrue(w, c) \/ AwaitResume(w, c)
  PROVE  \E m \in Message : Receive(c, Cur(c), m)
<1>1. Cur(c) \in Await
  BY ProgramFacts
<1>2. queue_[Cur(c)] \in Seq(Message) /\ shared_queue_[WaitName[Cur(c)]] \in Seq(Message)
  BY <1>1, StaticAssumption DEF TypeOK
<1>3. data_[Cur(c)] \in Message
  BY <1>1 DEF TypeOK
<1>4. CASE ReadyTrue(w, c)
  BY <1>2, <1>4, DequeueFacts DEF ReadyTrue
<1>5. CASE AwaitResume(w, c)
  BY <1>2, <1>3, <1>5, DequeueFacts DEF AwaitResume
<1>6. QED
  BY <1>4, <1>5

\* The promise's state, the coroutine's place and its tickets move together.
LEMMA CoStep ==
  ASSUME ResumeInv, [Next]_vars
  PROVE  CoInv'
<1>0. /\ CoInv /\ WorkerInv /\ DispatchInv
      /\ state_ \in [Co -> {"Running", "Stop", "QueueResume"}]
      /\ co_pc \in [Co -> CoPc] /\ tickets \in [Co -> Nat]
  BY DEF ResumeInv, TypeOK
<1>1. ASSUME NEW n \in Name, Push(n)
      PROVE  CoInv'
  BY <1>0, <1>1 DEF CoInv, coVars, Push
<1>2. ASSUME NEW d \in Dispatcher, NEW n \in Name, Take(d, n)
      PROVE  CoInv'
  BY <1>0, <1>2 DEF CoInv, coVars, Take, Registered
<1>3. ASSUME NEW d \in Dispatcher, NEW a \in Await, VisitShared(d, a)
      PROVE  CoInv'
  BY <1>0, <1>3 DEF CoInv, coVars, VisitShared, Visit
<1>4. ASSUME NEW d \in Dispatcher, NEW a \in Await, VisitNormal(d, a)
      PROVE  CoInv'
  BY <1>0, <1>4 DEF CoInv, coVars, VisitNormal, Visit
<1>5. ASSUME NEW d \in Dispatcher, NEW a \in Await, VisitTemp(d, a)
      PROVE  CoInv'
  BY <1>0, <1>5 DEF CoInv, coVars, VisitTemp, Visit
<1>6. ASSUME NEW d \in Dispatcher, ReadState(d)
      PROVE  CoInv'
  BY <1>0, <1>6 DEF CoInv, coVars, ReadState
<1>7. ASSUME NEW d \in Dispatcher, ReadAwait(d)
      PROVE  CoInv'
  BY <1>0, <1>7 DEF CoInv, coVars, ReadAwait
<1>8. ASSUME NEW d \in Dispatcher, Act(d)
      PROVE  CoInv'
  <2>1. /\ cur[d] \in Await /\ Owner[cur[d]] \in Co
        /\ state_[Owner[cur[d]]] = "Stop"
    BY <1>0, <1>8, StaticAssumption DEF DispatchInv, Act
  <2>2. QED
    BY <1>0, <1>8, <2>1 DEF CoInv, Act
<1>9. ASSUME NEW d \in Dispatcher, LeaveShared(d)
      PROVE  CoInv'
  BY <1>0, <1>9 DEF CoInv, coVars, LeaveShared, Registered
<1>10. ASSUME NEW d \in Dispatcher, LeaveNormal(d)
       PROVE  CoInv'
  BY <1>0, <1>10 DEF CoInv, coVars, LeaveNormal, Registered
<1>11. ASSUME NEW d \in Dispatcher, LeaveTemp(d)
       PROVE  CoInv'
  BY <1>0, <1>11 DEF CoInv, coVars, LeaveTemp
<1>12. ASSUME NEW w \in Worker, NEW c \in Co, Begin(w, c)
       PROVE  CoInv'
  BY <1>0, <1>12 DEF CoInv, Begin
<1>13. ASSUME NEW w \in Worker, NEW c \in Co, ReadyTrue(w, c)
       PROVE  CoInv'
  <2>1. \E m \in Message : Receive(c, Cur(c), m)
    BY <1>13, ReceiveSome DEF ResumeInv
  <2>2. /\ state_' = [state_ EXCEPT ![c] = "Running"]
        /\ \E p \in {"construct", "ready", "destroy"} : co_pc' = [co_pc EXCEPT ![c] = p]
    BY <2>1, ReceiveFacts DEF ResumeInv
  <2>3. tickets' = tickets /\ co_pc[c] \in {"ready", "resume"}
    BY <1>13 DEF ReadyTrue, Running
  <2>4. QED
    BY <1>0, <2>2, <2>3 DEF CoInv
<1>14. ASSUME NEW w \in Worker, NEW c \in Co, ReadyFalse(w, c)
       PROVE  CoInv'
  BY <1>0, <1>14 DEF CoInv, ReadyFalse, Running
<1>15. ASSUME NEW w \in Worker, NEW c \in Co, SetStop(w, c)
       PROVE  CoInv'
  BY <1>0, <1>15 DEF CoInv, SetStop, Running
<1>16. ASSUME NEW w \in Worker, NEW c \in Co, AwaitResume(w, c)
       PROVE  CoInv'
  <2>1. \E m \in Message : Receive(c, Cur(c), m)
    BY <1>16, ReceiveSome DEF ResumeInv
  <2>2. /\ state_' = [state_ EXCEPT ![c] = "Running"]
        /\ \E p \in {"construct", "ready", "destroy"} : co_pc' = [co_pc EXCEPT ![c] = p]
    BY <2>1, ReceiveFacts DEF ResumeInv
  <2>3. tickets' = tickets /\ co_pc[c] \in {"ready", "resume"}
    BY <1>16 DEF AwaitResume, Running
  <2>4. QED
    BY <1>0, <2>2, <2>3 DEF CoInv
<1>17. ASSUME NEW w \in Worker, NEW c \in Co, Construct(w, c)
       PROVE  CoInv'
  BY <1>0, <1>17 DEF CoInv, Construct, Running
<1>18. ASSUME NEW w \in Worker, NEW c \in Co, Destroy(w, c)
       PROVE  CoInv'
  <2>1. EnterPc(Program[c][NextAt(c)]) \in {"construct", "ready"}
    BY ProgramFacts DEF ResumeInv
  <2>2. QED
    BY <1>0, <1>18, <2>1 DEF CoInv, Destroy, Running
<1>19. ASSUME NEW w \in Worker, SetAwait(w)
       PROVE  CoInv'
  BY <1>0, <1>19 DEF CoInv, SetAwait
<1>20. ASSUME UNCHANGED vars
       PROVE  CoInv'
  BY <1>0, <1>20 DEF CoInv, vars, coVars
<1>21. QED
  <2>1. \A d \in Dispatcher : todo[d] \subseteq Await
    BY DEF ResumeInv, TypeOK
  <2>2. QED
    BY <2>1, <1>1, <1>2, <1>3, <1>4, <1>5, <1>6, <1>7, <1>8, <1>9, <1>10, <1>11, <1>12,
       <1>13, <1>14, <1>15, <1>16, <1>17, <1>18, <1>19, <1>20
       DEF Next, Dispatch, Work

\* A coroutine that is not suspended stays with one worker.
LEMMA WorkerStep ==
  ASSUME ResumeInv, [Next]_vars
  PROVE  WorkerInv'
<1>0. /\ CoInv /\ WorkerInv
      /\ co_pc \in [Co -> CoPc] /\ tickets \in [Co -> Nat]
      /\ worker \in [Worker -> {"idle", "run", "tail"}]
      /\ wco \in [Worker -> Co \cup {Null}] /\ waw \in [Worker -> Await \cup {Null}]
  BY DEF ResumeInv, TypeOK
<1> USE StaticAssumption
<1>1. ASSUME NEW n \in Name, Push(n)
      PROVE  WorkerInv'
  BY <1>0, <1>1 DEF WorkerInv, coVars, workerVars, Push
<1>2. ASSUME NEW d \in Dispatcher, NEW n \in Name, Take(d, n)
      PROVE  WorkerInv'
  BY <1>0, <1>2 DEF WorkerInv, coVars, workerVars, Take, Registered
<1>3. ASSUME NEW d \in Dispatcher, NEW a \in Await, VisitShared(d, a)
      PROVE  WorkerInv'
  BY <1>0, <1>3 DEF WorkerInv, coVars, workerVars, VisitShared, Visit
<1>4. ASSUME NEW d \in Dispatcher, NEW a \in Await, VisitNormal(d, a)
      PROVE  WorkerInv'
  BY <1>0, <1>4 DEF WorkerInv, coVars, workerVars, VisitNormal, Visit
<1>5. ASSUME NEW d \in Dispatcher, NEW a \in Await, VisitTemp(d, a)
      PROVE  WorkerInv'
  BY <1>0, <1>5 DEF WorkerInv, coVars, workerVars, VisitTemp, Visit
<1>6. ASSUME NEW d \in Dispatcher, ReadState(d)
      PROVE  WorkerInv'
  BY <1>0, <1>6 DEF WorkerInv, coVars, workerVars, ReadState
<1>7. ASSUME NEW d \in Dispatcher, ReadAwait(d)
      PROVE  WorkerInv'
  BY <1>0, <1>7 DEF WorkerInv, coVars, workerVars, ReadAwait
<1>8. ASSUME NEW d \in Dispatcher, Act(d)
      PROVE  WorkerInv'
  BY <1>0, <1>8 DEF WorkerInv, workerVars, Act
<1>9. ASSUME NEW d \in Dispatcher, LeaveShared(d)
      PROVE  WorkerInv'
  BY <1>0, <1>9 DEF WorkerInv, coVars, workerVars, LeaveShared, Registered
<1>10. ASSUME NEW d \in Dispatcher, LeaveNormal(d)
       PROVE  WorkerInv'
  BY <1>0, <1>10 DEF WorkerInv, coVars, workerVars, LeaveNormal, Registered
<1>11. ASSUME NEW d \in Dispatcher, LeaveTemp(d)
       PROVE  WorkerInv'
  BY <1>0, <1>11 DEF WorkerInv, coVars, workerVars, LeaveTemp
<1>12. ASSUME NEW w \in Worker, NEW c \in Co, Begin(w, c)
       PROVE  WorkerInv'
  <2>1. co_pc[c] = "suspended"
    BY <1>0, <1>12 DEF CoInv, Begin
  <2>2. QED
    BY <1>0, <1>12, <2>1 DEF WorkerInv, Begin
<1>13. ASSUME NEW w \in Worker, NEW c \in Co, ReadyTrue(w, c)
       PROVE  WorkerInv'
  <2>1. \E m \in Message : Receive(c, Cur(c), m)
    BY <1>13, ReceiveSome DEF ResumeInv
  <2>2. \E p \in {"construct", "ready", "destroy"} : co_pc' = [co_pc EXCEPT ![c] = p]
    BY <2>1, ReceiveFacts DEF ResumeInv
  <2>3. UNCHANGED <<worker, wco, waw>>
    BY <1>13 DEF ReadyTrue, workerVars
  <2>4. QED
    BY <1>0, <2>2, <2>3 DEF WorkerInv
<1>14. ASSUME NEW w \in Worker, NEW c \in Co, ReadyFalse(w, c)
       PROVE  WorkerInv'
  BY <1>0, <1>14 DEF WorkerInv, workerVars, ReadyFalse, Running
<1>15. ASSUME NEW w \in Worker, NEW c \in Co, SetStop(w, c)
       PROVE  WorkerInv'
  <2>1. Cur(c) \in Await
    BY ProgramFacts DEF ResumeInv
  <2>2. QED
    BY <1>0, <1>15, <2>1 DEF WorkerInv, SetStop, Running
<1>16. ASSUME NEW w \in Worker, NEW c \in Co, AwaitResume(w, c)
       PROVE  WorkerInv'
  <2>1. \E m \in Message : Receive(c, Cur(c), m)
    BY <1>16, ReceiveSome DEF ResumeInv
  <2>2. \E p \in {"construct", "ready", "destroy"} : co_pc' = [co_pc EXCEPT ![c] = p]
    BY <2>1, ReceiveFacts DEF ResumeInv
  <2>3. UNCHANGED <<worker, wco, waw>>
    BY <1>16 DEF AwaitResume, workerVars
  <2>4. QED
    BY <1>0, <2>2, <2>3 DEF WorkerInv
<1>17. ASSUME NEW w \in Worker, NEW c \in Co, Construct(w, c)
       PROVE  WorkerInv'
  BY <1>0, <1>17 DEF WorkerInv, workerVars, Construct, Running
<1>18. ASSUME NEW w \in Worker, NEW c \in Co, Destroy(w, c)
       PROVE  WorkerInv'
  <2>1. EnterPc(Program[c][NextAt(c)]) \in {"construct", "ready"}
    BY ProgramFacts DEF ResumeInv
  <2>2. QED
    BY <1>0, <1>18, <2>1 DEF WorkerInv, workerVars, Destroy, Running
<1>19. ASSUME NEW w \in Worker, SetAwait(w)
       PROVE  WorkerInv'
  BY <1>0, <1>19 DEF WorkerInv, SetAwait
<1>20. ASSUME UNCHANGED vars
       PROVE  WorkerInv'
  BY <1>0, <1>20 DEF WorkerInv, vars, coVars, workerVars
<1>21. QED
  <2>1. \A d \in Dispatcher : todo[d] \subseteq Await
    BY DEF ResumeInv, TypeOK
  <2>2. QED
    BY <2>1, <1>1, <1>2, <1>3, <1>4, <1>5, <1>6, <1>7, <1>8, <1>9, <1>10, <1>11, <1>12,
       <1>13, <1>14, <1>15, <1>16, <1>17, <1>18, <1>19, <1>20
       DEF Next, Dispatch, Work

\* What a dispatcher has read stays true until it acts: nobody else serves the
\* coroutine, and no worker runs it.
LEMMA DispatchStep ==
  ASSUME ResumeInv, [Next]_vars
  PROVE  DispatchInv'
<1>0. /\ CoInv /\ WorkerInv /\ DispatchInv
      /\ state_ \in [Co -> {"Running", "Stop", "QueueResume"}]
      /\ phase \in [Dispatcher -> {"idle", "shared", "normal", "temp"}]
      /\ step \in [Dispatcher -> {"pick", "state", "await", "act"}]
      /\ msg \in [Dispatcher -> Message]
      /\ todo \in [Dispatcher -> SUBSET Await]
      /\ cur \in [Dispatcher -> Await \cup {Null}]
      /\ live \in SUBSET Await
  BY DEF ResumeInv, TypeOK
<1> USE StaticAssumption
<1>1. ASSUME NEW n \in Name, Push(n)
      PROVE  DispatchInv'
  BY <1>0, <1>1 DEF DispatchInv, coVars, dispatchVars, Push
<1>2. ASSUME NEW d \in Dispatcher, NEW n \in Name, Take(d, n)
      PROVE  DispatchInv'
  <2>1. \A a \in Registered("Shared", n) : WaitName[a] = n
    BY DEF Registered
  <2>2. QED
    BY <1>0, <1>2, <2>1 DEF DispatchInv, coVars, Take
<1>3. ASSUME NEW d \in Dispatcher, NEW a \in Await, VisitShared(d, a)
      PROVE  DispatchInv'
  <2>1. phase[d] # "idle" /\ DispatcherOf[WaitName[a]] = d
    BY <1>0, <1>3 DEF DispatchInv, VisitShared, Visit
  <2>2. QED
    BY <1>0, <1>3, <2>1 DEF DispatchInv, coVars, VisitShared, Visit
<1>4. ASSUME NEW d \in Dispatcher, NEW a \in Await, VisitNormal(d, a)
      PROVE  DispatchInv'
  <2>1. phase[d] # "idle" /\ DispatcherOf[WaitName[a]] = d
    BY <1>0, <1>4 DEF DispatchInv, VisitNormal, Visit
  <2>2. QED
    BY <1>0, <1>4, <2>1 DEF DispatchInv, coVars, VisitNormal, Visit
<1>5. ASSUME NEW d \in Dispatcher, NEW a \in Await, VisitTemp(d, a)
      PROVE  DispatchInv'
  <2>1. phase[d] # "idle" /\ DispatcherOf[WaitName[a]] = d
    BY <1>0, <1>5 DEF DispatchInv, VisitTemp, Visit
  <2>2. QED
    BY <1>0, <1>5, <2>1 DEF DispatchInv, coVars, VisitTemp, Visit
<1>6. ASSUME NEW d \in Dispatcher, ReadState(d)
      PROVE  DispatchInv'
  BY <1>0, <1>6 DEF DispatchInv, coVars, ReadState
<1>7. ASSUME NEW d \in Dispatcher, ReadAwait(d)
      PROVE  DispatchInv'
  BY <1>0, <1>7 DEF DispatchInv, coVars, ReadAwait
<1>8. ASSUME NEW d \in Dispatcher, Act(d)
      PROVE  DispatchInv'
  <2>1. cur[d] \in Await /\ DispatcherOf[WaitName[cur[d]]] = d
    BY <1>0, <1>8 DEF DispatchInv, Act
  <2>2. \A e \in Dispatcher \ {d} : step[e] # "pick" => Owner[cur[e]] # Owner[cur[d]]
    BY <1>0, <2>1, OneDispatcher DEF DispatchInv
  <2>3. QED
    BY <1>0, <1>8, <2>1, <2>2 DEF DispatchInv, Act
<1>9. ASSUME NEW d \in Dispatcher, LeaveShared(d)
      PROVE  DispatchInv'
  <2>1. \A a \in Registered("Normal", msg[d].name) : WaitName[a] = msg[d].name
    BY DEF Registered
  <2>2. QED
    BY <1>0, <1>9, <2>1 DEF DispatchInv, coVars, LeaveShared
<1>10. ASSUME NEW d \in Dispatcher, LeaveNormal(d)
       PROVE  DispatchInv'
  <2>1. \A a \in Registered("Temp", msg[d].name) : WaitName[a] = msg[d].name
    BY DEF Registered
  <2>2. QED
    BY <1>0, <1>10, <2>1 DEF DispatchInv, coVars, LeaveNormal
<1>11. ASSUME NEW d \in Dispatcher, LeaveTemp(d)
       PROVE  DispatchInv'
  BY <1>0, <1>11 DEF DispatchInv, coVars, LeaveTemp
<1>12. ASSUME NEW w \in Worker, NEW c \in Co, Begin(w, c)
       PROVE  DispatchInv'
  BY <1>0, <1>12 DEF DispatchInv, coVars, dispatchVars, Begin
<1>13. ASSUME NEW w \in Worker, NEW c \in Co, ReadyTrue(w, c)
       PROVE  DispatchInv'
  <2>1. \E m \in Message : Receive(c, Cur(c), m)
    BY <1>13, ReceiveSome DEF ResumeInv
  <2>2. state_' = [state_ EXCEPT ![c] = "Running"]
    BY <2>1, ReceiveFacts DEF ResumeInv
  <2>3. co_pc[c] \in {"ready", "resume"} /\ UNCHANGED dispatchVars
    BY <1>13 DEF ReadyTrue, Running
  <2>4. state_[c] # "Stop"
    BY <1>0, <2>3 DEF CoInv
  <2>5. QED
    BY <1>0, <2>2, <2>3, <2>4 DEF DispatchInv, dispatchVars
<1>14. ASSUME NEW w \in Worker, NEW c \in Co, ReadyFalse(w, c)
       PROVE  DispatchInv'
  BY <1>0, <1>14 DEF DispatchInv, coVars, dispatchVars, ReadyFalse
<1>15. ASSUME NEW w \in Worker, NEW c \in Co, SetStop(w, c)
       PROVE  DispatchInv'
  <2>1. state_[c] # "Stop"
    BY <1>0, <1>15 DEF CoInv, SetStop, Running
  <2>2. QED
    BY <1>0, <1>15, <2>1 DEF DispatchInv, dispatchVars, SetStop
<1>16. ASSUME NEW w \in Worker, NEW c \in Co, AwaitResume(w, c)
       PROVE  DispatchInv'
  <2>1. \E m \in Message : Receive(c, Cur(c), m)
    BY <1>16, ReceiveSome DEF ResumeInv
  <2>2. state_' = [state_ EXCEPT ![c] = "Running"]
    BY <2>1, ReceiveFacts DEF ResumeInv
  <2>3. co_pc[c] \in {"ready", "resume"} /\ UNCHANGED dispatchVars
    BY <1>16 DEF AwaitResume, Running
  <2>4. state_[c] # "Stop"
    BY <1>0, <2>3 DEF CoInv
  <2>5. QED
    BY <1>0, <2>2, <2>3, <2>4 DEF DispatchInv, dispatchVars
<1>17. ASSUME NEW w \in Worker, NEW c \in Co, Construct(w, c)
       PROVE  DispatchInv'
  BY <1>0, <1>17 DEF DispatchInv, coVars, dispatchVars, Construct
<1>18. ASSUME NEW w \in Worker, NEW c \in Co, Destroy(w, c)
       PROVE  DispatchInv'
  BY <1>0, <1>18 DEF DispatchInv, coVars, dispatchVars, Destroy
<1>19. ASSUME NEW w \in Worker, SetAwait(w)
       PROVE  DispatchInv'
  BY <1>0, <1>19 DEF DispatchInv, coVars, dispatchVars, SetAwait
<1>20. ASSUME UNCHANGED vars
       PROVE  DispatchInv'
  BY <1>0, <1>20 DEF DispatchInv, vars, coVars, dispatchVars
<1>21. QED
  <2>1. \A d \in Dispatcher : todo[d] \subseteq Await
    BY DEF ResumeInv, TypeOK
  <2>2. QED
    BY <2>1, <1>1, <1>2, <1>3, <1>4, <1>5, <1>6, <1>7, <1>8, <1>9, <1>10, <1>11, <1>12,
       <1>13, <1>14, <1>15, <1>16, <1>17, <1>18, <1>19, <1>20
       DEF Next, Dispatch, Work

------------------------------------------------------------------------------
\* After init() every coroutine is suspended on its first await.
LEMMA ResumeInvInit ==
  ASSUME Init
  PROVE  ResumeInv
<1> USE StaticAssumption DEF Init
<1>1. Empty \in Message /\ Null \notin Await /\ Null \notin Co
  BY DEF Empty, Message
<1>2. \A c \in Co : Program[c][1] \in Await /\ 1 \in 1..Len(Program[c])
  BY ProgramAssumption
<1>3. /\ pushed \in [Name -> Nat] /\ taken \in [Name -> Nat]
      /\ \A n \in Name : taken[n] <= pushed[n]
      /\ live \in SUBSET Await /\ handle_ \in SUBSET Await /\ suspend_ \in SUBSET Await
      /\ queue_ \in [Await -> Seq(Message)] /\ shared_queue_ \in [Name -> Seq(Message)]
  BY <1>2
<1>4. /\ data_ \in [Await -> Message]
      /\ state_ \in [Co -> {"Running", "Stop", "QueueResume"}]
      /\ await_ \in [Co -> Await] /\ co_pc \in [Co -> CoPc]
      /\ at \in [Co -> Nat] /\ \A c \in Co : at[c] \in 1..Len(Program[c])
      /\ tickets \in [Co -> Nat]
  BY <1>1, <1>2 DEF CoPc
<1>5. /\ worker \in [Worker -> {"idle", "run", "tail"}]
      /\ wco \in [Worker -> Co \cup {Null}] /\ waw \in [Worker -> Await \cup {Null}]
      /\ nums_ \in [Name -> SUBSET Nat] /\ got \in [Await -> Message \cup {Null}]
  OBVIOUS
<1>6. /\ phase \in [Dispatcher -> {"idle", "shared", "normal", "temp"}]
      /\ step \in [Dispatcher -> {"pick", "state", "await", "act"}]
      /\ msg \in [Dispatcher -> Message] /\ todo \in [Dispatcher -> SUBSET Await]
      /\ cur \in [Dispatcher -> Await \cup {Null}]
      /\ resume_one \in [Dispatcher -> BOOLEAN]
  BY <1>1
<1>7. TypeOK
  BY <1>3, <1>4, <1>5, <1>6 DEF TypeOK
<1>8. CoInv /\ WorkerInv /\ DispatchInv
  BY DEF CoInv, WorkerInv, DispatchInv
<1>9. QED
  BY <1>7, <1>8 DEF ResumeInv

\* The strengthened invariant of NoDoubleResume holds in every reachable state.
LEMMA ResumeInvAlways == Spec => []ResumeInv
<1>1. ResumeInv /\ [Next]_vars => ResumeInv'
  BY TypeStep, CoStep, WorkerStep, DispatchStep DEF ResumeInv
<1>2. QED
  BY <1>1, ResumeInvInit, PTL DEF Spec

\* Type correctness of the hand-over between dispatchers and coroutines.
THEOREM AwaitTypeCorrect == Spec => []TypeOK
<1>1. ResumeInv => TypeOK
  BY DEF ResumeInv
<1>2. QED
  BY <1>1, ResumeInvAlways, PTL

\* A coroutine is never resumed while it runs and never queued twice, although
\* the awaits test state_ and set it in separate steps, as long as one dispatch
\* thread serves it.
THEOREM ResumedAtMostOnce == Spec => []NoDoubleResume
<1>1. ResumeInv => NoDoubleResume
  BY DEF ResumeInv, CoInv, NoDoubleResume
<1>2. QED
  BY <1>1, ResumeInvAlways, PTL
------------------------------------------------------------------------------
\* The body of a loop leaves a coroutine where an await is built or destroyed
\* only if that await is scoped.
LEMMA ReceivePlace ==
  ASSUME TypeOK, NEW c \in Co, NEW m \in Message, Receive(c, Cur(c), m),
         \A x \in Co : co_pc[x] \in {"construct", "destroy"} => Cur(x) \in Scoped
  PROVE  \A x \in Co : co_pc'[x] \in {"construct", "destroy"} => Cur(x)' \in Scoped
BY DEF TypeOK, Receive, Cur, EnterPc

\* Every step keeps LiveInv: the map lock keeps a scoped await registered while a
\* dispatcher is in the block of its class.
LEMMA LiveStep ==
  ASSUME ResumeInv, LiveInv, [Next]_vars
  PROVE  LiveInv'
<1>0. /\ LiveInv /\ DispatchInv /\ CoInv
      /\ live \in SUBSET Await /\ co_pc \in [Co -> CoPc] /\ at \in [Co -> Nat]
      /\ phase \in [Dispatcher -> {"idle", "shared", "normal", "temp"}]
      /\ step \in [Dispatcher -> {"pick", "state", "await", "act"}]
      /\ msg \in [Dispatcher -> Message] /\ todo \in [Dispatcher -> SUBSET Await]
      /\ cur \in [Dispatcher -> Await \cup {Null}]
      /\ \A c \in Co : Cur(c) \in Await /\ Owner[Cur(c)] = c
  BY ProgramFacts DEF ResumeInv, TypeOK
<1> USE StaticAssumption DEF InPhase, awaitVars, coVars, dispatchVars, Cur
<1>1. ASSUME NEW n \in Name, Push(n)
      PROVE  LiveInv'
  BY <1>0, <1>1 DEF LiveInv, Push
<1>2. ASSUME NEW d \in Dispatcher, NEW n \in Name, Take(d, n)
      PROVE  LiveInv'
  BY <1>0, <1>2 DEF LiveInv, Take, Registered, DispatchInv
<1>3. ASSUME NEW d \in Dispatcher, NEW a \in Await, VisitShared(d, a)
      PROVE  LiveInv'
  <2>1. \E go : Visit(d, a, go) /\ UNCHANGED live
    BY <1>3 DEF VisitShared
  <2>2. InPhase(d, a)
    BY <1>0, <2>1 DEF LiveInv, Visit
  <2>3. QED
    BY <1>0, <2>1, <2>2 DEF LiveInv, Visit
<1>4. ASSUME NEW d \in Dispatcher, NEW a \in Await, VisitNormal(d, a)
      PROVE  LiveInv'
  <2>1. \E go : Visit(d, a, go) /\ UNCHANGED live
    BY <1>4 DEF VisitNormal
  <2>2. InPhase(d, a)
    BY <1>0, <2>1 DEF LiveInv, Visit
  <2>3. QED
    BY <1>0, <2>1, <2>2 DEF LiveInv, Visit
<1>5. ASSUME NEW d \in Dispatcher, NEW a \in Await, VisitTemp(d, a)
      PROVE  LiveInv'
  <2>1. \E go : Visit(d, a, go) /\ UNCHANGED live
    BY <1>5 DEF VisitTemp
  <2>2. InPhase(d, a)
    BY <1>0, <2>1 DEF LiveInv, Visit
  <2>3. QED
    BY <1>0, <2>1, <2>2 DEF LiveInv, Visit
<1>6. ASSUME NEW d \in Dispatcher, ReadState(d)
      PROVE  LiveInv'
  BY <1>0, <1>6 DEF LiveInv, ReadState
<1>7. ASSUME NEW d \in Dispatcher, ReadAwait(d)
      PROVE  LiveInv'
  BY <1>0, <1>7 DEF LiveInv, ReadAwait
<1>8. ASSUME NEW d \in Dispatcher, Act(d)
      PROVE  LiveInv'
  BY <1>0, <1>8 DEF LiveInv, Act
<1>9. ASSUME NEW d \in Dispatcher, LeaveShared(d)
      PROVE  LiveInv'
  BY <1>0, <1>9 DEF LiveInv, LeaveShared, Registered, DispatchInv
<1>10. ASSUME NEW d \in Dispatcher, LeaveNormal(d)
       PROVE  LiveInv'
  BY <1>0, <1>10 DEF LiveInv, LeaveNormal, Registered, DispatchInv
<1>11. ASSUME NEW d \in Dispatcher, LeaveTemp(d)
       PROVE  LiveInv'
  BY <1>0, <1>11 DEF LiveInv, LeaveTemp
<1>12. ASSUME NEW w \in Worker, NEW c \in Co, Begin(w, c)
       PROVE  LiveInv'
  BY <1>0, <1>12 DEF LiveInv, Begin
<1>13. ASSUME NEW w \in Worker, NEW c \in Co, ReadyTrue(w, c)
       PROVE  LiveInv'
  <2>1. \A x \in Co : co_pc'[x] \in {"construct", "destroy"} => Cur(x)' \in Scoped
    BY <1>0, <1>13, ReceiveSome, ReceivePlace DEF ResumeInv, LiveInv
  <2>2. QED
    BY <1>0, <1>13, <2>1 DEF LiveInv, ReadyTrue
<1>14. ASSUME NEW w \in Worker, NEW c \in Co, ReadyFalse(w, c)
       PROVE  LiveInv'
  BY <1>0, <1>14 DEF LiveInv, ReadyFalse, Running
<1>15. ASSUME NEW w \in Worker, NEW c \in Co, SetStop(w, c)
       PROVE  LiveInv'
  BY <1>0, <1>15 DEF LiveInv, SetStop, Running
<1>16. ASSUME NEW w \in Worker, NEW c \in Co, AwaitResume(w, c)
       PROVE  LiveInv'
  <2>1. \A x \in Co : co_pc'[x] \in {"construct", "destroy"} => Cur(x)' \in Scoped
    BY <1>0, <1>16, ReceiveSome, ReceivePlace DEF ResumeInv, LiveInv
  <2>2. QED
    BY <1>0, <1>16, <2>1 DEF LiveInv, AwaitResume
<1>17. ASSUME NEW w \in Worker, NEW c \in Co, Construct(w, c)
       PROVE  LiveInv'
  BY <1>0, <1>17 DEF LiveInv, Construct, Running
<1>18. ASSUME NEW w \in Worker, NEW c \in Co, Destroy(w, c)
       PROVE  LiveInv'
  <2>1. Cur(c) \in Scoped /\ Kind[Cur(c)] = "Temp"
    BY <1>0, <1>18 DEF LiveInv, Destroy, Running
  <2>2. \A x \in Co : co_pc'[x] \in {"construct", "destroy"} => Cur(x)' \in Scoped
    BY <1>0, <1>18 DEF LiveInv, Destroy, EnterPc
  <2>3. QED
    BY <1>0, <1>18, <2>1, <2>2 DEF LiveInv, Destroy
<1>19. ASSUME NEW w \in Worker, SetAwait(w)
       PROVE  LiveInv'
  BY <1>0, <1>19 DEF LiveInv, SetAwait
<1>20. ASSUME UNCHANGED vars
       PROVE  LiveInv'
  BY <1>0, <1>20 DEF LiveInv, vars
<1>21. QED
  <2>1. \A d \in Dispatcher : todo[d] \subseteq Await
    BY DEF ResumeInv, TypeOK
  <2>2. QED
    BY <2>1, <1>1, <1>2, <1>3, <1>4, <1>5, <1>6, <1>7, <1>8, <1>9, <1>10, <1>11, <1>12,
       <1>13, <1>14, <1>15, <1>16, <1>17, <1>18, <1>19, <1>20
       DEF Next, Dispatch, Work

\* After init() everything but the scoped awaits is registered.
LEMMA LiveInvInit ==
  ASSUME Init
  PROVE  LiveInv
BY ProgramAssumption DEF Init, LiveInv, InPhase

\* The dispatcher never touches an await that is not registered.
THEOREM NoDeadAwaitVisited == Spec => []OnlyLiveAwaits
<1>1. LiveInv => OnlyLiveAwaits
  <2>1. LiveInv => \A d \in Dispatcher : todo[d] \subseteq live
    BY DEF LiveInv, InPhase
  <2>2. LiveInv => \A d \in Dispatcher : step[d] # "pick" => cur[d] \in live
    BY DEF LiveInv, InPhase
  <2>3. QED
    BY <2>1, <2>2 DEF OnlyLiveAwaits
<1>2. ResumeInv /\ LiveInv /\ [Next]_vars => LiveInv'
  BY LiveStep
<1>3. QED
  BY <1>1, <1>2, ResumeInvAlways, LiveInvInit, PTL DEF Spec
------------------------------------------------------------------------------
\* Taking the first message off such a queue.
LEMMA IntervalTail ==
  ASSUME NEW n \in Name, NEW lo \in Nat, NEW hi \in Nat, lo <= hi,
         Interval(n, lo, hi) # <<>>
  PROVE  /\ lo + 1 <= hi
         /\ Head(Interval(n, lo, hi)) = [name |-> n, id |-> lo + 1]
         /\ Tail(Interval(n, lo, hi)) = Interval(n, lo + 1, hi)
<1> DEFINE q == Interval(n, lo, hi)
           r == Interval(n, lo + 1, hi)
<1>1. hi - lo \in Nat
  OBVIOUS
<1>2. q \in Seq(Message) /\ Len(q) = hi - lo /\ \A i \in 1..(hi - lo) : q[i] = [name |-> n, id |-> lo + i]
  BY <1>1 DEF Interval, Message
<1>3. hi - lo > 0
  BY <1>1, <1>2
<1>4. Len(q) > 0 /\ Head(q) = q[1] 
  BY <1>2, <1>3
<1>5. Head(q) = [name |-> n, id |-> lo + 1]
  <2>1. 1 \in 1..(hi - lo)
    BY <1>1, <1>3
  <2>2. QED
    BY <1>2, <1>4, <2>1
<1>6. Tail(q) \in Seq(Message) /\ Len(Tail(q)) = hi - (lo + 1) /\ \A i \in 1..(hi - (lo + 1)) : Tail(q)[i] = q[i + 1]
  BY <1>2, <1>3
<1>7. r \in Seq(Message) /\ Len(r) = hi - (lo + 1) /\ \A i \in 1..(hi - (lo + 1)) : r[i] = [name |-> n, id |-> lo + 1 + i]
  BY <1>3 DEF Interval, Message
<1>8. \A i \in 1..(hi - (lo + 1)) : Tail(q)[i] = r[i]
  <2> SUFFICES ASSUME NEW i \in 1..(hi - (lo + 1))
               PROVE  Tail(q)[i] = r[i]
    OBVIOUS
  <2>1. i + 1 \in 1..(hi - lo) /\ lo + (i + 1) = lo + 1 + i
    BY <1>1
  <2>2. q[i + 1] = [name |-> n, id |-> lo + 1 + i]
    BY <1>2, <2>1
  <2>3. QED
    BY <1>6, <1>7, <2>2
<1>9. Tail(q) = r
  BY <1>6, <1>7, <1>8
<1>10. QED
  BY <1>3, <1>5, <1>9

\* Adding the next message.
LEMMA IntervalAppend ==
  ASSUME NEW n \in Name, NEW lo \in Nat, NEW hi \in Nat, lo <= hi
  PROVE  Append(Interval(n, lo, hi), [name |-> n, id |-> hi + 1]) = Interval(n, lo, hi + 1)
<1> DEFINE q == Interval(n, lo, hi)
           x == [name |-> n, id |-> hi + 1]
           r == Interval(n, lo, hi + 1)
<1>1. hi - lo \in Nat /\ x \in Message
  BY DEF Message
<1>2. q \in Seq(Message) /\ Len(q) = hi - lo /\ \A i \in 1..(hi - lo) : q[i] = [name |-> n, id |-> lo + i]
  BY <1>1 DEF Interval, Message
<1>3. /\ Append(q, x) \in Seq(Message) /\ Len(Append(q, x)) = (hi + 1) - lo
      /\ \A i \in 1..(hi - lo) : Append(q, x)[i] = q[i]
      /\ Append(q, x)[(hi + 1) - lo] = x
  BY <1>1, <1>2
<1>4. r \in Seq(Message) /\ Len(r) = (hi + 1) - lo /\ \A i \in 1..((hi + 1) - lo) : r[i] = [name |-> n, id |-> lo + i]
  BY <1>1 DEF Interval, Message
<1>5. \A i \in 1..((hi + 1) - lo) : Append(q, x)[i] = r[i]
  <2> SUFFICES ASSUME NEW i \in 1..((hi + 1) - lo)
               PROVE  Append(q, x)[i] = r[i]
    OBVIOUS
  <2>1. CASE i \in 1..(hi - lo)
    BY <1>2, <1>3, <1>4, <2>1
  <2>2. CASE i = (hi + 1) - lo
    <3>1. lo + i = hi + 1
      BY <2>2
    <3>2. QED
      BY <1>3, <1>4, <2>2, <3>1
  <2>3. i \in 1..(hi - lo) \/ i = (hi + 1) - lo
    BY <1>1
  <2>4. QED
    BY <2>1, <2>2, <2>3
<1>6. QED
  BY <1>3, <1>4, <1>5

\* A MessageAwait suspended in init() is one of the awaits, and is not scoped.
LEMMA FirstNormalFacts ==
  /\ FirstNormal \subseteq Await
  /\ \A a \in FirstNormal : Kind[a] = "Normal" /\ a \notin Scoped
BY ProgramAssumption, StaticAssumption DEF FirstNormal

\* Every step keeps PlaceInv.
LEMMA PlaceStep ==
  ASSUME ResumeInv, LiveInv, PlaceInv, [Next]_vars
  PROVE  PlaceInv'
<1>0. /\ PlaceInv /\ LiveInv /\ DispatchInv
      /\ live \in SUBSET Await /\ co_pc \in [Co -> CoPc] /\ at \in [Co -> Nat]
      /\ taken \in [Name -> Nat] /\ suspend_ \in SUBSET Await
      /\ phase \in [Dispatcher -> {"idle", "shared", "normal", "temp"}]
      /\ msg \in [Dispatcher -> Message]
      /\ \A c \in Co : Cur(c) \in Await /\ Owner[Cur(c)] = c
      /\ FirstNormal \subseteq Await /\ \A a \in FirstNormal : Kind[a] = "Normal"
  BY ProgramFacts, FirstNormalFacts DEF ResumeInv, TypeOK
<1> USE StaticAssumption DEF awaitVars, coVars, dispatchVars, busVars, Cur
<1>1. ASSUME NEW n \in Name, Push(n)
      PROVE  PlaceInv'
  BY <1>0, <1>1 DEF PlaceInv, Push
<1>2. ASSUME NEW d \in Dispatcher, NEW n \in Name, Take(d, n)
      PROVE  PlaceInv'
  <2>1. \A e \in Dispatcher : phase'[e] # "idle" => msg'[e].id = taken'[msg'[e].name]
    BY <1>0, <1>2 DEF PlaceInv, Take, DispatchInv
  <2>2. QED
    BY <1>0, <1>2, <2>1 DEF PlaceInv, Take
<1>3. ASSUME NEW d \in Dispatcher, NEW a \in Await, VisitShared(d, a)
      PROVE  PlaceInv'
  BY <1>0, <1>3 DEF PlaceInv, VisitShared, Visit
<1>4. ASSUME NEW d \in Dispatcher, NEW a \in Await, VisitNormal(d, a)
      PROVE  PlaceInv'
  BY <1>0, <1>4 DEF PlaceInv, VisitNormal, Visit
<1>5. ASSUME NEW d \in Dispatcher, NEW a \in Await, VisitTemp(d, a)
      PROVE  PlaceInv'
  BY <1>0, <1>5 DEF PlaceInv, VisitTemp, Visit
<1>6. ASSUME NEW d \in Dispatcher, ReadState(d)
      PROVE  PlaceInv'
  BY <1>0, <1>6 DEF PlaceInv, ReadState
<1>7. ASSUME NEW d \in Dispatcher, ReadAwait(d)
      PROVE  PlaceInv'
  BY <1>0, <1>7 DEF PlaceInv, ReadAwait
<1>8. ASSUME NEW d \in Dispatcher, Act(d)
      PROVE  PlaceInv'
  BY <1>0, <1>8 DEF PlaceInv, Act
<1>9. ASSUME NEW d \in Dispatcher, LeaveShared(d)
      PROVE  PlaceInv'
  BY <1>0, <1>9 DEF PlaceInv, LeaveShared
<1>10. ASSUME NEW d \in Dispatcher, LeaveNormal(d)
       PROVE  PlaceInv'
  BY <1>0, <1>10 DEF PlaceInv, LeaveNormal
<1>11. ASSUME NEW d \in Dispatcher, LeaveTemp(d)
       PROVE  PlaceInv'
  BY <1>0, <1>11 DEF PlaceInv, LeaveTemp
<1>12. ASSUME NEW w \in Worker, NEW c \in Co, Begin(w, c)
       PROVE  PlaceInv'
  <2>1. co_pc[c] = "suspended"
    <3>1. tickets[c] > 0 /\ CoInv
      BY <1>12 DEF Begin, ResumeInv
    <3>2. QED
      BY <3>1 DEF CoInv
  <2>2. QED
    BY <1>0, <1>12, <2>1 DEF PlaceInv, Begin
<1>13. ASSUME NEW w \in Worker, NEW c \in Co, ReadyTrue(w, c)
       PROVE  PlaceInv'
  <2>1. PICK m \in Message : Receive(c, Cur(c), m)
    BY <1>13, ReceiveSome DEF ResumeInv
  <2>2. /\ \E p \in {"construct", "ready", "destroy"} : co_pc' = [co_pc EXCEPT ![c] = p]
        /\ \A x \in Co : x # c => at'[x] = at[x]
    <3>1. \E p \in {"construct", "ready", "destroy"} : co_pc' = [co_pc EXCEPT ![c] = p]
      BY <2>1, ReceiveFacts DEF ResumeInv
    <3>2. \A x \in Co : x # c => at'[x] = at[x]
      BY <1>0, <2>1 DEF Receive
    <3>3. QED
      BY <3>1, <3>2
  <2>3. /\ handle_' = handle_ /\ taken' = taken /\ suspend_ \ {Cur(c)} \subseteq suspend_'
        /\ UNCHANGED dispatchVars
    BY <1>0, <1>13 DEF ReadyTrue
  <2>4. \A x \in Co : Kind[Cur(x)'] = "Normal" /\ co_pc'[x] \in {"susp", "suspended", "resume"}
                       => Cur(x)' \in suspend_'
    BY <1>0, <2>2, <2>3 DEF PlaceInv
  <2>5. QED
    BY <1>0, <2>3, <2>4 DEF PlaceInv
<1>14. ASSUME NEW w \in Worker, NEW c \in Co, ReadyFalse(w, c)
       PROVE  PlaceInv'
  BY <1>0, <1>14 DEF PlaceInv, ReadyFalse, Running
<1>15. ASSUME NEW w \in Worker, NEW c \in Co, SetStop(w, c)
       PROVE  PlaceInv'
  BY <1>0, <1>15 DEF PlaceInv, SetStop, Running
<1>16. ASSUME NEW w \in Worker, NEW c \in Co, AwaitResume(w, c)
       PROVE  PlaceInv'
  <2>1. PICK m \in Message : Receive(c, Cur(c), m)
    BY <1>16, ReceiveSome DEF ResumeInv
  <2>2. /\ \E p \in {"construct", "ready", "destroy"} : co_pc' = [co_pc EXCEPT ![c] = p]
        /\ \A x \in Co : x # c => at'[x] = at[x]
    <3>1. \E p \in {"construct", "ready", "destroy"} : co_pc' = [co_pc EXCEPT ![c] = p]
      BY <2>1, ReceiveFacts DEF ResumeInv
    <3>2. \A x \in Co : x # c => at'[x] = at[x]
      BY <1>0, <2>1 DEF Receive
    <3>3. QED
      BY <3>1, <3>2
  <2>3. /\ handle_' = handle_ /\ taken' = taken /\ suspend_ \ {Cur(c)} \subseteq suspend_'
        /\ UNCHANGED dispatchVars
    BY <1>0, <1>16 DEF AwaitResume
  <2>4. \A x \in Co : Kind[Cur(x)'] = "Normal" /\ co_pc'[x] \in {"susp", "suspended", "resume"}
                       => Cur(x)' \in suspend_'
    BY <1>0, <2>2, <2>3 DEF PlaceInv
  <2>5. QED
    BY <1>0, <2>3, <2>4 DEF PlaceInv
<1>17. ASSUME NEW w \in Worker, NEW c \in Co, Construct(w, c)
       PROVE  PlaceInv'
  <2>1. Cur(c) \in Scoped /\ Kind[Cur(c)] = "Temp"
    BY <1>0, <1>17 DEF LiveInv, Construct, Running
  <2>2. FirstNormal \subseteq handle_'
    BY <1>0, <1>17, <2>1 DEF PlaceInv, Construct
  <2>3. QED
    BY <1>0, <1>17, <2>2 DEF PlaceInv, Construct
<1>18. ASSUME NEW w \in Worker, NEW c \in Co, Destroy(w, c)
       PROVE  PlaceInv'
  <2>1. EnterPc(Program[c][NextAt(c)]) \in {"construct", "ready"}
    BY ProgramFacts DEF ResumeInv
  <2>2. QED
    BY <1>0, <1>18, <2>1 DEF PlaceInv, Destroy
<1>19. ASSUME NEW w \in Worker, SetAwait(w)
       PROVE  PlaceInv'
  BY <1>0, <1>19 DEF PlaceInv, SetAwait
<1>20. ASSUME UNCHANGED vars
       PROVE  PlaceInv'
  BY <1>0, <1>20 DEF PlaceInv, vars
<1>21. QED
  <2>1. \A d \in Dispatcher : todo[d] \subseteq Await
    BY DEF ResumeInv, TypeOK
  <2>2. QED
    BY <2>1, <1>1, <1>2, <1>3, <1>4, <1>5, <1>6, <1>7, <1>8, <1>9, <1>10, <1>11, <1>12,
       <1>13, <1>14, <1>15, <1>16, <1>17, <1>18, <1>19, <1>20
       DEF Next, Dispatch, Work

\* The ids a loop has received are numbers.
LEMMA LastIdFacts ==
  ASSUME TypeOK, NEW a \in Await
  PROVE  LastId(a) \in Nat
BY StaticAssumption DEF TypeOK, LastId, Message

\* Handing the head of the queue to the body keeps the order.
LEMMA HandOver ==
  ASSUME TypeOK, NEW a \in FirstNormal, InOrder(a), queue_[a] # <<>>,
         queue_' = [queue_ EXCEPT ![a] = Tail(queue_[a])],
         got' = [got EXCEPT ![a] = Head(queue_[a])],
         Offered(a)' = Offered(a)
  PROVE  InOrder(a)'
<1> DEFINE n == WaitName[a]
<1>1. a \in Await /\ n \in Name /\ LastId(a) \in Nat
  BY FirstNormalFacts, LastIdFacts, StaticAssumption
<1>2. Offered(a) \in Nat
  <2>1. taken[n] \in Nat /\ LastId(a) <= Offered(a)
    BY <1>1 DEF TypeOK, InOrder
  <2>2. Offered(a) = taken[n] \/ Offered(a) = taken[n] - 1
    BY DEF Offered
  <2>3. QED
    BY <1>1, <2>1, <2>2
<1>3. queue_[a] = Interval(n, LastId(a), Offered(a)) /\ LastId(a) <= Offered(a)
  BY DEF InOrder
<1>4. /\ LastId(a) + 1 <= Offered(a)
      /\ Head(queue_[a]) = [name |-> n, id |-> LastId(a) + 1]
      /\ Tail(queue_[a]) = Interval(n, LastId(a) + 1, Offered(a))
  BY <1>1, <1>2, <1>3, IntervalTail
<1>5. [name |-> n, id |-> LastId(a) + 1] \in Message
  BY <1>1 DEF Message
<1>6. got'[a] = [name |-> n, id |-> LastId(a) + 1] /\ queue_'[a] = Tail(queue_[a])
  BY <1>1, <1>4 DEF TypeOK
<1>7. LastId(a)' = LastId(a) + 1
  BY <1>5, <1>6, StaticAssumption DEF LastId
<1>8. QED
  BY <1>4, <1>6, <1>7 DEF InOrder

\* Every step keeps the messages of a MessageAwait in order.
LEMMA OrderStep ==
  ASSUME ResumeInv, LiveInv, PlaceInv, NormalInOrder, [Next]_vars
  PROVE  NormalInOrder'
<1>0. /\ DispatchInv /\ PlaceInv /\ taken \in [Name -> Nat]
      /\ phase \in [Dispatcher -> {"idle", "shared", "normal", "temp"}]
      /\ msg \in [Dispatcher -> Message] /\ todo \in [Dispatcher -> SUBSET Await]
      /\ FirstNormal \subseteq Await
      /\ \A a \in FirstNormal : Kind[a] = "Normal" /\ a \notin Scoped
  BY FirstNormalFacts DEF ResumeInv, TypeOK
<1> USE StaticAssumption DEF awaitVars, coVars, dispatchVars, busVars, bodyVars
<1> SUFFICES ASSUME NEW z \in FirstNormal
             PROVE  InOrder(z)'
  BY DEF NormalInOrder, InOrder, Interval, FirstNormal
<1>a. InOrder(z)
  BY DEF NormalInOrder, InOrder, Interval
<1>b. z \in Await /\ WaitName[z] \in Name /\ DispatcherOf[WaitName[z]] \in Dispatcher
  BY <1>0
<1>c. queue_'[z] = queue_[z] /\ got'[z] = got[z] /\ Offered(z)' = Offered(z) => InOrder(z)'
  BY <1>a DEF InOrder, LastId
<1>1. ASSUME NEW n \in Name, Push(n)
      PROVE  InOrder(z)'
  BY <1>0, <1>a, <1>b, <1>c, <1>1 DEF Offered, Push
<1>2. ASSUME NEW d \in Dispatcher, NEW n \in Name, Take(d, n)
      PROVE  InOrder(z)'
  <2>1. Offered(z)' = Offered(z)
    <3>1. CASE n = WaitName[z]
      BY <1>0, <1>b, <1>2, <3>1 DEF Offered, Take
    <3>2. CASE n # WaitName[z]
      BY <1>0, <1>b, <1>2, <3>2 DEF Offered, Take
    <3>3. QED
      BY <3>1, <3>2
  <2>2. QED
    BY <1>c, <1>2, <2>1 DEF Take
<1>3. ASSUME NEW d \in Dispatcher, NEW a \in Await, VisitShared(d, a)
      PROVE  InOrder(z)'
  BY <1>0, <1>a, <1>b, <1>c, <1>3 DEF Offered, VisitShared, Visit
<1>4. ASSUME NEW d \in Dispatcher, NEW a \in Await, VisitNormal(d, a)
      PROVE  InOrder(z)'
  <2>0. d = DispatcherOf[WaitName[a]] /\ msg[d].name = WaitName[a] /\ phase[d] = "normal"
    BY <1>0, <1>4 DEF VisitNormal, Visit, DispatchInv, LiveInv, InPhase
  <2>1. CASE a # z
    <3>1. queue_'[z] = queue_[z]
      BY <1>4, <2>1 DEF VisitNormal
    <3>2. Offered(z)' = Offered(z)
      BY <1>0, <1>b, <1>4, <2>1 DEF Offered, VisitNormal, Visit
    <3>3. QED
      BY <1>c, <1>4, <3>1, <3>2 DEF VisitNormal, Visit
  <2>2. CASE a = z
    <3> DEFINE n == WaitName[z]
    <3>1. Offered(z) = taken[n] - 1 /\ taken[n] \in Nat
      BY <1>0, <1>b, <1>4, <2>0, <2>2 DEF Offered, VisitNormal, Visit
    <3>2. Offered(z)' = taken[n]
      BY <1>0, <1>b, <1>4, <2>0, <2>2 DEF Offered, VisitNormal, Visit
    <3>3. msg[d] = [name |-> n, id |-> taken[n]]
      BY <1>0, <2>0, <2>2 DEF PlaceInv, Message
    <3>4. LastId(z) \in Nat
      BY <1>b, LastIdFacts DEF ResumeInv
    <3>5. queue_[z] = Interval(n, LastId(z), taken[n] - 1) /\ LastId(z) <= taken[n] - 1
      BY <1>a, <3>1 DEF InOrder
    <3>6. taken[n] - 1 \in Nat /\ (taken[n] - 1) + 1 = taken[n]
      BY <3>1, <3>4, <3>5
    <3>7. Append(queue_[z], msg[d]) = Interval(n, LastId(z), taken[n])
      BY <1>b, <3>3, <3>4, <3>5, <3>6, IntervalAppend
    <3>8. queue_'[z] = Append(queue_[z], msg[d]) /\ got' = got
      BY <1>0, <1>b, <1>4, <2>2 DEF VisitNormal, Visit, PlaceInv, ResumeInv, TypeOK
    <3>9. LastId(z)' = LastId(z)
      BY <3>8 DEF LastId
    <3>10. QED
      BY <3>1, <3>2, <3>4, <3>5, <3>7, <3>8, <3>9 DEF InOrder
  <2>3. QED
    BY <2>1, <2>2
<1>5. ASSUME NEW d \in Dispatcher, NEW a \in Await, VisitTemp(d, a)
      PROVE  InOrder(z)'
  BY <1>0, <1>a, <1>b, <1>c, <1>5 DEF Offered, VisitTemp, Visit
<1>6. ASSUME NEW d \in Dispatcher, ReadState(d)
      PROVE  InOrder(z)'
  BY <1>0, <1>a, <1>b, <1>c, <1>6 DEF Offered, ReadState
<1>7. ASSUME NEW d \in Dispatcher, ReadAwait(d)
      PROVE  InOrder(z)'
  BY <1>0, <1>a, <1>b, <1>c, <1>7 DEF Offered, ReadAwait
<1>8. ASSUME NEW d \in Dispatcher, Act(d)
      PROVE  InOrder(z)'
  BY <1>0, <1>a, <1>b, <1>c, <1>8 DEF Offered, Act
<1>9. ASSUME NEW d \in Dispatcher, LeaveShared(d)
      PROVE  InOrder(z)'
  <2>1. Await \ Scoped \subseteq live
    BY DEF LiveInv
  <2>2. msg[d].name = WaitName[z] => z \in Registered("Normal", msg[d].name)
    BY <1>0, <1>b, <2>1 DEF Registered
  <2>3. Offered(z)' = Offered(z)
    BY <1>0, <1>b, <1>9, <2>2 DEF Offered, LeaveShared
  <2>4. QED
    BY <1>c, <1>9, <2>3 DEF LeaveShared
<1>10. ASSUME NEW d \in Dispatcher, LeaveNormal(d)
       PROVE  InOrder(z)'
  <2>1. Offered(z)' = Offered(z)
    BY <1>0, <1>b, <1>10 DEF Offered, LeaveNormal
  <2>2. QED
    BY <1>c, <1>10, <2>1 DEF LeaveNormal
<1>11. ASSUME NEW d \in Dispatcher, LeaveTemp(d)
       PROVE  InOrder(z)'
  BY <1>0, <1>a, <1>b, <1>c, <1>11 DEF Offered, LeaveTemp
<1>12. ASSUME NEW w \in Worker, NEW c \in Co, Begin(w, c)
       PROVE  InOrder(z)'
  BY <1>0, <1>a, <1>b, <1>c, <1>12 DEF Offered, Begin
<1>13. ASSUME NEW w \in Worker, NEW c \in Co, ReadyTrue(w, c)
       PROVE  InOrder(z)'
  <2>1. Cur(c) \in Await /\ Owner[Cur(c)] = c
    BY ProgramFacts DEF ResumeInv
  <2>2. Offered(z)' = Offered(z)
    BY <1>0, <1>b, <1>13 DEF Offered, ReadyTrue
  <2>3. CASE Cur(c) # z
    <3>1. PICK m \in Message : Receive(c, Cur(c), m)
      BY <1>13, ReceiveSome DEF ResumeInv
    <3>2. got'[z] = got[z]
      BY <2>1, <2>3, <3>1 DEF Receive, ResumeInv, TypeOK
    <3>3. queue_'[z] = queue_[z]
      <4>1. \/ queue_' = queue_
            \/ queue_' = [queue_ EXCEPT ![Cur(c)] = Tail(queue_[Cur(c)])]
        BY <1>13 DEF ReadyTrue
      <4>2. queue_ \in [Await -> Seq(Message)]
        BY DEF ResumeInv, TypeOK
      <4>3. QED
        BY <1>b, <2>1, <2>3, <4>1, <4>2
    <3>4. QED
      BY <1>c, <2>2, <3>2, <3>3
  <2>4. CASE Cur(c) = z
    <3>1. /\ queue_[z] # <<>> /\ queue_' = [queue_ EXCEPT ![z] = Tail(queue_[z])]
          /\ got' = [got EXCEPT ![z] = Head(queue_[z])]
      BY <1>0, <1>13, <2>1, <2>4 DEF ReadyTrue, Receive
    <3>2. QED
      BY <1>a, <2>2, <3>1, HandOver DEF ResumeInv
  <2>5. QED
    BY <2>3, <2>4
<1>14. ASSUME NEW w \in Worker, NEW c \in Co, ReadyFalse(w, c)
       PROVE  InOrder(z)'
  BY <1>0, <1>a, <1>b, <1>c, <1>14 DEF Offered, ReadyFalse, Running
<1>15. ASSUME NEW w \in Worker, NEW c \in Co, SetStop(w, c)
       PROVE  InOrder(z)'
  BY <1>0, <1>a, <1>b, <1>c, <1>15 DEF Offered, SetStop, Running
<1>16. ASSUME NEW w \in Worker, NEW c \in Co, AwaitResume(w, c)
       PROVE  InOrder(z)'
  <2>1. Cur(c) \in Await /\ Owner[Cur(c)] = c
    BY ProgramFacts DEF ResumeInv
  <2>2. Offered(z)' = Offered(z)
    BY <1>0, <1>b, <1>16 DEF Offered, AwaitResume
  <2>3. CASE Cur(c) # z
    <3>1. PICK m \in Message : Receive(c, Cur(c), m)
      BY <1>16, ReceiveSome DEF ResumeInv
    <3>2. got'[z] = got[z]
      BY <2>1, <2>3, <3>1 DEF Receive, ResumeInv, TypeOK
    <3>3. queue_'[z] = queue_[z]
      <4>1. \/ queue_' = queue_
            \/ queue_' = [queue_ EXCEPT ![Cur(c)] = Tail(queue_[Cur(c)])]
        BY <1>16 DEF AwaitResume
      <4>2. queue_ \in [Await -> Seq(Message)]
        BY DEF ResumeInv, TypeOK
      <4>3. QED
        BY <1>b, <2>1, <2>3, <4>1, <4>2
    <3>4. QED
      BY <1>c, <2>2, <3>2, <3>3
  <2>4. CASE Cur(c) = z
    <3>1. /\ queue_[z] # <<>> /\ queue_' = [queue_ EXCEPT ![z] = Tail(queue_[z])]
          /\ got' = [got EXCEPT ![z] = Head(queue_[z])]
      BY <1>0, <1>16, <2>1, <2>4 DEF AwaitResume, Receive, PlaceInv, Running
    <3>2. QED
      BY <1>a, <2>2, <3>1, HandOver DEF ResumeInv
  <2>5. QED
    BY <2>3, <2>4
<1>17. ASSUME NEW w \in Worker, NEW c \in Co, Construct(w, c)
       PROVE  InOrder(z)'
  BY <1>0, <1>a, <1>b, <1>c, <1>17 DEF Offered, Construct, Running
<1>18. ASSUME NEW w \in Worker, NEW c \in Co, Destroy(w, c)
       PROVE  InOrder(z)'
  BY <1>0, <1>a, <1>b, <1>c, <1>18 DEF Offered, Destroy, Running
<1>19. ASSUME NEW w \in Worker, SetAwait(w)
       PROVE  InOrder(z)'
  BY <1>0, <1>a, <1>b, <1>c, <1>19 DEF Offered, SetAwait
<1>20. ASSUME UNCHANGED vars
       PROVE  InOrder(z)'
  BY <1>0, <1>a, <1>b, <1>c, <1>20 DEF Offered, vars
<1>21. QED
  <2>1. \A d \in Dispatcher : todo[d] \subseteq Await
    BY DEF ResumeInv, TypeOK
  <2>2. QED
    BY <2>1, <1>1, <1>2, <1>3, <1>4, <1>5, <1>6, <1>7, <1>8, <1>9, <1>10, <1>11, <1>12,
       <1>13, <1>14, <1>15, <1>16, <1>17, <1>18, <1>19, <1>20
       DEF Next, Dispatch, Work

\* After init() nothing has been offered and every queue is empty.
LEMMA OrderInit ==
  ASSUME Init
  PROVE  PlaceInv /\ NormalInOrder
<1>1. PlaceInv
  BY DEF Init, PlaceInv, Cur, FirstNormal
<1>2. ASSUME NEW a \in FirstNormal
      PROVE  /\ LastId(a) <= Offered(a)
             /\ queue_[a] = [i \in 1..(Offered(a) - LastId(a)) |->
                               [name |-> WaitName[a], id |-> LastId(a) + i]]
  <2>1. a \in Await /\ WaitName[a] \in Name /\ DispatcherOf[WaitName[a]] \in Dispatcher
    BY FirstNormalFacts, StaticAssumption
  <2>2. LastId(a) = 0 /\ Offered(a) = 0 /\ queue_[a] = <<>>
    BY <2>1 DEF Init, LastId, Offered
  <2>3. QED
    BY <2>2
<1>3. QED
  BY <1>1, <1>2 DEF NormalInOrder

\* What the dispatchers visit is registered, suspended MessageAwaits read their
\* queue, and the queues are in order: in every reachable state.
LEMMA OrderInvAlways == Spec => [](LiveInv /\ PlaceInv /\ NormalInOrder)
<1>1. ResumeInv /\ LiveInv /\ [Next]_vars => LiveInv'
  BY LiveStep
<1>2. ResumeInv /\ LiveInv /\ PlaceInv /\ [Next]_vars => PlaceInv'
  BY PlaceStep
<1>3. ResumeInv /\ LiveInv /\ PlaceInv /\ NormalInOrder /\ [Next]_vars => NormalInOrder'
  BY OrderStep
<1>4. QED
  BY <1>1, <1>2, <1>3, ResumeInvAlways, LiveInvInit, OrderInit, PTL DEF Spec

\* A MessageAwait delivers every message of its name once and in order.
THEOREM DeliveredInOrder == Spec => []NormalInOrder
BY OrderInvAlways, PTL
------------------------------------------------------------------------------
\* Taking a message off a queue takes one of its messages and keeps the others.
LEMMA QueueTail ==
  ASSUME NEW s \in Seq(Message), s # <<>>
  PROVE  /\ 1 \in DOMAIN s /\ Head(s) = s[1]
         /\ Tail(s) \in Seq(Message)
         /\ \A i \in DOMAIN Tail(s) : i + 1 \in DOMAIN s /\ Tail(s)[i] = s[i + 1]
         /\ \A i \in DOMAIN s : i # 1 => i - 1 \in DOMAIN Tail(s) /\ Tail(s)[i - 1] = s[i]
<1>1. Len(s) \in Nat /\ Len(s) > 0 /\ DOMAIN s = 1..Len(s)
  OBVIOUS
<1>2. /\ Tail(s) \in Seq(Message) /\ Len(Tail(s)) = Len(s) - 1
      /\ DOMAIN Tail(s) = 1..(Len(s) - 1)
      /\ \A i \in 1..(Len(s) - 1) : Tail(s)[i] = s[i + 1]
  BY <1>1
<1>3. \A i \in DOMAIN Tail(s) : i + 1 \in DOMAIN s /\ Tail(s)[i] = s[i + 1]
  BY <1>1, <1>2
<1>4. ASSUME NEW i \in DOMAIN s, i # 1
      PROVE  i - 1 \in DOMAIN Tail(s) /\ Tail(s)[i - 1] = s[i]
  <2>1. i - 1 \in 1..(Len(s) - 1) /\ (i - 1) + 1 = i
    BY <1>1, <1>4
  <2>2. QED
    BY <1>2, <2>1
<1>5. QED
  BY <1>1, <1>2, <1>3, <1>4

\* Adding a message at the end of a queue.
LEMMA QueueAppend ==
  ASSUME NEW s \in Seq(Message), NEW m \in Message
  PROVE  /\ Append(s, m) \in Seq(Message)
         /\ DOMAIN s = 1..Len(s) /\ DOMAIN Append(s, m) = 1..(Len(s) + 1) /\ Len(s) \in Nat
         /\ \A i \in DOMAIN s : i \in DOMAIN Append(s, m) /\ Append(s, m)[i] = s[i]
         /\ Append(s, m)[Len(s) + 1] = m
         /\ \A i \in DOMAIN Append(s, m) : i \in DOMAIN s \/ i = Len(s) + 1
<1>1. /\ Len(s) \in Nat /\ DOMAIN s = 1..Len(s)
      /\ Append(s, m) \in Seq(Message) /\ Len(Append(s, m)) = Len(s) + 1
      /\ DOMAIN Append(s, m) = 1..(Len(s) + 1)
  OBVIOUS
<1>2. /\ \A i \in 1..Len(s) : Append(s, m)[i] = s[i]
      /\ Append(s, m)[Len(s) + 1] = m
  OBVIOUS
<1>3. \A i \in 1..(Len(s) + 1) : i \in 1..Len(s) \/ i = Len(s) + 1
  BY <1>1
<1>4. QED
  BY <1>1, <1>2, <1>3

\* Taking the first message off one of several queues.
LEMMA OneDequeued ==
  ASSUME NEW S, NEW f \in [S -> Seq(Message)], NEW x \in S, NEW g,
         g = f \/ (f[x] # <<>> /\ g = [f EXCEPT ![x] = Tail(f[x])]),
         NEW y \in S
  PROVE  g[y] = f[y] \/ (f[y] \in Seq(Message) /\ f[y] # <<>> /\ g[y] = Tail(f[y]))
OBVIOUS

\* What await_ready or await_resume took from one of the queues.
LEMMA DequeueSteps ==
  ASSUME ResumeInv, NEW w \in Worker, NEW c \in Co, ReadyTrue(w, c) \/ AwaitResume(w, c)
  PROVE  /\ \/ queue_' = queue_
            \/ /\ queue_[Cur(c)] # <<>>
               /\ queue_' = [queue_ EXCEPT ![Cur(c)] = Tail(queue_[Cur(c)])]
         /\ \/ shared_queue_' = shared_queue_
            \/ /\ shared_queue_[WaitName[Cur(c)]] # <<>>
               /\ shared_queue_' = [shared_queue_ EXCEPT ![WaitName[Cur(c)]] =
                                      Tail(shared_queue_[WaitName[Cur(c)]])]
         /\ UNCHANGED dispatchVars
<1>1. CASE ReadyTrue(w, c)
  BY <1>1 DEF ReadyTrue
<1>2. CASE AwaitResume(w, c)
  BY <1>2 DEF AwaitResume
<1>3. QED
  BY <1>1, <1>2

\* Every step keeps NameInv.
LEMMA NameStep ==
  ASSUME ResumeInv, LiveInv, NameInv, [Next]_vars
  PROVE  NameInv'
<1>0. /\ NameInv /\ DispatchInv /\ LiveInv
      /\ queue_ \in [Await -> Seq(Message)] /\ shared_queue_ \in [Name -> Seq(Message)]
      /\ phase \in [Dispatcher -> {"idle", "shared", "normal", "temp"}]
      /\ step \in [Dispatcher -> {"pick", "state", "await", "act"}]
      /\ msg \in [Dispatcher -> Message] /\ todo \in [Dispatcher -> SUBSET Await]
      /\ cur \in [Dispatcher -> Await \cup {Null}]
  BY DEF ResumeInv, TypeOK
<1> USE StaticAssumption DEF awaitVars, dispatchVars
<1>1. ASSUME NEW n \in Name, Push(n)
      PROVE  NameInv'
  BY <1>0, <1>1 DEF NameInv, Push
<1>2. ASSUME NEW d \in Dispatcher, NEW n \in Name, Take(d, n)
      PROVE  NameInv'
  BY <1>0, <1>2 DEF NameInv, Take, DispatchInv
<1>3. ASSUME NEW d \in Dispatcher, NEW a \in Await, VisitShared(d, a)
      PROVE  NameInv'
  <2>1. InPhase(d, a) /\ phase[d] = "shared"
    BY <1>3 DEF VisitShared, Visit, LiveInv
  <2>2. step'[d] # "pick" => Awaited(a, msg[d])
    BY <1>0, <1>3, <2>1 DEF VisitShared, Visit, InPhase, Awaited
  <2>3. QED
    BY <1>0, <1>3, <2>2 DEF NameInv, VisitShared, Visit
<1>4. ASSUME NEW d \in Dispatcher, NEW a \in Await, VisitNormal(d, a)
      PROVE  NameInv'
  <2>1. InPhase(d, a) /\ phase[d] = "normal"
    BY <1>4 DEF VisitNormal, Visit, LiveInv
  <2>2. Awaited(a, msg[d]) /\ msg[d].name = WaitName[a]
    BY <1>0, <2>1 DEF InPhase, Awaited
  <2>3. ASSUME NEW b \in Await, NEW i \in DOMAIN queue_'[b]
        PROVE  queue_'[b][i].name = WaitName[b]
    <3>1. queue_'[b] = queue_[b] \/ (b = a /\ queue_'[b] = Append(queue_[b], msg[d]))
      BY <1>0, <1>4 DEF VisitNormal
    <3>2. CASE queue_'[b] = queue_[b]
      BY <1>0, <2>3, <3>2 DEF NameInv
    <3>3. CASE b = a /\ queue_'[b] = Append(queue_[b], msg[d])
      <4>1. queue_[b] \in Seq(Message) /\ msg[d] \in Message
        BY <1>0
      <4>2. (i \in DOMAIN queue_[b] /\ queue_'[b][i] = queue_[b][i]) \/ queue_'[b][i] = msg[d]
        BY <2>3, <3>3, <4>1, QueueAppend
      <4>3. QED
        BY <1>0, <2>2, <3>3, <4>2 DEF NameInv
    <3>4. QED
      BY <3>1, <3>2, <3>3
  <2>4. \A e \in Dispatcher : step'[e] # "pick" => Awaited(cur'[e], msg'[e])
    BY <1>0, <1>4, <2>2 DEF NameInv, VisitNormal, Visit
  <2>5. shared_queue_' = shared_queue_
    BY <1>4 DEF VisitNormal
  <2>6. QED
    BY <1>0, <2>3, <2>4, <2>5 DEF NameInv
<1>5. ASSUME NEW d \in Dispatcher, NEW a \in Await, VisitTemp(d, a)
      PROVE  NameInv'
  <2>1. InPhase(d, a) /\ phase[d] = "temp"
    BY <1>5 DEF VisitTemp, Visit, LiveInv
  <2>2. step'[d] # "pick" => Awaited(a, msg[d])
    BY <1>0, <1>5, <2>1 DEF VisitTemp, Visit, InPhase, Awaited
  <2>3. QED
    BY <1>0, <1>5, <2>2 DEF NameInv, VisitTemp, Visit
<1>6. ASSUME NEW d \in Dispatcher, ReadState(d)
      PROVE  NameInv'
  BY <1>0, <1>6 DEF NameInv, ReadState
<1>7. ASSUME NEW d \in Dispatcher, ReadAwait(d)
      PROVE  NameInv'
  BY <1>0, <1>7 DEF NameInv, ReadAwait
<1>8. ASSUME NEW d \in Dispatcher, Act(d)
      PROVE  NameInv'
  BY <1>0, <1>8 DEF NameInv, Act
<1>9. ASSUME NEW d \in Dispatcher, LeaveShared(d)
      PROVE  NameInv'
  <2>1. ASSUME NEW n \in Name, NEW i \in DOMAIN shared_queue_'[n]
        PROVE  shared_queue_'[n][i].name = n
    <3>1. \/ shared_queue_'[n] = shared_queue_[n]
          \/ n = msg[d].name /\ shared_queue_'[n] = Append(shared_queue_[n], msg[d])
      BY <1>0, <1>9 DEF LeaveShared
    <3>2. CASE shared_queue_'[n] = shared_queue_[n]
      BY <1>0, <2>1, <3>2 DEF NameInv
    <3>3. CASE n = msg[d].name /\ shared_queue_'[n] = Append(shared_queue_[n], msg[d])
      <4>1. shared_queue_[n] \in Seq(Message) /\ msg[d] \in Message
        BY <1>0
      <4>2. \/ i \in DOMAIN shared_queue_[n] /\ shared_queue_'[n][i] = shared_queue_[n][i]
            \/ shared_queue_'[n][i] = msg[d]
        BY <2>1, <3>3, <4>1, QueueAppend
      <4>3. QED
        BY <1>0, <3>3, <4>2 DEF NameInv
    <3>4. QED
      BY <3>1, <3>2, <3>3
  <2>2. QED
    BY <1>0, <1>9, <2>1 DEF NameInv, LeaveShared
<1>10. ASSUME NEW d \in Dispatcher, LeaveNormal(d)
       PROVE  NameInv'
  BY <1>0, <1>10 DEF NameInv, LeaveNormal
<1>11. ASSUME NEW d \in Dispatcher, LeaveTemp(d)
       PROVE  NameInv'
  BY <1>0, <1>11 DEF NameInv, LeaveTemp
<1>12. ASSUME NEW w \in Worker, NEW c \in Co, Begin(w, c)
       PROVE  NameInv'
  BY <1>0, <1>12 DEF NameInv, Begin
<1>13. ASSUME NEW w \in Worker, NEW c \in Co, ReadyTrue(w, c)
       PROVE  NameInv'
  <2>1. Cur(c) \in Await /\ WaitName[Cur(c)] \in Name
    BY ProgramFacts DEF ResumeInv
  <2>2. /\ \/ queue_' = queue_
           \/ /\ queue_[Cur(c)] # <<>>
              /\ queue_' = [queue_ EXCEPT ![Cur(c)] = Tail(queue_[Cur(c)])]
        /\ \/ shared_queue_' = shared_queue_
           \/ /\ shared_queue_[WaitName[Cur(c)]] # <<>>
              /\ shared_queue_' = [shared_queue_ EXCEPT ![WaitName[Cur(c)]] =
                                     Tail(shared_queue_[WaitName[Cur(c)]])]
        /\ UNCHANGED dispatchVars
    BY <1>13, DequeueSteps
  <2>3. ASSUME NEW b \in Await, NEW i \in DOMAIN queue_'[b]
        PROVE  queue_'[b][i].name = WaitName[b]
    <3>1. \/ queue_'[b] = queue_[b]
          \/ queue_[b] \in Seq(Message) /\ queue_[b] # <<>> /\ queue_'[b] = Tail(queue_[b])
      BY <1>0, <2>1, <2>2, OneDequeued
    <3>2. CASE queue_'[b] = queue_[b]
      BY <1>0, <2>3, <3>2 DEF NameInv
    <3>3. CASE queue_[b] \in Seq(Message) /\ queue_[b] # <<>> /\ queue_'[b] = Tail(queue_[b])
      BY <1>0, <2>3, <3>3, QueueTail DEF NameInv
    <3>4. QED
      BY <3>1, <3>2, <3>3
  <2>4. ASSUME NEW n \in Name, NEW i \in DOMAIN shared_queue_'[n]
        PROVE  shared_queue_'[n][i].name = n
    <3>1. \/ shared_queue_'[n] = shared_queue_[n]
          \/ /\ shared_queue_[n] \in Seq(Message) /\ shared_queue_[n] # <<>>
             /\ shared_queue_'[n] = Tail(shared_queue_[n])
      BY <1>0, <2>1, <2>2, OneDequeued
    <3>2. CASE shared_queue_'[n] = shared_queue_[n]
      BY <1>0, <2>4, <3>2 DEF NameInv
    <3>3. CASE /\ shared_queue_[n] \in Seq(Message) /\ shared_queue_[n] # <<>>
               /\ shared_queue_'[n] = Tail(shared_queue_[n])
      BY <1>0, <2>4, <3>3, QueueTail DEF NameInv
    <3>4. QED
      BY <3>1, <3>2, <3>3
  <2>5. QED
    BY <1>0, <2>2, <2>3, <2>4 DEF NameInv
<1>14. ASSUME NEW w \in Worker, NEW c \in Co, ReadyFalse(w, c)
       PROVE  NameInv'
  BY <1>0, <1>14 DEF NameInv, ReadyFalse, Running
<1>15. ASSUME NEW w \in Worker, NEW c \in Co, SetStop(w, c)
       PROVE  NameInv'
  BY <1>0, <1>15 DEF NameInv, SetStop, Running
<1>16. ASSUME NEW w \in Worker, NEW c \in Co, AwaitResume(w, c)
       PROVE  NameInv'
  <2>1. Cur(c) \in Await /\ WaitName[Cur(c)] \in Name
    BY ProgramFacts DEF ResumeInv
  <2>2. /\ \/ queue_' = queue_
           \/ /\ queue_[Cur(c)] # <<>>
              /\ queue_' = [queue_ EXCEPT ![Cur(c)] = Tail(queue_[Cur(c)])]
        /\ \/ shared_queue_' = shared_queue_
           \/ /\ shared_queue_[WaitName[Cur(c)]] # <<>>
              /\ shared_queue_' = [shared_queue_ EXCEPT ![WaitName[Cur(c)]] =
                                     Tail(shared_queue_[WaitName[Cur(c)]])]
        /\ UNCHANGED dispatchVars
    BY <1>16, DequeueSteps
  <2>3. ASSUME NEW b \in Await, NEW i \in DOMAIN queue_'[b]
        PROVE  queue_'[b][i].name = WaitName[b]
    <3>1. \/ queue_'[b] = queue_[b]
          \/ queue_[b] \in Seq(Message) /\ queue_[b] # <<>> /\ queue_'[b] = Tail(queue_[b])
      BY <1>0, <2>1, <2>2, OneDequeued
    <3>2. CASE queue_'[b] = queue_[b]
      BY <1>0, <2>3, <3>2 DEF NameInv
    <3>3. CASE queue_[b] \in Seq(Message) /\ queue_[b] # <<>> /\ queue_'[b] = Tail(queue_[b])
      BY <1>0, <2>3, <3>3, QueueTail DEF NameInv
    <3>4. QED
      BY <3>1, <3>2, <3>3
  <2>4. ASSUME NEW n \in Name, NEW i \in DOMAIN shared_queue_'[n]
        PROVE  shared_queue_'[n][i].name = n
    <3>1. \/ shared_queue_'[n] = shared_queue_[n]
          \/ /\ shared_queue_[n] \in Seq(Message) /\ shared_queue_[n] # <<>>
             /\ shared_queue_'[n] = Tail(shared_queue_[n])
      BY <1>0, <2>1, <2>2, OneDequeued
    <3>2. CASE shared_queue_'[n] = shared_queue_[n]
      BY <1>0, <2>4, <3>2 DEF NameInv
    <3>3. CASE /\ shared_queue_[n] \in Seq(Message) /\ shared_queue_[n] # <<>>
               /\ shared_queue_'[n] = Tail(shared_queue_[n])
      BY <1>0, <2>4, <3>3, QueueTail DEF NameInv
    <3>4. QED
      BY <3>1, <3>2, <3>3
  <2>5. QED
    BY <1>0, <2>2, <2>3, <2>4 DEF NameInv
<1>17. ASSUME NEW w \in Worker, NEW c \in Co, Construct(w, c)
       PROVE  NameInv'
  BY <1>0, <1>17 DEF NameInv, Construct, Running
<1>18. ASSUME NEW w \in Worker, NEW c \in Co, Destroy(w, c)
       PROVE  NameInv'
  BY <1>0, <1>18 DEF NameInv, Destroy, Running
<1>19. ASSUME NEW w \in Worker, SetAwait(w)
       PROVE  NameInv'
  BY <1>0, <1>19 DEF NameInv, SetAwait
<1>20. ASSUME UNCHANGED vars
       PROVE  NameInv'
  BY <1>0, <1>20 DEF NameInv, vars
<1>21. QED
  <2>1. \A d \in Dispatcher : todo[d] \subseteq Await
    BY DEF ResumeInv, TypeOK
  <2>2. QED
    BY <2>1, <1>1, <1>2, <1>3, <1>4, <1>5, <1>6, <1>7, <1>8, <1>9, <1>10, <1>11, <1>12,
       <1>13, <1>14, <1>15, <1>16, <1>17, <1>18, <1>19, <1>20
       DEF Next, Dispatch, Work

\* The coroutine of a single await receives a message that it awaits: from its
\* queue, from the queue of its clones, or from the data_ it was woken with.
LEMMA ReceivesAwaited ==
  ASSUME ResumeInv, PlaceInv, NameInv, DataInv, NEW w \in Worker, NEW c \in Co,
         ReadyTrue(w, c) \/ AwaitResume(w, c)
  PROVE  \E m \in Message : /\ Receive(c, Cur(c), m)
                            /\ Alone(Cur(c)) => Awaited(Cur(c), m)
<1> DEFINE a == Cur(c)
<1>1. a \in Await /\ Owner[a] = c /\ WaitName[a] \in Name
  BY ProgramFacts, StaticAssumption DEF ResumeInv
<1>2. /\ queue_[a] \in Seq(Message) /\ shared_queue_[WaitName[a]] \in Seq(Message)
      /\ data_[a] \in Message
  BY <1>1 DEF ResumeInv, TypeOK
<1>3. queue_[a] # <<>> => Head(queue_[a]) \in Message /\ Head(queue_[a]).name = WaitName[a]
  BY <1>1, <1>2, DequeueFacts, QueueTail DEF NameInv
<1>4. shared_queue_[WaitName[a]] # <<>> =>
        /\ Head(shared_queue_[WaitName[a]]) \in Message
        /\ Head(shared_queue_[WaitName[a]]).name = WaitName[a]
  BY <1>1, <1>2, DequeueFacts, QueueTail DEF NameInv
<1>5. CASE ReadyTrue(w, c)
  <2>1. CASE /\ Kind[a] = "Shared" /\ shared_queue_[WaitName[a]] # <<>>
             /\ Receive(c, a, Head(shared_queue_[WaitName[a]]))
    BY <1>4, <2>1 DEF Awaited
  <2>2. CASE Kind[a] = "Normal" /\ queue_[a] # <<>> /\ Receive(c, a, Head(queue_[a]))
    BY <1>3, <2>2 DEF Awaited
  <2>3. QED
    BY <1>5, <2>1, <2>2 DEF ReadyTrue
<1>6. CASE AwaitResume(w, c)
  <2>1. co_pc[c] = "resume" /\ state_[c] = "QueueResume"
    BY <1>6 DEF AwaitResume, Running, ResumeInv, CoInv
  <2>2. CASE Kind[a] = "Normal"
    <3>1. a \in suspend_
      BY <2>1, <2>2 DEF PlaceInv
    <3>2. queue_[a] # <<>> /\ Receive(c, a, Head(queue_[a]))
      BY <1>6, <2>2, <3>1 DEF AwaitResume
    <3>3. QED
      BY <1>3, <2>2, <3>2 DEF Awaited
  <2>3. CASE Kind[a] # "Normal"
    <3>1. Receive(c, a, data_[a])
      BY <1>6, <2>3 DEF AwaitResume
    <3>2. Alone(a) => Awaited(a, data_[a])
      BY <1>1, <2>1, <2>3 DEF DataInv
    <3>3. QED
      BY <1>2, <3>1, <3>2
  <2>4. QED
    BY <2>2, <2>3
<1>7. QED
  BY <1>5, <1>6

\* Receiving an awaited message keeps DataInv.
LEMMA ReceiveKeepsData ==
  ASSUME TypeOK, DataInv, NEW c \in Co, NEW m \in Message, Receive(c, Cur(c), m),
         Alone(Cur(c)) => Awaited(Cur(c), m)
  PROVE  DataInv'
<1>1. Cur(c) \in Await /\ Owner[Cur(c)] = c
  BY ProgramFacts
<1>2. /\ state_' = [state_ EXCEPT ![c] = "Running"]
      /\ data_' = [data_ EXCEPT ![Cur(c)] = Empty] /\ got' = [got EXCEPT ![Cur(c)] = m]
  BY DEF Receive
<1>3. /\ data_ \in [Await -> Message] /\ got \in [Await -> Message \cup {Null}]
      /\ state_ \in [Co -> {"Running", "Stop", "QueueResume"}]
  BY DEF TypeOK
<1> SUFFICES ASSUME NEW b \in Await, Alone(b)
             PROVE  /\ state_'[Owner[b]] # "QueueResume" => data_'[b] = Empty
                    /\ state_'[Owner[b]] = "QueueResume" /\ Kind[b] # "Normal"
                         => Awaited(b, data_'[b])
                    /\ got'[b] # Null => Awaited(b, got'[b])
  BY DEF DataInv, Awaited
<1>4. CASE Owner[b] = c
  <2>1. Cur(c) = b
    BY <1>1, <1>4 DEF Alone
  <2>2. data_'[b] = Empty /\ got'[b] = m /\ state_'[c] = "Running"
    BY <1>2, <1>3, <2>1
  <2>3. QED
    BY <1>4, <2>1, <2>2
<1>5. CASE Owner[b] # c
  <2>1. Cur(c) # b /\ Owner[b] \in Co
    BY <1>1, <1>5, StaticAssumption
  <2>2. data_'[b] = data_[b] /\ got'[b] = got[b] /\ state_'[Owner[b]] = state_[Owner[b]]
    BY <1>2, <1>3, <1>5, <2>1
  <2>3. QED
    BY <2>2 DEF DataInv
<1>6. QED
  BY <1>4, <1>5

\* Every step keeps DataInv.
LEMMA DataStep ==
  ASSUME ResumeInv, LiveInv, PlaceInv, NameInv, DataInv, [Next]_vars
  PROVE  DataInv'
<1>0. /\ DataInv /\ NameInv /\ LiveInv /\ PlaceInv /\ CoInv /\ DispatchInv
      /\ data_ \in [Await -> Message] /\ got \in [Await -> Message \cup {Null}]
      /\ state_ \in [Co -> {"Running", "Stop", "QueueResume"}]
      /\ \A c \in Co : Cur(c) \in Await /\ Owner[Cur(c)] = c
  BY ProgramFacts DEF ResumeInv, TypeOK
<1> USE StaticAssumption DEF awaitVars, coVars, bodyVars
<1>1. ASSUME NEW n \in Name, Push(n)
      PROVE  DataInv'
  BY <1>0, <1>1 DEF DataInv, Push
<1>2. ASSUME NEW d \in Dispatcher, NEW n \in Name, Take(d, n)
      PROVE  DataInv'
  BY <1>0, <1>2 DEF DataInv, Take
<1>3. ASSUME NEW d \in Dispatcher, NEW a \in Await, VisitShared(d, a)
      PROVE  DataInv'
  BY <1>0, <1>3 DEF DataInv, Awaited, VisitShared, Visit
<1>4. ASSUME NEW d \in Dispatcher, NEW a \in Await, VisitNormal(d, a)
      PROVE  DataInv'
  BY <1>0, <1>4 DEF DataInv, VisitNormal, Visit
<1>5. ASSUME NEW d \in Dispatcher, NEW a \in Await, VisitTemp(d, a)
      PROVE  DataInv'
  BY <1>0, <1>5 DEF DataInv, VisitTemp, Visit
<1>6. ASSUME NEW d \in Dispatcher, ReadState(d)
      PROVE  DataInv'
  BY <1>0, <1>6 DEF DataInv, ReadState
<1>7. ASSUME NEW d \in Dispatcher, ReadAwait(d)
      PROVE  DataInv'
  BY <1>0, <1>7 DEF DataInv, ReadAwait
<1>8. ASSUME NEW d \in Dispatcher, Act(d)
      PROVE  DataInv'
  <2>1. /\ cur[d] \in Await /\ InPhase(d, cur[d]) /\ Awaited(cur[d], msg[d])
        /\ state_[Owner[cur[d]]] = "Stop"
    BY <1>0, <1>8 DEF Act, DispatchInv, LiveInv, NameInv
  <2>2. Kind[cur[d]] # "Normal" => data_' = [data_ EXCEPT ![cur[d]] = msg[d]]
    BY <1>8, <2>1 DEF Act, InPhase
  <2>3. \A b \in Await : b # cur[d] => data_'[b] = data_[b]
    BY <1>0, <1>8 DEF Act
  <2>4. /\ \A x \in Co : x # Owner[cur[d]] => state_'[x] = state_[x]
        /\ state_'[Owner[cur[d]]] = "QueueResume" /\ got' = got
    BY <1>0, <1>8, <2>1 DEF Act
  <2> SUFFICES ASSUME NEW b \in Await, Alone(b)
               PROVE  /\ state_'[Owner[b]] # "QueueResume" => data_'[b] = Empty
                      /\ state_'[Owner[b]] = "QueueResume" /\ Kind[b] # "Normal"
                           => Awaited(b, data_'[b])
                      /\ got'[b] # Null => Awaited(b, got'[b])
    BY DEF DataInv, Awaited
  <2>5. CASE Owner[b] = Owner[cur[d]]
    <3>1. cur[d] = b
      BY <2>1, <2>5 DEF Alone
    <3>2. Kind[b] # "Normal" => data_'[b] = msg[d]
      BY <1>0, <2>2, <3>1
    <3>3. QED
      BY <1>0, <2>1, <2>4, <3>1, <3>2 DEF DataInv
  <2>6. CASE Owner[b] # Owner[cur[d]]
    BY <1>0, <2>3, <2>4, <2>6 DEF DataInv
  <2>7. QED
    BY <2>5, <2>6
<1>9. ASSUME NEW d \in Dispatcher, LeaveShared(d)
      PROVE  DataInv'
  BY <1>0, <1>9 DEF DataInv, LeaveShared
<1>10. ASSUME NEW d \in Dispatcher, LeaveNormal(d)
       PROVE  DataInv'
  BY <1>0, <1>10 DEF DataInv, LeaveNormal
<1>11. ASSUME NEW d \in Dispatcher, LeaveTemp(d)
       PROVE  DataInv'
  BY <1>0, <1>11 DEF DataInv, LeaveTemp
<1>12. ASSUME NEW w \in Worker, NEW c \in Co, Begin(w, c)
       PROVE  DataInv'
  BY <1>0, <1>12 DEF DataInv, Begin
<1>13. ASSUME NEW w \in Worker, NEW c \in Co, ReadyTrue(w, c)
       PROVE  DataInv'
  <2>1. PICK m \in Message : /\ Receive(c, Cur(c), m)
                             /\ Alone(Cur(c)) => Awaited(Cur(c), m)
    BY <1>0, <1>13, ReceivesAwaited
  <2>2. TypeOK /\ DataInv
    BY DEF ResumeInv
  <2>3. QED
    BY <2>1, <2>2, ReceiveKeepsData
<1>14. ASSUME NEW w \in Worker, NEW c \in Co, ReadyFalse(w, c)
       PROVE  DataInv'
  BY <1>0, <1>14 DEF DataInv, ReadyFalse, Running
<1>15. ASSUME NEW w \in Worker, NEW c \in Co, SetStop(w, c)
       PROVE  DataInv'
  <2>1. state_[c] # "QueueResume" /\ state_' = [state_ EXCEPT ![c] = "Stop"]
    BY <1>0, <1>15 DEF SetStop, Running, CoInv
  <2>2. UNCHANGED <<data_, got>>
    BY <1>15 DEF SetStop
  <2>3. QED
    BY <1>0, <2>1, <2>2 DEF DataInv
<1>16. ASSUME NEW w \in Worker, NEW c \in Co, AwaitResume(w, c)
       PROVE  DataInv'
  <2>1. PICK m \in Message : /\ Receive(c, Cur(c), m)
                             /\ Alone(Cur(c)) => Awaited(Cur(c), m)
    BY <1>0, <1>16, ReceivesAwaited
  <2>2. TypeOK /\ DataInv
    BY DEF ResumeInv
  <2>3. QED
    BY <2>1, <2>2, ReceiveKeepsData
<1>17. ASSUME NEW w \in Worker, NEW c \in Co, Construct(w, c)
       PROVE  DataInv'
  <2>1. state_[c] = "Running" /\ UNCHANGED <<state_, got>>
    BY <1>0, <1>17 DEF Construct, Running, CoInv
  <2>2. \A b \in Await : data_'[b] = data_[b] \/ (b = Cur(c) /\ data_'[b] = Empty)
    BY <1>0, <1>17 DEF Construct
  <2>3. QED
    BY <1>0, <2>1, <2>2 DEF DataInv
<1>18. ASSUME NEW w \in Worker, NEW c \in Co, Destroy(w, c)
       PROVE  DataInv'
  BY <1>0, <1>18 DEF DataInv, Destroy, Running
<1>19. ASSUME NEW w \in Worker, SetAwait(w)
       PROVE  DataInv'
  BY <1>0, <1>19 DEF DataInv, SetAwait
<1>20. ASSUME UNCHANGED vars
       PROVE  DataInv'
  BY <1>0, <1>20 DEF DataInv, vars
<1>21. QED
  <2>1. \A d \in Dispatcher : todo[d] \subseteq Await
    BY DEF ResumeInv, TypeOK
  <2>2. QED
    BY <2>1, <1>1, <1>2, <1>3, <1>4, <1>5, <1>6, <1>7, <1>8, <1>9, <1>10, <1>11, <1>12,
       <1>13, <1>14, <1>15, <1>16, <1>17, <1>18, <1>19, <1>20
       DEF Next, Dispatch, Work

\* After init() no await has data and no queue a message.
LEMMA DataInit ==
  ASSUME Init
  PROVE  NameInv /\ DataInv
BY StaticAssumption DEF Init, NameInv, DataInv

\* What the awaits hold was awaited, in every reachable state.
LEMMA DataInvAlways == Spec => [](NameInv /\ DataInv)
<1>1. ResumeInv /\ LiveInv /\ NameInv /\ [Next]_vars => NameInv'
  BY NameStep
<1>2. ResumeInv /\ LiveInv /\ PlaceInv /\ NameInv /\ DataInv /\ [Next]_vars => DataInv'
  BY DataStep
<1>3. QED
  BY <1>1, <1>2, ResumeInvAlways, OrderInvAlways, DataInit, PTL DEF Spec

\* If every coroutine has one await, as those of src/logic/test.cpp, co_await
\* returns messages of its name that its filter let through, in order and with
\* one resumption per suspension.  (With a second await in the coroutine it is
\* false: run await_stray.)
THEOREM SingleAwaitHandOver ==
  ASSUME \A a \in Await : Alone(a)
  PROVE  Spec => []HandOverSound
<1>1. ResumeInv /\ NormalInOrder /\ DataInv => HandOverSound
  BY DEF ResumeInv, CoInv, NoDoubleResume, HandOverSound, MatchingName, DataInv, Awaited
<1>2. QED
  BY <1>1, ResumeInvAlways, OrderInvAlways, DataInvAlways, PTL

\* If every coroutine has one await, no message in data_ is overwritten before
\* the coroutine it resumed has moved it out.
THEOREM SingleAwaitKeepsData ==
  ASSUME \A a \in Await : Alone(a)
  PROVE  Spec => DataNotOverwritten
<1> DEFINE Kept == \A a \in Await : data_[a] # Empty => data_'[a] \in {data_[a], Empty}
<1>1. ASSUME ResumeInv, LiveInv, DataInv, Next
      PROVE  Kept
  <2>1. data_ \in [Await -> Message]
    BY <1>1 DEF ResumeInv, TypeOK
  <2>2. ASSUME NEW d \in Dispatcher, Act(d)
        PROVE  Kept
    <3>1. cur[d] \in Await /\ state_[Owner[cur[d]]] = "Stop"
      BY <1>1, <2>2 DEF ResumeInv, DispatchInv, Act
    <3>2. data_[cur[d]] = Empty
      BY <1>1, <3>1 DEF DataInv
    <3>3. QED
      BY <2>1, <2>2, <3>1, <3>2 DEF Act
  <2>3. ASSUME NEW d \in Dispatcher, Dispatch(d), ~Act(d)
        PROVE  Kept
    BY <2>3 DEF Dispatch, Take, VisitShared, VisitNormal, VisitTemp, Visit, ReadState,
                ReadAwait, LeaveShared, LeaveNormal, LeaveTemp, awaitVars
  <2>4. ASSUME NEW w \in Worker, NEW c \in Co, ReadyTrue(w, c) \/ AwaitResume(w, c)
        PROVE  Kept
    <3>1. \E m \in Message : Receive(c, Cur(c), m)
      BY <1>1, <2>4, ReceiveSome DEF ResumeInv
    <3>2. QED
      BY <2>1, <3>1 DEF Receive
  <2>5. ASSUME NEW w \in Worker, NEW c \in Co, Construct(w, c)
        PROVE  Kept
    BY <2>1, <2>5 DEF Construct
  <2>6. ASSUME NEW w \in Worker, NEW c \in Co,
               Begin(w, c) \/ ReadyFalse(w, c) \/ SetStop(w, c) \/ Destroy(w, c) \/ SetAwait(w)
        PROVE  Kept
    BY <2>6 DEF Begin, ReadyFalse, SetStop, Destroy, SetAwait, awaitVars
  <2>7. ASSUME NEW w \in Worker, SetAwait(w)
        PROVE  Kept
    BY <2>7 DEF SetAwait, awaitVars
  <2>8. ASSUME NEW n \in Name, Push(n)
        PROVE  Kept
    BY <2>8 DEF Push, awaitVars
  <2> HIDE DEF Kept
  <2>9. QED
    BY <1>1, <2>2, <2>3, <2>4, <2>5, <2>6, <2>7, <2>8 DEF Next, Work
<1>2. ResumeInv /\ LiveInv /\ DataInv /\ [Next]_vars => [Kept]_vars
  BY <1>1
<1>3. QED
  BY <1>2, ResumeInvAlways, OrderInvAlways, DataInvAlways, PTL DEF Spec, DataNotOverwritten
------------------------------------------------------------------------------
\* The shared awaits of a name are always registered.
LEMMA SharedRegistered ==
  ASSUME LiveInv, live \in SUBSET Await, NEW n \in Name
  PROVE  Registered("Shared", n) = SharedOf(n)
BY StaticAssumption DEF LiveInv, Registered, SharedOf

\* What does not move a message of name n keeps Shares(n).
LEMMA ShareFrame ==
  ASSUME NEW n \in Name, Shares(n), taken'[n] = taken[n], nums_'[n] = nums_[n],
         shared_queue_'[n] = shared_queue_[n],
         \A a \in SharedOf(n) : data_'[a].id = data_[a].id,
         \A k \in Nat \ {0} : UnderWay(n, k)' <=> UnderWay(n, k)
  PROVE  Shares(n)'
<1> SUFFICES ASSUME NEW k \in Nat \ {0}
             PROVE  (Somewhere(n, k)' <=> k <= taken'[n]) /\ NotTwice(n, k)'
  BY DEF Shares
<1>1. /\ UnderWay(n, k)' <=> UnderWay(n, k)
      /\ \A i : Parked(n, k, i)' <=> Parked(n, k, i)
      /\ \A a : Given(n, k, a)' <=> Given(n, k, a)
  BY DEF Parked, Given, SharedOf
<1>2. (Somewhere(n, k) <=> k <= taken[n]) /\ NotTwice(n, k)
  BY DEF Shares
<1>3. QED
  BY <1>1, <1>2 DEF Somewhere, NotTwice

\* try_dequeue puts the next message under way.
LEMMA ShareTake ==
  ASSUME ResumeInv, PlaceInv, NEW d \in Dispatcher, NEW n \in Name, Take(d, n), Shares(n)
  PROVE  Shares(n)'
<1>1. /\ taken[n] \in Nat /\ taken'[n] = taken[n] + 1 /\ DispatcherOf[n] = d
      /\ msg'[d] = [name |-> n, id |-> taken[n] + 1] /\ phase[d] = "idle"
      /\ phase'[d] = "shared" /\ ~resume_one'[d] /\ nums_' = nums_
      /\ shared_queue_' = shared_queue_ /\ data_' = data_
  BY DEF Take, ResumeInv, TypeOK, awaitVars, bodyVars
<1> SUFFICES ASSUME NEW k \in Nat \ {0}
             PROVE  (Somewhere(n, k)' <=> k <= taken'[n]) /\ NotTwice(n, k)'
  BY DEF Shares
<1>2. /\ \A i : Parked(n, k, i)' <=> Parked(n, k, i)
      /\ \A a : Given(n, k, a)' <=> Given(n, k, a)
      /\ ~UnderWay(n, k)
  BY <1>1 DEF Parked, Given, SharedOf, UnderWay
<1>3. UnderWay(n, k)' <=> k = taken[n] + 1
  BY <1>1 DEF UnderWay
<1>4. (Somewhere(n, k) <=> k <= taken[n]) /\ NotTwice(n, k)
  BY DEF Shares
<1>5. k <= taken'[n] <=> k <= taken[n] \/ k = taken[n] + 1
  BY <1>1
<1>6. k = taken[n] + 1 => ~Somewhere(n, k)
  BY <1>1, <1>4
<1>7. QED
  BY <1>1, <1>2, <1>3, <1>4, <1>5, <1>6 DEF Somewhere, NotTwice

\* The message goes from the dispatcher to the data_ of one shared await.
LEMMA ShareGive ==
  ASSUME ResumeInv, LiveInv, PlaceInv, DataInv, LoopInv, NEW d \in Dispatcher, Act(d),
         phase[d] = "shared", Alone(cur[d]), NEW n \in Name, n = msg[d].name, Shares(n)
  PROVE  Shares(n)'
<1>1. /\ cur[d] \in SharedOf(n) /\ cur[d] \in Await /\ state_[Owner[cur[d]]] = "Stop"
      /\ DispatcherOf[n] = d /\ step[d] = "act"
  BY DEF Act, ResumeInv, DispatchInv, LiveInv, InPhase, SharedOf
<1>2. data_[cur[d]].id = 0
  BY <1>1 DEF DataInv, Empty
<1>3. msg[d] = [name |-> n, id |-> taken[n]] /\ ~resume_one[d] /\ taken[n] \in Nat
  BY <1>1 DEF PlaceInv, LoopInv, ResumeInv, TypeOK, Message
<1>4. /\ taken' = taken /\ nums_' = nums_ /\ shared_queue_' = shared_queue_ /\ resume_one'[d]
      /\ data_' = [data_ EXCEPT ![cur[d]] = msg[d]]
  BY DEF Act, bodyVars, ResumeInv, TypeOK
<1>5. data_ \in [Await -> Message] /\ data_'[cur[d]].id = taken[n]
  BY <1>1, <1>3, <1>4 DEF ResumeInv, TypeOK
<1> SUFFICES ASSUME NEW k \in Nat \ {0}
             PROVE  (Somewhere(n, k)' <=> k <= taken'[n]) /\ NotTwice(n, k)'
  BY DEF Shares
<1>6. (\A i : Parked(n, k, i)' <=> Parked(n, k, i)) /\ ~UnderWay(n, k)'
  BY <1>1, <1>4 DEF Parked, UnderWay
<1>7. \A a : Given(n, k, a)' <=> Given(n, k, a) \/ (a = cur[d] /\ k = taken[n])
  BY <1>1, <1>2, <1>4, <1>5 DEF Given, SharedOf
<1>8. UnderWay(n, k) <=> k = taken[n]
  BY <1>1, <1>3 DEF UnderWay, Act
<1>9. (Somewhere(n, k) <=> k <= taken[n]) /\ NotTwice(n, k)
  BY DEF Shares
<1>10. QED
  BY <1>4, <1>6, <1>7, <1>8, <1>9 DEF Somewhere, NotTwice

\* The message no coroutine took goes to the end of the shared queue.
LEMMA SharePark ==
  ASSUME ResumeInv, LiveInv, PlaceInv, NEW d \in Dispatcher, LeaveShared(d),
         NEW n \in Name, n = msg[d].name, SharedOf(n) # {}, Shares(n)
  PROVE  Shares(n)'
<1>1. /\ DispatcherOf[n] = d /\ phase[d] = "shared" /\ phase'[d] = "normal"
      /\ taken' = taken /\ nums_' = nums_ /\ data_' = data_
  BY DEF LeaveShared, ResumeInv, TypeOK, DispatchInv, busVars, bodyVars
<1>2. msg[d] = [name |-> n, id |-> taken[n]] /\ msg[d] \in Message
  BY <1>1 DEF PlaceInv, ResumeInv, TypeOK, Message
<1>3. shared_queue_'[n] = IF ~resume_one[d] THEN Append(shared_queue_[n], msg[d])
                          ELSE shared_queue_[n]
  <2>1. Registered("Shared", n) # {}
    BY SharedRegistered DEF ResumeInv, TypeOK
  <2>2. shared_queue_ \in [Name -> Seq(Message)]
    BY DEF ResumeInv, TypeOK
  <2>3. QED
    BY <2>1, <2>2 DEF LeaveShared
<1>4. shared_queue_[n] \in Seq(Message)
  BY DEF ResumeInv, TypeOK
<1> SUFFICES ASSUME NEW k \in Nat \ {0}
             PROVE  (Somewhere(n, k)' <=> k <= taken'[n]) /\ NotTwice(n, k)'
  BY DEF Shares
<1>5. (\A a : Given(n, k, a)' <=> Given(n, k, a)) /\ ~UnderWay(n, k)'
  BY <1>1 DEF Given, SharedOf, UnderWay
<1>6. UnderWay(n, k) <=> ~resume_one[d] /\ k = taken[n]
  BY <1>1, <1>2 DEF UnderWay
<1>7. (Somewhere(n, k) <=> k <= taken[n]) /\ NotTwice(n, k)
  BY DEF Shares
<1>8. CASE resume_one[d]
  <2>1. \A i : Parked(n, k, i)' <=> Parked(n, k, i)
    BY <1>3, <1>8 DEF Parked
  <2>2. QED
    BY <1>1, <1>5, <1>6, <1>7, <1>8, <2>1 DEF Somewhere, NotTwice
<1>9. CASE ~resume_one[d]
  <2>1. \A i : Parked(n, k, i)' <=> Parked(n, k, i) \/ (i = Len(shared_queue_[n]) + 1 /\ k = taken[n])
    <3>1. shared_queue_'[n] = Append(shared_queue_[n], msg[d]) /\ msg[d].id = taken[n]
      BY <1>2, <1>3, <1>9
    <3>2. /\ DOMAIN shared_queue_[n] = 1..Len(shared_queue_[n])
          /\ DOMAIN shared_queue_'[n] = 1..(Len(shared_queue_[n]) + 1)
          /\ Len(shared_queue_[n]) \in Nat
          /\ \A i \in DOMAIN shared_queue_[n] :
               i \in DOMAIN shared_queue_'[n] /\ shared_queue_'[n][i] = shared_queue_[n][i]
          /\ shared_queue_'[n][Len(shared_queue_[n]) + 1] = msg[d]
          /\ \A i \in DOMAIN shared_queue_'[n] :
               i \in DOMAIN shared_queue_[n] \/ i = Len(shared_queue_[n]) + 1
      BY <1>2, <1>4, <3>1, QueueAppend
    <3>3. Len(shared_queue_[n]) + 1 \in DOMAIN shared_queue_'[n]
      BY <3>2
    <3>4. QED
      BY <3>1, <3>2, <3>3 DEF Parked
  <2>2. QED
    <3>1. CASE k = taken[n]
      <4>1. UnderWay(n, k) /\ k <= taken[n]
        BY <1>6, <1>9, <3>1
      <4>2. (\A i : ~Parked(n, k, i)) /\ (\A a : ~Given(n, k, a)) /\ k \notin nums_[n]
        BY <1>7, <4>1 DEF NotTwice
      <4>3. \A i : Parked(n, k, i)' <=> i = Len(shared_queue_[n]) + 1
        BY <2>1, <3>1, <4>2
      <4>4. QED
        <5>1. Somewhere(n, k)' /\ k <= taken'[n]
          BY <1>1, <4>1, <4>3 DEF Somewhere
        <5>2. NotTwice(n, k)'
          BY <1>1, <1>5, <4>2, <4>3 DEF NotTwice
        <5>3. QED
          BY <5>1, <5>2
    <3>2. CASE k # taken[n]
      BY <1>1, <1>5, <1>6, <1>7, <2>1, <3>2 DEF Somewhere, NotTwice
    <3>3. QED
      BY <3>1, <3>2
<1>10. QED
  BY <1>8, <1>9

\* await_ready takes the first parked message to the body of its loop.
LEMMA ShareUnpark ==
  ASSUME ResumeInv, NameInv, DataInv, NEW w \in Worker, NEW c \in Co, ReadyTrue(w, c),
         Kind[Cur(c)] = "Shared", Alone(Cur(c)), NEW n \in Name, n = WaitName[Cur(c)],
         Shares(n)
  PROVE  Shares(n)'
<1> DEFINE a == Cur(c)
           q == shared_queue_[n]
           m == Head(q)
<1>1. a \in Await /\ Owner[a] = c /\ state_[c] = "Running"
  BY ProgramFacts DEF ResumeInv, CoInv, ReadyTrue, Running
<1>2. /\ q # <<>> /\ shared_queue_' = [shared_queue_ EXCEPT ![n] = Tail(q)]
      /\ Receive(c, a, m) /\ UNCHANGED <<taken, dispatchVars>>
  BY DEF ReadyTrue, busVars
<1>3. q \in Seq(Message) /\ shared_queue_'[n] = Tail(q)
  BY <1>2 DEF ResumeInv, TypeOK
<1>4. /\ 1 \in DOMAIN q /\ m = q[1]
      /\ \A i \in DOMAIN Tail(q) : i + 1 \in DOMAIN q /\ Tail(q)[i] = q[i + 1]
      /\ \A i \in DOMAIN q : i # 1 => i - 1 \in DOMAIN Tail(q) /\ Tail(q)[i - 1] = q[i]
  BY <1>2, <1>3, QueueTail
<1>5. DOMAIN q \subseteq Nat \ {0} /\ DOMAIN Tail(q) \subseteq Nat \ {0}
  BY <1>2, <1>3, QueueTail
<1>6. m.name = n /\ m # Empty
  BY <1>4, StaticAssumption DEF NameInv, Empty
<1>7. nums_'[n] = nums_[n] \cup {m.id}
  BY <1>2, <1>6 DEF Receive, ResumeInv, TypeOK
<1>8. data_[a] = Empty /\ data_' = data_
  <2>1. data_[a] = Empty
    BY <1>1 DEF DataInv
  <2>2. QED
    BY <1>2, <2>1 DEF Receive, ResumeInv, TypeOK
<1> SUFFICES ASSUME NEW k \in Nat \ {0}
             PROVE  (Somewhere(n, k)' <=> k <= taken'[n]) /\ NotTwice(n, k)'
  BY DEF Shares
<1>9. (\A b : Given(n, k, b)' <=> Given(n, k, b)) /\ (UnderWay(n, k)' <=> UnderWay(n, k))
  BY <1>2, <1>8 DEF Given, SharedOf, UnderWay, dispatchVars
<1>10. (Somewhere(n, k) <=> k <= taken[n]) /\ NotTwice(n, k)
  BY DEF Shares
<1>11. Parked(n, k, 1) <=> k = m.id
  BY <1>4 DEF Parked
<1>12. \A i : Parked(n, k, i)' => Parked(n, k, i + 1) /\ i # 0 /\ i \in Nat
  BY <1>3, <1>4, <1>5 DEF Parked
<1>13. \A i : Parked(n, k, i) /\ i # 1 => Parked(n, k, i - 1)' /\ i \in Nat
  BY <1>3, <1>4, <1>5 DEF Parked
<1> HIDE DEF a, q, m
<1>14. CASE k = m.id
  <2>1. Parked(n, k, 1)
    BY <1>11, <1>14
  <2>2. \A i : ~Parked(n, k, i)'
    <3>1. ASSUME NEW i, Parked(n, k, i)'
          PROVE  FALSE
      <4>1. Parked(n, k, i + 1) /\ i \in Nat /\ i # 0
        BY <1>12, <3>1
      <4>2. i + 1 = 1
        BY <1>10, <2>1, <4>1 DEF NotTwice
      <4>3. QED
        BY <4>1, <4>2
    <3>2. QED
      BY <3>1
  <2>3. QED
    BY <1>2, <1>7, <1>9, <1>10, <1>14, <2>1, <2>2 DEF Somewhere, NotTwice
<1>15. CASE k # m.id
  <2>1. k \in nums_'[n] <=> k \in nums_[n]
    BY <1>7, <1>15
  <2>2. (\E i : Parked(n, k, i)') <=> (\E i : Parked(n, k, i))
    BY <1>11, <1>12, <1>13, <1>15
  <2>3. \A i, j : Parked(n, k, i)' /\ Parked(n, k, j)' => i = j
    <3>1. ASSUME NEW i, NEW j, Parked(n, k, i)', Parked(n, k, j)'
          PROVE  i = j
      <4>1. Parked(n, k, i + 1) /\ Parked(n, k, j + 1) /\ i \in Nat /\ j \in Nat
        BY <1>12, <3>1
      <4>2. i + 1 = j + 1
        BY <1>10, <4>1 DEF NotTwice
      <4>3. QED
        BY <4>1, <4>2
    <3>2. QED
      BY <3>1
  <2>4. QED
    BY <1>2, <1>9, <1>10, <2>1, <2>2, <2>3 DEF Somewhere, NotTwice
<1>16. QED
  BY <1>14, <1>15

\* await_resume takes the message from data_ to the body of its loop.
LEMMA ShareReceive ==
  ASSUME ResumeInv, DataInv, NEW w \in Worker, NEW c \in Co, AwaitResume(w, c),
         Kind[Cur(c)] = "Shared", Alone(Cur(c)), NEW n \in Name, n = WaitName[Cur(c)],
         Shares(n)
  PROVE  Shares(n)'
<1> DEFINE a == Cur(c)
           m == data_[a]
<1>1. a \in Await /\ Owner[a] = c /\ state_[c] = "QueueResume" /\ a \in SharedOf(n)
  BY ProgramFacts DEF ResumeInv, CoInv, AwaitResume, Running, SharedOf
<1>2. Receive(c, a, m) /\ UNCHANGED <<taken, dispatchVars, shared_queue_>>
  BY DEF AwaitResume, busVars
<1>3. m.name = n /\ m # Empty
  BY <1>1, StaticAssumption DEF DataInv, Awaited, Empty
<1>4. nums_'[n] = nums_[n] \cup {m.id}
  BY <1>2, <1>3 DEF Receive, ResumeInv, TypeOK
<1>5. data_' = [data_ EXCEPT ![a] = Empty] /\ data_ \in [Await -> Message]
  BY <1>2 DEF Receive, ResumeInv, TypeOK
<1> SUFFICES ASSUME NEW k \in Nat \ {0}
             PROVE  (Somewhere(n, k)' <=> k <= taken'[n]) /\ NotTwice(n, k)'
  BY DEF Shares
<1>6. (\A i : Parked(n, k, i)' <=> Parked(n, k, i)) /\ (UnderWay(n, k)' <=> UnderWay(n, k))
  BY <1>2 DEF Parked, UnderWay, dispatchVars
<1>7. \A b : Given(n, k, b)' <=> Given(n, k, b) /\ b # a
  BY <1>1, <1>5 DEF Given, SharedOf, Empty
<1>8. Given(n, k, a) <=> k = m.id
  BY <1>1 DEF Given
<1>9. (Somewhere(n, k) <=> k <= taken[n]) /\ NotTwice(n, k)
  BY DEF Shares
<1> HIDE DEF a, m
<1>10. CASE k = m.id
  BY <1>2, <1>4, <1>6, <1>7, <1>8, <1>9, <1>10 DEF Somewhere, NotTwice
<1>11. CASE k # m.id
  BY <1>2, <1>4, <1>6, <1>7, <1>8, <1>9, <1>11 DEF Somewhere, NotTwice
<1>12. QED
  BY <1>10, <1>11

\* Every step keeps LoopInv.
LEMMA LoopStep ==
  ASSUME ResumeInv, LoopInv, [Next]_vars
  PROVE  LoopInv'
<1>0. /\ LoopInv /\ DispatchInv
      /\ phase \in [Dispatcher -> {"idle", "shared", "normal", "temp"}]
      /\ step \in [Dispatcher -> {"pick", "state", "await", "act"}]
      /\ todo \in [Dispatcher -> SUBSET Await]
      /\ resume_one \in [Dispatcher -> BOOLEAN]
  BY DEF ResumeInv, TypeOK
<1> USE DEF dispatchVars
<1>1. ASSUME NEW n \in Name, Push(n)
      PROVE  LoopInv'
  BY <1>0, <1>1 DEF LoopInv, Push
<1>2. ASSUME NEW d \in Dispatcher, NEW n \in Name, Take(d, n)
      PROVE  LoopInv'
  BY <1>0, <1>2 DEF LoopInv, Take
<1>3. ASSUME NEW d \in Dispatcher, NEW a \in Await, VisitShared(d, a)
      PROVE  LoopInv'
  BY <1>0, <1>3 DEF LoopInv, VisitShared, Visit
<1>4. ASSUME NEW d \in Dispatcher, NEW a \in Await, VisitNormal(d, a)
      PROVE  LoopInv'
  BY <1>0, <1>4 DEF LoopInv, VisitNormal, Visit
<1>5. ASSUME NEW d \in Dispatcher, NEW a \in Await, VisitTemp(d, a)
      PROVE  LoopInv'
  BY <1>0, <1>5 DEF LoopInv, VisitTemp, Visit
<1>6. ASSUME NEW d \in Dispatcher, ReadState(d)
      PROVE  LoopInv'
  BY <1>0, <1>6 DEF LoopInv, ReadState
<1>7. ASSUME NEW d \in Dispatcher, ReadAwait(d)
      PROVE  LoopInv'
  BY <1>0, <1>7 DEF LoopInv, ReadAwait
<1>8. ASSUME NEW d \in Dispatcher, Act(d)
      PROVE  LoopInv'
  BY <1>0, <1>8 DEF LoopInv, Act
<1>9. ASSUME NEW d \in Dispatcher, LeaveShared(d)
      PROVE  LoopInv'
  BY <1>0, <1>9 DEF LoopInv, LeaveShared
<1>10. ASSUME NEW d \in Dispatcher, LeaveNormal(d)
       PROVE  LoopInv'
  BY <1>0, <1>10 DEF LoopInv, LeaveNormal
<1>11. ASSUME NEW d \in Dispatcher, LeaveTemp(d)
       PROVE  LoopInv'
  BY <1>0, <1>11 DEF LoopInv, LeaveTemp
<1>12. ASSUME NEW w \in Worker, NEW c \in Co, Begin(w, c)
       PROVE  LoopInv'
  BY <1>0, <1>12 DEF LoopInv, Begin
<1>13. ASSUME NEW w \in Worker, NEW c \in Co, ReadyTrue(w, c)
       PROVE  LoopInv'
  BY <1>0, <1>13 DEF LoopInv, ReadyTrue, Receive, Running
<1>14. ASSUME NEW w \in Worker, NEW c \in Co, ReadyFalse(w, c)
       PROVE  LoopInv'
  BY <1>0, <1>14 DEF LoopInv, ReadyFalse, Running
<1>15. ASSUME NEW w \in Worker, NEW c \in Co, SetStop(w, c)
       PROVE  LoopInv'
  BY <1>0, <1>15 DEF LoopInv, SetStop, Running
<1>16. ASSUME NEW w \in Worker, NEW c \in Co, AwaitResume(w, c)
       PROVE  LoopInv'
  BY <1>0, <1>16 DEF LoopInv, AwaitResume, Receive, Running
<1>17. ASSUME NEW w \in Worker, NEW c \in Co, Construct(w, c)
       PROVE  LoopInv'
  BY <1>0, <1>17 DEF LoopInv, Construct, Running
<1>18. ASSUME NEW w \in Worker, NEW c \in Co, Destroy(w, c)
       PROVE  LoopInv'
  BY <1>0, <1>18 DEF LoopInv, Destroy, Running
<1>19. ASSUME NEW w \in Worker, SetAwait(w)
       PROVE  LoopInv'
  BY <1>0, <1>19 DEF LoopInv, SetAwait
<1>20. ASSUME UNCHANGED vars
       PROVE  LoopInv'
  BY <1>0, <1>20 DEF LoopInv, vars
<1>21. QED
  <2>1. \A d \in Dispatcher : todo[d] \subseteq Await
    BY DEF ResumeInv, TypeOK
  <2>2. QED
    BY <2>1, <1>1, <1>2, <1>3, <1>4, <1>5, <1>6, <1>7, <1>8, <1>9, <1>10, <1>11, <1>12,
       <1>13, <1>14, <1>15, <1>16, <1>17, <1>18, <1>19, <1>20
       DEF Next, Dispatch, Work

\* Every step keeps the messages of a name with shared awaits in one place each.
LEMMA ShareStep ==
  ASSUME ResumeInv, LiveInv, PlaceInv, NameInv, DataInv, LoopInv,
         \A a \in Await : Kind[a] = "Shared" => Alone(a),
         NEW z \in Name, SharedOf(z) # {}, Shares(z), [Next]_vars
  PROVE  Shares(z)'
<1>0. /\ ResumeInv /\ LiveInv /\ PlaceInv /\ NameInv /\ DataInv /\ LoopInv /\ DispatchInv
      /\ taken \in [Name -> Nat] /\ nums_ \in [Name -> SUBSET Nat]
      /\ data_ \in [Await -> Message] /\ shared_queue_ \in [Name -> Seq(Message)]
      /\ phase \in [Dispatcher -> {"idle", "shared", "normal", "temp"}]
      /\ msg \in [Dispatcher -> Message] /\ resume_one \in [Dispatcher -> BOOLEAN]
      /\ DispatcherOf[z] \in Dispatcher
      /\ \A c \in Co : Cur(c) \in Await /\ Owner[Cur(c)] = c
  BY ProgramFacts, StaticAssumption DEF ResumeInv, TypeOK
<1> USE StaticAssumption DEF busVars, awaitVars, dispatchVars, bodyVars
<1>1. ASSUME NEW n \in Name, Push(n)
      PROVE  Shares(z)'
  <2>1. /\ UNCHANGED <<taken, nums_, shared_queue_, data_>>
        /\ \A k \in Nat \ {0} : UnderWay(z, k)' <=> UnderWay(z, k)
    BY <1>0, <1>1 DEF Push, UnderWay
  <2>2. QED
    BY <2>1, ShareFrame
<1>2. ASSUME NEW d \in Dispatcher, NEW n \in Name, Take(d, n)
      PROVE  Shares(z)'
  <2>1. CASE n = z
    BY <1>0, <1>2, <2>1, ShareTake
  <2>2. CASE n # z
    <3>1. /\ taken'[z] = taken[z] /\ UNCHANGED <<nums_, shared_queue_, data_>>
          /\ \A k \in Nat \ {0} : UnderWay(z, k)' <=> UnderWay(z, k)
      BY <1>0, <1>2, <2>2 DEF Take, UnderWay
    <3>2. QED
      BY <3>1, ShareFrame
  <2>3. QED
    BY <2>1, <2>2
<1>3. ASSUME NEW d \in Dispatcher, NEW a \in Await, VisitShared(d, a)
      PROVE  Shares(z)'
  <2>1. /\ UNCHANGED <<taken, nums_, shared_queue_, data_>>
        /\ \A k \in Nat \ {0} : UnderWay(z, k)' <=> UnderWay(z, k)
    BY <1>0, <1>3 DEF VisitShared, Visit, UnderWay
  <2>2. QED
    BY <2>1, ShareFrame
<1>4. ASSUME NEW d \in Dispatcher, NEW a \in Await, VisitNormal(d, a)
      PROVE  Shares(z)'
  <2>1. /\ UNCHANGED <<taken, nums_, shared_queue_, data_>>
        /\ \A k \in Nat \ {0} : UnderWay(z, k)' <=> UnderWay(z, k)
    BY <1>0, <1>4 DEF VisitNormal, Visit, UnderWay
  <2>2. QED
    BY <2>1, ShareFrame
<1>5. ASSUME NEW d \in Dispatcher, NEW a \in Await, VisitTemp(d, a)
      PROVE  Shares(z)'
  <2>1. /\ UNCHANGED <<taken, nums_, shared_queue_, data_>>
        /\ \A k \in Nat \ {0} : UnderWay(z, k)' <=> UnderWay(z, k)
    BY <1>0, <1>5 DEF VisitTemp, Visit, UnderWay
  <2>2. QED
    BY <2>1, ShareFrame
<1>6. ASSUME NEW d \in Dispatcher, ReadState(d)
      PROVE  Shares(z)'
  <2>1. /\ UNCHANGED <<taken, nums_, shared_queue_, data_>>
        /\ \A k \in Nat \ {0} : UnderWay(z, k)' <=> UnderWay(z, k)
    BY <1>0, <1>6 DEF ReadState, UnderWay
  <2>2. QED
    BY <2>1, ShareFrame
<1>7. ASSUME NEW d \in Dispatcher, ReadAwait(d)
      PROVE  Shares(z)'
  <2>1. /\ UNCHANGED <<taken, nums_, shared_queue_, data_>>
        /\ \A k \in Nat \ {0} : UnderWay(z, k)' <=> UnderWay(z, k)
    BY <1>0, <1>7 DEF ReadAwait, UnderWay
  <2>2. QED
    BY <2>1, ShareFrame
<1>8. ASSUME NEW d \in Dispatcher, Act(d)
      PROVE  Shares(z)'
  <2>1. cur[d] \in Await /\ InPhase(d, cur[d])
    BY <1>0, <1>8 DEF Act, DispatchInv, LiveInv
  <2>2. CASE phase[d] = "shared" /\ msg[d].name = z
    BY <1>0, <1>8, <2>1, <2>2, ShareGive DEF InPhase
  <2>3. CASE ~(phase[d] = "shared" /\ msg[d].name = z)
    <3>1. UNCHANGED <<taken, nums_, shared_queue_, phase, msg>>
      BY <1>8 DEF Act
    <3>2. \A a \in SharedOf(z) : data_'[a] = data_[a]
      BY <1>0, <1>8, <2>1, <2>3 DEF Act, InPhase, SharedOf
    <3>3. \A k \in Nat \ {0} : UnderWay(z, k)' <=> UnderWay(z, k)
      BY <1>0, <1>8, <2>1, <2>3, <3>1 DEF Act, UnderWay
    <3>4. QED
      BY <3>1, <3>2, <3>3, ShareFrame
  <2>4. QED
    BY <2>2, <2>3
<1>9. ASSUME NEW d \in Dispatcher, LeaveShared(d)
      PROVE  Shares(z)'
  <2>1. CASE msg[d].name = z
    BY <1>0, <1>9, <2>1, SharePark
  <2>2. CASE msg[d].name # z
    <3>1. UNCHANGED <<taken, nums_, data_>> /\ shared_queue_'[z] = shared_queue_[z]
      BY <1>0, <1>9, <2>2 DEF LeaveShared
    <3>2. \A k \in Nat \ {0} : UnderWay(z, k)' <=> UnderWay(z, k)
      BY <1>0, <1>9, <2>2 DEF LeaveShared, UnderWay
    <3>3. QED
      BY <3>1, <3>2, ShareFrame
  <2>3. QED
    BY <2>1, <2>2
<1>10. ASSUME NEW d \in Dispatcher, LeaveNormal(d)
       PROVE  Shares(z)'
  <2>1. /\ UNCHANGED <<taken, nums_, shared_queue_, data_>>
        /\ \A k \in Nat \ {0} : UnderWay(z, k)' <=> UnderWay(z, k)
    BY <1>0, <1>10 DEF LeaveNormal, UnderWay
  <2>2. QED
    BY <2>1, ShareFrame
<1>11. ASSUME NEW d \in Dispatcher, LeaveTemp(d)
       PROVE  Shares(z)'
  <2>1. /\ UNCHANGED <<taken, nums_, shared_queue_, data_>>
        /\ \A k \in Nat \ {0} : UnderWay(z, k)' <=> UnderWay(z, k)
    BY <1>0, <1>11 DEF LeaveTemp, UnderWay
  <2>2. QED
    BY <2>1, ShareFrame
<1>12. ASSUME NEW w \in Worker, NEW c \in Co, Begin(w, c)
       PROVE  Shares(z)'
  <2>1. /\ UNCHANGED <<taken, nums_, shared_queue_, data_>>
        /\ \A k \in Nat \ {0} : UnderWay(z, k)' <=> UnderWay(z, k)
    BY <1>0, <1>12 DEF Begin, UnderWay
  <2>2. QED
    BY <2>1, ShareFrame
<1>13. ASSUME NEW w \in Worker, NEW c \in Co, ReadyTrue(w, c)
       PROVE  Shares(z)'
  <2>1. CASE Kind[Cur(c)] = "Shared" /\ WaitName[Cur(c)] = z
    BY <1>0, <1>13, <2>1, ShareUnpark
  <2>2. CASE ~(Kind[Cur(c)] = "Shared" /\ WaitName[Cur(c)] = z)
    <3>1. PICK m \in Message : /\ Receive(c, Cur(c), m)
                               /\ Alone(Cur(c)) => Awaited(Cur(c), m)
      BY <1>0, <1>13, ReceivesAwaited
    <3>2. nums_'[z] = nums_[z]
      BY <1>0, <2>2, <3>1 DEF Receive, Awaited
    <3>3. \A a \in SharedOf(z) : data_'[a] = data_[a]
      BY <1>0, <2>2, <3>1 DEF Receive, SharedOf
    <3>4. UNCHANGED <<taken, dispatchVars>> /\ shared_queue_'[z] = shared_queue_[z]
      BY <1>0, <1>13, <2>2 DEF ReadyTrue
    <3>5. \A k \in Nat \ {0} : UnderWay(z, k)' <=> UnderWay(z, k)
      BY <3>4 DEF UnderWay
    <3>6. QED
      BY <3>2, <3>3, <3>4, <3>5, ShareFrame
  <2>3. QED
    BY <2>1, <2>2
<1>14. ASSUME NEW w \in Worker, NEW c \in Co, ReadyFalse(w, c)
       PROVE  Shares(z)'
  <2>1. /\ UNCHANGED <<taken, nums_, shared_queue_, data_>>
        /\ \A k \in Nat \ {0} : UnderWay(z, k)' <=> UnderWay(z, k)
    BY <1>0, <1>14 DEF ReadyFalse, Running, UnderWay
  <2>2. QED
    BY <2>1, ShareFrame
<1>15. ASSUME NEW w \in Worker, NEW c \in Co, SetStop(w, c)
       PROVE  Shares(z)'
  <2>1. /\ UNCHANGED <<taken, nums_, shared_queue_, data_>>
        /\ \A k \in Nat \ {0} : UnderWay(z, k)' <=> UnderWay(z, k)
    BY <1>0, <1>15 DEF SetStop, Running, UnderWay
  <2>2. QED
    BY <2>1, ShareFrame
<1>16. ASSUME NEW w \in Worker, NEW c \in Co, AwaitResume(w, c)
       PROVE  Shares(z)'
  <2>1. CASE Kind[Cur(c)] = "Shared" /\ WaitName[Cur(c)] = z
    BY <1>0, <1>16, <2>1, ShareReceive
  <2>2. CASE ~(Kind[Cur(c)] = "Shared" /\ WaitName[Cur(c)] = z)
    <3>1. PICK m \in Message : /\ Receive(c, Cur(c), m)
                               /\ Alone(Cur(c)) => Awaited(Cur(c), m)
      BY <1>0, <1>16, ReceivesAwaited
    <3>2. nums_'[z] = nums_[z]
      BY <1>0, <2>2, <3>1 DEF Receive, Awaited
    <3>3. \A a \in SharedOf(z) : data_'[a] = data_[a]
      BY <1>0, <2>2, <3>1 DEF Receive, SharedOf
    <3>4. UNCHANGED <<taken, dispatchVars>> /\ shared_queue_'[z] = shared_queue_[z]
      BY <1>0, <1>16, <2>2 DEF AwaitResume
    <3>5. \A k \in Nat \ {0} : UnderWay(z, k)' <=> UnderWay(z, k)
      BY <3>4 DEF UnderWay
    <3>6. QED
      BY <3>2, <3>3, <3>4, <3>5, ShareFrame
  <2>3. QED
    BY <2>1, <2>2
<1>17. ASSUME NEW w \in Worker, NEW c \in Co, Construct(w, c)
       PROVE  Shares(z)'
  <2>1. Kind[Cur(c)] = "Temp"
    BY <1>0, <1>17 DEF Construct, Running, LiveInv
  <2>2. UNCHANGED <<taken, nums_, shared_queue_, dispatchVars>>
    BY <1>17 DEF Construct
  <2>3. \A a \in SharedOf(z) : data_'[a] = data_[a]
    BY <1>0, <1>17, <2>1 DEF Construct, SharedOf
  <2>4. \A k \in Nat \ {0} : UnderWay(z, k)' <=> UnderWay(z, k)
    BY <2>2 DEF UnderWay
  <2>5. QED
    BY <2>2, <2>3, <2>4, ShareFrame
<1>18. ASSUME NEW w \in Worker, NEW c \in Co, Destroy(w, c)
       PROVE  Shares(z)'
  <2>1. /\ UNCHANGED <<taken, nums_, shared_queue_, data_>>
        /\ \A k \in Nat \ {0} : UnderWay(z, k)' <=> UnderWay(z, k)
    BY <1>0, <1>18 DEF Destroy, Running, UnderWay
  <2>2. QED
    BY <2>1, ShareFrame
<1>19. ASSUME NEW w \in Worker, SetAwait(w)
       PROVE  Shares(z)'
  <2>1. /\ UNCHANGED <<taken, nums_, shared_queue_, data_>>
        /\ \A k \in Nat \ {0} : UnderWay(z, k)' <=> UnderWay(z, k)
    BY <1>0, <1>19 DEF SetAwait, UnderWay
  <2>2. QED
    BY <2>1, ShareFrame
<1>20. ASSUME UNCHANGED vars
       PROVE  Shares(z)'
  <2>1. /\ UNCHANGED <<taken, nums_, shared_queue_, data_>>
        /\ \A k \in Nat \ {0} : UnderWay(z, k)' <=> UnderWay(z, k)
    BY <1>0, <1>20 DEF vars, UnderWay
  <2>2. QED
    BY <2>1, ShareFrame
<1>21. QED
  <2>1. \A d \in Dispatcher : todo[d] \subseteq Await
    BY DEF ResumeInv, TypeOK
  <2>2. QED
    BY <2>1, <1>1, <1>2, <1>3, <1>4, <1>5, <1>6, <1>7, <1>8, <1>9, <1>10, <1>11, <1>12,
       <1>13, <1>14, <1>15, <1>16, <1>17, <1>18, <1>19, <1>20
       DEF Next, Dispatch, Work

\* Nothing is anywhere before the first message.
LEMMA ShareInit ==
  ASSUME Init
  PROVE  LoopInv /\ ShareInv
<1>1. LoopInv
  BY DEF Init, LoopInv
<1>2. ASSUME NEW n \in Name
      PROVE  Shares(n)
  <2> SUFFICES ASSUME NEW k \in Nat \ {0}
               PROVE  (Somewhere(n, k) <=> k <= taken[n]) /\ NotTwice(n, k)
    BY DEF Shares
  <2>1. /\ k \notin nums_[n] /\ ~UnderWay(n, k) /\ ~(k <= taken[n])
        /\ \A i : ~Parked(n, k, i)
    BY StaticAssumption DEF Init, UnderWay, Parked
  <2>2. \A a : ~Given(n, k, a)
    BY DEF Init, Given, SharedOf, Empty
  <2>3. QED
    BY <2>1, <2>2 DEF Somewhere, NotTwice
<1>3. QED
  BY <1>1, <1>2 DEF ShareInv

\* The messages of shared awaits are in one place each, in every reachable state.
LEMMA ShareInvAlways == Spec => []ShareInv
<1>1. ResumeInv /\ LoopInv /\ [Next]_vars => LoopInv'
  BY LoopStep
<1>2. ResumeInv /\ LiveInv /\ PlaceInv /\ NameInv /\ DataInv /\ LoopInv /\ ShareInv
        /\ [Next]_vars => ShareInv'
  <2> SUFFICES ASSUME ResumeInv, LiveInv, PlaceInv, NameInv, DataInv, LoopInv, ShareInv,
                      [Next]_vars
               PROVE  ShareInv'
    OBVIOUS
  <2>1. ASSUME \A a \in Await : Kind[a] = "Shared" => Alone(a),
               NEW n \in Name, SharedOf(n) # {}
        PROVE  Shares(n)'
    <3>1. Shares(n)
      BY <2>1 DEF ShareInv
    <3>2. QED
      BY <2>1, <3>1, ShareStep
  <2>2. QED
    BY <2>1 DEF ShareInv, SharedOf, Alone
<1>3. QED
  BY <1>1, <1>2, ResumeInvAlways, OrderInvAlways, DataInvAlways, ShareInit, PTL DEF Spec

\* A message in exactly one place has one holder.
LEMMA OneHolder ==
  ASSUME ResumeInv, LiveInv, NEW n \in Name, Shares(n), NEW k \in 1..taken[n]
  PROVE  Cardinality(Holders(n, k)) = 1
<1>1. taken[n] \in Nat /\ k \in Nat \ {0} /\ k <= taken[n]
  BY DEF ResumeInv, TypeOK
<1>2. Somewhere(n, k) /\ NotTwice(n, k)
  BY <1>1 DEF Shares
<1>3. Registered("Shared", n) = SharedOf(n)
  BY SharedRegistered DEF ResumeInv, TypeOK
<1> DEFINE B == {<<"body", x>> : x \in nums_[n] \cap {k}}
           Q == {<<"queue", i>> : i \in {j \in DOMAIN shared_queue_[n] : shared_queue_[n][j].id = k}}
           A == {<<"await", a>> : a \in {b \in Registered("Shared", n) : data_[b].id = k}}
           D == {<<"dispatch", d>> : d \in {e \in Dispatcher :
                   phase[e] = "shared" /\ ~resume_one[e] /\ msg[e] = [name |-> n, id |-> k]}}
<1>4. Holders(n, k) = B \cup Q \cup A \cup D
  BY DEF Holders
<1>5. B = IF k \in nums_[n] THEN {<<"body", k>>} ELSE {}
  OBVIOUS
<1>6. \A h : h \in Q <=> \E i : Parked(n, k, i) /\ h = <<"queue", i>>
  BY DEF Parked
<1>7. \A h : h \in A <=> \E a : Given(n, k, a) /\ h = <<"await", a>>
  BY <1>3 DEF Given
<1>8. D = IF UnderWay(n, k) THEN {<<"dispatch", DispatcherOf[n]>>} ELSE {}
  <2>1. \A e \in Dispatcher : phase[e] = "shared" /\ msg[e] = [name |-> n, id |-> k]
                                => e = DispatcherOf[n]
    BY DEF ResumeInv, DispatchInv
  <2>2. DispatcherOf[n] \in Dispatcher
    BY StaticAssumption
  <2>3. QED
    BY <2>1, <2>2 DEF UnderWay
<1> HIDE DEF B, Q, A, D
<1>9. \E h : Holders(n, k) = {h}
  <2>1. CASE k \in nums_[n]
    <3>1. Q = {} /\ A = {} /\ D = {} /\ B = {<<"body", k>>}
      BY <1>2, <1>5, <1>6, <1>7, <1>8, <2>1 DEF NotTwice
    <3>2. QED
      BY <1>4, <3>1
  <2>2. CASE UnderWay(n, k)
    <3>1. Q = {} /\ A = {} /\ B = {} /\ D = {<<"dispatch", DispatcherOf[n]>>}
      BY <1>2, <1>5, <1>6, <1>7, <1>8, <2>2 DEF NotTwice
    <3>2. QED
      BY <1>4, <3>1
  <2>3. ASSUME NEW i, Parked(n, k, i)
        PROVE  \E h : Holders(n, k) = {h}
    <3>1. D = {} /\ A = {} /\ B = {}
      BY <1>2, <1>5, <1>7, <1>8, <2>3 DEF NotTwice
    <3>2. Q = {<<"queue", i>>}
      BY <1>2, <1>6, <2>3 DEF NotTwice
    <3>3. QED
      BY <1>4, <3>1, <3>2
  <2>4. ASSUME NEW a, Given(n, k, a)
        PROVE  \E h : Holders(n, k) = {h}
    <3>1. D = {} /\ Q = {} /\ B = {}
      BY <1>2, <1>5, <1>6, <1>8, <2>4 DEF NotTwice
    <3>2. A = {<<"await", a>>}
      BY <1>2, <1>7, <2>4 DEF NotTwice
    <3>3. QED
      BY <1>4, <3>1, <3>2
  <2>5. QED
    BY <1>2, <2>1, <2>2, <2>3, <2>4 DEF Somewhere
<1>10. QED
  BY <1>9, FS_Singleton

\* If the coroutines that wait with a shared await wait for nothing else, as
\* handle_shared_msg1 of src/logic/test.cpp, every message of the name is in
\* exactly one place: none is lost, none is handled twice.
THEOREM SharedDeliveredOnce ==
  ASSUME \A a \in Await : Kind[a] = "Shared" => Alone(a)
  PROVE  Spec => []SharedConserved
<1>1. ResumeInv /\ LiveInv /\ ShareInv => SharedConserved
  <2> SUFFICES ASSUME ResumeInv, LiveInv, ShareInv, NEW n \in Name, Registered("Shared", n) # {},
                      NEW k \in 1..taken[n]
               PROVE  Cardinality(Holders(n, k)) = 1
    BY DEF SharedConserved
  <2>1. SharedOf(n) # {}
    BY SharedRegistered DEF ResumeInv, TypeOK
  <2>2. Shares(n)
    BY <2>1 DEF ShareInv
  <2>3. QED
    BY <2>2, OneHolder
<1>2. QED
  BY <1>1, ResumeInvAlways, OrderInvAlways, ShareInvAlways, PTL
==============================================================================
