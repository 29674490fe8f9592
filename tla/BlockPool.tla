------------------------------- MODULE BlockPool -------------------------------
(***************************************************************************)
(* Where the blocks of a moodycamel::ConcurrentQueue come from and go to   *)
(* (include/data_proxy/concurrentqueue.h): requisition_block takes one     *)
(* from the initial pool, else from the lock-free FreeList, else from the  *)
(* heap; add_block_to_free_list gives one back.  Both queues of the        *)
(* MessageBus are such queues.                                             *)
(*                                                                         *)
(* Every atomic access is a step.  th[t] is where thread t stands, a       *)
(* record of its program counter and the locals still in use; the counter  *)
(* freeListRefs is split into its low bits (refs) and its top bit          *)
(* SHOULD_BE_ON_FREELIST (should).                                         *)
(***************************************************************************)
EXTENDS Naturals, FiniteSets

CONSTANTS
  Thread,
  PoolSize,   \* initialBlockPoolSize: blocks 0 .. PoolSize-1
  Heap,       \* dynamically allocated blocks (as many as memory allows)
  RECYCLE,    \* Traits::RECYCLE_ALLOCATED_BLOCKS
  Null        \* nullptr

Pool == 0 .. PoolSize - 1
Block == Pool \cup Heap

\* The names of OnePlace below are not threads.
PoolAssumption ==
  /\ PoolSize \in Nat /\ RECYCLE \in BOOLEAN
  /\ IsFiniteSet(Thread) /\ IsFiniteSet(Heap)
  /\ Pool \cap Heap = {} /\ Null \notin Block
  /\ Thread \cap {"pool", "list", "way"} = {}

VARIABLES
  index,              \* initialBlockPoolIndex
  head,               \* freeListHead
  refs, should, next, \* freeListRefs and freeListNext of each block
  live,               \* blocks of Heap that are allocated
  own,                \* the blocks each thread has been given
  th

vars == <<index, head, refs, should, next, live, own, th>>

Idle == [pc |-> "idle"]

Init ==
  /\ index = 0
  /\ head = Null
  /\ refs = [b \in Block |-> 0]
  /\ should = [b \in Block |-> FALSE]
  /\ next = [b \in Block |-> Null]
  /\ live = {}
  /\ own = [t \in Thread |-> {}]
  /\ th = [t \in Thread |-> Idle]

At(t, pc) == th[t].pc = pc
Goto(t, s) == th' = [th EXCEPT ![t] = s]
Give(t, b) == own' = [own EXCEPT ![t] = @ \cup {b}] /\ Goto(t, Idle)

(***************************************************************************)
(* requisition_block: the initial pool.                                    *)
(***************************************************************************)
Requisition(t) ==
  /\ At(t, "idle")
  /\ Goto(t, [pc |-> IF index >= PoolSize THEN "getHead" ELSE "poolAdd"])
  /\ UNCHANGED <<index, head, refs, should, next, live, own>>

\* Fault: the result of fetch_add is not tested again.
PoolAddUntested(t) ==
  /\ At(t, "poolAdd")
  /\ index' = index + 1
  /\ Give(t, IF index < PoolSize THEN index ELSE PoolSize - 1)
  /\ UNCHANGED <<head, refs, should, next, live>>

\* The index may pass the size: several threads may have seen it below.
PoolAdd(t) ==
  /\ At(t, "poolAdd")
  /\ index' = index + 1
  /\ \/ index < PoolSize /\ Give(t, index)
     \/ index >= PoolSize /\ Goto(t, [pc |-> "getHead"]) /\ UNCHANGED own
  /\ UNCHANGED <<head, refs, should, next, live>>

(***************************************************************************)
(* FreeList::try_get.                                                      *)
(***************************************************************************)
\* The loop condition, for the value h of the local `head`.
Loop(h) == IF h = Null THEN [pc |-> "none"] ELSE [pc |-> "getRefs", head |-> h]

GetHead(t) ==
  /\ At(t, "getHead")
  /\ Goto(t, Loop(head))
  /\ UNCHANGED <<index, head, refs, should, next, live, own>>

\* Fault: a node whose count is zero is not skipped.
GetRefsUnchecked(t) ==
  LET h == th[t].head IN
  /\ At(t, "getRefs")
  /\ Goto(t, [pc |-> "getInc", head |-> h, refs |-> refs[h], should |-> should[h]])
  /\ UNCHANGED <<index, head, refs, should, next, live, own>>

\* Fault: a node whose count is zero is tried again without reloading the head.
GetRefsNoReload(t) ==
  LET h == th[t].head IN
  /\ At(t, "getRefs")
  /\ Goto(t, IF refs[h] = 0
             THEN th[t]
             ELSE [pc |-> "getInc", head |-> h, refs |-> refs[h], should |-> should[h]])
  /\ UNCHANGED <<index, head, refs, should, next, live, own>>

GetRefs(t) ==
  LET h == th[t].head IN
  /\ At(t, "getRefs")
  /\ Goto(t, IF refs[h] = 0
             THEN [pc |-> "getHead"]
             ELSE [pc |-> "getInc", head |-> h, refs |-> refs[h], should |-> should[h]])
  /\ UNCHANGED <<index, head, refs, should, next, live, own>>

\* compare_exchange on the count: a reference is held, unless it changed.
GetInc(t) ==
  LET h == th[t].head IN
  /\ At(t, "getInc")
  /\ IF refs[h] = th[t].refs /\ should[h] = th[t].should
     THEN refs' = [refs EXCEPT ![h] = @ + 1] /\ Goto(t, [pc |-> "getNext", head |-> h])
     ELSE Goto(t, [pc |-> "getHead"]) /\ UNCHANGED refs
  /\ UNCHANGED <<index, head, should, next, live, own>>

GetNext(t) ==
  LET h == th[t].head IN
  /\ At(t, "getNext")
  /\ Goto(t, [pc |-> "getSwap", head |-> h, next |-> next[h]])
  /\ UNCHANGED <<index, head, refs, should, next, live, own>>

\* compare_exchange on the head; a failure also reloads the local `head`.
GetSwap(t) ==
  LET h == th[t].head IN
  /\ At(t, "getSwap")
  /\ IF head = h
     THEN head' = th[t].next /\ Goto(t, [pc |-> "getTaken", head |-> h])
     ELSE Goto(t, [pc |-> "getDrop", prev |-> h, head |-> head]) /\ UNCHANGED head
  /\ UNCHANGED <<index, refs, should, next, live, own>>

\* The node is ours: our reference and the list's are dropped.
GetTaken(t) ==
  LET h == th[t].head IN
  /\ At(t, "getTaken")
  /\ refs' = [refs EXCEPT ![h] = @ - 2]
  /\ Give(t, h)
  /\ UNCHANGED <<index, head, should, next, live>>

\* Fault: a node whose count reached zero here is left to nobody.
GetDropForget(t) ==
  LET p == th[t].prev IN
  /\ At(t, "getDrop")
  /\ refs' = [refs EXCEPT ![p] = @ - 1]
  /\ Goto(t, Loop(th[t].head))
  /\ UNCHANGED <<index, head, should, next, live, own>>

\* The head moved on: drop the reference, and if this was the last one to a
\* node that waits to be added, add it.
GetDrop(t) ==
  LET p == th[t].prev  cont == Loop(th[t].head) IN
  /\ At(t, "getDrop")
  /\ refs' = [refs EXCEPT ![p] = @ - 1]
  /\ Goto(t, IF should[p] /\ refs[p] = 1
             THEN [pc |-> "addHead", node |-> p, then |-> cont]
             ELSE cont)
  /\ UNCHANGED <<index, head, should, next, live, own>>

\* try_get returned nullptr: create<Block>(), which may fail or, with
\* CannotAlloc, not be tried.
Create(t) ==
  /\ At(t, "none")
  /\ \/ \E b \in Heap \ live : live' = live \cup {b} /\ Give(t, b)
     \/ Goto(t, Idle) /\ UNCHANGED <<live, own>>
  /\ UNCHANGED <<index, head, refs, should, next>>

(***************************************************************************)
(* add_block_to_free_list and FreeList::add.  fetch_add of the top bit     *)
(* flips it: the code relies on its being clear.                           *)
(***************************************************************************)
\* Fault: allocated blocks are freed although they are recycled.
AddBlockFreed(t, b) ==
  /\ At(t, "idle") /\ b \in own[t]
  /\ own' = [own EXCEPT ![t] = @ \ {b}]
  /\ live' = live \ {b}
  /\ should' = [should EXCEPT ![b] = ~@]
  /\ Goto(t, IF refs[b] = 0 /\ ~should[b]
             THEN [pc |-> "addHead", node |-> b, then |-> Idle] ELSE Idle)
  /\ UNCHANGED <<index, head, refs, next>>

AddBlock(t, b) ==
  /\ At(t, "idle") /\ b \in own[t]
  /\ own' = [own EXCEPT ![t] = @ \ {b}]
  /\ IF ~RECYCLE /\ b \in Heap
     THEN live' = live \ {b} /\ Goto(t, Idle) /\ UNCHANGED should
     ELSE /\ should' = [should EXCEPT ![b] = ~@]
          /\ Goto(t, IF refs[b] = 0 /\ ~should[b]
                     THEN [pc |-> "addHead", node |-> b, then |-> Idle] ELSE Idle)
          /\ UNCHANGED live
  /\ UNCHANGED <<index, head, refs, next>>

(***************************************************************************)
(* add_knowing_refcount_is_zero(node); `then` is where its caller goes on. *)
(***************************************************************************)
AddHead(t) ==
  /\ At(t, "addHead")
  /\ Goto(t, [pc |-> "addNext", node |-> th[t].node, seen |-> head, then |-> th[t].then])
  /\ UNCHANGED <<index, head, refs, should, next, live, own>>

AddNext(t) ==
  /\ At(t, "addNext")
  /\ next' = [next EXCEPT ![th[t].node] = th[t].seen]
  /\ Goto(t, [th[t] EXCEPT !.pc = "addRefs"])
  /\ UNCHANGED <<index, head, refs, should, live, own>>

\* The store of 1 also clears the top bit.
AddRefs(t) ==
  /\ At(t, "addRefs")
  /\ refs' = [refs EXCEPT ![th[t].node] = 1]
  /\ should' = [should EXCEPT ![th[t].node] = FALSE]
  /\ Goto(t, [th[t] EXCEPT !.pc = "addSwap"])
  /\ UNCHANGED <<index, head, next, live, own>>

AddSwap(t) ==
  /\ At(t, "addSwap")
  /\ IF head = th[t].seen
     THEN head' = th[t].node /\ Goto(t, th[t].then)
     ELSE /\ Goto(t, [pc |-> "addUndo", node |-> th[t].node, seen |-> head,
                      then |-> th[t].then])
          /\ UNCHANGED head
  /\ UNCHANGED <<index, refs, should, next, live, own>>

\* Fault: the add is retried whoever else holds a reference.
AddUndoRetry(t) ==
  LET n == th[t].node IN
  /\ At(t, "addUndo")
  /\ refs' = [refs EXCEPT ![n] = @ - 1]
  /\ should' = [should EXCEPT ![n] = ~@]
  /\ Goto(t, [th[t] EXCEPT !.pc = "addNext"])
  /\ UNCHANGED <<index, head, next, live, own>>

\* fetch_add(SHOULD_BE_ON_FREELIST - 1): retry only as the last holder.
AddUndo(t) ==
  LET n == th[t].node IN
  /\ At(t, "addUndo")
  /\ refs' = [refs EXCEPT ![n] = @ - 1]
  /\ should' = [should EXCEPT ![n] = ~@]
  /\ Goto(t, IF refs[n] = 1 /\ ~should[n] THEN [th[t] EXCEPT !.pc = "addNext"]
                                          ELSE th[t].then)
  /\ UNCHANGED <<index, head, next, live, own>>

Step(t) ==
  \/ PoolAdd(t) \/ GetHead(t) \/ GetRefs(t) \/ GetInc(t) \/ GetNext(t)
  \/ GetSwap(t) \/ GetTaken(t) \/ GetDrop(t) \/ Create(t)
  \/ AddHead(t) \/ AddNext(t) \/ AddRefs(t) \/ AddSwap(t) \/ AddUndo(t)

Next ==
  \E t \in Thread : Step(t) \/ Requisition(t) \/ \E b \in Block : AddBlock(t, b)

Spec == Init /\ [][Next]_vars
-------------------------------------------------------------------------------
\* The blocks that following the pointers link leads to from b, a block or Null:
\* those in every set that contains b and is closed under link.
Reached(link, b) ==
  {c \in Block : \A S \in SUBSET Block :
     (b \in S \cup {Null} /\ \A d \in S : link[d] \in S \cup {Null}) => c \in S}

\* The free list.
OnList == Reached(next, head)

Adding(t, b) ==
  th[t].pc \in {"addHead", "addNext", "addRefs", "addSwap", "addUndo"} /\ th[t].node = b

\* Threads that hold a reference to b, taken in GetInc.
Holders(b) ==
  {t \in Thread : \/ th[t].pc \in {"getNext", "getSwap", "getTaken"} /\ th[t].head = b
                  \/ th[t].pc = "getDrop" /\ th[t].prev = b}

\* Types; a count exceeds the number of threads by the list's reference only.
TypeOK ==
  /\ index \in 0 .. PoolSize + Cardinality(Thread)
  /\ head \in Block \cup {Null} /\ next \in [Block -> Block \cup {Null}]
  /\ refs \in [Block -> 0 .. Cardinality(Thread) + 1]
  /\ should \in [Block -> BOOLEAN]
  /\ live \subseteq Heap /\ own \in [Thread -> SUBSET Block]

NotHandedOut == {b \in Pool : index <= b} \cup (Heap \ live)

OnItsWay ==
  {b \in Block : \/ should[b]
                 \/ \E t \in Thread : Adding(t, b)
                 \/ \E t \in Thread : At(t, "getTaken") /\ th[t].head = b}

\* A block is in one place at a time: not handed out yet, on the free list, on
\* its way there or to a thread, or held by one thread.  Two producers never
\* write into the same block, and no block is lost.
OnePlace ==
  \A b \in Block :
    Cardinality({p \in {"pool", "list", "way"} \cup Thread :
                   b \in CASE p = "pool" -> NotHandedOut
                           [] p = "list" -> OnList
                           [] p = "way" -> OnItsWay
                           [] OTHER -> own[p]}) = 1

\* A block that waits to be added is in the hands of a thread that will add it
\* or pass it on: whoever brings its count to zero.
SomebodyAdds ==
  \A b \in Block : should[b] => \E t \in Thread : Adding(t, b) \/ t \in Holders(b)

\* The assertion in try_get, and the assumption of add that its fetch_add
\* only sets the bit: a block just taken or held does not wait to be added.
BitClear ==
  \A t \in Thread :
    /\ At(t, "getTaken") => ~should[th[t].head]
    /\ \A b \in own[t] : ~should[b]

\* The comment of FreeList assumes nodes are not freed while the list lives: no
\* block on the list, or still in the hands of a slow try_get, goes back to the
\* heap.
NoUseAfterFree ==
  \A b \in Heap \ live :
    b \notin OnList /\ \A t \in Thread : "head" \in DOMAIN th[t] => th[t].head # b

\* Lock-freedom: a call is held up for ever only by calls of other threads
\* that keep finishing.
CallsFinish ==
  \A t \in Thread :
    \/ []<>At(t, "idle")
    \/ []<><<\E u \in Thread : ~At(u, "idle") /\ At(u, "idle")'>>_vars
===============================================================================
