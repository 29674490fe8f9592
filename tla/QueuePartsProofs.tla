--------------------------- MODULE QueuePartsProofs ---------------------------
(***************************************************************************)
(* Proofs about QueueParts: its BlockPool, then its ProducerHash, then its *)
(* TryDequeue.                                                             *)
(***************************************************************************)
EXTENDS QueueParts, FiniteSetTheorems, TLAPS

(***************************************************************************)
(* BlockPool: the invariant                                                *)
(***************************************************************************)
\* The blocks add_block_to_free_list puts on the free list, if handed out: the
\* only ones a thread can learn of from the list.
Known == (IF RECYCLE THEN Pool!Block ELSE Pool!Pool) \ Pool!NotHandedOut

\* Where try_get goes on after it added a block for somebody else.
After(known) ==
  {Pool!Idle, [pc |-> "none"]} \cup [pc : {"getRefs"}, head : known]

\* What a thread may remember where.
ThreadState(known) ==
  [pc : {"idle", "poolAdd", "getHead", "none"}]
  \cup [pc : {"getRefs", "getNext", "getTaken"}, head : known]
  \cup [pc : {"getInc"}, head : known, refs : Nat \ {0}, should : BOOLEAN]
  \cup [pc : {"getSwap"}, head : known, next : Pool!Block \cup {Null}]
  \cup [pc : {"getDrop"}, prev : known, head : known \cup {Null}]
  \cup [pc : {"addHead"}, node : known, then : After(known)]
  \cup [pc : {"addNext", "addRefs", "addSwap", "addUndo"}, node : known,
        seen : Pool!Block \cup {Null}, then : After(known)]

PoolTypeInv ==
  /\ index \in Nat /\ live \subseteq Heap
  /\ head \in Pool!Block \cup {Null}
  /\ next \in [Pool!Block -> Pool!Block \cup {Null}]
  /\ refs \in [Pool!Block -> Nat] /\ should \in [Pool!Block -> BOOLEAN]
  /\ own \in [Thread -> SUBSET Pool!Block]
  /\ th \in [Thread -> ThreadState(Known)]

\* Threads that saw the index below the size have still to increment it.
IndexInv ==
  index + Cardinality({t \in Thread : th[t].pc = "poolAdd"})
    <= PoolSize + Cardinality(Thread)

Taking(t, b) == th[t].pc = "getTaken" /\ th[t].head = b
InHands(t, b) == b \in own[t] \/ Pool!Adding(t, b) \/ Taking(t, b)

\* The adder of a block has it to itself until it stores the count ...
Early(t, b) == th[t].pc \in {"addHead", "addNext", "addRefs"} /\ th[t].node = b
\* ... which includes a reference for the list.
Late(t, b) == th[t].pc \in {"addSwap", "addUndo"} /\ th[t].node = b

\* Every block is in one place: not handed out, on the list, waiting to be
\* added, or in the hands of one thread.
PlaceInv ==
  /\ Pool!OnList \subseteq Known
  /\ \A t, u \in Thread, b \in Pool!Block :
       InHands(t, b) /\ InHands(u, b) => t = u
  /\ \A t \in Thread, b \in Pool!Block :
       /\ b \in own[t] => ~Pool!Adding(t, b) /\ ~Taking(t, b)
       /\ InHands(t, b) => b \notin Pool!NotHandedOut /\ b \notin Pool!OnList
       /\ InHands(t, b) /\ should[b] => Early(t, b)
       /\ Early(t, b) => should[b] /\ refs[b] = 0
  /\ \A b \in Pool!Block :
       /\ should[b] => b \notin Pool!NotHandedOut /\ b \notin Pool!OnList
       /\ should[b] /\ refs[b] = 0 => \E t \in Thread : Pool!Adding(t, b)
       /\ \/ b \in Pool!NotHandedOut \/ b \in Pool!OnList \/ should[b]
          \/ \E t \in Thread : InHands(t, b)

\* The list's own reference.
Counted(b) ==
  b \in Pool!OnList \/ \E t \in Thread : Taking(t, b) \/ Late(t, b)

\* freeListRefs counts the threads that hold a reference, and the list.
CountInv ==
  \A b \in Pool!Block :
    refs[b] = Cardinality(Pool!Holders(b)) + (IF Counted(b) THEN 1 ELSE 0)

\* While a thread holds a reference, the next pointer does not change: this is
\* what makes the compare_exchange on freeListHead safe although the block may
\* have left the list and come back (ABA).
LinkInv ==
  /\ \A t \in Thread :
       /\ th[t].pc = "getSwap" => th[t].next = next[th[t].head]
       /\ th[t].pc \in {"addRefs", "addSwap"} => next[th[t].node] = th[t].seen
  /\ \A b \in Pool!OnList : b \notin Pool!Reached(next, next[b])

PoolInv == PoolTypeInv /\ IndexInv /\ PlaceInv /\ CountInv /\ LinkInv

(***************************************************************************)
(* The list                                                                *)
(***************************************************************************)
\* Reached contains where it starts, is closed under link, and is the least such
\* set.
LEMMA ReachedLeast ==
  ASSUME NEW link \in [Pool!Block -> Pool!Block \cup {Null}],
         NEW b \in Pool!Block \cup {Null}
  PROVE  /\ Pool!Reached(link, b) \subseteq Pool!Block
         /\ b \in Pool!Reached(link, b) \cup {Null}
         /\ \A d \in Pool!Reached(link, b) :
              link[d] \in Pool!Reached(link, b) \cup {Null}
         /\ \A S \in SUBSET Pool!Block :
              b \in S \cup {Null} /\ (\A d \in S : link[d] \in S \cup {Null})
                => Pool!Reached(link, b) \subseteq S
  BY DEF Pool!Reached

\* Nothing is reached from nullptr.
LEMMA ReachedNull ==
  ASSUME NEW link \in [Pool!Block -> Pool!Block \cup {Null}]
  PROVE  Pool!Reached(link, Null) = {}
<1> DEFINE R == Pool!Reached(link, Null)
<1>1. \A S \in SUBSET Pool!Block :
        Null \in S \cup {Null} /\ (\A d \in S : link[d] \in S \cup {Null})
          => R \subseteq S
  BY ReachedLeast
<1> DEFINE none == {}
<1>2. none \in SUBSET Pool!Block /\ \A d : d \notin none
  OBVIOUS
<1> HIDE DEF R, none
<1>3. R \subseteq none
  BY <1>1, <1>2
<1> QED
  BY <1>2, <1>3 DEF R

\* A list is its first block and the list that begins at the next one.
LEMMA ReachedFirst ==
  ASSUME NEW link \in [Pool!Block -> Pool!Block \cup {Null}], NEW b \in Pool!Block
  PROVE  Pool!Reached(link, b) = {b} \cup Pool!Reached(link, link[b])
<1> DEFINE R == Pool!Reached(link, b)
           Q == Pool!Reached(link, link[b])
<1>0. link[b] \in Pool!Block \cup {Null} /\ b # Null
  BY Instances DEF Pool!PoolAssumption
<1>1. /\ Q \subseteq Pool!Block /\ link[b] \in Q \cup {Null}
      /\ \A d \in Q : link[d] \in Q \cup {Null}
      /\ \A S \in SUBSET Pool!Block :
           link[b] \in S \cup {Null} /\ (\A d \in S : link[d] \in S \cup {Null})
             => Q \subseteq S
  BY <1>0, ReachedLeast
<1>2. /\ R \subseteq Pool!Block /\ b \in R
      /\ \A d \in R : link[d] \in R \cup {Null}
      /\ \A S \in SUBSET Pool!Block :
           b \in S \cup {Null} /\ (\A d \in S : link[d] \in S \cup {Null})
             => R \subseteq S
  BY <1>0, ReachedLeast
<1> HIDE DEF R, Q
<1>3. R \subseteq {b} \cup Q
  <2>1. /\ {b} \cup Q \in SUBSET Pool!Block
        /\ b \in ({b} \cup Q) \cup {Null}
        /\ \A d \in {b} \cup Q : link[d] \in ({b} \cup Q) \cup {Null}
    BY <1>1
  <2> QED
    BY <1>2, <2>1
<1>4. Q \subseteq R
  BY <1>1, <1>2
<1> QED
  BY <1>2, <1>3, <1>4 DEF R, Q

\* What begins on a list stays on it.
LEMMA ReachedWithin ==
  ASSUME NEW link \in [Pool!Block -> Pool!Block \cup {Null}],
         NEW b \in Pool!Block \cup {Null}, NEW c \in Pool!Reached(link, b) \cup {Null}
  PROVE  Pool!Reached(link, c) \subseteq Pool!Reached(link, b)
<1> DEFINE R == Pool!Reached(link, b)
<1>1. /\ R \subseteq Pool!Block /\ c \in R \cup {Null}
      /\ \A d \in R : link[d] \in R \cup {Null}
  BY ReachedLeast
<1>2. /\ c \in Pool!Block \cup {Null}
      /\ \A S \in SUBSET Pool!Block :
           c \in S \cup {Null} /\ (\A d \in S : link[d] \in S \cup {Null})
             => Pool!Reached(link, c) \subseteq S
  BY <1>1, ReachedLeast
<1> HIDE DEF R
<1>3. R \in SUBSET Pool!Block
  BY <1>1
<1>4. Pool!Reached(link, c) \subseteq R
  BY <1>1, <1>2, <1>3
<1> QED
  BY <1>4 DEF R

\* A list does not depend on the pointers of blocks that are not on it.
LEMMA ReachedElsewhere ==
  ASSUME NEW link \in [Pool!Block -> Pool!Block \cup {Null}],
         NEW new \in [Pool!Block -> Pool!Block \cup {Null}],
         NEW b \in Pool!Block \cup {Null}, NEW n \in Pool!Block,
         n \notin Pool!Reached(link, b),
         \A d \in Pool!Block : d # n => new[d] = link[d]
  PROVE  Pool!Reached(new, b) = Pool!Reached(link, b)
<1> DEFINE R == Pool!Reached(link, b)
           Q == Pool!Reached(new, b)
<1>1. /\ Q \in SUBSET Pool!Block /\ b \in Q \cup {Null}
      /\ \A d \in Q : new[d] \in Q \cup {Null}
      /\ \A S \in SUBSET Pool!Block :
           b \in S \cup {Null} /\ (\A d \in S : new[d] \in S \cup {Null})
             => Q \subseteq S
  BY ReachedLeast
<1>2. /\ R \in SUBSET Pool!Block /\ b \in R \cup {Null} /\ n \notin R
      /\ \A d \in R : link[d] \in R \cup {Null}
      /\ \A S \in SUBSET Pool!Block :
           b \in S \cup {Null} /\ (\A d \in S : link[d] \in S \cup {Null})
             => R \subseteq S
  BY ReachedLeast
<1> HIDE DEF R, Q
<1>3. Q \subseteq R
  BY <1>1, <1>2
<1>4. \A d \in Q : link[d] \in Q \cup {Null}
  BY <1>1, <1>2, <1>3
<1>5. R \subseteq Q
  BY <1>1, <1>2, <1>4
<1> QED
  BY <1>3, <1>5 DEF R, Q

(***************************************************************************)
(* What threads remember                                                   *)
(***************************************************************************)
\* BlockPool has its own copies of the operators of FiniteSets.
LEMMA PoolFinite ==
  ASSUME NEW S
  PROVE  /\ Pool!IsFiniteSet(S) <=> IsFiniteSet(S)
         /\ Pool!Cardinality(S) = Cardinality(S)
<1>1. Pool!IsFiniteSet(S) <=> IsFiniteSet(S)
  BY Zenon DEF Pool!IsFiniteSet, IsFiniteSet
<1>2. Pool!Cardinality(S) = Cardinality(S)
  BY DEF Pool!Cardinality, Cardinality
<1> QED
  BY <1>1, <1>2

\* What PoolAssumption says of BlockPool's constants, in the terms used here.
LEMMA PoolConstants ==
  /\ PoolSize \in Nat /\ RECYCLE \in BOOLEAN
  /\ IsFiniteSet(Thread) /\ Cardinality(Thread) \in Nat
  /\ Null \notin Pool!Block
  /\ Pool!Pool \cap Heap = {} /\ Pool!Block = Pool!Pool \cup Heap
<1>1. Pool!PoolAssumption
  BY Instances
<1>2. IsFiniteSet(Thread)
  BY <1>1, PoolFinite DEF Pool!PoolAssumption
<1>3. Cardinality(Thread) \in Nat
  BY <1>2, FS_CardinalityType
<1> QED
  BY <1>1, <1>2, <1>3 DEF Pool!PoolAssumption, Pool!Block

\* The fields a thread has at each program counter.
LEMMA Fields ==
  ASSUME NEW known, NEW s \in ThreadState(known)
  PROVE  /\ s.pc \in {"idle", "poolAdd", "getHead", "none", "getRefs", "getNext",
                      "getTaken", "getInc", "getSwap", "getDrop", "addHead",
                      "addNext", "addRefs", "addSwap", "addUndo"}
         /\ s.pc \in {"getRefs", "getInc", "getNext", "getSwap", "getTaken"} =>
              s.head \in known
         /\ s.pc = "getInc" => s.refs \in Nat \ {0} /\ s.should \in BOOLEAN
         /\ s.pc = "getSwap" => s.next \in Pool!Block \cup {Null}
         /\ s.pc = "getDrop" => s.prev \in known /\ s.head \in known \cup {Null}
         /\ s.pc \in {"addHead", "addNext", "addRefs", "addSwap", "addUndo"} =>
              s.node \in known /\ s.then \in After(known)
         /\ s.pc \in {"addNext", "addRefs", "addSwap", "addUndo"} =>
              s.seen \in Pool!Block \cup {Null}
  BY DEF ThreadState

\* Where try_get goes on after adding a block is a state of a thread.
LEMMA AfterFields ==
  ASSUME NEW known, NEW s \in After(known)
  PROVE  /\ s \in ThreadState(known)
         /\ s.pc \in {"idle", "none", "getRefs"}
  BY DEF After, ThreadState, Pool!Idle

\* What a thread may remember grows with the blocks handed out: where it goes
\* on ...
LEMMA AfterGrows ==
  ASSUME NEW known, NEW more, known \subseteq more
  PROVE  After(known) \subseteq After(more)
  BY DEF After

\* ... and all of its state.
LEMMA ThreadStateGrows ==
  ASSUME NEW known, NEW more, known \subseteq more
  PROVE  ThreadState(known) \subseteq ThreadState(more)
  BY AfterGrows DEF ThreadState

\* The loop condition of try_get.
LEMMA LoopState ==
  ASSUME NEW known, NEW h \in known \cup {Null}, Null \notin known
  PROVE  /\ Pool!Loop(h) \in After(known)
         /\ Pool!Loop(h).pc \in {"none", "getRefs"}
  BY DEF Pool!Loop, After

\* A step of one thread keeps the types of all threads' states.
LEMMA ThreadStep ==
  ASSUME PoolTypeInv, NEW t \in Thread, NEW s \in ThreadState(Known'),
         th' = [th EXCEPT ![t] = s], Known \subseteq Known'
  PROVE  th' \in [Thread -> ThreadState(Known')]
  BY ThreadStateGrows DEF PoolTypeInv

\* No step but PoolAdd endangers the bound of the index.
LEMMA IndexStep ==
  ASSUME PoolTypeInv, IndexInv, NEW t \in Thread, NEW s,
         th' = [th EXCEPT ![t] = s], index' = index,
         s.pc = "poolAdd" => index < PoolSize
  PROVE  IndexInv'
<1> DEFINE A == {u \in Thread : th[u].pc = "poolAdd"}
           B == {u \in Thread : th'[u].pc = "poolAdd"}
<1>1. /\ A \in SUBSET Thread /\ B \in SUBSET Thread
      /\ B = IF s.pc = "poolAdd" THEN A \cup {t} ELSE A \ {t}
  BY DEF PoolTypeInv
<1> HIDE DEF A, B
<1>2. /\ IsFiniteSet(A) /\ IsFiniteSet(B)
      /\ Cardinality(A) \in Nat /\ Cardinality(B) \in Nat
      /\ Cardinality(B) <= Cardinality(Thread)
  BY <1>1, PoolConstants, FS_Subset, FS_CardinalityType
<1>3. CASE s.pc = "poolAdd"
  BY <1>2, <1>3, PoolConstants DEF IndexInv, B, PoolTypeInv
<1>4. CASE s.pc # "poolAdd"
  <2>1. B \in SUBSET A
    BY <1>1, <1>4
  <2>2. Cardinality(B) <= Cardinality(A)
    BY <1>2, <2>1, FS_Subset
  <2> QED
    BY <1>2, <2>2, PoolConstants DEF IndexInv, A, B, PoolTypeInv
<1> QED
  BY <1>3, <1>4

\* Program counters at which a thread has no block in its hands and holds no
\* reference.
Plain == {"idle", "poolAdd", "getHead", "none", "getRefs", "getInc"}

\* A step between such program counters that changes nothing shared keeps the
\* invariant.
LEMMA PlainStep ==
  ASSUME PoolInv, NEW t \in Thread, NEW s \in ThreadState(Known),
         th' = [th EXCEPT ![t] = s], th[t].pc \in Plain, s.pc \in Plain,
         s.pc = "poolAdd" => index < PoolSize,
         UNCHANGED <<index, head, refs, should, next, live, own>>
  PROVE  PoolInv'
<1>1. /\ Pool!OnList' = Pool!OnList /\ Known' = Known
      /\ Pool!NotHandedOut' = Pool!NotHandedOut
  BY DEF Pool!OnList, Known, Pool!NotHandedOut
<1>2. PoolTypeInv'
  BY <1>1, ThreadStep DEF PoolInv, PoolTypeInv
<1>3. IndexInv'
  BY IndexStep DEF PoolInv
<1>4. PlaceInv'
  BY <1>1 DEF PoolInv, PlaceInv, PoolTypeInv, InHands, Taking, Early,
              Pool!Adding, Plain
<1>5. CountInv'
  <2>1. \A b \in Pool!Block :
          Pool!Holders(b)' = Pool!Holders(b) /\ (Counted(b)' <=> Counted(b))
    BY <1>1 DEF PoolInv, PoolTypeInv, Pool!Holders, Counted, Taking, Late, Plain
  <2> QED
    BY <2>1 DEF PoolInv, CountInv
<1>6. LinkInv'
  BY <1>1 DEF PoolInv, PoolTypeInv, LinkInv, Plain
<1> QED
  BY <1>2, <1>3, <1>4, <1>5, <1>6 DEF PoolInv

\* The head of the list is on it.
LEMMA HeadListed ==
  ASSUME PoolInv
  PROVE  /\ head \in Pool!OnList \cup {Null} /\ head \in Known \cup {Null}
         /\ Pool!OnList \subseteq Known /\ Known \subseteq Pool!Block
         /\ Null \notin Known
  BY ReachedLeast, PoolConstants
     DEF PoolInv, PoolTypeInv, PlaceInv, Pool!OnList, Known

\* requisition_block looks at initialBlockPoolIndex.
LEMMA RequisitionStep ==
  ASSUME PoolInv, NEW t \in Thread, Pool!Requisition(t) PROVE PoolInv'
<1> DEFINE s == [pc |-> IF index >= PoolSize THEN "getHead" ELSE "poolAdd"]
<1>1. s \in ThreadState(Known) /\ s.pc \in Plain /\ th[t].pc \in Plain
  BY DEF ThreadState, Plain, Pool!Requisition, Pool!At
<1>2. s.pc = "poolAdd" => index < PoolSize
  BY PoolConstants DEF PoolInv, PoolTypeInv
<1> QED
  BY <1>1, <1>2, PlainStep DEF Pool!Requisition, Pool!Goto

\* try_get loads freeListHead.
LEMMA GetHeadStep ==
  ASSUME PoolInv, NEW t \in Thread, Pool!GetHead(t) PROVE PoolInv'
<1>1. /\ Pool!Loop(head) \in ThreadState(Known) /\ Pool!Loop(head).pc \in Plain
      /\ Pool!Loop(head).pc # "poolAdd" /\ th[t].pc \in Plain
  BY HeadListed, LoopState, AfterFields DEF Plain, Pool!GetHead, Pool!At
<1> QED
  BY <1>1, PlainStep DEF Pool!GetHead, Pool!Goto

\* try_get loads freeListRefs, and starts over at a block without references.
LEMMA GetRefsStep ==
  ASSUME PoolInv, NEW t \in Thread, Pool!GetRefs(t) PROVE PoolInv'
<1> DEFINE h == th[t].head
           s == IF refs[h] = 0
                THEN [pc |-> "getHead"]
                ELSE [pc |-> "getInc", head |-> h, refs |-> refs[h], should |-> should[h]]
<1>1. h \in Known /\ h \in Pool!Block
  BY Fields, HeadListed DEF PoolInv, PoolTypeInv, Pool!GetRefs, Pool!At
<1>2. s \in ThreadState(Known) /\ s.pc \in Plain /\ s.pc # "poolAdd" /\ th[t].pc \in Plain
  BY <1>1 DEF PoolInv, PoolTypeInv, ThreadState, Plain, Pool!GetRefs, Pool!At
<1> QED
  BY <1>2, PlainStep DEF Pool!GetRefs, Pool!Goto

\* A block that was not handed out yet comes into the hands of t.
LEMMA FreshBlock ==
  ASSUME PoolInv, NEW t \in Thread, NEW b \in Pool!Block, b \in Pool!NotHandedOut,
         th[t].pc \in Plain, th' = [th EXCEPT ![t] = Pool!Idle],
         own' = [own EXCEPT ![t] = @ \cup {b}],
         Pool!NotHandedOut' = Pool!NotHandedOut \ {b},
         UNCHANGED <<head, refs, should, next>>
  PROVE  /\ th' \in [Thread -> ThreadState(Known')]
         /\ own' \in [Thread -> SUBSET Pool!Block]
         /\ PlaceInv' /\ CountInv' /\ LinkInv'
<1>1. Pool!OnList' = Pool!OnList /\ Known \subseteq Known'
  BY DEF Pool!OnList, Known
<1>2. Pool!Idle \in ThreadState(Known') /\ Pool!Idle.pc = "idle"
  BY DEF ThreadState, Pool!Idle
<1>3. th' \in [Thread -> ThreadState(Known')] /\ own' \in [Thread -> SUBSET Pool!Block]
  BY <1>1, <1>2, ThreadStep DEF PoolInv, PoolTypeInv
<1>4. PlaceInv'
  BY <1>1, <1>2, HeadListed, SMTT(40) DEF PoolInv, PlaceInv, PoolTypeInv, InHands, Taking, Early,
              Pool!Adding, Plain, Known
<1>5. CountInv'
  <2>1. \A c \in Pool!Block :
          Pool!Holders(c)' = Pool!Holders(c) /\ (Counted(c)' <=> Counted(c))
    BY <1>1, <1>2 DEF PoolInv, PoolTypeInv, Pool!Holders, Counted, Taking, Late, Plain
  <2> QED
    BY <2>1 DEF PoolInv, CountInv
<1>6. LinkInv'
  BY <1>1, <1>2 DEF PoolInv, PoolTypeInv, LinkInv, Plain
<1> QED
  BY <1>3, <1>4, <1>5, <1>6

\* The fetch_add on initialBlockPoolIndex hands out a block nobody else has, or
\* none.
LEMMA PoolAddStep ==
  ASSUME PoolInv, NEW t \in Thread, Pool!PoolAdd(t) PROVE PoolInv'
<1> USE DEF Pool!PoolAdd, Pool!At, Pool!Goto, Pool!Give
<1>0. index \in Nat /\ index' = index + 1 /\ th[t].pc \in Plain
  BY DEF PoolInv, PoolTypeInv, Plain
<1>1. PICK s : s.pc # "poolAdd" /\ th' = [th EXCEPT ![t] = s]
  BY DEF Pool!Idle
<1>2. IndexInv'
  <2> DEFINE A == {u \in Thread : th[u].pc = "poolAdd"}
  <2>1. /\ A \in SUBSET Thread /\ t \in A
        /\ {u \in Thread : th'[u].pc = "poolAdd"} = A \ {t}
    BY <1>1 DEF PoolInv, PoolTypeInv
  <2>2. IsFiniteSet(A) /\ Cardinality(A) \in Nat
    BY <2>1, PoolConstants, FS_Subset, FS_CardinalityType
  <2>3. Cardinality(A \ {t}) = Cardinality(A) - 1
    BY <2>1, <2>2, FS_RemoveElement
  <2> HIDE DEF A
  <2>4. index + Cardinality(A) <= PoolSize + Cardinality(Thread)
    BY DEF A, PoolInv, IndexInv
  <2>5. index' + Cardinality(A \ {t}) <= PoolSize + Cardinality(Thread)
    BY <1>0, <2>2, <2>3, <2>4, PoolConstants
  <2> QED
    BY <2>1, <2>5 DEF IndexInv
<1>3. CASE index < PoolSize
  <2>1. /\ index \in Pool!Block /\ index \in Pool!NotHandedOut
        /\ Pool!NotHandedOut' = Pool!NotHandedOut \ {index}
    BY <1>0, <1>3, PoolConstants DEF Pool!Pool, Pool!NotHandedOut
  <2>2. /\ th' \in [Thread -> ThreadState(Known')]
        /\ own' \in [Thread -> SUBSET Pool!Block]
        /\ PlaceInv' /\ CountInv' /\ LinkInv'
    BY <1>0, <1>3, <2>1, FreshBlock, PoolConstants
  <2> QED
    BY <1>0, <1>2, <2>2 DEF PoolInv, PoolTypeInv
<1>4. CASE index >= PoolSize
  <2>1. /\ Pool!NotHandedOut' = Pool!NotHandedOut /\ Known' = Known
        /\ Pool!OnList' = Pool!OnList
    BY <1>0, <1>4, PoolConstants DEF Pool!Pool, Pool!NotHandedOut, Known, Pool!OnList
  <2>2. [pc |-> "getHead"] \in ThreadState(Known)
    BY DEF ThreadState
  <2>3. th' = [th EXCEPT ![t] = [pc |-> "getHead"]] /\ own' = own
    BY <1>0, <1>4, PoolConstants
  <2>4. PoolTypeInv'
    BY <1>0, <2>1, <2>2, <2>3, ThreadStep DEF PoolInv, PoolTypeInv
  <2>5. PlaceInv'
    BY <2>1, <2>3, <1>0 DEF PoolInv, PlaceInv, PoolTypeInv, InHands, Taking, Early,
              Pool!Adding, Plain
  <2>6. CountInv'
    <3>1. \A b \in Pool!Block :
            Pool!Holders(b)' = Pool!Holders(b) /\ (Counted(b)' <=> Counted(b))
      BY <2>1, <2>3, <1>0 DEF PoolInv, PoolTypeInv, Pool!Holders, Counted, Taking, Late, Plain
    <3> QED
      BY <3>1 DEF PoolInv, CountInv
  <2>7. LinkInv'
    BY <2>1, <2>3, <1>0 DEF PoolInv, PoolTypeInv, LinkInv, Plain
  <2> QED
    BY <1>2, <2>4, <2>5, <2>6, <2>7 DEF PoolInv
<1> QED
  BY <1>0, <1>3, <1>4, PoolConstants

\* create<Block> hands out a block nobody else has.
LEMMA CreateStep ==
  ASSUME PoolInv, NEW t \in Thread, Pool!Create(t) PROVE PoolInv'
<1> USE DEF Pool!Create, Pool!At, Pool!Goto, Pool!Give
<1>0. /\ th[t].pc \in Plain /\ Pool!Idle.pc = "idle"
      /\ Pool!Idle \in ThreadState(Known) /\ th' = [th EXCEPT ![t] = Pool!Idle]
      /\ UNCHANGED <<index, head, refs, should, next>>
  BY DEF Plain, Pool!Idle, ThreadState
<1>1. CASE UNCHANGED <<live, own>>
  BY <1>0, <1>1, PlainStep DEF Plain
<1>2. ASSUME NEW b \in Heap \ live, live' = live \cup {b}, Pool!Give(t, b)
      PROVE  PoolInv'
  <2>1. /\ b \in Pool!Block /\ b \in Pool!NotHandedOut
        /\ Pool!NotHandedOut' = Pool!NotHandedOut \ {b}
    BY <1>0, <1>2, PoolConstants DEF Pool!Pool, Pool!NotHandedOut
  <2>2. /\ th' \in [Thread -> ThreadState(Known')]
        /\ own' \in [Thread -> SUBSET Pool!Block]
        /\ PlaceInv' /\ CountInv' /\ LinkInv'
    BY <1>0, <1>2, <2>1, FreshBlock
  <2>3. IndexInv'
    BY <1>0, IndexStep DEF PoolInv
  <2> QED
    BY <1>0, <1>2, <2>2, <2>3 DEF PoolInv, PoolTypeInv
<1> QED
  BY <1>1, <1>2

\* The count of the holders of a block changes by one when a thread joins or
\* leaves.
LEMMA HolderCounts ==
  ASSUME NEW b, NEW t \in Thread
  PROVE  /\ Cardinality(Pool!Holders(b)) \in Nat
         /\ Cardinality(Pool!Holders(b)) <= Cardinality(Thread)
         /\ Cardinality(Pool!Holders(b)) = 0 <=> Pool!Holders(b) = {}
         /\ t \notin Pool!Holders(b) =>
              Cardinality(Pool!Holders(b) \cup {t}) = Cardinality(Pool!Holders(b)) + 1
         /\ t \in Pool!Holders(b) =>
              /\ Cardinality(Pool!Holders(b) \ {t}) = Cardinality(Pool!Holders(b)) - 1
              /\ Cardinality(Pool!Holders(b)) > 0
<1>1. Pool!Holders(b) \in SUBSET Thread
  BY DEF Pool!Holders
<1>2. IsFiniteSet(Pool!Holders(b)) /\ Cardinality(Pool!Holders(b)) <= Cardinality(Thread)
  BY <1>1, PoolConstants, FS_Subset
<1>3. Cardinality(Pool!Holders(b)) \in Nat
  BY <1>2, FS_CardinalityType
<1>4. Cardinality(Pool!Holders(b)) = 0 <=> Pool!Holders(b) = {}
  BY <1>2, FS_EmptySet
<1>5. t \notin Pool!Holders(b) =>
        Cardinality(Pool!Holders(b) \cup {t}) = Cardinality(Pool!Holders(b)) + 1
  BY <1>2, FS_AddElement
<1>6. t \in Pool!Holders(b) =>
        Cardinality(Pool!Holders(b) \ {t}) = Cardinality(Pool!Holders(b)) - 1
  BY <1>2, FS_RemoveElement
<1>7. t \in Pool!Holders(b) => Cardinality(Pool!Holders(b)) > 0
  BY <1>3, <1>4
<1> QED
  BY <1>2, <1>3, <1>4, <1>5, <1>6, <1>7

\* A block with count zero has no holder and is not counted by the list.
LEMMA ZeroCount ==
  ASSUME PoolInv, NEW t \in Thread, NEW b \in Pool!Block, refs[b] = 0
  PROVE  /\ Cardinality(Pool!Holders(b)) = 0 /\ Pool!Holders(b) = {}
         /\ ~Counted(b)
<1>1. refs[b] = Cardinality(Pool!Holders(b)) + (IF Counted(b) THEN 1 ELSE 0)
  BY DEF PoolInv, CountInv
<1>2. Cardinality(Pool!Holders(b)) \in Nat
  BY HolderCounts
<1>3. Cardinality(Pool!Holders(b)) = 0 /\ ~Counted(b)
  BY <1>1, <1>2
<1> QED
  BY <1>3, HolderCounts

\* The compare_exchange on freeListRefs takes a reference to a block that has
\* one.
LEMMA GetIncStep ==
  ASSUME PoolInv, NEW t \in Thread, Pool!GetInc(t) PROVE PoolInv'
<1>0. PICK h \in Pool!Block :
        /\ h = th[t].head /\ h \in Known
        /\ th[t].pc = "getInc" /\ th[t].refs \in Nat \ {0}
  BY Fields, HeadListed DEF PoolInv, PoolTypeInv, Pool!GetInc, Pool!At
<1> DEFINE s == [pc |-> "getNext", head |-> h]
<1>1. CASE ~(refs[h] = th[t].refs /\ should[h] = th[t].should)
  <2>1. [pc |-> "getHead"] \in ThreadState(Known)
    BY DEF ThreadState
  <2> QED
    BY <1>0, <1>1, <2>1, PlainStep DEF Plain, Pool!GetInc, Pool!Goto
<1>2. CASE refs[h] = th[t].refs /\ should[h] = th[t].should
  <2>1. /\ refs' = [refs EXCEPT ![h] = @ + 1] /\ refs[h] > 0
        /\ th' = [th EXCEPT ![t] = s]
        /\ UNCHANGED <<index, head, should, next, live, own>>
    BY <1>0, <1>2 DEF Pool!GetInc, Pool!Goto
  <2>2. /\ Pool!OnList' = Pool!OnList /\ Known' = Known
        /\ Pool!NotHandedOut' = Pool!NotHandedOut
    BY <2>1 DEF Pool!OnList, Known, Pool!NotHandedOut
  <2>3. s \in ThreadState(Known)
    BY <1>0 DEF ThreadState
  <2>4. PoolTypeInv'
    BY <1>0, <2>1, <2>2, <2>3, ThreadStep DEF PoolInv, PoolTypeInv
  <2>5. IndexInv'
    BY <2>1, IndexStep DEF PoolInv
  <2>6. PlaceInv'
    BY <1>0, <2>1, <2>2 DEF PoolInv, PlaceInv, PoolTypeInv, InHands, Taking,
       Early, Pool!Adding
  <2>7. CountInv'
    <3>1. \A b \in Pool!Block :
            /\ Pool!Holders(b)' = IF b = h THEN Pool!Holders(b) \cup {t} ELSE Pool!Holders(b)
            /\ t \notin Pool!Holders(b)
            /\ Counted(b)' <=> Counted(b)
      BY <1>0, <2>1, <2>2 DEF PoolInv, PoolTypeInv, Pool!Holders, Counted, Taking, Late
    <3>2. Cardinality(Pool!Holders(h)') = Cardinality(Pool!Holders(h)) + 1
      BY <1>0, <3>1, HolderCounts
    <3>3. Cardinality(Pool!Holders(h)) \in Nat
      BY HolderCounts
    <3>4. ASSUME NEW b \in Pool!Block
          PROVE  refs'[b] = Cardinality(Pool!Holders(b)') + (IF Counted(b)' THEN 1 ELSE 0)
      <4>1. CASE b = h
        BY <1>0, <2>1, <3>1, <3>2, <3>3, <4>1 DEF PoolInv, PoolTypeInv, CountInv
      <4>2. CASE b # h
        BY <2>1, <3>1, <4>2 DEF PoolInv, PoolTypeInv, CountInv
      <4> QED
        BY <4>1, <4>2
    <3> QED
      BY <3>4 DEF CountInv
  <2>8. LinkInv'
    BY <1>0, <2>1, <2>2 DEF PoolInv, PoolTypeInv, LinkInv
  <2> QED
    BY <2>4, <2>5, <2>6, <2>7, <2>8 DEF PoolInv
<1> QED
  BY <1>1, <1>2

\* A step of a thread that keeps its reference to h, and changes nothing else.
LEMMA KeepReference ==
  ASSUME PoolInv, NEW t \in Thread, NEW h \in Known, NEW s \in ThreadState(Known),
         th[t].pc \in {"getNext", "getSwap"} /\ th[t].head = h,
         \/ s.pc = "getSwap" /\ s.head = h /\ s.next = next[h]
         \/ s.pc = "getDrop" /\ s.prev = h,
         th' = [th EXCEPT ![t] = s],
         UNCHANGED <<index, head, refs, should, next, live, own>>
  PROVE  PoolInv'
<1>1. /\ Pool!OnList' = Pool!OnList /\ Known' = Known
      /\ Pool!NotHandedOut' = Pool!NotHandedOut
  BY DEF Pool!OnList, Known, Pool!NotHandedOut
<1>2. PoolTypeInv'
  BY <1>1, ThreadStep DEF PoolInv, PoolTypeInv
<1>3. IndexInv'
  BY IndexStep DEF PoolInv
<1>4. PlaceInv'
  BY <1>1 DEF PoolInv, PlaceInv, PoolTypeInv, InHands, Taking, Early, Pool!Adding
<1>5. CountInv'
  <2>1. \A b \in Pool!Block :
          Pool!Holders(b)' = Pool!Holders(b) /\ (Counted(b)' <=> Counted(b))
    BY <1>1 DEF PoolInv, PoolTypeInv, Pool!Holders, Counted, Taking, Late
  <2> QED
    BY <2>1 DEF PoolInv, CountInv
<1>6. LinkInv'
  BY <1>1 DEF PoolInv, PoolTypeInv, LinkInv
<1> QED
  BY <1>2, <1>3, <1>4, <1>5, <1>6 DEF PoolInv

\* With a reference held, the next pointer read is the one the block keeps.
LEMMA GetNextStep ==
  ASSUME PoolInv, NEW t \in Thread, Pool!GetNext(t) PROVE PoolInv'
<1> DEFINE h == th[t].head
           s == [pc |-> "getSwap", head |-> h, next |-> next[h]]
<1>1. th[t].pc = "getNext" /\ h \in Known /\ h \in Pool!Block
  BY Fields, HeadListed DEF PoolInv, PoolTypeInv, Pool!GetNext, Pool!At
<1>2. s \in ThreadState(Known)
  BY <1>1 DEF ThreadState, PoolInv, PoolTypeInv
<1> QED
  BY <1>1, <1>2, KeepReference DEF Pool!GetNext, Pool!Goto

\* The compare_exchange on freeListHead takes the first block off the list.
LEMMA GetSwapStep ==
  ASSUME PoolInv, NEW t \in Thread, Pool!GetSwap(t) PROVE PoolInv'
<1>0. PICK h \in Pool!Block :
      /\ th[t].pc = "getSwap" /\ h \in Known /\ h = th[t].head
      /\ th[t].next = next[h] /\ next[h] \in Pool!Block \cup {Null}
  BY Fields, HeadListed DEF PoolInv, PoolTypeInv, LinkInv, Pool!GetSwap, Pool!At
<1>1. CASE head # h
  <2> DEFINE s == [pc |-> "getDrop", prev |-> h, head |-> head]
  <2>1. s \in ThreadState(Known)
    BY <1>0, HeadListed DEF ThreadState
  <2> QED
    BY <1>0, <1>1, <2>1, KeepReference DEF Pool!GetSwap, Pool!Goto
<1>2. CASE head = h
  <2> DEFINE s == [pc |-> "getTaken", head |-> h]
  <2>1. /\ head' = next[h] /\ th' = [th EXCEPT ![t] = s]
        /\ UNCHANGED <<index, refs, should, next, live, own>>
    BY <1>0, <1>2 DEF Pool!GetSwap, Pool!Goto
  <2>2. /\ Pool!OnList' = Pool!Reached(next, next[h]) /\ Known' = Known
        /\ Pool!NotHandedOut' = Pool!NotHandedOut
    BY <2>1 DEF Pool!OnList, Known, Pool!NotHandedOut
  <2>3. Pool!OnList = {h} \cup Pool!OnList' /\ h \notin Pool!OnList'
    <3>1. Pool!OnList = {h} \cup Pool!Reached(next, next[h])
      BY <1>0, <1>2, ReachedFirst DEF Pool!OnList, PoolInv, PoolTypeInv
    <3>2. h \notin Pool!Reached(next, next[h])
      BY <3>1 DEF PoolInv, LinkInv
    <3> QED
      BY <2>2, <3>1, <3>2
  <2>4. s \in ThreadState(Known)
    BY <1>0 DEF ThreadState
  <2>5. PoolTypeInv'
    BY <1>0, <2>1, <2>2, <2>4, ThreadStep DEF PoolInv, PoolTypeInv
  <2>6. IndexInv'
    BY <2>1, IndexStep DEF PoolInv
  <2>7. PlaceInv'
    <3>1. \A u \in Thread, b \in Pool!Block :
            /\ Pool!Adding(u, b)' <=> Pool!Adding(u, b)
            /\ Early(u, b)' <=> Early(u, b)
            /\ Taking(u, b)' <=> Taking(u, b) \/ (u = t /\ b = h)
      BY <1>0, <2>1 DEF PoolInv, PoolTypeInv, Taking, Early, Pool!Adding
    <3>2. \A u \in Thread, b \in Pool!Block :
            InHands(u, b)' <=> InHands(u, b) \/ (u = t /\ b = h)
      BY <2>1, <3>1 DEF InHands
    <3>3. h \notin Pool!NotHandedOut /\ ~should[h] /\ \A u \in Thread : ~InHands(u, h)
      BY <1>0, <2>3 DEF PoolInv, PlaceInv, Known
    <3> QED
      BY <1>0, <2>1, <2>2, <2>3, <3>1, <3>2, <3>3 DEF PoolInv, PlaceInv, InHands
  <2>8. CountInv'
    <3>1. \A b \in Pool!Block :
            /\ Pool!Holders(b)' = Pool!Holders(b)
            /\ Counted(b)' <=> Counted(b)
      BY <1>0, <2>1, <2>3 DEF PoolInv, PoolTypeInv, Pool!Holders, Counted, Taking, Late
    <3> QED
      BY <2>1, <3>1 DEF PoolInv, CountInv
  <2>9. LinkInv'
    BY <1>0, <2>1, <2>3 DEF PoolInv, PoolTypeInv, LinkInv
  <2> QED
    BY <2>5, <2>6, <2>7, <2>8, <2>9 DEF PoolInv
<1> QED
  BY <1>1, <1>2

\* The fetch_sub by 2 drops the taker's reference and the list's.
LEMMA GetTakenStep ==
  ASSUME PoolInv, NEW t \in Thread, Pool!GetTaken(t) PROVE PoolInv'
<1>0. PICK h \in Pool!Block :
      /\ th[t].pc = "getTaken" /\ h \in Known /\ h = th[t].head
      /\ Pool!Idle.pc = "idle" /\ Pool!Idle \in ThreadState(Known)
  BY Fields, HeadListed
     DEF PoolInv, PoolTypeInv, Pool!GetTaken, Pool!At, Pool!Idle, ThreadState
<1>1. /\ refs' = [refs EXCEPT ![h] = @ - 2]
      /\ own' = [own EXCEPT ![t] = @ \cup {h}]
      /\ th' = [th EXCEPT ![t] = Pool!Idle]
      /\ UNCHANGED <<index, head, should, next, live>>
  BY <1>0 DEF Pool!GetTaken, Pool!Give, Pool!Goto
<1>2. /\ Pool!OnList' = Pool!OnList /\ Known' = Known
      /\ Pool!NotHandedOut' = Pool!NotHandedOut
  BY <1>1 DEF Pool!OnList, Known, Pool!NotHandedOut
<1>3. \A b \in Pool!Block :
        /\ Pool!Holders(b)' = IF b = h THEN Pool!Holders(b) \ {t} ELSE Pool!Holders(b)
        /\ t \in Pool!Holders(h)
  BY <1>0, <1>1 DEF PoolInv, PoolTypeInv, Pool!Holders
<1>4. /\ Counted(h) /\ ~Counted(h)'
      /\ \A b \in Pool!Block : b # h => (Counted(b)' <=> Counted(b))
  <2>1. \A u \in Thread, b \in Pool!Block :
          /\ Late(u, b)' <=> Late(u, b)
          /\ Taking(u, b)' <=> Taking(u, b) /\ ~(u = t /\ b = h)
    BY <1>0, <1>1 DEF PoolInv, PoolTypeInv, Taking, Late
  <2>2. Taking(t, h) /\ h \notin Pool!OnList
    BY <1>0 DEF PoolInv, PlaceInv, Taking, InHands
  <2>3. \A u \in Thread : u # t => ~Taking(u, h) /\ ~Late(u, h)
    BY <1>0, <2>2 DEF PoolInv, PlaceInv, InHands, Pool!Adding, Late
  <2>4. ~Late(t, h)
    BY <1>0 DEF Late
  <2> QED
    BY <1>0, <1>2, <2>1, <2>2, <2>3, <2>4 DEF Counted
<1>5. refs[h] = Cardinality(Pool!Holders(h)) + 1 /\ refs[h] >= 2 /\ refs[h] \in Nat
  <2>1. refs[h] = Cardinality(Pool!Holders(h)) + 1
    BY <1>0, <1>4 DEF PoolInv, CountInv
  <2>2. Cardinality(Pool!Holders(h)) \in Nat /\ Cardinality(Pool!Holders(h)) > 0
    BY <1>0, <1>3, HolderCounts
  <2> QED
    BY <2>1, <2>2
<1>6. PoolTypeInv'
  BY <1>0, <1>1, <1>2, <1>5, ThreadStep DEF PoolInv, PoolTypeInv
<1>7. IndexInv'
  BY <1>0, <1>1, IndexStep DEF PoolInv
<1>8. PlaceInv'
  BY <1>0, <1>1, <1>2 DEF PoolInv, PlaceInv, PoolTypeInv, InHands, Taking,
     Early, Pool!Adding
<1>9. CountInv'
  <2>1. Cardinality(Pool!Holders(h)') = Cardinality(Pool!Holders(h)) - 1
    BY <1>0, <1>3, HolderCounts
  <2>2. Cardinality(Pool!Holders(h)) \in Nat
    BY HolderCounts
  <2>3. ASSUME NEW b \in Pool!Block
        PROVE  refs'[b] = Cardinality(Pool!Holders(b)') + (IF Counted(b)' THEN 1 ELSE 0)
    <3>1. CASE b = h
      BY <1>0, <1>1, <1>4, <1>5, <2>1, <2>2, <3>1 DEF PoolInv, PoolTypeInv
    <3>2. CASE b # h
      BY <1>1, <1>3, <1>4, <3>2 DEF PoolInv, PoolTypeInv, CountInv
    <3> QED
      BY <3>1, <3>2
  <2> QED
    BY <2>3 DEF CountInv
<1>10. LinkInv'
  BY <1>0, <1>1, <1>2 DEF PoolInv, PoolTypeInv, LinkInv
<1> QED
  BY <1>6, <1>7, <1>8, <1>9, <1>10 DEF PoolInv

\* Dropping a reference; the last one to a block that waits takes over adding
\* it.
LEMMA GetDropStep ==
  ASSUME PoolInv, NEW t \in Thread, Pool!GetDrop(t) PROVE PoolInv'
<1>0. PICK p \in Pool!Block, c \in After(Known) :
        /\ th[t].pc = "getDrop" /\ p \in Known /\ p = th[t].prev
        /\ c = Pool!Loop(th[t].head)
  BY Fields, HeadListed, LoopState DEF PoolInv, PoolTypeInv, Pool!GetDrop, Pool!At
<1> DEFINE a == [pc |-> "addHead", node |-> p, then |-> c]
<1>1. PICK s \in {a, c} :
        /\ refs' = [refs EXCEPT ![p] = @ - 1]
        /\ th' = [th EXCEPT ![t] = s]
        /\ s = (IF should[p] /\ refs[p] = 1 THEN a ELSE c)
        /\ UNCHANGED <<index, head, should, next, live, own>>
  BY <1>0 DEF Pool!GetDrop, Pool!Goto
<1>2. /\ Pool!OnList' = Pool!OnList /\ Known' = Known
      /\ Pool!NotHandedOut' = Pool!NotHandedOut
  BY <1>1 DEF Pool!OnList, Known, Pool!NotHandedOut
<1>3. /\ s \in ThreadState(Known)
      /\ s = a => s.pc = "addHead" /\ s.node = p
      /\ s # a => s.pc \in {"idle", "none", "getRefs"}
  BY <1>0, AfterFields DEF ThreadState
<1>4. /\ \A b \in Pool!Block :
           Pool!Holders(b)' = IF b = p THEN Pool!Holders(b) \ {t} ELSE Pool!Holders(b)
      /\ t \in Pool!Holders(p)
  BY <1>0, <1>1, <1>3 DEF PoolInv, PoolTypeInv, Pool!Holders
<1>5. /\ Cardinality(Pool!Holders(p)) \in Nat /\ Cardinality(Pool!Holders(p)) > 0
      /\ Cardinality(Pool!Holders(p)') = Cardinality(Pool!Holders(p)) - 1
  BY <1>0, <1>4, HolderCounts
<1>6. refs[p] \in Nat /\ refs[p] > 0
  BY <1>0, <1>5 DEF PoolInv, CountInv, PoolTypeInv
<1>7. PoolTypeInv'
  BY <1>0, <1>1, <1>2, <1>3, <1>6, ThreadStep DEF PoolInv, PoolTypeInv
<1>8. IndexInv'
  BY <1>1, <1>3, IndexStep DEF PoolInv
<1>9. \A u \in Thread, b \in Pool!Block :
        /\ Taking(u, b)' <=> Taking(u, b)
        /\ Late(u, b)' <=> Late(u, b)
        /\ Pool!Adding(u, b)' <=> Pool!Adding(u, b) \/ (u = t /\ b = p /\ s = a)
        /\ Early(u, b)' <=> Early(u, b) \/ (u = t /\ b = p /\ s = a)
  BY <1>0, <1>1, <1>3 DEF PoolInv, PoolTypeInv, Taking, Early, Late, Pool!Adding
<1>10. PlaceInv'
  <2>1. \A u \in Thread, b \in Pool!Block :
          InHands(u, b)' <=> InHands(u, b) \/ (u = t /\ b = p /\ s = a)
    BY <1>1, <1>9 DEF InHands
  <2>2. \A u \in Thread : ~Early(u, p)
    BY <1>0, <1>6 DEF PoolInv, PlaceInv
  <2>3. s = a => should[p] /\ refs[p] = 1
    BY <1>0, <1>1, <1>3, AfterFields
  <2>4. s # a => ~(should[p] /\ refs[p] = 1)
    BY <1>1
  <2>5. s = a => \A u \in Thread : ~InHands(u, p)
    BY <1>0, <2>2, <2>3 DEF PoolInv, PlaceInv
  <2>6. \A b \in Pool!Block : refs'[b] = IF b = p THEN refs[p] - 1 ELSE refs[b]
    BY <1>0, <1>1 DEF PoolInv, PoolTypeInv
  <2> HIDE DEF a
  <2> QED
    BY <1>0, <1>1, <1>2, <1>6, <1>9, <2>1, <2>2, <2>3, <2>4, <2>5, <2>6
       DEF PoolInv, PlaceInv, InHands
<1>11. CountInv'
  <2>1. \A b \in Pool!Block : Counted(b)' <=> Counted(b)
    BY <1>2, <1>9 DEF Counted
  <2>2. ASSUME NEW b \in Pool!Block
        PROVE  refs'[b] = Cardinality(Pool!Holders(b)') + (IF Counted(b)' THEN 1 ELSE 0)
    <3>1. CASE b = p
      BY <1>0, <1>1, <1>5, <2>1, <3>1 DEF PoolInv, PoolTypeInv, CountInv
    <3>2. CASE b # p
      BY <1>1, <1>4, <2>1, <3>2 DEF PoolInv, PoolTypeInv, CountInv
    <3> QED
      BY <3>1, <3>2
  <2> QED
    BY <2>2 DEF CountInv
<1>12. LinkInv'
  BY <1>0, <1>1, <1>2, <1>3 DEF PoolInv, PoolTypeInv, LinkInv
<1> QED
  BY <1>7, <1>8, <1>10, <1>11, <1>12 DEF PoolInv

\* add_block_to_free_list frees the block, or marks it and adds it if it has no
\* reference.
LEMMA AddBlockStep ==
  ASSUME PoolInv, NEW t \in Thread, NEW b \in Pool!Block, Pool!AddBlock(t, b)
  PROVE  PoolInv'
<1> DEFINE a == [pc |-> "addHead", node |-> b, then |-> Pool!Idle]
<1>0. /\ th[t].pc = "idle" /\ b \in own[t]
      /\ own' = [own EXCEPT ![t] = @ \ {b}]
      /\ UNCHANGED <<index, head, refs, next>>
      /\ Pool!Idle.pc = "idle" /\ Pool!Idle \in ThreadState(Known)
      /\ Pool!OnList' = Pool!OnList
  BY DEF Pool!AddBlock, Pool!At, Pool!Idle, ThreadState, Pool!OnList
<1>1. /\ b \notin Pool!NotHandedOut /\ b \notin Pool!OnList /\ ~should[b]
      /\ \A u \in Thread : u # t => ~InHands(u, b)
      /\ ~Pool!Adding(t, b) /\ ~Taking(t, b)
  BY <1>0 DEF PoolInv, PlaceInv, InHands, Early, Pool!Adding
<1>2. CASE ~RECYCLE /\ b \in Heap
  <2>1. /\ live' = live \ {b} /\ th' = [th EXCEPT ![t] = Pool!Idle]
        /\ should' = should
    BY <1>2 DEF Pool!AddBlock, Pool!Goto
  <2>2. Pool!NotHandedOut' = Pool!NotHandedOut \cup {b} /\ Known' = Known
    BY <1>0, <1>2, <2>1, PoolConstants DEF Pool!NotHandedOut, Known
  <2>3. PoolTypeInv'
    BY <1>0, <2>1, <2>2, ThreadStep DEF PoolInv, PoolTypeInv
  <2>4. IndexInv'
    BY <1>0, <2>1, IndexStep DEF PoolInv
  <2>5. \A u \in Thread, c \in Pool!Block :
          /\ Taking(u, c)' <=> Taking(u, c)
          /\ Late(u, c)' <=> Late(u, c)
          /\ Pool!Adding(u, c)' <=> Pool!Adding(u, c)
          /\ Early(u, c)' <=> Early(u, c)
          /\ c \in own'[u] <=> c \in own[u] /\ ~(u = t /\ c = b)
    BY <1>0, <2>1 DEF PoolInv, PoolTypeInv, Taking, Early, Late, Pool!Adding
  <2>6. PlaceInv'
    <3>1. \A u \in Thread, c \in Pool!Block :
            InHands(u, c)' <=> InHands(u, c) /\ ~(u = t /\ c = b)
      BY <1>1, <2>5 DEF InHands
    <3> QED
      BY <1>0, <1>1, <2>1, <2>2, <2>5, <3>1 DEF PoolInv, PlaceInv
  <2>7. CountInv'
    <3>1. \A c \in Pool!Block :
            Pool!Holders(c)' = Pool!Holders(c) /\ (Counted(c)' <=> Counted(c))
      BY <1>0, <2>1 DEF PoolInv, PoolTypeInv, Pool!Holders, Counted, Taking, Late
    <3> QED
      BY <1>0, <3>1 DEF PoolInv, CountInv
  <2>8. LinkInv'
    BY <1>0, <2>1 DEF PoolInv, PoolTypeInv, LinkInv
  <2> QED
    BY <2>3, <2>4, <2>6, <2>7, <2>8 DEF PoolInv
<1>3. CASE ~(~RECYCLE /\ b \in Heap)
  <2>1. PICK s \in {a, Pool!Idle} :
          /\ live' = live /\ th' = [th EXCEPT ![t] = s]
          /\ s = (IF refs[b] = 0 THEN a ELSE Pool!Idle)
          /\ should' = [should EXCEPT ![b] = TRUE]
    BY <1>1, <1>3 DEF Pool!AddBlock, Pool!Goto
  <2>2. Pool!NotHandedOut' = Pool!NotHandedOut /\ Known' = Known
    BY <1>0, <2>1 DEF Pool!NotHandedOut, Known
  <2>3. /\ s \in ThreadState(Known)
        /\ s = a => s.pc = "addHead" /\ s.node = b /\ refs[b] = 0
        /\ s # a => s.pc = "idle" /\ refs[b] # 0
    <3>1. b \in Known
      BY <1>1, <1>3, PoolConstants DEF Known
    <3> QED
      BY <1>0, <2>1, <3>1 DEF ThreadState, After
  <2>4. PoolTypeInv'
    BY <1>0, <2>1, <2>2, <2>3, ThreadStep DEF PoolInv, PoolTypeInv
  <2>5. IndexInv'
    BY <1>0, <2>1, <2>3, IndexStep DEF PoolInv
  <2>6. \A u \in Thread, c \in Pool!Block :
          /\ Taking(u, c)' <=> Taking(u, c)
          /\ Late(u, c)' <=> Late(u, c)
          /\ Pool!Adding(u, c)' <=> Pool!Adding(u, c) \/ (u = t /\ c = b /\ s = a)
          /\ Early(u, c)' <=> Early(u, c) \/ (u = t /\ c = b /\ s = a)
          /\ c \in own'[u] <=> c \in own[u] /\ ~(u = t /\ c = b)
    BY <1>0, <2>1, <2>3 DEF PoolInv, PoolTypeInv, Taking, Early, Late, Pool!Adding
  <2>7. PlaceInv'
    <3>1. \A u \in Thread, c \in Pool!Block :
            InHands(u, c)' <=> \/ InHands(u, c) /\ ~(u = t /\ c = b)
                               \/ u = t /\ c = b /\ s = a
      BY <1>1, <2>6 DEF InHands
    <3>2. /\ \A c \in Pool!Block : should'[c] <=> (c = b \/ should[c])
          /\ InHands(t, b)
      BY <1>0, <2>1 DEF PoolInv, PoolTypeInv, InHands
    <3> HIDE DEF a
    <3>3. PlaceInv
      BY DEF PoolInv
    <3>4. /\ Pool!OnList' \subseteq Known'
          /\ \A u, v \in Thread, c \in Pool!Block :
               InHands(u, c)' /\ InHands(v, c)' => u = v
      BY <1>0, <1>1, <2>2, <3>1, <3>3 DEF PlaceInv
    <3>5. \A u \in Thread, c \in Pool!Block :
            /\ c \in own'[u] => ~Pool!Adding(u, c)' /\ ~Taking(u, c)'
            /\ InHands(u, c)' => c \notin Pool!NotHandedOut' /\ c \notin Pool!OnList'
            /\ InHands(u, c)' /\ should'[c] => Early(u, c)'
            /\ Early(u, c)' => should'[c] /\ refs'[c] = 0
      <4> SUFFICES ASSUME NEW u \in Thread, NEW c \in Pool!Block
                   PROVE  /\ c \in own'[u] => ~Pool!Adding(u, c)' /\ ~Taking(u, c)'
                          /\ InHands(u, c)' =>
                               c \notin Pool!NotHandedOut' /\ c \notin Pool!OnList'
                          /\ InHands(u, c)' /\ should'[c] => Early(u, c)'
                          /\ Early(u, c)' => should'[c] /\ refs'[c] = 0
        BY DEF InHands
      <4>1. c \in own'[u] => ~Pool!Adding(u, c)' /\ ~Taking(u, c)'
        BY <2>6, <3>3 DEF PlaceInv
      <4>2. InHands(u, c)' => c \notin Pool!NotHandedOut' /\ c \notin Pool!OnList'
        BY <1>0, <1>1, <2>2, <3>1, <3>3 DEF PlaceInv
      <4>3. InHands(u, c)' /\ should'[c] => Early(u, c)'
        <5>1. CASE c = b
          BY <1>1, <2>6, <3>1, <5>1
        <5>2. CASE c # b
          BY <2>6, <3>1, <3>2, <3>3, <5>2 DEF PlaceInv
        <5> QED
          BY <5>1, <5>2
      <4>4. Early(u, c)' => should'[c] /\ refs'[c] = 0
        BY <1>0, <2>3, <2>6, <3>2, <3>3 DEF PlaceInv
      <4> QED
        BY <4>1, <4>2, <4>3, <4>4
    <3>6. \A c \in Pool!Block :
            /\ should'[c] => c \notin Pool!NotHandedOut' /\ c \notin Pool!OnList'
            /\ should'[c] /\ refs'[c] = 0 => \E u \in Thread : Pool!Adding(u, c)'
      BY <1>0, <1>1, <2>2, <2>3, <2>6, <3>2, <3>3 DEF PlaceInv
    <3>7. \A c \in Pool!Block :
            \/ c \in Pool!NotHandedOut' \/ c \in Pool!OnList' \/ should'[c]
            \/ \E u \in Thread : InHands(u, c)'
      BY <1>0, <2>2, <3>1, <3>2, <3>3 DEF PlaceInv
    <3> QED
      BY <3>4, <3>5, <3>6, <3>7 DEF PlaceInv
  <2>8. CountInv'
    <3>1. \A c \in Pool!Block :
            Pool!Holders(c)' = Pool!Holders(c) /\ (Counted(c)' <=> Counted(c))
      BY <1>0, <2>1, <2>3 DEF PoolInv, PoolTypeInv, Pool!Holders, Counted, Taking, Late
    <3> QED
      BY <1>0, <3>1 DEF PoolInv, CountInv
  <2>9. LinkInv'
    BY <1>0, <2>1, <2>3 DEF PoolInv, PoolTypeInv, LinkInv
  <2> QED
    BY <2>4, <2>5, <2>7, <2>8, <2>9 DEF PoolInv
<1> QED
  BY <1>2, <1>3

\* add_knowing_refcount_is_zero loads freeListHead.
LEMMA AddHeadStep ==
  ASSUME PoolInv, NEW t \in Thread, Pool!AddHead(t) PROVE PoolInv'
<1>0. PICK n \in Pool!Block, c \in After(Known) :
        th[t].pc = "addHead" /\ n \in Known /\ n = th[t].node /\ c = th[t].then
  BY Fields, HeadListed DEF PoolInv, PoolTypeInv, Pool!AddHead, Pool!At
<1> DEFINE s == [pc |-> "addNext", node |-> n, seen |-> head, then |-> c]
<1>1. /\ th' = [th EXCEPT ![t] = s]
      /\ UNCHANGED <<index, head, refs, should, next, live, own>>
  BY <1>0 DEF Pool!AddHead, Pool!Goto
<1>2. /\ Pool!OnList' = Pool!OnList /\ Known' = Known
      /\ Pool!NotHandedOut' = Pool!NotHandedOut
  BY <1>1 DEF Pool!OnList, Known, Pool!NotHandedOut
<1>3. s \in ThreadState(Known)
  BY <1>0 DEF ThreadState, PoolInv, PoolTypeInv
<1>4. PoolTypeInv'
  BY <1>1, <1>2, <1>3, ThreadStep DEF PoolInv, PoolTypeInv
<1>5. IndexInv'
  BY <1>1, IndexStep DEF PoolInv
<1>6. PlaceInv'
  BY <1>0, <1>1, <1>2 DEF PoolInv, PlaceInv, PoolTypeInv, InHands, Taking, Early,
     Pool!Adding
<1>7. CountInv'
  <2>1. \A b \in Pool!Block :
          Pool!Holders(b)' = Pool!Holders(b) /\ (Counted(b)' <=> Counted(b))
    BY <1>0, <1>1, <1>2 DEF PoolInv, PoolTypeInv, Pool!Holders, Counted, Taking, Late
  <2> QED
    BY <1>1, <2>1 DEF PoolInv, CountInv
<1>8. LinkInv'
  BY <1>0, <1>1, <1>2 DEF PoolInv, PoolTypeInv, LinkInv
<1> QED
  BY <1>4, <1>5, <1>6, <1>7, <1>8 DEF PoolInv

\* The block nobody else has and nobody refers to gets its next pointer.
LEMMA AddNextStep ==
  ASSUME PoolInv, NEW t \in Thread, Pool!AddNext(t) PROVE PoolInv'
<1>0. PICK n \in Pool!Block, seen \in Pool!Block \cup {Null}, c \in After(Known) :
        /\ th[t].pc = "addNext" /\ n \in Known /\ n = th[t].node
        /\ seen = th[t].seen /\ c = th[t].then
  BY Fields, HeadListed DEF PoolInv, PoolTypeInv, Pool!AddNext, Pool!At
<1> DEFINE s == [pc |-> "addRefs", node |-> n, seen |-> seen, then |-> c]
<1>1. /\ th' = [th EXCEPT ![t] = s]
      /\ next' = [next EXCEPT ![n] = seen]
      /\ UNCHANGED <<index, head, refs, should, live, own>>
  <2>1. [th[t] EXCEPT !.pc = "addRefs"] = s
    BY <1>0 DEF PoolInv, PoolTypeInv, ThreadState
  <2> QED
    BY <1>0, <2>1 DEF Pool!AddNext, Pool!Goto
<1>2. Known' = Known /\ Pool!NotHandedOut' = Pool!NotHandedOut
  BY <1>1 DEF Known, Pool!NotHandedOut
<1>3. Early(t, n) /\ n \notin Pool!OnList /\ refs[n] = 0
  BY <1>0 DEF PoolInv, PlaceInv, Early, InHands, Pool!Adding
<1>4. next \in [Pool!Block -> Pool!Block \cup {Null}] /\ head \in Pool!Block \cup {Null}
  BY DEF PoolInv, PoolTypeInv
<1>5. Pool!OnList' = Pool!OnList
  <2>1. n \notin Pool!Reached(next, head)
    BY <1>3 DEF Pool!OnList
  <2>2. /\ next' \in [Pool!Block -> Pool!Block \cup {Null}]
        /\ \A d \in Pool!Block : d # n => next'[d] = next[d]
    BY <1>0, <1>1, <1>4
  <2>3. Pool!Reached(next', head) = Pool!Reached(next, head)
    BY <1>0, <1>4, <2>1, <2>2, ReachedElsewhere
  <2> QED
    BY <1>1, <2>3 DEF Pool!OnList
<1>6. s \in ThreadState(Known)
  BY <1>0 DEF ThreadState
<1>7. PoolTypeInv'
  BY <1>0, <1>1, <1>2, <1>6, ThreadStep DEF PoolInv, PoolTypeInv
<1>8. IndexInv'
  BY <1>1, IndexStep DEF PoolInv
<1>9. PlaceInv'
  BY <1>0, <1>1, <1>2, <1>5 DEF PoolInv, PlaceInv, PoolTypeInv, InHands, Taking, Early,
     Pool!Adding
<1>10. CountInv'
  <2>1. \A b \in Pool!Block :
          Pool!Holders(b)' = Pool!Holders(b) /\ (Counted(b)' <=> Counted(b))
    BY <1>0, <1>1, <1>5 DEF PoolInv, PoolTypeInv, Pool!Holders, Counted, Taking, Late
  <2> QED
    BY <1>1, <2>1 DEF PoolInv, CountInv
<1>11. LinkInv'
  <2>1. Pool!Holders(n) = {}
    BY <1>3, ZeroCount
  <2>2. ASSUME NEW u \in Thread, th'[u].pc = "getSwap"
        PROVE  th'[u].next = next'[th'[u].head]
    <3>1. u # t /\ th'[u] = th[u] /\ th[u].head # n /\ th[u].head \in Pool!Block
      BY <1>0, <1>1, <2>1, <2>2, Fields, HeadListed
         DEF PoolInv, PoolTypeInv, Pool!Holders
    <3> QED
      BY <1>1, <1>4, <2>2, <3>1 DEF PoolInv, LinkInv
  <2>3. ASSUME NEW u \in Thread, th'[u].pc \in {"addRefs", "addSwap"}
        PROVE  next'[th'[u].node] = th'[u].seen
    <3>1. CASE u = t
      BY <1>0, <1>1, <1>4, <3>1 DEF PoolInv, PoolTypeInv
    <3>2. CASE u # t
      <4>1. th'[u] = th[u] /\ th[u].node \in Pool!Block
        BY <1>1, <2>3, <3>2, Fields, HeadListed DEF PoolInv, PoolTypeInv
      <4>2. th[u].node # n
        BY <1>0, <1>3, <2>3, <3>2, <4>1
           DEF PoolInv, PlaceInv, InHands, Pool!Adding, Early
      <4> QED
        BY <1>1, <1>4, <2>3, <4>1, <4>2 DEF PoolInv, LinkInv
    <3> QED
      BY <3>1, <3>2
  <2>4. ASSUME NEW b \in Pool!OnList
        PROVE  b \notin Pool!Reached(next', next'[b])
    <3>1. b \in Pool!Block /\ next'[b] = next[b] /\ next[b] \in Pool!OnList \cup {Null}
      BY <1>1, <1>3, <1>4, ReachedLeast DEF Pool!OnList
    <3>2. Pool!Reached(next, next[b]) \subseteq Pool!OnList
      BY <1>4, <3>1, ReachedWithin DEF Pool!OnList
    <3>3. n \notin Pool!Reached(next, next[b]) /\ next[b] \in Pool!Block \cup {Null}
      BY <1>3, <1>4, <3>1, <3>2
    <3>4. Pool!Reached(next', next[b]) = Pool!Reached(next, next[b])
      <4>1. /\ next' \in [Pool!Block -> Pool!Block \cup {Null}]
            /\ \A d \in Pool!Block : d # n => next'[d] = next[d]
        BY <1>0, <1>1, <1>4
      <4> QED
        BY <1>0, <1>4, <3>3, <4>1, ReachedElsewhere
    <3> QED
      BY <3>1, <3>4 DEF PoolInv, LinkInv
  <2> QED
    BY <1>5, <2>2, <2>3, <2>4 DEF LinkInv
<1> QED
  BY <1>7, <1>8, <1>9, <1>10, <1>11 DEF PoolInv

\* Storing 1 to freeListRefs is the list's reference in advance.
LEMMA AddRefsStep ==
  ASSUME PoolInv, NEW t \in Thread, Pool!AddRefs(t) PROVE PoolInv'
<1>0. PICK n \in Pool!Block, seen \in Pool!Block \cup {Null}, c \in After(Known) :
        /\ th[t].pc = "addRefs" /\ n \in Known /\ n = th[t].node
        /\ seen = th[t].seen /\ c = th[t].then
  BY Fields, HeadListed DEF PoolInv, PoolTypeInv, Pool!AddRefs, Pool!At
<1> DEFINE s == [pc |-> "addSwap", node |-> n, seen |-> seen, then |-> c]
<1>1. /\ th' = [th EXCEPT ![t] = s]
      /\ refs' = [refs EXCEPT ![n] = 1] /\ should' = [should EXCEPT ![n] = FALSE]
      /\ UNCHANGED <<index, head, next, live, own>>
  <2>1. [th[t] EXCEPT !.pc = "addSwap"] = s
    BY <1>0 DEF PoolInv, PoolTypeInv, ThreadState
  <2> QED
    BY <1>0, <2>1 DEF Pool!AddRefs, Pool!Goto
<1>2. /\ Pool!OnList' = Pool!OnList /\ Known' = Known
      /\ Pool!NotHandedOut' = Pool!NotHandedOut
  BY <1>1 DEF Pool!OnList, Known, Pool!NotHandedOut
<1>3. Early(t, n) /\ n \notin Pool!OnList /\ refs[n] = 0
  BY <1>0 DEF PoolInv, PlaceInv, Early, InHands, Pool!Adding
<1>4. s \in ThreadState(Known)
  BY <1>0 DEF ThreadState
<1>5. PoolTypeInv'
  BY <1>0, <1>1, <1>2, <1>4, ThreadStep DEF PoolInv, PoolTypeInv
<1>6. IndexInv'
  BY <1>1, IndexStep DEF PoolInv
<1>7. \A u \in Thread, b \in Pool!Block :
        /\ Taking(u, b)' <=> Taking(u, b)
        /\ Pool!Adding(u, b)' <=> Pool!Adding(u, b)
        /\ Late(u, b)' <=> Late(u, b) \/ (u = t /\ b = n)
        /\ Early(u, b)' <=> Early(u, b) /\ ~(u = t /\ b = n)
  BY <1>0, <1>1 DEF PoolInv, PoolTypeInv, Taking, Early, Late, Pool!Adding
<1>8. PlaceInv'
  <2>1. \A u \in Thread, b \in Pool!Block : InHands(u, b)' <=> InHands(u, b)
    BY <1>1, <1>7 DEF InHands
  <2>2. \A b \in Pool!Block :
          /\ should'[b] <=> should[b] /\ b # n
          /\ refs'[b] = IF b = n THEN 1 ELSE refs[b]
    BY <1>1 DEF PoolInv, PoolTypeInv
  <2>3. InHands(t, n) /\ \A u \in Thread : Early(u, n) => u = t
    BY <1>3 DEF PoolInv, PlaceInv, InHands, Early, Pool!Adding
  <2> QED
    BY <1>0, <1>1, <1>2, <1>7, <2>1, <2>2, <2>3 DEF PoolInv, PlaceInv
<1>9. CountInv'
  <2>1. \A b \in Pool!Block : Pool!Holders(b)' = Pool!Holders(b)
    BY <1>0, <1>1 DEF PoolInv, PoolTypeInv, Pool!Holders
  <2>2. Cardinality(Pool!Holders(n)) = 0 /\ ~Counted(n)
    BY <1>3, ZeroCount
  <2>3. \A b \in Pool!Block : Counted(b)' <=> (Counted(b) \/ b = n)
    BY <1>2, <1>7 DEF Counted
  <2> QED
    BY <1>1, <2>1, <2>2, <2>3 DEF PoolInv, PoolTypeInv, CountInv
<1>10. LinkInv'
  BY <1>0, <1>1, <1>2 DEF PoolInv, PoolTypeInv, LinkInv
<1> QED
  BY <1>5, <1>6, <1>8, <1>9, <1>10 DEF PoolInv

\* The compare_exchange on freeListHead puts the block before the list it
\* points to.
LEMMA AddSwapStep ==
  ASSUME PoolInv, NEW t \in Thread, Pool!AddSwap(t) PROVE PoolInv'
<1>0. PICK n \in Pool!Block, seen \in Pool!Block \cup {Null}, c \in After(Known) :
        /\ th[t].pc = "addSwap" /\ n \in Known /\ n = th[t].node
        /\ seen = th[t].seen /\ c = th[t].then
  BY Fields, HeadListed DEF PoolInv, PoolTypeInv, Pool!AddSwap, Pool!At
<1>1. UNCHANGED <<index, refs, should, next, live, own>>
  BY DEF Pool!AddSwap
<1>2. Known' = Known /\ Pool!NotHandedOut' = Pool!NotHandedOut
  BY <1>1 DEF Known, Pool!NotHandedOut
<1>3. InHands(t, n) /\ n \notin Pool!OnList /\ ~should[n]
  BY <1>0 DEF PoolInv, PlaceInv, InHands, Pool!Adding, Early
<1>4. CASE head # seen
  <2> DEFINE s == [pc |-> "addUndo", node |-> n, seen |-> head, then |-> c]
  <2>1. th' = [th EXCEPT ![t] = s] /\ head' = head
    BY <1>0, <1>4 DEF Pool!AddSwap, Pool!Goto
  <2>2. Pool!OnList' = Pool!OnList
    BY <1>1, <2>1 DEF Pool!OnList
  <2>3. s \in ThreadState(Known)
    BY <1>0 DEF ThreadState, PoolInv, PoolTypeInv
  <2>4. PoolTypeInv'
    BY <1>1, <1>2, <2>1, <2>3, ThreadStep DEF PoolInv, PoolTypeInv
  <2>5. IndexInv'
    BY <1>1, <2>1, IndexStep DEF PoolInv
  <2>6. PlaceInv'
    BY <1>0, <1>1, <1>2, <2>1, <2>2 DEF PoolInv, PlaceInv, PoolTypeInv, InHands,
       Taking, Early, Pool!Adding
  <2>7. CountInv'
    <3>1. \A b \in Pool!Block :
            Pool!Holders(b)' = Pool!Holders(b) /\ (Counted(b)' <=> Counted(b))
      BY <1>0, <2>1, <2>2 DEF PoolInv, PoolTypeInv, Pool!Holders, Counted, Taking, Late
    <3> QED
      BY <1>1, <3>1 DEF PoolInv, CountInv
  <2>8. LinkInv'
    BY <1>0, <1>1, <2>1, <2>2 DEF PoolInv, PoolTypeInv, LinkInv
  <2> QED
    BY <2>4, <2>5, <2>6, <2>7, <2>8 DEF PoolInv
<1>5. CASE head = seen
  <2>1. th' = [th EXCEPT ![t] = c] /\ head' = n
    BY <1>0, <1>5 DEF Pool!AddSwap, Pool!Goto
  <2>2. c \in ThreadState(Known) /\ c.pc \in {"idle", "none", "getRefs"}
    BY AfterFields
  <2>3. /\ next \in [Pool!Block -> Pool!Block \cup {Null}]
        /\ next[n] = head
    BY <1>0, <1>5 DEF PoolInv, PoolTypeInv, LinkInv
  <2>4. Pool!OnList' = {n} \cup Pool!OnList /\ Pool!Reached(next, next[n]) = Pool!OnList
    <3>1. Pool!Reached(next, n) = {n} \cup Pool!Reached(next, next[n])
      BY <1>0, <2>3, ReachedFirst
    <3> QED
      BY <1>1, <2>1, <2>3, <3>1 DEF Pool!OnList
  <2>5. PoolTypeInv'
    BY <1>0, <1>1, <1>2, <2>1, <2>2, ThreadStep DEF PoolInv, PoolTypeInv
  <2>6. IndexInv'
    BY <1>1, <2>1, <2>2, IndexStep DEF PoolInv
  <2>7. \A u \in Thread, b \in Pool!Block :
          /\ Taking(u, b)' <=> Taking(u, b)
          /\ Early(u, b)' <=> Early(u, b)
          /\ Late(u, b)' <=> Late(u, b) /\ ~(u = t /\ b = n)
          /\ Pool!Adding(u, b)' <=> Pool!Adding(u, b) /\ ~(u = t /\ b = n)
    BY <1>0, <2>1, <2>2 DEF PoolInv, PoolTypeInv, Taking, Early, Late, Pool!Adding
  <2>8. PlaceInv'
    <3>1. n \notin own[t] /\ ~Taking(t, n) /\ \A u \in Thread : InHands(u, n) => u = t
      BY <1>0, <1>3 DEF PoolInv, PlaceInv, Pool!Adding, Taking
    <3>2. \A u \in Thread, b \in Pool!Block :
            InHands(u, b)' <=> InHands(u, b) /\ ~(u = t /\ b = n)
      BY <1>1, <2>7, <3>1 DEF InHands
    <3>3. n \notin Pool!NotHandedOut
      BY <1>0 DEF Known
    <3> QED
      BY <1>0, <1>1, <1>2, <1>3, <2>4, <2>7, <3>1, <3>2, <3>3 DEF PoolInv, PlaceInv
  <2>9. CountInv'
    <3>1. \A b \in Pool!Block : Pool!Holders(b)' = Pool!Holders(b)
      BY <1>0, <2>1, <2>2 DEF PoolInv, PoolTypeInv, Pool!Holders
    <3>2. Late(t, n)
      BY <1>0 DEF Late
    <3>3. \A b \in Pool!Block : Counted(b)' <=> Counted(b)
      BY <1>0, <2>4, <2>7, <3>2 DEF Counted
    <3> QED
      BY <1>1, <3>1, <3>3 DEF PoolInv, CountInv
  <2>10. LinkInv'
    BY <1>0, <1>1, <1>3, <2>1, <2>2, <2>4 DEF PoolInv, PoolTypeInv, LinkInv
  <2> QED
    BY <2>5, <2>6, <2>8, <2>9, <2>10 DEF PoolInv
<1> QED
  BY <1>4, <1>5

\* Taking the list's reference back; the block is added by this or by its last
\* holder.
LEMMA AddUndoStep ==
  ASSUME PoolInv, NEW t \in Thread, Pool!AddUndo(t) PROVE PoolInv'
<1>0. PICK n \in Pool!Block, seen \in Pool!Block \cup {Null}, c \in After(Known) :
        /\ th[t].pc = "addUndo" /\ n \in Known /\ n = th[t].node
        /\ seen = th[t].seen /\ c = th[t].then
  BY Fields, HeadListed DEF PoolInv, PoolTypeInv, Pool!AddUndo, Pool!At
<1>1. InHands(t, n) /\ n \notin Pool!OnList /\ n \notin Pool!NotHandedOut /\ ~should[n]
  BY <1>0 DEF PoolInv, PlaceInv, InHands, Pool!Adding, Early
<1> DEFINE a == [pc |-> "addNext", node |-> n, seen |-> seen, then |-> c]
<1>2. PICK s \in {a, c} :
        /\ th' = [th EXCEPT ![t] = s]
        /\ s = (IF refs[n] = 1 THEN a ELSE c)
        /\ refs' = [refs EXCEPT ![n] = @ - 1] /\ should' = [should EXCEPT ![n] = TRUE]
        /\ UNCHANGED <<index, head, next, live, own>>
  <2>1. [th[t] EXCEPT !.pc = "addNext"] = a
    BY <1>0 DEF PoolInv, PoolTypeInv, ThreadState
  <2> QED
    BY <1>0, <1>1, <2>1 DEF Pool!AddUndo, Pool!Goto
<1>3. /\ Pool!OnList' = Pool!OnList /\ Known' = Known
      /\ Pool!NotHandedOut' = Pool!NotHandedOut
  BY <1>2 DEF Pool!OnList, Known, Pool!NotHandedOut
<1>4. /\ s \in ThreadState(Known)
      /\ s = a => s.pc = "addNext" /\ s.node = n /\ refs[n] = 1
      /\ s # a => s.pc \in {"idle", "none", "getRefs"} /\ refs[n] # 1
  <2>1. a.pc = "addNext" /\ a.node = n /\ a \in ThreadState(Known)
    BY <1>0 DEF ThreadState
  <2>2. c.pc \in {"idle", "none", "getRefs"} /\ c \in ThreadState(Known)
    BY AfterFields
  <2> HIDE DEF a
  <2> QED
    BY <1>2, <2>1, <2>2
<1>5. Late(t, n) /\ Counted(n) /\ refs[n] = Cardinality(Pool!Holders(n)) + 1
  BY <1>0 DEF Late, Counted, PoolInv, CountInv
<1>6. Cardinality(Pool!Holders(n)) \in Nat /\ refs[n] \in Nat /\ refs[n] > 0
  <2>1. Cardinality(Pool!Holders(n)) \in Nat
    BY HolderCounts
  <2> QED
    BY <1>5, <2>1
<1>7. PoolTypeInv'
  BY <1>0, <1>2, <1>3, <1>4, <1>6, ThreadStep DEF PoolInv, PoolTypeInv
<1>8. IndexInv'
  BY <1>2, <1>4, IndexStep DEF PoolInv
<1>9. \A u \in Thread, b \in Pool!Block :
        /\ Taking(u, b)' <=> Taking(u, b)
        /\ Late(u, b)' <=> Late(u, b) /\ ~(u = t /\ b = n)
        /\ Early(u, b)' <=> Early(u, b) \/ (u = t /\ b = n /\ s = a)
        /\ Pool!Adding(u, b)' <=> Pool!Adding(u, b) /\ (u = t /\ b = n => s = a)
  BY <1>0, <1>2, <1>4 DEF PoolInv, PoolTypeInv, Taking, Early, Late, Pool!Adding
<1> HIDE DEF a
<1>10. PlaceInv'
  <2>0. PlaceInv
    BY DEF PoolInv
  <2>1. /\ n \notin own[t] /\ ~Taking(t, n) /\ \A u \in Thread : InHands(u, n) => u = t
    BY <1>0, <1>1, <2>0 DEF PlaceInv, Pool!Adding, Taking
  <2>2. \A u \in Thread, b \in Pool!Block :
          InHands(u, b)' <=> InHands(u, b) /\ (u = t /\ b = n => s = a)
    BY <1>2, <1>9, <2>1 DEF InHands
  <2>3. \A b \in Pool!Block :
          /\ should'[b] <=> (b = n \/ should[b])
          /\ refs'[b] = IF b = n THEN refs[n] - 1 ELSE refs[b]
    BY <1>2 DEF PoolInv, PoolTypeInv
  <2>4. /\ Pool!OnList' \subseteq Known'
        /\ \A u, v \in Thread, b \in Pool!Block :
             InHands(u, b)' /\ InHands(v, b)' => u = v
    BY <1>3, <2>0, <2>2 DEF PlaceInv
  <2>5. ASSUME NEW u \in Thread, NEW b \in Pool!Block
        PROVE  /\ b \in own'[u] => ~Pool!Adding(u, b)' /\ ~Taking(u, b)'
               /\ InHands(u, b)' =>
                    b \notin Pool!NotHandedOut' /\ b \notin Pool!OnList'
               /\ InHands(u, b)' /\ should'[b] => Early(u, b)'
               /\ Early(u, b)' => should'[b] /\ refs'[b] = 0
    <3>1. b \in own'[u] => ~Pool!Adding(u, b)' /\ ~Taking(u, b)'
      BY <1>2, <1>9, <2>0 DEF PlaceInv
    <3>2. InHands(u, b)' => b \notin Pool!NotHandedOut' /\ b \notin Pool!OnList'
      BY <1>3, <2>0, <2>2 DEF PlaceInv
    <3>3. InHands(u, b)' /\ should'[b] => Early(u, b)'
      <4>1. CASE b = n
        BY <1>9, <2>1, <2>2, <4>1
      <4>2. CASE b # n
        BY <1>9, <2>0, <2>2, <2>3, <4>2 DEF PlaceInv
      <4> QED
        BY <4>1, <4>2
    <3>4. Early(u, b)' => should'[b] /\ refs'[b] = 0
      <4>1. CASE b = n
        BY <1>1, <1>4, <1>6, <1>9, <2>0, <2>3, <4>1 DEF PlaceInv
      <4>2. CASE b # n
        BY <1>9, <2>0, <2>3, <4>2 DEF PlaceInv
      <4> QED
        BY <4>1, <4>2
    <3> QED
      BY <3>1, <3>2, <3>3, <3>4
  <2>6. ASSUME NEW b \in Pool!Block
        PROVE  /\ should'[b] => b \notin Pool!NotHandedOut' /\ b \notin Pool!OnList'
               /\ should'[b] /\ refs'[b] = 0 => \E u \in Thread : Pool!Adding(u, b)'
               /\ \/ b \in Pool!NotHandedOut' \/ b \in Pool!OnList' \/ should'[b]
                  \/ \E u \in Thread : InHands(u, b)'
    <3>1. CASE b = n
      <4>1. Pool!Adding(t, n)
        BY <1>0 DEF Pool!Adding
      <4>2. refs'[b] = 0 => Pool!Adding(t, b)'
        BY <1>4, <1>6, <1>9, <2>3, <3>1, <4>1
      <4> QED
        BY <1>1, <1>3, <2>3, <3>1, <4>2
    <3>2. CASE b # n
      BY <1>3, <1>9, <2>0, <2>2, <2>3, <3>2 DEF PlaceInv
    <3> QED
      BY <3>1, <3>2
  <2> QED
    BY <2>4, <2>5, <2>6 DEF PlaceInv
<1>11. CountInv'
  <2>1. \A b \in Pool!Block : Pool!Holders(b)' = Pool!Holders(b)
    BY <1>0, <1>2, <1>4 DEF PoolInv, PoolTypeInv, Pool!Holders
  <2>2. \A u \in Thread : InHands(u, n) => u = t
    BY <1>0, <1>1 DEF PoolInv, PlaceInv
  <2>3. ~Counted(n)'
    <3>1. \A u \in Thread : Taking(u, n) \/ Late(u, n) => u = t
      BY <2>2 DEF InHands, Late, Pool!Adding
    <3> QED
      BY <1>0, <1>1, <1>3, <1>9, <3>1 DEF Counted, Taking
  <2>4. \A b \in Pool!Block : b # n => (Counted(b)' <=> Counted(b))
    BY <1>3, <1>9 DEF Counted
  <2> QED
    BY <1>2, <1>5, <1>6, <2>1, <2>3, <2>4 DEF PoolInv, PoolTypeInv, CountInv
<1>12. LinkInv'
  BY <1>0, <1>2, <1>3, <1>4 DEF PoolInv, PoolTypeInv, LinkInv
<1> QED
  BY <1>7, <1>8, <1>10, <1>11, <1>12 DEF PoolInv

(***************************************************************************)
(* BlockPool: the theorem                                                  *)
(***************************************************************************)
\* The invariant holds at first.
LEMMA PoolStart == Init => PoolInv
<1> SUFFICES ASSUME Init PROVE PoolInv
  OBVIOUS
<1> USE DEF Init, Pool!Init
<1>1. Pool!OnList = {}
  <2>1. next \in [Pool!Block -> Pool!Block \cup {Null}]
    OBVIOUS
  <2> QED
    BY <2>1, ReachedNull DEF Pool!OnList
<1>2. Pool!NotHandedOut = Pool!Block /\ Known = {}
  BY PoolConstants DEF Pool!NotHandedOut, Pool!Pool, Known
<1>3. PoolTypeInv
  BY DEF PoolTypeInv, ThreadState, Pool!Idle
<1>4. IndexInv
  <2>1. {t \in Thread : th[t].pc = "poolAdd"} = {}
    BY DEF Pool!Idle
  <2>2. Cardinality({t \in Thread : th[t].pc = "poolAdd"}) = 0
    BY <2>1, FS_EmptySet
  <2>3. index = 0
    OBVIOUS
  <2> QED
    BY <2>2, <2>3, PoolConstants DEF IndexInv
<1>5. PlaceInv
  BY <1>1, <1>2 DEF PlaceInv, InHands, Taking, Early, Pool!Adding, Pool!Idle
<1>6. CountInv
  <2>1. \A b \in Pool!Block : Pool!Holders(b) = {} /\ ~Counted(b) /\ refs[b] = 0
    BY <1>1 DEF Pool!Holders, Counted, Taking, Late, Pool!Idle
  <2> QED
    BY <2>1, FS_EmptySet DEF CountInv
<1>7. LinkInv
  BY <1>1 DEF LinkInv, Pool!Idle
<1> QED
  BY <1>3, <1>4, <1>5, <1>6, <1>7 DEF PoolInv

\* Every step keeps it.
LEMMA PoolStep == PoolInv /\ [Next]_vars => PoolInv'
<1> SUFFICES ASSUME PoolInv, [Next]_vars PROVE PoolInv'
  OBVIOUS
<1>1. CASE UNCHANGED pool
  BY <1>1 DEF pool, PoolInv, PoolTypeInv, IndexInv, PlaceInv, CountInv, LinkInv,
     Known, Pool!NotHandedOut, Pool!OnList, InHands, Taking, Early, Late, Counted,
     Pool!Adding, Pool!Holders
<1>2. CASE Pool!Next
  BY <1>2, RequisitionStep, PoolAddStep, GetHeadStep, GetRefsStep, GetIncStep,
     GetNextStep, GetSwapStep, GetTakenStep, GetDropStep, CreateStep, AddBlockStep,
     AddHeadStep, AddNextStep, AddRefsStep, AddSwapStep, AddUndoStep
     DEF Pool!Next, Pool!Step
<1> QED
  BY <1>1, <1>2 DEF Next, OfPool, OfHash, OfSmall, OfSearch, OfBulk, OfWalk, OfToken,
     OfBase, Rest, vars

\* The invariant bounds initialBlockPoolIndex and the counts.
LEMMA PoolTypes == PoolInv => Pool!TypeOK
<1> SUFFICES ASSUME PoolInv PROVE Pool!TypeOK
  OBVIOUS
<1>1. index \in 0 .. PoolSize + Cardinality(Thread)
  <2> DEFINE A == {t \in Thread : th[t].pc = "poolAdd"}
  <2>1. Cardinality(A) \in Nat
    BY PoolConstants, FS_Subset, FS_CardinalityType
  <2>2. index + Cardinality(A) <= PoolSize + Cardinality(Thread) /\ index \in Nat
    BY DEF PoolInv, IndexInv, PoolTypeInv
  <2> HIDE DEF A
  <2> QED
    BY <2>1, <2>2, PoolConstants
<1>2. ASSUME NEW b \in Pool!Block
      PROVE  refs[b] \in 0 .. Cardinality(Thread) + 1
  <2>1. Cardinality(Pool!Holders(b)) \in Nat
        /\ Cardinality(Pool!Holders(b)) <= Cardinality(Thread)
    <3>1. Pool!Holders(b) \in SUBSET Thread
      BY DEF Pool!Holders
    <3> QED
      BY <3>1, PoolConstants, FS_Subset, FS_CardinalityType
  <2> QED
    BY <2>1, PoolConstants DEF PoolInv, CountInv
<1>3. refs \in [Pool!Block -> 0 .. Cardinality(Thread) + 1]
  BY <1>2 DEF PoolInv, PoolTypeInv
<1> QED
  BY <1>1, <1>3, PoolFinite DEF Pool!TypeOK, PoolInv, PoolTypeInv

\* A block is in exactly one place.
LEMMA PoolPlaces == PoolInv => Pool!OnePlace
<1> SUFFICES ASSUME PoolInv, NEW b \in Pool!Block
             PROVE  Cardinality({p \in {"pool", "list", "way"} \cup Thread :
                                   b \in CASE p = "pool" -> Pool!NotHandedOut
                                           [] p = "list" -> Pool!OnList
                                           [] p = "way" -> Pool!OnItsWay
                                           [] OTHER -> own[p]}) = 1
  BY PoolFinite DEF Pool!OnePlace
<1> DEFINE At(p) == CASE p = "pool" -> Pool!NotHandedOut
                      [] p = "list" -> Pool!OnList
                      [] p = "way" -> Pool!OnItsWay
                      [] OTHER -> own[p]
           Places == {p \in {"pool", "list", "way"} \cup Thread : b \in At(p)}
<1>1. /\ At("pool") = Pool!NotHandedOut /\ At("list") = Pool!OnList
      /\ At("way") = Pool!OnItsWay
      /\ \A t \in Thread : At(t) = own[t]
  BY Instances DEF Pool!PoolAssumption
<1>2. b \in Pool!OnItsWay <=>
        should[b] \/ \E t \in Thread : Pool!Adding(t, b) \/ Taking(t, b)
  BY DEF Pool!OnItsWay, Taking, Pool!At
<1>3. PlaceInv
  BY DEF PoolInv
<1> HIDE DEF At
<1>4. \E p \in {"pool", "list", "way"} \cup Thread : b \in At(p)
  <2>1. \/ b \in Pool!NotHandedOut \/ b \in Pool!OnList \/ b \in Pool!OnItsWay
        \/ \E t \in Thread : b \in own[t]
    BY <1>2, <1>3 DEF PlaceInv, InHands
  <2>2. b \in At("pool") \/ b \in At("list") \/ b \in At("way")
        \/ \E t \in Thread : b \in At(t)
    BY <1>1, <2>1
  <2> HIDE <1>1
  <2> QED
    BY <2>2
<1>5. b \in Pool!NotHandedOut =>
        /\ b \notin Pool!OnList /\ b \notin Pool!OnItsWay
        /\ \A t \in Thread : b \notin own[t]
  BY <1>2, <1>3 DEF PlaceInv, InHands, Known
<1>6. b \in Pool!OnList =>
        b \notin Pool!OnItsWay /\ \A t \in Thread : b \notin own[t]
  BY <1>2, <1>3 DEF PlaceInv, InHands
<1>7. \A t \in Thread : b \in own[t] =>
        b \notin Pool!OnItsWay /\ \A u \in Thread : b \in own[u] => u = t
  BY <1>2, <1>3 DEF PlaceInv, InHands, Early, Pool!Adding
<1>8. \A p, q \in Places : p = q
  BY <1>1, <1>5, <1>6, <1>7
<1>9. \E p : Places = {p}
  <2>1. PICK p \in {"pool", "list", "way"} \cup Thread : b \in At(p)
    BY <1>4
  <2>2. p \in Places
    BY <2>1
  <2> HIDE DEF Places
  <2>3. Places = {p}
    BY <2>2, <1>8
  <2> QED
    BY <2>3
<1> HIDE DEF Places
<1>10. Cardinality(Places) = 1
  BY <1>9, FS_Singleton
<1> QED
  BY <1>10 DEF Places, At

\* A block that waits to be added has somebody to add it, and the bit is clear
\* otherwise.
LEMMA PoolAdded == PoolInv => Pool!SomebodyAdds /\ Pool!BitClear
<1> SUFFICES ASSUME PoolInv PROVE Pool!SomebodyAdds /\ Pool!BitClear
  OBVIOUS
<1>1. ASSUME NEW b \in Pool!Block, should[b]
      PROVE  \E t \in Thread : Pool!Adding(t, b) \/ t \in Pool!Holders(b)
  <2>1. CASE refs[b] = 0
    BY <1>1, <2>1 DEF PoolInv, PlaceInv
  <2>2. CASE refs[b] # 0 /\ \A t \in Thread : ~Pool!Adding(t, b)
    <3>1. ~Counted(b)
      BY <1>1, <2>2 DEF PoolInv, PlaceInv, Counted, InHands, Early, Late, Pool!Adding
    <3>2. Cardinality(Pool!Holders(b)) # 0
      BY <2>2, <3>1 DEF PoolInv, CountInv
    <3>3. Pool!Holders(b) # {}
      BY <3>2, FS_EmptySet
    <3> QED
      BY <3>3 DEF Pool!Holders
  <2> QED
    BY <2>1, <2>2
<1>2. Pool!BitClear
  <2>1. \A t \in Thread, b \in Pool!Block :
          b \in own[t] \/ Taking(t, b) => ~should[b]
    <3> SUFFICES ASSUME NEW t \in Thread, NEW b \in Pool!Block,
                        b \in own[t] \/ Taking(t, b), should[b]
                 PROVE  FALSE
      OBVIOUS
    <3>1. PlaceInv
      BY DEF PoolInv
    <3>2. Early(t, b)
      BY <3>1 DEF PlaceInv, InHands
    <3>3. ~Taking(t, b) /\ Pool!Adding(t, b)
      BY <3>2 DEF Early, Taking, Pool!Adding
    <3> QED
      BY <3>1, <3>3 DEF PlaceInv
  <2>2. \A t \in Thread : th[t].pc = "getTaken" => th[t].head \in Pool!Block
    BY Fields, HeadListed DEF PoolInv, PoolTypeInv
  <2> QED
    BY <2>1, <2>2 DEF Pool!BitClear, Pool!At, Taking, PoolInv, PoolTypeInv
<1> QED
  BY <1>1, <1>2 DEF Pool!SomebodyAdds

\* No freed block is on the list or remembered by a thread as its head.
LEMMA PoolNotFreed == PoolInv => Pool!NoUseAfterFree
<1> SUFFICES ASSUME PoolInv, NEW b \in Heap \ live
             PROVE  /\ b \notin Pool!OnList
                    /\ \A t \in Thread : "head" \in DOMAIN th[t] => th[t].head # b
  BY DEF Pool!NoUseAfterFree
<1>1. b \in Pool!NotHandedOut /\ b # Null /\ b \notin Known
  BY PoolConstants DEF Pool!NotHandedOut, Known
<1>2. \A s \in ThreadState(Known) : "head" \in DOMAIN s => s.head \in Known \cup {Null}
  BY DEF ThreadState
<1> QED
  BY <1>1, <1>2, HeadListed DEF PoolInv, PoolTypeInv

\* The blocks of a ConcurrentQueue are safe for any number of threads and
\* blocks, whether or not allocated blocks are recycled: FreeList survives the
\* ABA problem by its counts, no block is handed out twice, lost, or freed while
\* a try_get may still look at it.
THEOREM BlocksAreSafe == Spec => []BlocksSafe
<1>1. PoolInv => BlocksSafe
  BY PoolTypes, PoolPlaces, PoolAdded, PoolNotFreed DEF BlocksSafe
<1> QED
  BY <1>1, PoolStart, PoolStep, PTL DEF Spec

(***************************************************************************)
(* ProducerHash: the invariant, for any hash function                      *)
(***************************************************************************)
\* The slots at which a probe for t arrives, in the order of the probe.
SlotOf(H, h, t, k) == (H[t] + k) % h.capacity

\* A probe for t passes no empty slot before slot i.
Passed(H, h, t, n) == \A m \in 0 .. n - 1 : h.key[SlotOf(H, h, t, m)] # Empty
Reachable(H, h, t, i) ==
  \E k \in 0 .. h.capacity - 1 : i = SlotOf(H, h, t, k) /\ Passed(H, h, t, k)
FoundBy(H, h, t) == {i \in 0 .. h.capacity - 1 : Reachable(H, h, t, i) /\ h.key[i] = t}

\* The values of the tables and of the locals.
KeyValue == Thread \cup {Empty, Reusable}
KeyArrays == UNION {[0 .. n - 1 -> KeyValue] : n \in Nat}
ValueArrays == UNION {[0 .. n - 1 -> Nat] : n \in Nat}
HashTable == [capacity : Nat \ {0}, key : KeyArrays, value : ValueArrays]
Searching ==
  {"count", "test", "resize", "unlock", "decide", "walk", "subscribe", "probe"}
HashPlace == Searching \cup {"idle", "copy", "giveup", "uncount", "exit"}
Local == [main : Nat, n : Nat, i : Nat, p : Nat]
HashTypeInv ==
  /\ hash \in Seq(HashTable) /\ Len(hash) >= 1
  /\ \A j \in 1 .. Len(hash) :
       /\ hash[j].key \in [0 .. hash[j].capacity - 1 -> KeyValue]
       /\ hash[j].value \in [0 .. hash[j].capacity - 1 -> Nat]
  /\ count \in Int /\ exits \in Nat
  /\ resizing \in BOOLEAN /\ mutex \in Thread \cup {NoThread}
  /\ inactive \in Seq(BOOLEAN) /\ mine \in [Thread -> Nat]
  /\ pc \in [Thread -> HashPlace] /\ loc \in [Thread -> Local]

\* The resize flag is a lock.
Resizing(t) == pc[t] \in {"resize", "unlock", "giveup"}
ResizeInv ==
  /\ resizing <=> \E t \in Thread : Resizing(t)
  /\ \A t, u \in Thread : Resizing(t) /\ Resizing(u) => t = u

\* implicitProducerHashCount counts a thread from Count on, until it gives up or
\* reuses a slot; otherwise for good, also when it has exited.
Pending == {t \in Thread : pc[t] \in (Searching \ {"count"}) \cup {"uncount"}}
Owning == Pending \cup {t \in Thread : mine[t] # 0 /\ pc[t] # "exit"}
HashCountInv ==
  Cardinality(Pending) <= count /\ count <= Cardinality(Owning) + exits

\* What thread t holds, where it stands.
OwnLocal(t) ==
  /\ mine[t] <= Len(inactive)
  /\ pc[t] \in Searching \cup {"giveup", "uncount"} => mine[t] = 0
  /\ pc[t] \in {"copy", "exit"} => mine[t] # 0
  /\ pc[t] = "copy" => loc[t].p = mine[t]
  /\ pc[t] \in {"subscribe", "probe", "uncount"} => loc[t].p \in 1 .. Len(inactive)
  /\ pc[t] = "walk" => loc[t].i <= Len(inactive)
OwnAt(t) ==
  /\ OwnLocal(t)
  /\ \A p \in Hash!Holds(t) :
       ~inactive[p] /\ \A u \in Thread \ {t} : p \notin Hash!Holds(u)

\* The slots with t's id: a probe gets there, and the producer is t's.
Held(t) == IF pc[t] = "uncount" THEN loc[t].p ELSE mine[t]
KeyAt(H, t) ==
  /\ \A j \in 1 .. Len(hash) : \A i \in 0 .. hash[j].capacity - 1 : hash[j].key[i] = t =>
       /\ Reachable(H, hash[j], t, i) /\ hash[j].value[i] = Held(t) /\ Held(t) # 0
       /\ pc[t] \notin Searching \cup {"giveup"}
       /\ pc[t] = "exit" => j <= loc[t].main
  /\ pc[t] = "uncount" \/ (pc[t] = "idle" /\ mine[t] # 0) =>
       \E j \in 1 .. Len(hash) : \E i \in 0 .. hash[j].capacity - 1 : hash[j].key[i] = t

\* The table a call is at, and the slots it has passed there.
ProbeAt(H, t) ==
  /\ pc[t] \in Searching \cup {"copy"} => loc[t].main \in 1 .. Len(hash)
  /\ pc[t] = "exit" => loc[t].main <= Len(hash)
  /\ pc[t] \in {"copy", "probe"} =>
       loc[t].i >= H[t] /\ Passed(H, hash[loc[t].main], t, loc[t].i - H[t])

HashInv(H) ==
  /\ HashTypeInv /\ ResizeInv /\ HashCountInv
  /\ \A t \in Thread : OwnAt(t) /\ KeyAt(H, t) /\ ProbeAt(H, t)

(***************************************************************************)
(* ProducerHash: slots and counts                                          *)
(***************************************************************************)
\* What the proofs use of the constants.
LEMMA HashConstants ==
  /\ HashOf \in [Thread -> Nat] /\ SmallHashOf \in [Thread -> Nat]
  /\ HASH_SIZE \in Nat \ {0} /\ MaxExits \in Nat
  /\ Empty # Reusable /\ Empty \notin Thread /\ Reusable \notin Thread
  /\ NoThread \notin Thread /\ IsFiniteSet(Thread)
<1>1. Hash!HashAssumption /\ Small!HashAssumption
  BY Instances
<1>2. HashOf \in [Thread -> Nat] /\ HASH_SIZE \in Nat \ {0} /\ MaxExits \in Nat
  BY <1>1 DEF Hash!HashAssumption
<1>3. SmallHashOf \in [Thread -> Nat]
  BY <1>1 DEF Small!HashAssumption
<1>4. Empty # Reusable /\ Thread \cap {Empty, Reusable, NoThread} = {}
  BY <1>1 DEF Hash!HashAssumption
<1> QED
  BY <1>2, <1>3, <1>4, PoolConstants

\* Quotient and remainder are the only numbers of their kind.
LEMMA DivUnique ==
  ASSUME NEW c \in Nat \ {0}, NEW q \in Int, NEW r \in 0 .. c - 1
  PROVE  (c * q + r) \div c = q /\ (c * q + r) % c = r
  OBVIOUS

\* What a quotient and a remainder are.
LEMMA DivMod ==
  ASSUME NEW c \in Nat \ {0}, NEW a \in Int
  PROVE  /\ a \div c \in Int /\ a % c \in 0 .. c - 1
         /\ a = c * (a \div c) + (a % c)
<1>1. a \div c \in Int
  OBVIOUS
<1>2. a % c \in 0 .. c - 1
  OBVIOUS
<1>3. a = c * (a \div c) + (a % c)
  OBVIOUS
<1> QED
  BY <1>1, <1>2, <1>3

\* Multiples of the divisor do not change the remainder.
LEMMA ModShift ==
  ASSUME NEW c \in Nat \ {0}, NEW a \in Int, NEW k \in Int
  PROVE  (a + c * k) % c = a % c
<1> DEFINE r == a % c
<1>1. PICK q \in Int : a = c * q + r
  BY DivMod
<1>2. r \in 0 .. c - 1
  BY DivMod
<1> HIDE DEF r
<1>3. a + c * k = c * (q + k) + r /\ q + k \in Int
  BY <1>1, <1>2
<1>4. (a + c * k) % c = r
  BY <1>2, <1>3, DivUnique
<1> QED
  BY <1>4 DEF r


\* A remainder is a slot.
LEMMA SlotType ==
  ASSUME NEW H \in [Thread -> Nat], NEW h, h.capacity \in Nat \ {0}, NEW t \in Thread,
         NEW k \in Nat
  PROVE  SlotOf(H, h, t, k) \in 0 .. h.capacity - 1
<1>1. H[t] + k \in Int
  OBVIOUS
<1> QED
  BY <1>1, DivMod DEF SlotOf

\* After a whole round the same slots come again.
LEMMA SlotRound ==
  ASSUME NEW H \in [Thread -> Nat], NEW h, h.capacity \in Nat \ {0}, NEW t \in Thread,
         NEW k \in Nat
  PROVE  \E m \in 0 .. h.capacity - 1 :
           m <= k /\ SlotOf(H, h, t, m) = SlotOf(H, h, t, k)
<1>1. PICK c \in Nat \ {0} : c = h.capacity
  OBVIOUS
<1>2. PICK q \in Int, m \in 0 .. c - 1 : k = c * q + m
  <2>1. k \div c \in Int /\ k % c \in 0 .. c - 1 /\ k = c * (k \div c) + (k % c)
    BY DivMod
  <2> QED
    BY <2>1
<1>3. m <= k
  <2>1. CASE q >= 0
    <3>1. c * q >= 0 /\ c * q \in Int
      BY <2>1
    <3> QED
      BY <1>2, <3>1
  <2>2. CASE q <= -1
    <3>1. PICK r \in Nat : q = -1 - r
      BY <2>2
    <3>2. c * r >= 0 /\ c * r \in Int /\ c * q = -c - c * r
      BY <3>1
    <3> QED
      BY <1>2, <3>2
  <2> QED
    BY <2>1, <2>2
<1>4. PICK a \in Int : a = H[t] + m
  OBVIOUS
<1>5. (a + c * q) % c = a % c
  BY ModShift
<1>6. H[t] + k = a + c * q
  <2>1. c * q \in Int
    OBVIOUS
  <2> QED
    BY <1>2, <1>4, <2>1
<1> QED
  BY <1>1, <1>3, <1>4, <1>5, <1>6 DEF SlotOf

\* A probe that has passed n slots without an empty one can get to the next.
LEMMA ProbeReaches ==
  ASSUME NEW H \in [Thread -> Nat], NEW h, h.capacity \in Nat \ {0}, NEW t \in Thread,
         NEW n \in Nat, Passed(H, h, t, n)
  PROVE  Reachable(H, h, t, SlotOf(H, h, t, n))
<1>1. PICK m \in 0 .. h.capacity - 1 :
        m <= n /\ SlotOf(H, h, t, m) = SlotOf(H, h, t, n)
  BY SlotRound
<1>2. Passed(H, h, t, m)
  BY <1>1 DEF Passed
<1> QED
  BY <1>1, <1>2 DEF Reachable

\* The search for an id finds the slots that have it and that a probe reaches.
LEMMA FoundIs ==
  ASSUME NEW h, h.capacity \in Nat \ {0}, NEW t \in Thread
  PROVE  /\ Hash!Found(h, t) = FoundBy(HashOf, h, t)
         /\ Small!Found(h, t) = FoundBy(SmallHashOf, h, t)
<1>1. ASSUME NEW k \in 0 .. h.capacity - 1
      PROVE  /\ SlotOf(HashOf, h, t, k) \in 0 .. h.capacity - 1
             /\ SlotOf(SmallHashOf, h, t, k) \in 0 .. h.capacity - 1
  <2>1. k \in Nat
    OBVIOUS
  <2> QED
    BY <2>1, HashConstants, SlotType
<1>2. \A i : i \in Hash!Found(h, t) <=> i \in FoundBy(HashOf, h, t)
  BY <1>1 DEF Hash!Found, Hash!Probed, FoundBy, Reachable, Passed, SlotOf
<1>3. \A i : i \in Small!Found(h, t) <=> i \in FoundBy(SmallHashOf, h, t)
  BY <1>1 DEF Small!Found, Small!Probed, FoundBy, Reachable, Passed, SlotOf
<1> QED
  BY <1>2, <1>3

\* One thread more or less.
LEMMA CountWithout ==
  ASSUME NEW S \in SUBSET Thread, NEW t \in Thread
  PROVE  /\ IsFiniteSet(S) /\ Cardinality(S) \in Nat /\ Cardinality(S \ {t}) \in Nat
         /\ Cardinality(S) = Cardinality(S \ {t}) + (IF t \in S THEN 1 ELSE 0)
<1>1. IsFiniteSet(S)
  BY HashConstants, FS_Subset
<1>2. Cardinality(S) \in Nat
  BY <1>1, FS_CardinalityType
<1>3. CASE t \in S
  <2>1. IsFiniteSet(S \ {t}) /\ Cardinality(S \ {t}) = Cardinality(S) - 1
    BY <1>1, <1>3, FS_RemoveElement
  <2>2. Cardinality(S \ {t}) \in Nat
    BY <2>1, FS_CardinalityType
  <2> QED
    BY <1>1, <1>2, <1>3, <2>1, <2>2
<1>4. CASE t \notin S
  <2>1. S \ {t} = S
    BY <1>4
  <2> QED
    BY <1>1, <1>2, <1>4, <2>1
<1> QED
  BY <1>3, <1>4

\* The types of a table.
LEMMA TableTypes ==
  ASSUME HashTypeInv, NEW j \in 1 .. Len(hash)
  PROVE  /\ hash[j] \in HashTable /\ hash[j].capacity \in Nat \ {0}
         /\ hash[j].key \in [0 .. hash[j].capacity - 1 -> KeyValue]
         /\ hash[j].value \in [0 .. hash[j].capacity - 1 -> Nat]
<1>1. hash[j] \in HashTable
  BY DEF HashTypeInv
<1>2. \A h \in HashTable : h.capacity \in Nat \ {0}
  BY DEF HashTable
<1> QED
  BY <1>1, <1>2 DEF HashTypeInv

\* The types of where a thread stands.
LEMMA LocalTypes ==
  ASSUME HashTypeInv, NEW t \in Thread
  PROVE  /\ pc[t] \in HashPlace /\ mine[t] \in Nat /\ loc[t] \in Local
         /\ loc[t].main \in Nat /\ loc[t].n \in Nat /\ loc[t].i \in Nat
         /\ loc[t].p \in Nat
<1>1. loc[t] \in Local /\ pc[t] \in HashPlace /\ mine[t] \in Nat
  BY DEF HashTypeInv
<1>2. \A l \in Local : l.main \in Nat /\ l.n \in Nat /\ l.i \in Nat /\ l.p \in Nat
  BY DEF Local
<1> QED
  BY <1>1, <1>2

(***************************************************************************)
(* ProducerHash: what a step of one thread leaves alone                    *)
(***************************************************************************)
\* A step changes no slot of another thread u, and empties none.
Evolves(u) ==
  /\ Len(hash) <= Len(hash')
  /\ \A j \in 1 .. Len(hash) :
       /\ hash'[j].capacity = hash[j].capacity
       /\ \A i \in 0 .. hash[j].capacity - 1 :
            /\ hash[j].key[i] # Empty => hash'[j].key[i] # Empty
            /\ hash'[j].key[i] = u <=> hash[j].key[i] = u
            /\ hash[j].key[i] = u => hash'[j].value[i] = hash[j].value[i]
  /\ \A j \in Len(hash) + 1 .. Len(hash') :
       \A i \in 0 .. hash'[j].capacity - 1 : hash'[j].key[i] # u

\* The flag is kept, or t gets it, or t gives it back.
FlagMoves(t) ==
  \/ resizing' = resizing /\ (Resizing(t)' <=> Resizing(t))
  \/ ~resizing /\ resizing' /\ Resizing(t)'
  \/ resizing' = FALSE /\ Resizing(t) /\ ~Resizing(t)'

\* The count follows what t does.
One(P) == IF P THEN 1 ELSE 0
CountMoves(t) ==
  /\ count - One(t \in Pending) <= count' - One((t \in Pending)')
  /\ count' - exits' - One((t \in Owning)') <= count - exits - One(t \in Owning)

\* What t comes to hold was inactive or is new, and only what t held becomes
\* inactive.
HoldsMoves(t) ==
  /\ Len(inactive) <= Len(inactive')
  /\ \A p \in 1 .. Len(inactive) : inactive'[p] => inactive[p] \/ p \in Hash!Holds(t)
  /\ \A p \in Hash!Holds(t)' :
       /\ p \in 1 .. Len(inactive') /\ ~inactive'[p]
       /\ p \in Hash!Holds(t) \/ p > Len(inactive) \/ inactive[p]

\* A probe gets as far in a table of which no slot was emptied.
LEMMA ReachableKept ==
  ASSUME NEW H \in [Thread -> Nat], HashTypeInv, NEW u \in Thread,
         NEW j \in 1 .. Len(hash), hash'[j].capacity = hash[j].capacity,
         \A i \in 0 .. hash[j].capacity - 1 :
           hash[j].key[i] # Empty => hash'[j].key[i] # Empty
  PROVE  /\ \A n \in Nat : Passed(H, hash[j], u, n) => Passed(H, hash'[j], u, n)
         /\ \A i : Reachable(H, hash[j], u, i) => Reachable(H, hash'[j], u, i)
<1>1. ASSUME NEW n \in Nat, Passed(H, hash[j], u, n)
      PROVE  Passed(H, hash'[j], u, n)
  <2>1. hash[j].capacity \in Nat \ {0}
    BY TableTypes
  <2>2. \A m \in Nat : SlotOf(H, hash[j], u, m) \in 0 .. hash[j].capacity - 1
    BY <2>1, SlotType
  <2>3. \A m : SlotOf(H, hash'[j], u, m) = SlotOf(H, hash[j], u, m)
    BY DEF SlotOf
  <2>4. ASSUME NEW m \in 0 .. n - 1
        PROVE  hash'[j].key[SlotOf(H, hash'[j], u, m)] # Empty
    <3>1. PICK i \in 0 .. hash[j].capacity - 1 : i = SlotOf(H, hash[j], u, m)
      BY <2>2
    <3>2. hash[j].key[i] # Empty
      BY <1>1, <3>1 DEF Passed
    <3> QED
      BY <2>3, <3>1, <3>2
  <2> QED
    BY <2>4 DEF Passed
<1>2. ASSUME NEW i, Reachable(H, hash[j], u, i)
      PROVE  Reachable(H, hash'[j], u, i)
  <2>1. PICK k \in 0 .. hash[j].capacity - 1 :
          i = SlotOf(H, hash[j], u, k) /\ Passed(H, hash[j], u, k)
    BY <1>2 DEF Reachable
  <2>2. Passed(H, hash'[j], u, k)
    <3>1. k \in Nat
      OBVIOUS
    <3> QED
      BY <1>1, <2>1, <3>1
  <2>3. i = SlotOf(H, hash'[j], u, k)
    BY <2>1 DEF SlotOf
  <2> QED
    BY <2>2, <2>3 DEF Reachable
<1> QED
  BY <1>1, <1>2

\* Every other thread's part of the invariant is kept.
LEMMA OthersKeys ==
  ASSUME NEW H \in [Thread -> Nat], HashTypeInv, HashTypeInv', NEW u \in Thread,
         pc'[u] = pc[u], loc'[u] = loc[u], mine'[u] = mine[u], Evolves(u),
         KeyAt(H, u), ProbeAt(H, u)
  PROVE  KeyAt(H, u)' /\ ProbeAt(H, u)'
<1>1. ASSUME NEW j \in 1 .. Len(hash), NEW n \in Nat, Passed(H, hash[j], u, n)
      PROVE  Passed(H, hash'[j], u, n)
  BY <1>1, ReachableKept DEF Evolves
<1>2. ASSUME NEW j \in 1 .. Len(hash), NEW i, Reachable(H, hash[j], u, i)
      PROVE  Reachable(H, hash'[j], u, i)
  BY <1>2, ReachableKept DEF Evolves
<1>3. Len(hash) \in Nat /\ Len(hash') \in Nat /\ Len(hash) <= Len(hash')
  BY DEF HashTypeInv, Evolves
<1>4. Held(u)' = Held(u)
  BY DEF Held
<1>5. KeyAt(H, u)'
  <2>1. ASSUME NEW j \in 1 .. Len(hash'), NEW i \in 0 .. hash'[j].capacity - 1,
               hash'[j].key[i] = u
        PROVE  /\ Reachable(H, hash'[j], u, i) /\ hash'[j].value[i] = Held(u)'
               /\ Held(u)' # 0
               /\ pc'[u] \notin Searching \cup {"giveup"}
               /\ pc'[u] = "exit" => j <= loc'[u].main
    <3>1. j \in 1 .. Len(hash)
      BY <1>3, <2>1 DEF Evolves
    <3>2. /\ i \in 0 .. hash[j].capacity - 1 /\ hash[j].key[i] = u
          /\ hash'[j].value[i] = hash[j].value[i]
      BY <2>1, <3>1 DEF Evolves
    <3>3. /\ Reachable(H, hash[j], u, i) /\ hash[j].value[i] = Held(u) /\ Held(u) # 0
          /\ pc[u] \notin Searching \cup {"giveup"}
          /\ pc[u] = "exit" => j <= loc[u].main
      BY <3>1, <3>2 DEF KeyAt
    <3> QED
      BY <1>2, <1>4, <3>1, <3>2, <3>3
  <2>2. ASSUME pc[u] = "uncount" \/ (pc[u] = "idle" /\ mine[u] # 0)
        PROVE  \E j \in 1 .. Len(hash') : \E i \in 0 .. hash'[j].capacity - 1 :
                 hash'[j].key[i] = u
    <3>1. PICK j \in 1 .. Len(hash) : \E i \in 0 .. hash[j].capacity - 1 : hash[j].key[i] = u
      BY <2>2 DEF KeyAt
    <3>2. j \in 1 .. Len(hash')
      BY <1>3
    <3> QED
      BY <3>1, <3>2 DEF Evolves
  <2> QED
    BY <2>1, <2>2 DEF KeyAt
<1>6. ProbeAt(H, u)'
  <2>1. ASSUME pc[u] \in {"copy", "probe"}
        PROVE  loc[u].i >= H[u] /\ Passed(H, hash'[loc[u].main], u, loc[u].i - H[u])
    <3>1. loc[u].main \in 1 .. Len(hash)
      BY <2>1 DEF ProbeAt, Searching
    <3>2. loc[u].i >= H[u] /\ Passed(H, hash[loc[u].main], u, loc[u].i - H[u])
      BY <2>1 DEF ProbeAt
    <3>3. loc[u].i - H[u] \in Nat
      BY <3>2, LocalTypes
    <3> QED
      BY <1>1, <3>1, <3>2, <3>3
  <2>2. /\ pc[u] \in Searching \cup {"copy"} => loc[u].main \in 1 .. Len(hash')
        /\ pc[u] = "exit" => loc[u].main <= Len(hash')
    BY <1>3, LocalTypes DEF ProbeAt
  <2> QED
    BY <2>1, <2>2 DEF ProbeAt
<1> QED
  BY <1>5, <1>6

\* A thread holds producers that exist, and at most one.
LEMMA HoldsRange ==
  ASSUME HashTypeInv, NEW t \in Thread, OwnLocal(t)
  PROVE  /\ \A p \in Hash!Holds(t) : p \in 1 .. Len(inactive)
         /\ \A p, q \in Hash!Holds(t) : p = q
<1>1. Len(inactive) \in Nat
  BY DEF HashTypeInv
<1> QED
  BY <1>1, LocalTypes DEF OwnLocal, Hash!Holds, Searching

\* The resize flag stays a lock.
LEMMA FlagKept ==
  ASSUME HashTypeInv, ResizeInv, NEW t \in Thread, FlagMoves(t),
         \A u \in Thread \ {t} : pc'[u] = pc[u]
  PROVE  ResizeInv'
<1>1. \A u \in Thread \ {t} : Resizing(u)' <=> Resizing(u)
  BY DEF Resizing
<1>2. CASE resizing' = resizing /\ (Resizing(t)' <=> Resizing(t))
  BY <1>1, <1>2, Zenon DEF ResizeInv
<1>3. CASE ~resizing /\ resizing' /\ Resizing(t)'
  BY <1>1, <1>3, Zenon DEF ResizeInv
<1>4. CASE resizing' = FALSE /\ Resizing(t) /\ ~Resizing(t)'
  BY <1>1, <1>4, Zenon DEF ResizeInv
<1> QED
  BY <1>2, <1>3, <1>4 DEF FlagMoves

\* The count stays between those who must be counted and those who may be.
LEMMA CountKept ==
  ASSUME HashTypeInv, HashTypeInv', HashCountInv, NEW t \in Thread, CountMoves(t),
         \A u \in Thread \ {t} : pc'[u] = pc[u] /\ mine'[u] = mine[u]
  PROVE  HashCountInv'
<1>1. Pending \in SUBSET Thread /\ Owning \in SUBSET Thread
  BY DEF Pending, Owning
<1>2. Pending' \in SUBSET Thread /\ Owning' \in SUBSET Thread
  BY DEF Pending, Owning
<1>3. Pending' \ {t} = Pending \ {t} /\ Owning' \ {t} = Owning \ {t}
  BY DEF Pending, Owning
<1>4. /\ Cardinality(Pending) = Cardinality(Pending \ {t}) + One(t \in Pending)
      /\ Cardinality(Pending \ {t}) \in Nat
  BY <1>1, CountWithout DEF One
<1>5. /\ Cardinality(Owning) = Cardinality(Owning \ {t}) + One(t \in Owning)
      /\ Cardinality(Owning \ {t}) \in Nat
  BY <1>1, CountWithout DEF One
<1>6. Cardinality(Pending') = Cardinality(Pending \ {t}) + One((t \in Pending)')
  BY <1>2, <1>3, CountWithout DEF One
<1>7. Cardinality(Owning') = Cardinality(Owning \ {t}) + One((t \in Owning)')
  BY <1>2, <1>3, CountWithout DEF One
<1>8. /\ One(t \in Pending) \in Nat /\ One(t \in Owning) \in Nat
      /\ One((t \in Pending)') \in Nat /\ One((t \in Owning)') \in Nat
  BY DEF One
<1>9. count \in Int /\ exits \in Int /\ count' \in Int /\ exits' \in Int
  BY DEF HashTypeInv
<1>10. Cardinality(Pending)' <= count'
  BY <1>4, <1>6, <1>8, <1>9 DEF HashCountInv, CountMoves
<1>11. count' <= Cardinality(Owning)' + exits'
  BY <1>5, <1>7, <1>8, <1>9 DEF HashCountInv, CountMoves
<1> QED
  BY <1>10, <1>11 DEF HashCountInv

\* A producer still has one owner.
LEMMA OwnersKept ==
  ASSUME HashTypeInv, HashTypeInv', NEW t \in Thread, \A u \in Thread : OwnAt(u),
         OwnLocal(t)', HoldsMoves(t),
         \A u \in Thread \ {t} : pc'[u] = pc[u] /\ loc'[u] = loc[u] /\ mine'[u] = mine[u]
  PROVE  \A u \in Thread : OwnAt(u)'
<1>1. Len(inactive) \in Nat /\ Len(inactive') \in Nat /\ Len(inactive) <= Len(inactive')
  BY DEF HashTypeInv, HoldsMoves
<1>2. \A u \in Thread \ {t} : Hash!Holds(u)' = Hash!Holds(u)
  BY DEF Hash!Holds
<1>3. \A u \in Thread : \A p \in Hash!Holds(u) : p \in 1 .. Len(inactive)
  BY HoldsRange DEF OwnAt
<1>4. \A u \in Thread \ {t} : \A p \in Hash!Holds(u) :
        p \in 1 .. Len(inactive) /\ ~inactive[p] /\ p \notin Hash!Holds(t)
  BY <1>3 DEF OwnAt
<1>5. \A u \in Thread \ {t} : \A p \in Hash!Holds(u) :
        ~inactive'[p] /\ p \notin Hash!Holds(t)'
  BY <1>1, <1>4 DEF HoldsMoves
<1>6. ASSUME NEW u \in Thread \ {t} PROVE OwnAt(u)'
  <2>1. OwnLocal(u)'
    <3>1. OwnLocal(u)
      BY DEF OwnAt
    <3> QED
      BY <1>1, <3>1, LocalTypes DEF OwnLocal
  <2>2. \A v \in Thread \ {u} : \A p \in Hash!Holds(u)' : p \notin Hash!Holds(v)'
    BY <1>2, <1>5 DEF OwnAt
  <2> QED
    BY <1>2, <1>5, <2>1, <2>2 DEF OwnAt
<1>7. OwnAt(t)'
  <2>1. \A p \in Hash!Holds(t)' : ~inactive'[p]
    BY DEF HoldsMoves
  <2>2. \A u \in Thread \ {t} : \A p \in Hash!Holds(t)' : p \notin Hash!Holds(u)'
    BY <1>2, <1>5
  <2> QED
    BY <2>1, <2>2 DEF OwnAt
<1> QED
  BY <1>6, <1>7

\* What a step of t has to show.
LEMMA HashStep ==
  ASSUME NEW H \in [Thread -> Nat], HashInv(H), NEW t \in Thread, HashTypeInv',
         \A u \in Thread \ {t} :
           pc'[u] = pc[u] /\ loc'[u] = loc[u] /\ mine'[u] = mine[u] /\ Evolves(u),
         FlagMoves(t), CountMoves(t), HoldsMoves(t),
         OwnLocal(t)', KeyAt(H, t)', ProbeAt(H, t)'
  PROVE  HashInv(H)'
<1>1. HashTypeInv /\ ResizeInv /\ HashCountInv
  BY DEF HashInv
<1>2. ResizeInv'
  BY <1>1, FlagKept
<1>3. HashCountInv'
  BY <1>1, CountKept
<1>4. \A u \in Thread : OwnAt(u)'
  BY <1>1, OwnersKept DEF HashInv
<1>5. \A u \in Thread \ {t} : KeyAt(H, u)' /\ ProbeAt(H, u)'
  BY <1>1, OthersKeys DEF HashInv
<1> QED
  BY <1>2, <1>3, <1>4, <1>5 DEF HashInv

\* A thread's place and locals after a step of it.
LEMMA Moved ==
  ASSUME HashTypeInv, NEW t \in Thread, NEW q \in HashPlace, NEW l \in Local,
         Hash!To(t, q, l)
  PROVE  /\ pc' \in [Thread -> HashPlace] /\ loc' \in [Thread -> Local]
         /\ pc'[t] = q /\ loc'[t] = l
         /\ \A u \in Thread \ {t} : pc'[u] = pc[u] /\ loc'[u] = loc[u]
<1>1. pc \in [Thread -> HashPlace] /\ loc \in [Thread -> Local]
  BY DEF HashTypeInv
<1> QED
  BY <1>1 DEF Hash!To

\* Tables that do not change evolve.
LEMMA SameTables ==
  ASSUME HashTypeInv, hash' = hash
  PROVE  \A u : Evolves(u)
<1>1. Len(hash) \in Nat
  BY DEF HashTypeInv
<1> QED
  BY <1>1 DEF Evolves

\* The locals of a call that begins, and those of one that goes on.
LEMMA LocalValues ==
  /\ Hash!Zero \in Local
  /\ Hash!Zero.main = 0 /\ Hash!Zero.n = 0 /\ Hash!Zero.i = 0 /\ Hash!Zero.p = 0
  /\ \A l \in Local, x \in Nat :
       /\ [l EXCEPT !.main = x] \in Local /\ [l EXCEPT !.n = x] \in Local
       /\ [l EXCEPT !.i = x] \in Local /\ [l EXCEPT !.p = x] \in Local
  BY DEF Local, Hash!Zero

\* A step between Count and the insertion, at which t has no slot.
LEMMA SearchMove ==
  ASSUME NEW H \in [Thread -> Nat], HashInv(H), NEW t \in Thread,
         pc[t] \in Searching \cup {"giveup"},
         NEW q \in (Searching \ {"probe"}) \cup {"giveup", "idle"},
         NEW l \in Local, Hash!To(t, q, l), hash' = hash, mine' = mine,
         mutex' = mutex, exits' = exits, count' \in Int, resizing' \in BOOLEAN,
         inactive' \in Seq(BOOLEAN), FlagMoves(t), CountMoves(t), HoldsMoves(t),
         q \in Searching => l.main \in 1 .. Len(hash),
         q = "subscribe" => l.p \in 1 .. Len(inactive'),
         q = "walk" => l.i <= Len(inactive')
  PROVE  HashInv(H)'
<1>1. HashTypeInv /\ OwnAt(t) /\ KeyAt(H, t)
  BY DEF HashInv
<1>2. q \in HashPlace
  BY DEF HashPlace
<1>3. /\ pc' \in [Thread -> HashPlace] /\ loc' \in [Thread -> Local]
      /\ pc'[t] = q /\ loc'[t] = l
      /\ \A u \in Thread \ {t} : pc'[u] = pc[u] /\ loc'[u] = loc[u]
  BY <1>1, <1>2, Moved
<1>4. HashTypeInv'
  BY <1>1, <1>3 DEF HashTypeInv
<1>5. mine'[t] = 0
  BY <1>1 DEF OwnAt, OwnLocal
<1>6. OwnLocal(t)'
  <2>1. Len(inactive') \in Nat
    OBVIOUS
  <2> QED
    BY <1>3, <1>5, <2>1 DEF OwnLocal, Searching
<1>7. \A j \in 1 .. Len(hash) : \A i \in 0 .. hash[j].capacity - 1 : hash[j].key[i] # t
  BY <1>1 DEF KeyAt
<1>8. KeyAt(H, t)'
  BY <1>3, <1>5, <1>7 DEF KeyAt, Searching
<1>9. ProbeAt(H, t)'
  BY <1>3 DEF ProbeAt, Searching
<1>10. \A u : Evolves(u)
  BY <1>1, SameTables
<1> QED
  BY <1>3, <1>4, <1>6, <1>8, <1>9, <1>10, HashStep

\* What an idle or searching thread holds.
LEMMA HoldsAt ==
  ASSUME HashTypeInv, NEW t \in Thread, OwnLocal(t)
  PROVE  /\ pc[t] \in (Searching \ {"subscribe", "probe"}) \cup {"giveup"} =>
              Hash!Holds(t) = {}
         /\ pc[t] \in {"idle", "copy", "exit"} => Hash!Holds(t) = {mine[t]} \ {0}
         /\ pc[t] \in {"subscribe", "probe", "uncount"} => Hash!Holds(t) = {loc[t].p}
<1> USE LocalTypes
<1>1. CASE pc[t] \in (Searching \ {"subscribe", "probe"}) \cup {"giveup"}
  BY <1>1 DEF OwnLocal, Hash!Holds, Searching
<1>2. CASE pc[t] \in {"idle", "copy", "exit"}
  BY <1>2 DEF OwnLocal, Hash!Holds
<1>3. CASE pc[t] \in {"subscribe", "probe", "uncount"}
  BY <1>3 DEF OwnLocal, Hash!Holds, Searching
<1> QED
  BY <1>1, <1>2, <1>3 DEF Searching

(***************************************************************************)
(* ProducerHash: the steps before the insertion                            *)
(***************************************************************************)
\* A thread that holds nothing after a step has taken nothing.
LEMMA NothingTaken ==
  ASSUME HashTypeInv, NEW t \in Thread, inactive' = inactive, mine'[t] = 0,
         pc'[t] \notin {"subscribe", "probe", "uncount", "copy"}
  PROVE  HoldsMoves(t)
<1>1. Hash!Holds(t)' = {}
  BY DEF Hash!Holds
<1>2. Len(inactive) \in Nat
  BY DEF HashTypeInv
<1> QED
  BY <1>1, <1>2 DEF HoldsMoves

\* Where a thread without a producer is counted.
LEMMA PendingAt ==
  ASSUME NEW t \in Thread, mine[t] = 0
  PROVE  /\ t \in Pending <=> pc[t] \in (Searching \ {"count"}) \cup {"uncount"}
         /\ t \in Owning <=> t \in Pending
  BY DEF Pending, Owning

\* The same after a step.
LEMMA PendingNext ==
  ASSUME NEW t \in Thread, mine'[t] = 0
  PROVE  /\ (t \in Pending)' <=> pc'[t] \in (Searching \ {"count"}) \cup {"uncount"}
         /\ (t \in Owning)' <=> (t \in Pending)'
  BY DEF Pending, Owning

\* fetch_add of the count.
LEMMA HashCountStep ==
  ASSUME NEW H \in [Thread -> Nat], HashInv(H), NEW t \in Thread, Hash!Count(t)
  PROVE  HashInv(H)'
<1>1. HashTypeInv /\ OwnLocal(t) /\ ProbeAt(H, t) /\ HashCountInv
  BY DEF HashInv, OwnAt
<1>2. pc[t] = "count" /\ count' = count + 1 /\ count \in Int /\ exits \in Int /\ mine'[t] = 0
  BY <1>1 DEF Hash!Count, OwnLocal, HashTypeInv, Searching
<1>3. count + 1 \in Nat
  <2>1. Pending \in SUBSET Thread
    BY DEF Pending
  <2>2. Cardinality(Pending) \in Nat
    BY <2>1, CountWithout
  <2> QED
    BY <1>1, <1>2, <2>2 DEF HashCountInv
<1> DEFINE l == [loc[t] EXCEPT !.n = count + 1]
<1>4. l \in Local /\ l.main = loc[t].main
  BY <1>1, <1>3, LocalTypes, LocalValues DEF Local
<1>5. Hash!To(t, "test", l)
  BY DEF Hash!Count
<1> HIDE DEF l
<1>6. pc'[t] = "test"
  BY <1>1, <1>4, <1>5, Moved DEF HashPlace, Searching
<1>7. FlagMoves(t)
  BY <1>2, <1>6 DEF FlagMoves, Resizing, Hash!Count
<1>8. mine[t] = 0
  BY <1>1, <1>2 DEF OwnLocal, Searching
<1>9. CountMoves(t)
  BY <1>2, <1>6, <1>8, PendingAt, PendingNext DEF CountMoves, One, Hash!Count, Hash!used, Searching
<1>10. HoldsMoves(t)
  BY <1>1, <1>2, <1>6, NothingTaken DEF Hash!Count
<1>11. l.main \in 1 .. Len(hash)
  BY <1>1, <1>2, <1>4 DEF ProbeAt, Searching
<1>12. /\ hash' = hash /\ mine' = mine /\ mutex' = mutex /\ exits' = exits
       /\ inactive' \in Seq(BOOLEAN) /\ resizing' \in BOOLEAN /\ count' \in Int
  BY <1>1, <1>2 DEF Hash!Count, Hash!used, HashTypeInv
<1>13. /\ "test" \in (Searching \ {"probe"}) \cup {"giveup", "idle"}
       /\ pc[t] \in Searching \cup {"giveup"}
  BY <1>2 DEF Searching
<1> QED
  BY <1>4, <1>5, <1>7, <1>9, <1>10, <1>11, <1>12, <1>13, SearchMove

\* A step that neither counts nor takes anything.
LEMMA SearchStay ==
  ASSUME NEW H \in [Thread -> Nat], HashInv(H), NEW t \in Thread,
         pc[t] \in Searching \ {"count"},
         NEW q \in {"test", "resize", "unlock", "decide", "walk"},
         NEW l \in Local, Hash!To(t, q, l),
         UNCHANGED <<hash, count, inactive, mutex, mine, exits>>,
         resizing' \in BOOLEAN, FlagMoves(t),
         l.main \in 1 .. Len(hash), q = "walk" => l.i <= Len(inactive)
  PROVE  HashInv(H)'
<1>1. HashTypeInv /\ OwnLocal(t)
  BY DEF HashInv, OwnAt
<1>2. q \in HashPlace /\ q \in Searching \ {"probe", "count", "subscribe"}
  BY DEF HashPlace, Searching
<1>3. pc'[t] = q
  BY <1>1, <1>2, Moved
<1>4. mine[t] = 0 /\ mine'[t] = 0
  BY <1>1 DEF OwnLocal
<1>5. CountMoves(t)
  <2>1. (t \in Pending) /\ (t \in Owning) /\ (t \in Pending)' /\ (t \in Owning)'
    BY <1>2, <1>3, <1>4, PendingAt, PendingNext
  <2>2. count \in Int /\ exits \in Int
    BY <1>1 DEF HashTypeInv
  <2> QED
    BY <2>1, <2>2 DEF CountMoves, One
<1>6. HoldsMoves(t)
  BY <1>1, <1>3, <1>4, NothingTaken
<1>7. inactive' \in Seq(BOOLEAN) /\ count' \in Int
  BY <1>1 DEF HashTypeInv
<1>8. /\ q \in (Searching \ {"probe"}) \cup {"giveup", "idle"} /\ q # "subscribe"
      /\ pc[t] \in Searching \cup {"giveup"}
  BY <1>2
<1> QED
  BY <1>5, <1>6, <1>7, <1>8, SearchMove

\* The table of a searching thread.
LEMMA MainTable ==
  ASSUME NEW H \in [Thread -> Nat], HashInv(H), NEW t \in Thread,
         pc[t] \in Searching \cup {"copy"}
  PROVE  loc[t].main \in 1 .. Len(hash)
  BY DEF HashInv, ProbeAt

\* A thread that wants to resize tries to get the lock.
LEMMA HashTestStep ==
  ASSUME NEW H \in [Thread -> Nat], HashInv(H), NEW t \in Thread, Hash!Test(t)
  PROVE  HashInv(H)'
<1>1. HashTypeInv /\ pc[t] = "test"
  BY DEF HashInv, Hash!Test
<1>2. PICK lock \in BOOLEAN :
        /\ lock => ~resizing
        /\ resizing' = (resizing \/ lock)
        /\ Hash!To(t, IF lock THEN "resize" ELSE "decide", loc[t])
  BY DEF Hash!Test
<1>3. resizing \in BOOLEAN /\ resizing' \in BOOLEAN /\ loc[t] \in Local
  BY <1>1, <1>2, LocalTypes DEF HashTypeInv
<1>4. UNCHANGED <<hash, count, inactive, mutex, mine, exits>>
  BY DEF Hash!Test, Hash!used
<1>5. pc[t] \in Searching \ {"count"} /\ loc[t].main \in 1 .. Len(hash)
  BY <1>1, MainTable DEF Searching
<1>6. CASE lock
  <2>1. Hash!To(t, "resize", loc[t]) /\ ~resizing /\ resizing'
    BY <1>2, <1>6
  <2>2. pc'[t] = "resize"
    BY <1>1, <1>3, <2>1, Moved DEF HashPlace, Searching
  <2>3. FlagMoves(t)
    BY <2>1, <2>2 DEF FlagMoves, Resizing
  <2> QED
    BY <1>3, <1>4, <1>5, <2>1, <2>3, SearchStay
<1>7. CASE ~lock
  <2>1. Hash!To(t, "decide", loc[t]) /\ resizing' = resizing
    BY <1>2, <1>3, <1>7
  <2>2. pc'[t] = "decide"
    BY <1>1, <1>3, <2>1, Moved DEF HashPlace, Searching
  <2>3. FlagMoves(t)
    BY <1>1, <2>1, <2>2 DEF FlagMoves, Resizing
  <2> QED
    BY <1>3, <1>4, <1>5, <2>1, <2>3, SearchStay
<1> QED
  BY <1>6, <1>7

\* Less than three quarters full or not.
LEMMA HashDecideStep ==
  ASSUME NEW H \in [Thread -> Nat], HashInv(H), NEW t \in Thread, Hash!Decide(t)
  PROVE  HashInv(H)'
<1>1. HashTypeInv /\ pc[t] = "decide" /\ resizing' = resizing
  BY DEF HashInv, Hash!Decide
<1>2. resizing' \in BOOLEAN /\ loc[t] \in Local /\ Len(inactive) \in Nat
      /\ Len(hash) \in 1 .. Len(hash) /\ Len(hash) \in Nat
  BY <1>1, LocalTypes DEF HashTypeInv
<1>3. UNCHANGED <<hash, count, inactive, mutex, mine, exits>>
  BY DEF Hash!Decide, Hash!used
<1>4. pc[t] \in Searching \ {"count"} /\ loc[t].main \in 1 .. Len(hash)
  BY <1>1, MainTable DEF Searching
<1>5. ASSUME NEW q \in {"test", "walk"}, NEW l \in Local, Hash!To(t, q, l)
      PROVE  FlagMoves(t)
  <2>1. pc'[t] = q
    BY <1>1, <1>5, Moved DEF HashPlace, Searching
  <2> QED
    BY <1>1, <2>1 DEF FlagMoves, Resizing
<1>6. CASE Hash!To(t, "walk", [loc[t] EXCEPT !.i = Len(inactive)])
  <2> DEFINE l == [loc[t] EXCEPT !.i = Len(inactive)]
  <2>1. l \in Local
    BY <1>2, LocalValues
  <2>2. l.main = loc[t].main /\ l.i = Len(inactive)
    BY <1>2 DEF Local
  <2> HIDE DEF l
  <2>3. Hash!To(t, "walk", l)
    BY <1>6 DEF l
  <2> QED
    BY <1>2, <1>3, <1>4, <1>5, <2>1, <2>2, <2>3, SearchStay
<1>7. CASE Hash!To(t, "test", [loc[t] EXCEPT !.main = Len(hash)])
  <2> DEFINE l == [loc[t] EXCEPT !.main = Len(hash)]
  <2>1. l \in Local
    BY <1>2, LocalValues
  <2>2. l.main = Len(hash)
    BY <1>2 DEF Local
  <2> HIDE DEF l
  <2>3. Hash!To(t, "test", l)
    BY <1>7 DEF l
  <2> QED
    BY <1>2, <1>3, <1>4, <1>5, <2>1, <2>2, <2>3, SearchStay
<1> QED
  BY <1>6, <1>7 DEF Hash!Decide

\* A call that fails for lack of memory uncounts itself.
LEMMA FailMove ==
  ASSUME NEW H \in [Thread -> Nat], HashInv(H), NEW t \in Thread,
         pc[t] \in Searching \ {"count"}, NEW q \in {"giveup", "idle"},
         Hash!To(t, q, Hash!Zero), count' = count - 1, FlagMoves(t),
         UNCHANGED <<hash, resizing, inactive, mutex, mine, exits>>
  PROVE  HashInv(H)'
<1>1. HashTypeInv /\ OwnLocal(t)
  BY DEF HashInv, OwnAt
<1>2. q \in HashPlace /\ q \notin Searching
  BY DEF HashPlace, Searching
<1>3. pc'[t] = q
  BY <1>1, <1>2, LocalValues, Moved
<1>4. mine[t] = 0 /\ mine'[t] = 0
  BY <1>1 DEF OwnLocal
<1>5. CountMoves(t)
  <2>1. (t \in Pending) /\ (t \in Owning)
    BY <1>4, PendingAt
  <2>2. ~(t \in Pending)' /\ ~(t \in Owning)'
    BY <1>2, <1>3, <1>4, PendingNext
  <2>3. count \in Int /\ exits \in Int
    BY <1>1 DEF HashTypeInv
  <2> QED
    BY <2>1, <2>2, <2>3 DEF CountMoves, One
<1>6. HoldsMoves(t)
  BY <1>1, <1>3, <1>4, NothingTaken
<1>7. inactive' \in Seq(BOOLEAN) /\ count' \in Int /\ resizing' \in BOOLEAN
  BY <1>1 DEF HashTypeInv
<1>8. /\ q \in (Searching \ {"probe"}) \cup {"giveup", "idle"} /\ q # "subscribe"
      /\ q # "walk" /\ q \notin Searching /\ pc[t] \in Searching \cup {"giveup"}
  BY <1>2
<1> QED
  BY <1>5, <1>6, <1>7, <1>8, LocalValues, SearchMove

\* No memory for a larger table.
LEMMA HashResizeFailsStep ==
  ASSUME NEW H \in [Thread -> Nat], HashInv(H), NEW t \in Thread, Hash!ResizeFails(t)
  PROVE  HashInv(H)'
<1>1. HashTypeInv /\ pc[t] = "resize" /\ Hash!To(t, "giveup", Hash!Zero)
  BY DEF HashInv, Hash!ResizeFails
<1>2. pc'[t] = "giveup"
  BY <1>1, LocalValues, Moved DEF HashPlace
<1>3. FlagMoves(t)
  BY <1>1, <1>2 DEF FlagMoves, Resizing, Hash!ResizeFails
<1>4. /\ UNCHANGED <<hash, resizing, inactive, mutex, mine, exits>> /\ count' = count - 1
      /\ pc[t] \in Searching \ {"count"}
  BY <1>1 DEF Hash!ResizeFails, Searching
<1> QED
  BY <1>1, <1>3, <1>4, FailMove

\* No memory for a producer.
LEMMA HashCreateFailsStep ==
  ASSUME NEW H \in [Thread -> Nat], HashInv(H), NEW t \in Thread, Hash!CreateFails(t)
  PROVE  HashInv(H)'
<1>1. HashTypeInv /\ pc[t] = "walk" /\ Hash!To(t, "idle", Hash!Zero)
  BY DEF HashInv, Hash!CreateFails
<1>2. pc'[t] = "idle"
  BY <1>1, LocalValues, Moved DEF HashPlace
<1>3. FlagMoves(t)
  BY <1>1, <1>2 DEF FlagMoves, Resizing, Hash!CreateFails
<1>4. /\ UNCHANGED <<hash, resizing, inactive, mutex, mine, exits>> /\ count' = count - 1
      /\ pc[t] \in Searching \ {"count"}
  BY <1>1 DEF Hash!CreateFails, Searching
<1> QED
  BY <1>1, <1>3, <1>4, FailMove

\* The lock is given back, after a resize and after a failure.
LEMMA HashUnlockStep ==
  ASSUME NEW H \in [Thread -> Nat], HashInv(H), NEW t \in Thread, Hash!Unlock(t)
  PROVE  HashInv(H)'
<1>1. HashTypeInv /\ OwnLocal(t) /\ loc[t] \in Local /\ resizing' = FALSE
  BY LocalTypes DEF HashInv, OwnAt, Hash!Unlock
<1>2. UNCHANGED <<hash, count, inactive, mutex, mine, exits>>
  BY DEF Hash!Unlock, Hash!used
<1>3. CASE pc[t] = "unlock"
  <2>1. Hash!To(t, "decide", loc[t])
    BY <1>3 DEF Hash!Unlock
  <2>2. pc'[t] = "decide"
    BY <1>1, <2>1, Moved DEF HashPlace, Searching
  <2>3. FlagMoves(t)
    BY <1>1, <1>3, <2>2 DEF FlagMoves, Resizing
  <2>4. pc[t] \in Searching \ {"count"} /\ loc[t].main \in 1 .. Len(hash)
    BY <1>3, MainTable DEF Searching
  <2> QED
    BY <1>1, <1>2, <2>1, <2>3, <2>4, SearchStay
<1>4. CASE pc[t] = "giveup"
  <2>1. Hash!To(t, "idle", loc[t])
    BY <1>4 DEF Hash!Unlock
  <2>2. pc'[t] = "idle"
    BY <1>1, <2>1, Moved DEF HashPlace
  <2>3. FlagMoves(t)
    BY <1>1, <1>4, <2>2 DEF FlagMoves, Resizing
  <2>4. mine[t] = 0 /\ mine'[t] = 0
    BY <1>1, <1>2, <1>4 DEF OwnLocal
  <2>5. HoldsMoves(t)
    BY <1>1, <1>2, <2>2, <2>4, NothingTaken
  <2>6. CountMoves(t)
    <3>1. t \notin Pending /\ t \notin Owning
      BY <1>4, <2>4, PendingAt DEF Searching
    <3>2. ~(t \in Pending)' /\ ~(t \in Owning)'
      BY <2>2, <2>4, PendingNext DEF Searching
    <3>3. count \in Int /\ exits \in Int
      BY <1>1 DEF HashTypeInv
    <3> QED
      BY <1>2, <3>1, <3>2, <3>3 DEF CountMoves, One
  <2>7. inactive' \in Seq(BOOLEAN) /\ count' \in Int /\ resizing' \in BOOLEAN
    BY <1>1, <1>2 DEF HashTypeInv
  <2>8. /\ "idle" \in (Searching \ {"probe"}) \cup {"giveup", "idle"}
        /\ "idle" \notin Searching /\ pc[t] \in Searching \cup {"giveup"}
    BY <1>4 DEF Searching
  <2> QED
    BY <1>1, <1>2, <2>1, <2>3, <2>5, <2>6, <2>7, <2>8, SearchMove
<1> QED
  BY <1>3, <1>4 DEF Hash!Unlock

\* A producer is taken: one that was inactive, or a new one.
LEMMA TakeMove ==
  ASSUME NEW H \in [Thread -> Nat], HashInv(H), NEW t \in Thread, pc[t] = "walk",
         NEW p \in 1 .. Len(inactive'),
         Hash!To(t, "subscribe", [loc[t] EXCEPT !.p = p]),
         UNCHANGED <<hash, count, resizing, mutex, mine, exits>>,
         inactive' \in Seq(BOOLEAN), Len(inactive) <= Len(inactive'), ~inactive'[p],
         \A r \in 1 .. Len(inactive) : inactive'[r] => inactive[r],
         p > Len(inactive) \/ inactive[p]
  PROVE  HashInv(H)'
<1>1. HashTypeInv /\ OwnLocal(t) /\ loc[t] \in Local /\ p \in Nat
  BY LocalTypes DEF HashInv, OwnAt
<1> DEFINE l == [loc[t] EXCEPT !.p = p]
<1>2. l \in Local /\ l.p = p /\ l.main = loc[t].main
  BY <1>1, LocalValues DEF Local
<1>3. Hash!To(t, "subscribe", l)
  OBVIOUS
<1> HIDE DEF l
<1>4. pc'[t] = "subscribe" /\ loc'[t] = l
  BY <1>1, <1>2, <1>3, Moved DEF HashPlace, Searching
<1>5. mine[t] = 0 /\ mine'[t] = 0
  BY <1>1 DEF OwnLocal, Searching
<1>6. FlagMoves(t)
  BY <1>4 DEF FlagMoves, Resizing
<1>7. HoldsMoves(t)
  <2>1. Hash!Holds(t)' = {p}
    BY <1>1, <1>2, <1>4, <1>5 DEF Hash!Holds
  <2> QED
    BY <2>1 DEF HoldsMoves
<1>8. CountMoves(t)
  <2>1. (t \in Pending) /\ (t \in Owning) /\ (t \in Pending)' /\ (t \in Owning)'
    BY <1>4, <1>5, PendingAt, PendingNext DEF Searching
  <2>2. count \in Int /\ exits \in Int
    BY <1>1 DEF HashTypeInv
  <2> QED
    BY <2>1, <2>2 DEF CountMoves, One
<1>9. count' \in Int /\ resizing' \in BOOLEAN
  BY <1>1 DEF HashTypeInv
<1>10. /\ "subscribe" \in (Searching \ {"probe"}) \cup {"giveup", "idle"}
       /\ pc[t] \in Searching \cup {"giveup"} /\ loc[t].main \in 1 .. Len(hash)
  BY MainTable DEF Searching
<1> QED
  BY <1>2, <1>3, <1>6, <1>7, <1>8, <1>9, <1>10, SearchMove

\* A new producer is pushed on the list.
LEMMA HashCreateStep ==
  ASSUME NEW H \in [Thread -> Nat], HashInv(H), NEW t \in Thread, Hash!Create(t)
  PROVE  HashInv(H)'
<1>1. inactive \in Seq(BOOLEAN) /\ Len(inactive) \in Nat
  BY DEF HashInv, HashTypeInv
<1>2. inactive' = Append(inactive, FALSE) /\ pc[t] = "walk"
  BY DEF Hash!Create
<1>3. /\ inactive' \in Seq(BOOLEAN) /\ Len(inactive') = Len(inactive) + 1
      /\ inactive'[Len(inactive) + 1] = FALSE
      /\ \A r \in 1 .. Len(inactive) : inactive'[r] = inactive[r]
  BY <1>1, <1>2
<1>4. UNCHANGED <<hash, count, resizing, mutex, mine, exits>>
  BY DEF Hash!Create, Hash!used
<1> DEFINE p == Len(inactive) + 1
<1>5. Hash!To(t, "subscribe", [loc[t] EXCEPT !.p = p])
  BY DEF Hash!Create
<1>6. p \in 1 .. Len(inactive') /\ p > Len(inactive) /\ ~inactive'[p]
      /\ Len(inactive) <= Len(inactive')
  BY <1>1, <1>3
<1>7. \A r \in 1 .. Len(inactive) : inactive'[r] => inactive[r]
  BY <1>3
<1> HIDE DEF p
<1> QED
  BY <1>2, <1>3, <1>4, <1>5, <1>6, <1>7, TakeMove

\* The next producer of the list is tried.
LEMMA HashWalkStep ==
  ASSUME NEW H \in [Thread -> Nat], HashInv(H), NEW t \in Thread, Hash!Walk(t)
  PROVE  HashInv(H)'
<1>1. /\ HashTypeInv /\ inactive \in Seq(BOOLEAN) /\ Len(inactive) \in Nat
      /\ loc[t] \in Local /\ loc[t].i \in Nat
  BY LocalTypes DEF HashInv, HashTypeInv
<1>2. pc[t] = "walk" /\ loc[t].i > 0 /\ loc[t].i <= Len(inactive)
  <2>1. pc[t] = "walk" /\ loc[t].i > 0
    BY DEF Hash!Walk
  <2> QED
    BY <2>1 DEF HashInv, OwnAt, OwnLocal
<1>3. UNCHANGED <<hash, count, resizing, mutex, mine, exits>>
  BY DEF Hash!Walk, Hash!used
<1>4. PICK p \in 1 .. Len(inactive) : p = loc[t].i
  BY <1>1, <1>2
<1>5. CASE inactive[p]
  <2>1. /\ inactive' = [inactive EXCEPT ![p] = FALSE]
        /\ Hash!To(t, "subscribe", [loc[t] EXCEPT !.p = p])
    BY <1>4, <1>5 DEF Hash!Walk
  <2>2. /\ inactive' \in Seq(BOOLEAN) /\ Len(inactive') = Len(inactive)
        /\ inactive'[p] = FALSE
        /\ \A r \in 1 .. Len(inactive) : inactive'[r] => inactive[r]
    <3>1. inactive \in [1 .. Len(inactive) -> BOOLEAN]
      BY <1>1
    <3>2. inactive' \in Seq(BOOLEAN) /\ Len(inactive') = Len(inactive)
      BY <1>1, <2>1
    <3>3. \A r \in 1 .. Len(inactive) : inactive'[r] = IF r = p THEN FALSE ELSE inactive[r]
      BY <2>1, <3>1
    <3> QED
      BY <3>2, <3>3
  <2> QED
    BY <1>1, <1>2, <1>3, <1>5, <2>1, <2>2, TakeMove
<1>6. CASE ~inactive[p]
  <2> DEFINE l == [loc[t] EXCEPT !.i = p - 1]
  <2>1. inactive' = inactive /\ Hash!To(t, "walk", l)
    BY <1>4, <1>6 DEF Hash!Walk
  <2>2. l \in Local
    <3>1. p - 1 \in Nat
      OBVIOUS
    <3> QED
      BY <1>1, <3>1, LocalValues
  <2>3. l.main = loc[t].main /\ l.i <= Len(inactive)
    BY <1>1 DEF Local
  <2> HIDE DEF l
  <2>4. pc'[t] = "walk"
    BY <1>1, <2>1, <2>2, Moved DEF HashPlace, Searching
  <2>5. FlagMoves(t) /\ resizing' \in BOOLEAN
    BY <1>1, <1>2, <1>3, <2>4 DEF FlagMoves, Resizing, HashTypeInv
  <2>6. pc[t] \in Searching \ {"count"} /\ loc[t].main \in 1 .. Len(hash)
    BY <1>2, MainTable DEF Searching
  <2> QED
    BY <1>3, <2>1, <2>2, <2>3, <2>5, <2>6, SearchStay
<1> QED
  BY <1>5, <1>6

(***************************************************************************)
(* ProducerHash: the steps that change a table                             *)
(***************************************************************************)
\* A larger table is put before the others, or one is there already.
LEMMA HashResizeStep ==
  ASSUME NEW H \in [Thread -> Nat], HashInv(H), NEW t \in Thread, Hash!Resize(t)
  PROVE  HashInv(H)'
<1>1. /\ HashTypeInv /\ OwnLocal(t) /\ KeyAt(H, t) /\ loc[t] \in Local
      /\ hash \in Seq(HashTable) /\ Len(hash) \in Nat /\ Len(hash) >= 1
  <2>1. HashTypeInv /\ OwnLocal(t) /\ KeyAt(H, t)
    BY DEF HashInv, OwnAt
  <2>2. hash \in Seq(HashTable) /\ Len(hash) \in Nat /\ Len(hash) >= 1
    BY <2>1 DEF HashTypeInv
  <2> QED
    BY <2>1, <2>2, LocalTypes
<1>2. pc[t] = "resize" /\ UNCHANGED <<count, resizing, inactive, mutex, mine, exits>>
  BY DEF Hash!Resize, Hash!used
<1>3. pc[t] \in Searching \ {"count"} /\ loc[t].main \in 1 .. Len(hash)
  BY <1>2, MainTable DEF Searching
<1>4. ASSUME NEW l \in Local, Hash!To(t, "unlock", l)
      PROVE  pc'[t] = "unlock" /\ FlagMoves(t)
  <2>1. pc'[t] = "unlock"
    BY <1>1, <1>4, Moved DEF HashPlace, Searching
  <2> QED
    BY <1>2, <2>1 DEF FlagMoves, Resizing
<1>5. CASE hash' = hash /\ Hash!To(t, "unlock", [loc[t] EXCEPT !.main = Len(hash)])
  <2> DEFINE l == [loc[t] EXCEPT !.main = Len(hash)]
  <2>1. l \in Local /\ l.main = Len(hash)
    BY <1>1, LocalValues DEF Local
  <2>2. Hash!To(t, "unlock", l)
    BY <1>5
  <2> HIDE DEF l
  <2>3. resizing' \in BOOLEAN /\ l.main \in 1 .. Len(hash)
    BY <1>1, <1>2, <2>1 DEF HashTypeInv
  <2> QED
    BY <1>2, <1>3, <1>4, <1>5, <2>1, <2>2, <2>3, SearchStay
<1>6. ASSUME NEW c \in Nat \ {0}, hash' = Append(hash, Hash!Table(c)),
             Hash!To(t, "unlock", [loc[t] EXCEPT !.main = Len(hash) + 1])
      PROVE  HashInv(H)'
  <2> DEFINE l == [loc[t] EXCEPT !.main = Len(hash) + 1]
  <2>1. l \in Local /\ l.main = Len(hash) + 1
    <3>1. Len(hash) + 1 \in Nat
      BY <1>1
    <3>2. l \in Local
      BY <1>1, <3>1, LocalValues
    <3> QED
      BY <1>1, <3>2 DEF Local
  <2>2. Hash!To(t, "unlock", l)
    BY <1>6
  <2> HIDE DEF l
  <2>3. /\ pc' \in [Thread -> HashPlace] /\ loc' \in [Thread -> Local]
        /\ pc'[t] = "unlock" /\ loc'[t] = l
        /\ \A u \in Thread \ {t} : pc'[u] = pc[u] /\ loc'[u] = loc[u]
    BY <1>1, <2>1, <2>2, Moved DEF HashPlace, Searching
  <2>4. /\ Hash!Table(c) \in HashTable /\ Hash!Table(c).capacity = c
        /\ Hash!Table(c).key \in [0 .. c - 1 -> KeyValue]
        /\ Hash!Table(c).value \in [0 .. c - 1 -> Nat]
        /\ \A i \in 0 .. c - 1 : Hash!Table(c).key[i] = Empty
    <3> DEFINE k == [i \in 0 .. c - 1 |-> Empty]
               v == [i \in 0 .. c - 1 |-> 0]
    <3>1. k \in [0 .. c - 1 -> KeyValue] /\ v \in [0 .. c - 1 -> Nat]
      BY DEF KeyValue
    <3>2. Hash!Table(c) = [capacity |-> c, key |-> k, value |-> v]
      BY DEF Hash!Table
    <3>3. \A i \in 0 .. c - 1 : k[i] = Empty
      OBVIOUS
    <3> HIDE DEF k, v
    <3>4. k \in KeyArrays /\ v \in ValueArrays
      BY <3>1 DEF KeyArrays, ValueArrays
    <3> QED
      BY <3>1, <3>2, <3>3, <3>4 DEF HashTable
  <2>5. /\ hash' \in Seq(HashTable) /\ Len(hash') = Len(hash) + 1
        /\ \A j \in 1 .. Len(hash) : hash'[j] = hash[j]
        /\ hash'[Len(hash) + 1] = Hash!Table(c)
    BY <1>1, <1>6, <2>4
  <2>6. HashTypeInv'
    <3>1. ASSUME NEW j \in 1 .. Len(hash')
          PROVE  /\ hash'[j].key \in [0 .. hash'[j].capacity - 1 -> KeyValue]
                 /\ hash'[j].value \in [0 .. hash'[j].capacity - 1 -> Nat]
      <4>1. CASE j \in 1 .. Len(hash)
        BY <1>1, <2>5, <4>1 DEF HashTypeInv
      <4>2. CASE j = Len(hash) + 1
        BY <2>4, <2>5, <4>2
      <4> QED
        BY <1>1, <2>5, <4>1, <4>2
    <3>2. Len(hash') >= 1
      BY <1>1, <2>5
    <3> QED
      BY <1>1, <1>2, <2>3, <2>5, <3>1, <3>2 DEF HashTypeInv
  <2>7. \A u \in Thread : Evolves(u)
    <3> SUFFICES ASSUME NEW u \in Thread PROVE Evolves(u)
      OBVIOUS
    <3>1. ASSUME NEW j \in Len(hash) + 1 .. Len(hash'), NEW i \in 0 .. hash'[j].capacity - 1
          PROVE  hash'[j].key[i] # u
      <4>1. j = Len(hash) + 1
        BY <1>1, <2>5
      <4> QED
        BY <2>4, <2>5, <4>1, HashConstants
    <3> QED
      BY <1>1, <2>5, <3>1 DEF Evolves
  <2>8. mine[t] = 0 /\ mine'[t] = 0 /\ mine' = mine
    BY <1>1, <1>2, <1>3 DEF OwnLocal
  <2>9. HoldsMoves(t)
    BY <1>1, <1>2, <2>3, <2>8, NothingTaken
  <2>10. CountMoves(t)
    <3>1. (t \in Pending) /\ (t \in Owning) /\ (t \in Pending)' /\ (t \in Owning)'
      BY <1>2, <2>3, <2>8, PendingAt, PendingNext DEF Searching
    <3>2. count \in Int /\ exits \in Int
      BY <1>1 DEF HashTypeInv
    <3> QED
      BY <1>2, <3>1, <3>2 DEF CountMoves, One
  <2>11. OwnLocal(t)'
    <3>1. Len(inactive') \in Nat
      BY <1>1, <1>2 DEF HashTypeInv
    <3> QED
      BY <2>3, <2>8, <3>1 DEF OwnLocal, Searching
  <2>12. KeyAt(H, t)'
    <3>1. \A j \in 1 .. Len(hash') : \A i \in 0 .. hash'[j].capacity - 1 : hash'[j].key[i] # t
      <4>1. \A j \in 1 .. Len(hash) : \A i \in 0 .. hash[j].capacity - 1 : hash[j].key[i] # t
        BY <1>1, <1>3 DEF KeyAt
      <4>2. \A i \in 0 .. c - 1 : hash'[Len(hash) + 1].key[i] # t
        BY <2>4, <2>5, HashConstants
      <4>3. \A j \in 1 .. Len(hash') : j \in 1 .. Len(hash) \/ j = Len(hash) + 1
        BY <1>1, <2>5
      <4>4. hash'[Len(hash) + 1].capacity = c
        BY <2>4, <2>5
      <4> QED
        BY <2>5, <4>1, <4>2, <4>3, <4>4
    <3> QED
      BY <2>3, <3>1 DEF KeyAt
  <2>13. ProbeAt(H, t)'
    BY <1>1, <2>1, <2>3, <2>5 DEF ProbeAt, Searching
  <2> QED
    BY <1>4, <2>1, <2>2, <2>3, <2>6, <2>7, <2>8, <2>9, <2>10, <2>11, <2>12, <2>13, HashStep
<1>7. CASE loc[t].n >= Hash!Half(hash[Len(hash)])
  <2> DEFINE last == hash[Len(hash)]
  <2>1. PICK c \in Hash!NewCapacity(last, loc[t].n) : hash' = Append(hash, Hash!Table(c))
    BY <1>7 DEF Hash!Resize
  <2>2. c \in Nat \ {0}
    <3>1. last.capacity \in Nat \ {0}
      BY <1>1, TableTypes
    <3>2. loc[t].n \in Nat
      BY <1>1, LocalTypes
    <3>3. c \in 2 * last.capacity .. 4 * (loc[t].n + last.capacity)
      BY <2>1 DEF Hash!NewCapacity
    <3> QED
      BY <3>1, <3>2, <3>3
  <2> QED
    BY <1>6, <1>7, <2>1, <2>2 DEF Hash!Resize
<1>8. CASE ~(loc[t].n >= Hash!Half(hash[Len(hash)]))
  BY <1>5, <1>8 DEF Hash!Resize
<1> QED
  BY <1>7, <1>8

\* An id and its producer are put in a slot.
LEMMA PutIs ==
  ASSUME HashTypeInv, NEW t \in Thread, NEW m \in 1 .. Len(hash), m = loc[t].main,
         NEW s \in 0 .. hash[m].capacity - 1, s = Hash!Slot(t), Hash!Put(t)
  PROVE  /\ hash' \in Seq(HashTable) /\ Len(hash') = Len(hash)
         /\ \A j \in 1 .. Len(hash) : j # m => hash'[j] = hash[j]
         /\ hash'[m].capacity = hash[m].capacity
         /\ hash'[m].key = [hash[m].key EXCEPT ![s] = t]
         /\ hash'[m].value = [hash[m].value EXCEPT ![s] = loc[t].p]
<1>1. hash \in Seq(HashTable)
  BY DEF HashTypeInv
<1> DEFINE h == hash[m]
           k == [h.key EXCEPT ![s] = t]
           v == [h.value EXCEPT ![s] = loc[t].p]
<1>2. /\ h \in HashTable /\ h.capacity \in Nat \ {0}
      /\ h.key \in [0 .. h.capacity - 1 -> KeyValue]
      /\ h.value \in [0 .. h.capacity - 1 -> Nat]
  BY TableTypes
<1>3. k \in KeyArrays /\ v \in ValueArrays
  <2>1. t \in KeyValue /\ loc[t].p \in Nat
    BY LocalTypes DEF KeyValue
  <2>2. k \in [0 .. h.capacity - 1 -> KeyValue] /\ v \in [0 .. h.capacity - 1 -> Nat]
    BY <1>2, <2>1
  <2> HIDE DEF k, v
  <2> QED
    BY <1>2, <2>2 DEF KeyArrays, ValueArrays
<1>4. hash' = [hash EXCEPT ![m].key[s] = t, ![m].value[s] = loc[t].p]
  BY DEF Hash!Put
<1>5. hash' = [hash EXCEPT ![m] = [h EXCEPT !.key = k, !.value = v]]
  <2>1. "key" \in DOMAIN h /\ "value" \in DOMAIN h /\ m \in DOMAIN hash
    BY <1>1, <1>2 DEF HashTable
  <2> QED
    BY <1>1, <1>2, <1>4, <2>1 DEF HashTable
<1> HIDE DEF k, v
<1>6. /\ [h EXCEPT !.key = k, !.value = v] \in HashTable
      /\ [h EXCEPT !.key = k, !.value = v].capacity = h.capacity
      /\ [h EXCEPT !.key = k, !.value = v].key = k
      /\ [h EXCEPT !.key = k, !.value = v].value = v
  BY <1>2, <1>3 DEF HashTable
<1> HIDE DEF h
<1> QED
  BY <1>1, <1>5, <1>6 DEF h, k, v

\* An insertion at the first free slot: nothing of another thread changes, a probe
\* for t gets to the slot, and every slot with t's id has its producer.
LEMMA PutKeeps ==
  ASSUME NEW H \in [Thread -> Nat], HashInv(H), NEW t \in Thread,
         pc[t] \in {"copy", "probe"}, Hash!Put(t), Hash!KeyAt(t) \in {Empty, Reusable}
  PROVE  /\ hash' \in Seq(HashTable) /\ Len(hash') = Len(hash)
         /\ \A j \in 1 .. Len(hash') :
              /\ hash'[j].key \in [0 .. hash'[j].capacity - 1 -> KeyValue]
              /\ hash'[j].value \in [0 .. hash'[j].capacity - 1 -> Nat]
         /\ \A u \in Thread \ {t} : Evolves(u)
         /\ \A j \in 1 .. Len(hash') : \A i \in 0 .. hash'[j].capacity - 1 :
              hash'[j].key[i] = t =>
                Reachable(H, hash'[j], t, i) /\ hash'[j].value[i] = loc[t].p
         /\ \E j \in 1 .. Len(hash') : \E i \in 0 .. hash'[j].capacity - 1 :
              hash'[j].key[i] = t
<1>1. HashTypeInv /\ OwnLocal(t) /\ KeyAt(H, t) /\ ProbeAt(H, t)
  BY DEF HashInv, OwnAt
<1>2. PICK m \in 1 .. Len(hash) : m = loc[t].main
  BY MainTable DEF Searching
<1>3. /\ hash[m].capacity \in Nat \ {0}
      /\ hash[m].key \in [0 .. hash[m].capacity - 1 -> KeyValue]
      /\ hash[m].value \in [0 .. hash[m].capacity - 1 -> Nat]
  BY <1>1, TableTypes
<1>4. PICK n \in Nat : loc[t].i = H[t] + n /\ Passed(H, hash[m], t, n)
  <2>1. loc[t].i >= H[t] /\ Passed(H, hash[m], t, loc[t].i - H[t])
    BY <1>1, <1>2 DEF ProbeAt
  <2>2. loc[t].i \in Nat /\ H[t] \in Nat
    BY <1>1, LocalTypes
  <2>3. loc[t].i - H[t] \in Nat /\ loc[t].i = H[t] + (loc[t].i - H[t])
    BY <2>1, <2>2
  <2> QED
    BY <2>1, <2>3
<1>5. PICK s \in 0 .. hash[m].capacity - 1 :
        s = Hash!Slot(t) /\ s = SlotOf(H, hash[m], t, n)
  <2>1. Hash!Slot(t) = SlotOf(H, hash[m], t, n)
    BY <1>2, <1>4 DEF Hash!Slot, Hash!Main, SlotOf
  <2> QED
    BY <1>3, <2>1, SlotType
<1>6. hash[m].key[s] \in {Empty, Reusable}
  BY <1>2, <1>5 DEF Hash!KeyAt, Hash!Main
<1>7. /\ hash' \in Seq(HashTable) /\ Len(hash') = Len(hash)
      /\ \A j \in 1 .. Len(hash) : j # m => hash'[j] = hash[j]
      /\ hash'[m].capacity = hash[m].capacity
      /\ hash'[m].key = [hash[m].key EXCEPT ![s] = t]
      /\ hash'[m].value = [hash[m].value EXCEPT ![s] = loc[t].p]
  BY <1>1, <1>2, <1>5, PutIs, ZenonT(40)
<1>8. /\ \A i \in 0 .. hash[m].capacity - 1 :
           hash'[m].key[i] = IF i = s THEN t ELSE hash[m].key[i]
      /\ \A i \in 0 .. hash[m].capacity - 1 :
           hash'[m].value[i] = IF i = s THEN loc[t].p ELSE hash[m].value[i]
  BY <1>3, <1>7
<1>9. ASSUME NEW j \in 1 .. Len(hash')
      PROVE  /\ hash'[j].key \in [0 .. hash'[j].capacity - 1 -> KeyValue]
             /\ hash'[j].value \in [0 .. hash'[j].capacity - 1 -> Nat]
  <2>1. t \in KeyValue /\ loc[t].p \in Nat
    BY <1>1, LocalTypes DEF KeyValue
  <2>2. CASE j = m
    BY <1>3, <1>7, <2>1, <2>2, ZenonT(40)
  <2>3. CASE j # m
    BY <1>1, <1>7, <2>3, TableTypes
  <2> QED
    BY <2>2, <2>3
<1>10. \A j \in 1 .. Len(hash) :
         /\ hash'[j].capacity = hash[j].capacity
         /\ \A i \in 0 .. hash[j].capacity - 1 :
              hash[j].key[i] # Empty => hash'[j].key[i] # Empty
  BY <1>7, <1>8, HashConstants, ZenonT(40)
<1>11. \A u \in Thread \ {t} : Evolves(u)
  <2> SUFFICES ASSUME NEW u \in Thread \ {t} PROVE Evolves(u)
    OBVIOUS
  <2>1. \A j \in 1 .. Len(hash) : \A i \in 0 .. hash[j].capacity - 1 :
          /\ hash'[j].key[i] = u <=> hash[j].key[i] = u
          /\ hash[j].key[i] = u => hash'[j].value[i] = hash[j].value[i]
    <3> SUFFICES ASSUME NEW j \in 1 .. Len(hash), NEW i \in 0 .. hash[j].capacity - 1
                 PROVE  /\ hash'[j].key[i] = u <=> hash[j].key[i] = u
                        /\ hash[j].key[i] = u => hash'[j].value[i] = hash[j].value[i]
      OBVIOUS
    <3>1. CASE j = m /\ i = s
      BY <1>6, <1>8, <3>1, HashConstants
    <3>2. CASE j = m /\ i # s
      BY <1>8, <3>2
    <3>3. CASE j # m
      BY <1>7, <3>3
    <3> QED
      BY <3>1, <3>2, <3>3
  <2>2. Len(hash) \in Nat
    BY <1>1 DEF HashTypeInv
  <2> QED
    BY <1>7, <1>10, <2>1, <2>2 DEF Evolves
<1>12. ASSUME NEW j \in 1 .. Len(hash'), NEW i \in 0 .. hash'[j].capacity - 1,
              hash'[j].key[i] = t
       PROVE  Reachable(H, hash'[j], t, i) /\ hash'[j].value[i] = loc[t].p
  <2>1. CASE j = m /\ i = s
    <3>1. Reachable(H, hash[m], t, s)
      <4>1. /\ hash[m].capacity \in Nat \ {0}
            /\ Passed(H, hash[m], t, n)
        BY <1>3, <1>4
      <4>2. Reachable(H, hash[m], t, SlotOf(H, hash[m], t, n))
        BY <4>1, ProbeReaches, ZenonT(30)
      <4> QED
        BY <1>5, <4>2, Zenon
    <3>2. Reachable(H, hash'[m], t, s)
      BY <1>1, <1>10, <3>1, ReachableKept
    <3> QED
      BY <1>8, <2>1, <3>2
  <2>2. CASE ~(j = m /\ i = s)
    <3>1. j \in 1 .. Len(hash) /\ i \in 0 .. hash[j].capacity - 1
      BY <1>7, <1>10
    <3>2. hash[j].key[i] = t /\ hash'[j].value[i] = hash[j].value[i]
      BY <1>7, <1>8, <1>12, <2>2, <3>1
    <3>3. /\ Reachable(H, hash[j], t, i) /\ hash[j].value[i] = Held(t)
          /\ pc[t] \notin Searching \cup {"giveup"}
      BY <1>1, <3>1, <3>2 DEF KeyAt
    <3>4. Held(t) = loc[t].p
      BY <1>1, <3>3 DEF Held, OwnLocal, Searching
    <3>5. Reachable(H, hash'[j], t, i)
      BY <1>1, <1>10, <3>1, <3>3, ReachableKept
    <3> QED
      BY <3>2, <3>3, <3>4, <3>5
  <2> QED
    BY <2>1, <2>2
<1>13. m \in 1 .. Len(hash') /\ s \in 0 .. hash'[m].capacity - 1 /\ hash'[m].key[s] = t
  BY <1>7, <1>8
<1> QED
  BY <1>7, <1>9, <1>11, <1>12, <1>13

(***************************************************************************)
(* ProducerHash: insertion, search and exit                                *)
(***************************************************************************)
\* A slot that is taken is passed.
LEMMA NextSlotStep ==
  ASSUME NEW H \in [Thread -> Nat], HashInv(H), NEW t \in Thread,
         pc[t] \in {"copy", "probe"}, Hash!NextSlot(t, pc[t]), Hash!KeyAt(t) # Empty,
         UNCHANGED <<count, resizing, inactive, mutex>>
  PROVE  HashInv(H)'
<1>1. HashTypeInv /\ OwnLocal(t) /\ KeyAt(H, t) /\ ProbeAt(H, t)
  BY DEF HashInv, OwnAt
<1>2. /\ loc[t] \in Local /\ loc[t].i \in Nat /\ loc[t].p \in Nat
      /\ pc[t] \in HashPlace /\ H[t] \in Nat
  BY <1>1, LocalTypes
<1> DEFINE l == [loc[t] EXCEPT !.i = loc[t].i + 1]
<1>3. l \in Local /\ l.main = loc[t].main /\ l.p = loc[t].p /\ l.i = loc[t].i + 1
  <2>1. loc[t].i + 1 \in Nat
    BY <1>2
  <2>2. l \in Local
    BY <1>2, <2>1, LocalValues
  <2> QED
    BY <1>2, <2>2 DEF Local
<1>4. Hash!To(t, pc[t], l) /\ UNCHANGED <<hash, mine, exits>>
  BY DEF Hash!NextSlot, Hash!used
<1> HIDE DEF l
<1>5. /\ pc' \in [Thread -> HashPlace] /\ loc' \in [Thread -> Local]
      /\ pc'[t] = pc[t] /\ loc'[t] = l
      /\ \A u \in Thread \ {t} : pc'[u] = pc[u] /\ loc'[u] = loc[u]
  BY <1>1, <1>2, <1>3, <1>4, Moved
<1>6. HashTypeInv'
  BY <1>1, <1>4, <1>5 DEF HashTypeInv
<1>7. FlagMoves(t)
  BY <1>5 DEF FlagMoves, Resizing
<1>8. CountMoves(t)
  <2>1. ((t \in Pending)' <=> t \in Pending) /\ ((t \in Owning)' <=> t \in Owning)
    BY <1>4, <1>5 DEF Pending, Owning
  <2>2. count \in Int /\ exits \in Int
    BY <1>1 DEF HashTypeInv
  <2> QED
    BY <1>4, <2>1, <2>2 DEF CountMoves, One
<1>9. HoldsMoves(t)
  <2>1. Hash!Holds(t)' = Hash!Holds(t)
    BY <1>3, <1>4, <1>5 DEF Hash!Holds
  <2>2. \A p \in Hash!Holds(t) : p \in 1 .. Len(inactive) /\ ~inactive[p]
    BY <1>1, HoldsRange DEF HashInv, OwnAt
  <2>3. Len(inactive) \in Nat
    BY <1>1 DEF HashTypeInv
  <2> QED
    BY <2>1, <2>2, <2>3 DEF HoldsMoves
<1>10. OwnLocal(t)'
  BY <1>1, <1>3, <1>4, <1>5 DEF OwnLocal, Searching
<1>11. KeyAt(H, t)'
  <2>1. Held(t)' = Held(t)
    BY <1>3, <1>4, <1>5 DEF Held
  <2> QED
    BY <1>1, <1>4, <1>5, <2>1 DEF KeyAt
<1>12. ProbeAt(H, t)'
  <2>1. PICK m \in 1 .. Len(hash) : m = loc[t].main
    BY MainTable DEF Searching
  <2>2. PICK n \in Nat : loc[t].i = H[t] + n /\ Passed(H, hash[m], t, n)
    <3>1. loc[t].i >= H[t] /\ Passed(H, hash[m], t, loc[t].i - H[t])
      BY <1>1, <2>1 DEF ProbeAt
    <3>2. loc[t].i - H[t] \in Nat /\ loc[t].i = H[t] + (loc[t].i - H[t])
      BY <1>2, <3>1
    <3> QED
      BY <3>1, <3>2
  <2>3. hash[m].key[SlotOf(H, hash[m], t, n)] # Empty
    BY <2>1, <2>2 DEF Hash!KeyAt, Hash!Main, Hash!Slot, SlotOf
  <2>4. Passed(H, hash[m], t, n + 1)
    <3>1. \A x \in 0 .. (n + 1) - 1 : x \in 0 .. n - 1 \/ x = n
      OBVIOUS
    <3> QED
      BY <2>2, <2>3, <3>1 DEF Passed
  <2>5. l.i - H[t] = n + 1 /\ l.i >= H[t]
    BY <1>2, <1>3, <2>2
  <2> QED
    BY <1>3, <1>4, <1>5, <2>1, <2>4, <2>5 DEF ProbeAt
<1>13. \A u : Evolves(u)
  BY <1>1, <1>4, SameTables
<1> QED
  BY <1>4, <1>5, <1>6, <1>7, <1>8, <1>9, <1>10, <1>11, <1>12, <1>13, HashStep

\* The id is put in a free slot; the call ends, or has yet to uncount itself.
LEMMA PutStep ==
  ASSUME NEW H \in [Thread -> Nat], HashInv(H), NEW t \in Thread,
         pc[t] \in {"copy", "probe"}, Hash!Put(t), Hash!KeyAt(t) \in {Empty, Reusable},
         UNCHANGED <<count, resizing, inactive, mutex, exits>>,
         \/ Hash!Return(t, loc[t].p)
         \/ pc[t] = "probe" /\ Hash!To(t, "uncount", loc[t]) /\ mine' = mine
  PROVE  HashInv(H)'
<1>1. HashTypeInv /\ OwnAt(t) /\ OwnLocal(t) /\ mine \in [Thread -> Nat]
  BY DEF HashInv, OwnAt, HashTypeInv
<1>2. loc[t] \in Local /\ loc[t].p \in Nat /\ loc[t].p # 0 /\ loc[t].p <= Len(inactive)
  <2>1. loc[t] \in Local /\ loc[t].p \in Nat
    BY <1>1, LocalTypes
  <2>2. Len(inactive) \in Nat
    BY <1>1 DEF HashTypeInv
  <2> QED
    BY <1>1, <2>1, <2>2 DEF OwnLocal
<1>3. PICK q \in {"idle", "uncount"}, l \in Local :
        /\ Hash!To(t, q, l)
        /\ q = "idle" => mine' = [mine EXCEPT ![t] = loc[t].p]
        /\ q = "uncount" => pc[t] = "probe" /\ l.p = loc[t].p /\ mine' = mine
  BY <1>2, LocalValues DEF Hash!Return
<1>4. /\ pc' \in [Thread -> HashPlace] /\ loc' \in [Thread -> Local]
      /\ pc'[t] = q /\ loc'[t] = l
      /\ \A u \in Thread \ {t} : pc'[u] = pc[u] /\ loc'[u] = loc[u]
  BY <1>1, <1>3, Moved DEF HashPlace
<1>5. /\ mine' \in [Thread -> Nat] /\ \A u \in Thread \ {t} : mine'[u] = mine[u]
      /\ q = "idle" => mine'[t] = loc[t].p
      /\ q = "uncount" => mine'[t] = mine[t] /\ mine[t] = 0
  BY <1>1, <1>2, <1>3 DEF OwnLocal, Searching
<1>6. /\ hash' \in Seq(HashTable) /\ Len(hash') = Len(hash)
      /\ \A j \in 1 .. Len(hash') :
           /\ hash'[j].key \in [0 .. hash'[j].capacity - 1 -> KeyValue]
           /\ hash'[j].value \in [0 .. hash'[j].capacity - 1 -> Nat]
  BY PutKeeps
<1>7. /\ \A j \in 1 .. Len(hash') : \A i \in 0 .. hash'[j].capacity - 1 :
           hash'[j].key[i] = t =>
             Reachable(H, hash'[j], t, i) /\ hash'[j].value[i] = loc[t].p
      /\ \E j \in 1 .. Len(hash') : \E i \in 0 .. hash'[j].capacity - 1 :
           hash'[j].key[i] = t
  BY PutKeeps
<1>8. HashTypeInv'
  BY <1>1, <1>4, <1>5, <1>6 DEF HashTypeInv
<1>9. FlagMoves(t)
  BY <1>4 DEF FlagMoves, Resizing
<1>10. CountMoves(t)
  <2>1. (t \in Owning) /\ (t \in Owning)'
    BY <1>1, <1>2, <1>4, <1>5 DEF Owning, Pending, OwnLocal, Searching
  <2>2. (t \in Pending)' => t \in Pending
    BY <1>3, <1>4 DEF Pending, Searching
  <2>3. count \in Int /\ exits \in Int
    BY <1>1 DEF HashTypeInv
  <2> QED
    BY <2>1, <2>2, <2>3 DEF CountMoves, One
<1>11. HoldsMoves(t)
  <2>1. Hash!Holds(t)' = {loc[t].p} /\ loc[t].p \in Hash!Holds(t)
    BY <1>2, <1>3, <1>4, <1>5 DEF Hash!Holds
  <2>2. loc[t].p \in 1 .. Len(inactive) /\ ~inactive[loc[t].p] /\ Len(inactive) \in Nat
    BY <1>1, <1>2, <2>1 DEF OwnAt, HashTypeInv
  <2> QED
    BY <2>1, <2>2 DEF HoldsMoves
<1>12. OwnLocal(t)'
  <2>1. Len(inactive') \in Nat /\ Len(inactive') = Len(inactive)
    BY <1>1 DEF HashTypeInv
  <2> QED
    BY <1>2, <1>3, <1>4, <1>5, <2>1 DEF OwnLocal, Searching
<1>13. KeyAt(H, t)'
  <2>1. Held(t)' = loc[t].p
    BY <1>3, <1>4, <1>5 DEF Held
  <2> QED
    BY <1>2, <1>4, <1>7, <2>1 DEF KeyAt, Searching
<1>14. ProbeAt(H, t)'
  BY <1>4 DEF ProbeAt, Searching
<1>15. \A u \in Thread \ {t} : Evolves(u)
  BY PutKeeps
<1> QED
  BY <1>4, <1>5, <1>8, <1>9, <1>10, <1>11, <1>12, <1>13, <1>14, <1>15, HashStep

\* One slot of the main table is tried for an id found in an older one.
LEMMA HashCopyStep ==
  ASSUME NEW H \in [Thread -> Nat], HashInv(H), NEW t \in Thread, Hash!Copy(t)
  PROVE  HashInv(H)'
<1>1. pc[t] = "copy" /\ UNCHANGED <<count, resizing, inactive, mutex, exits>>
  BY DEF Hash!Copy, Hash!used
<1>2. CASE Hash!KeyAt(t) \in {Empty, Reusable}
  BY <1>1, <1>2, PutStep DEF Hash!Copy
<1>3. CASE Hash!KeyAt(t) \notin {Empty, Reusable}
  BY <1>1, <1>3, NextSlotStep DEF Hash!Copy
<1> QED
  BY <1>2, <1>3

\* One slot is tried for a new id.
LEMMA HashProbeStep ==
  ASSUME NEW H \in [Thread -> Nat], HashInv(H), NEW t \in Thread, Hash!Probe(t)
  PROVE  HashInv(H)'
<1>1. pc[t] = "probe" /\ UNCHANGED <<count, resizing, inactive, mutex, exits>>
  BY DEF Hash!Probe, Hash!used
<1>2. CASE Hash!KeyAt(t) = Reusable
  <2>1. Hash!Put(t) /\ Hash!To(t, "uncount", loc[t]) /\ mine' = mine
    BY <1>2, HashConstants DEF Hash!Probe
  <2> QED
    BY <1>1, <1>2, <2>1, PutStep
<1>3. CASE Hash!KeyAt(t) = Empty
  <2>1. Hash!Put(t) /\ Hash!Return(t, loc[t].p)
    BY <1>3, HashConstants DEF Hash!Probe
  <2> QED
    BY <1>1, <1>3, <2>1, PutStep
<1>4. CASE Hash!KeyAt(t) # Reusable /\ Hash!KeyAt(t) # Empty
  <2>1. Hash!NextSlot(t, "probe")
    BY <1>4 DEF Hash!Probe
  <2> QED
    BY <1>1, <1>4, <2>1, NextSlotStep
<1> QED
  BY <1>2, <1>3, <1>4

\* The thread's exit listener is registered; then the slots are probed.
LEMMA HashSubscribeStep ==
  ASSUME NEW H \in [Thread -> Nat], HashInv(H), NEW t \in Thread, pc[t] = "subscribe",
         Hash!To(t, "probe", [loc[t] EXCEPT !.i = H[t]]),
         UNCHANGED <<hash, count, resizing, inactive, mutex, mine, exits>>
  PROVE  HashInv(H)'
<1>1. HashTypeInv /\ OwnLocal(t) /\ KeyAt(H, t)
  BY DEF HashInv, OwnAt
<1>2. loc[t] \in Local /\ H[t] \in Nat /\ loc[t].p \in Nat
  BY <1>1, LocalTypes
<1> DEFINE l == [loc[t] EXCEPT !.i = H[t]]
<1>3. l \in Local
  BY <1>2, LocalValues
<1>4. l.main = loc[t].main /\ l.p = loc[t].p /\ l.i = H[t]
  BY <1>2 DEF Local
<1> HIDE DEF l
<1>5. /\ pc' \in [Thread -> HashPlace] /\ loc' \in [Thread -> Local]
      /\ pc'[t] = "probe" /\ loc'[t] = l
      /\ \A u \in Thread \ {t} : pc'[u] = pc[u] /\ loc'[u] = loc[u]
  <2>1. Hash!To(t, "probe", l)
    BY DEF l
  <2> QED
    BY <1>1, <1>3, <2>1, Moved DEF HashPlace, Searching
<1>6. HashTypeInv'
  BY <1>1, <1>5 DEF HashTypeInv
<1>7. FlagMoves(t)
  BY <1>5 DEF FlagMoves, Resizing
<1>8. mine[t] = 0 /\ mine'[t] = 0
  BY <1>1 DEF OwnLocal, Searching
<1>9. CountMoves(t)
  <2>1. (t \in Pending) /\ (t \in Owning) /\ (t \in Pending)' /\ (t \in Owning)'
    BY <1>5, <1>8, PendingAt, PendingNext DEF Searching
  <2>2. count \in Int /\ exits \in Int
    BY <1>1 DEF HashTypeInv
  <2> QED
    BY <2>1, <2>2 DEF CountMoves, One
<1>10. HoldsMoves(t)
  <2>1. Hash!Holds(t)' = Hash!Holds(t)
    BY <1>4, <1>5 DEF Hash!Holds
  <2>2. \A p \in Hash!Holds(t) : p \in 1 .. Len(inactive) /\ ~inactive[p]
    BY <1>1, HoldsRange DEF HashInv, OwnAt
  <2>3. Len(inactive) \in Nat
    BY <1>1 DEF HashTypeInv
  <2> QED
    BY <2>1, <2>2, <2>3 DEF HoldsMoves
<1>11. OwnLocal(t)'
  BY <1>1, <1>4, <1>5, <1>8 DEF OwnLocal, Searching
<1>12. KeyAt(H, t)'
  BY <1>1, <1>5 DEF KeyAt, Searching
<1>13. ProbeAt(H, t)'
  <2>1. Passed(H, hash[l.main], t, l.i - H[t])
    <3>1. l.i - H[t] = 0
      BY <1>2, <1>4
    <3> QED
      BY <3>1 DEF Passed
  <2>2. loc[t].main \in 1 .. Len(hash)
    BY MainTable DEF Searching
  <2> QED
    BY <1>2, <1>4, <1>5, <2>1, <2>2 DEF ProbeAt
<1>14. \A u : Evolves(u)
  BY <1>1, SameTables
<1> QED
  BY <1>5, <1>6, <1>7, <1>9, <1>10, <1>11, <1>12, <1>13, <1>14, HashStep

\* The slot was counted before.
LEMMA HashUncountStep ==
  ASSUME NEW H \in [Thread -> Nat], HashInv(H), NEW t \in Thread, Hash!Uncount(t)
  PROVE  HashInv(H)'
<1>1. /\ HashTypeInv /\ OwnLocal(t) /\ KeyAt(H, t) /\ pc[t] = "uncount"
      /\ mine \in [Thread -> Nat] /\ loc[t].p \in Nat
  <2>1. HashTypeInv /\ OwnLocal(t) /\ KeyAt(H, t) /\ pc[t] = "uncount"
    BY DEF HashInv, OwnAt, Hash!Uncount
  <2> QED
    BY <2>1, LocalTypes DEF HashTypeInv
<1>2. /\ Hash!To(t, "idle", Hash!Zero) /\ mine' = [mine EXCEPT ![t] = loc[t].p]
      /\ UNCHANGED <<hash, resizing, inactive, mutex, exits>> /\ count' = count - 1
  BY DEF Hash!Uncount, Hash!Return, Hash!used
<1>3. /\ pc' \in [Thread -> HashPlace] /\ loc' \in [Thread -> Local]
      /\ pc'[t] = "idle"
      /\ \A u \in Thread \ {t} : pc'[u] = pc[u] /\ loc'[u] = loc[u]
  BY <1>1, <1>2, LocalValues, Moved DEF HashPlace
<1>4. /\ mine' \in [Thread -> Nat] /\ mine'[t] = loc[t].p
      /\ \A u \in Thread \ {t} : mine'[u] = mine[u]
  BY <1>1, <1>2
<1>5. loc[t].p \in 1 .. Len(inactive) /\ Len(inactive) \in Nat
  <2>1. Len(inactive) \in Nat
    BY <1>1 DEF HashTypeInv
  <2> QED
    BY <1>1, <2>1 DEF OwnLocal
<1>6. HashTypeInv'
  <2>1. count' \in Int /\ exits' \in Nat
    BY <1>1, <1>2 DEF HashTypeInv
  <2> QED
    BY <1>1, <1>2, <1>3, <1>4, <2>1 DEF HashTypeInv
<1>7. FlagMoves(t)
  BY <1>1, <1>2, <1>3 DEF FlagMoves, Resizing
<1>8. CountMoves(t)
  <2>1. (t \in Pending) /\ (t \in Owning) /\ ~(t \in Pending)' /\ (t \in Owning)'
    BY <1>1, <1>3, <1>4, <1>5 DEF Pending, Owning, Searching
  <2>2. count \in Int /\ exits \in Int
    BY <1>1 DEF HashTypeInv
  <2> QED
    BY <1>2, <2>1, <2>2 DEF CountMoves, One
<1>9. HoldsMoves(t)
  <2>1. Hash!Holds(t)' = {loc[t].p} /\ loc[t].p \in Hash!Holds(t)
    BY <1>1, <1>3, <1>4, <1>5 DEF Hash!Holds
  <2>2. ~inactive[loc[t].p]
    BY <2>1 DEF HashInv, OwnAt
  <2> QED
    BY <1>2, <1>5, <2>1, <2>2 DEF HoldsMoves
<1>10. OwnLocal(t)'
  BY <1>2, <1>3, <1>4, <1>5 DEF OwnLocal, Searching
<1>11. KeyAt(H, t)'
  <2>1. Held(t)' = Held(t)
    BY <1>1, <1>3, <1>4 DEF Held
  <2> QED
    BY <1>1, <1>2, <1>3, <2>1 DEF KeyAt, Searching
<1>12. ProbeAt(H, t)'
  BY <1>3 DEF ProbeAt, Searching
<1>13. \A u : Evolves(u)
  BY <1>1, <1>2, SameTables
<1> QED
  BY <1>3, <1>4, <1>6, <1>7, <1>8, <1>9, <1>10, <1>11, <1>12, <1>13, HashStep

\* What a search finds: the slots with the id, and in them the thread's own
\* producer.
LEMMA SearchFinds ==
  ASSUME NEW H \in [Thread -> Nat], HashInv(H), NEW t \in Thread, NEW j \in 1 .. Len(hash)
  PROVE  /\ FoundBy(H, hash[j], t) =
              {i \in 0 .. hash[j].capacity - 1 : hash[j].key[i] = t}
         /\ pc[t] = "idle" => \A i \in FoundBy(H, hash[j], t) :
              hash[j].value[i] = mine[t] /\ mine[t] # 0
  BY DEF HashInv, KeyAt, FoundBy, Held

\* A call that finds its id returns its producer or copies it to the main table;
\* one that does not has none.
LEMMA HashGetStep ==
  ASSUME NEW H \in [Thread -> Nat], HashInv(H), NEW t \in Thread, pc[t] = "idle",
         UNCHANGED <<hash, count, resizing, inactive, mutex, exits>>,
         \/ /\ \A j \in 1 .. Len(hash) : FoundBy(H, hash[j], t) = {}
            /\ Hash!To(t, "count", [Hash!Zero EXCEPT !.main = Len(hash)]) /\ mine' = mine
         \/ \E j \in 1 .. Len(hash) : \E i \in 0 .. hash[j].capacity - 1 :
              /\ i \in FoundBy(H, hash[j], t)
              /\ \/ Hash!Return(t, hash[j].value[i])
                 \/ /\ Hash!To(t, "copy", [main |-> Len(hash), n |-> 0, i |-> H[t],
                                           p |-> hash[j].value[i]])
                    /\ mine' = mine
  PROVE  HashInv(H)'
<1>1. HashTypeInv /\ OwnAt(t) /\ OwnLocal(t) /\ KeyAt(H, t) /\ mine \in [Thread -> Nat]
  BY DEF HashInv, OwnAt, HashTypeInv
<1>2. Len(hash) \in Nat /\ Len(hash) >= 1 /\ Len(inactive) \in Nat /\ H[t] \in Nat
  BY <1>1 DEF HashTypeInv
<1>3. PICK q \in {"count", "copy", "idle"}, l \in Local :
        /\ Hash!To(t, q, l) /\ mine' = mine
        /\ q = "count" =>
             mine[t] = 0 /\ l.main = Len(hash) /\
             \A j \in 1 .. Len(hash) : \A i \in 0 .. hash[j].capacity - 1 : hash[j].key[i] # t
        /\ q = "copy" => mine[t] # 0 /\ l.main = Len(hash) /\ l.i = H[t] /\ l.p = mine[t]
  <2>1. CASE \A j \in 1 .. Len(hash) : FoundBy(H, hash[j], t) = {}
    <3> DEFINE l == [Hash!Zero EXCEPT !.main = Len(hash)]
    <3>1. Hash!To(t, "count", l) /\ mine' = mine
      BY <2>1
    <3>2. l \in Local
      BY <1>2, LocalValues
    <3>3. l.main = Len(hash)
      BY DEF Hash!Zero
    <3> HIDE DEF l
    <3>4. \A j \in 1 .. Len(hash) : \A i \in 0 .. hash[j].capacity - 1 : hash[j].key[i] # t
      <4> SUFFICES ASSUME NEW j \in 1 .. Len(hash), NEW i \in 0 .. hash[j].capacity - 1,
                          hash[j].key[i] = t
                   PROVE  FALSE
        OBVIOUS
      <4>1. i \in FoundBy(H, hash[j], t)
        BY SearchFinds
      <4> QED
        BY <2>1, <4>1
    <3>5. mine[t] = 0
      BY <1>1, <3>4 DEF KeyAt
    <3> QED
      BY <3>1, <3>2, <3>3, <3>4, <3>5
  <2>2. ASSUME NEW j \in 1 .. Len(hash), NEW i \in 0 .. hash[j].capacity - 1,
               i \in FoundBy(H, hash[j], t)
        PROVE  hash[j].value[i] = mine[t] /\ mine[t] # 0 /\ mine[t] \in Nat
    BY <1>1, <2>2, SearchFinds
  <2>3. ASSUME NEW j \in 1 .. Len(hash), NEW i \in 0 .. hash[j].capacity - 1,
               i \in FoundBy(H, hash[j], t), Hash!Return(t, hash[j].value[i])
        PROVE  Hash!To(t, "idle", Hash!Zero) /\ mine' = mine
    <3>1. Hash!To(t, "idle", Hash!Zero) /\ mine' = [mine EXCEPT ![t] = mine[t]]
      BY <2>2, <2>3 DEF Hash!Return
    <3> QED
      BY <1>1, <3>1
  <2>4. ASSUME NEW j \in 1 .. Len(hash), NEW i \in 0 .. hash[j].capacity - 1,
               i \in FoundBy(H, hash[j], t),
               Hash!To(t, "copy", [main |-> Len(hash), n |-> 0, i |-> H[t],
                                   p |-> hash[j].value[i]])
        PROVE  \E l \in Local : /\ Hash!To(t, "copy", l) /\ mine[t] # 0
                                /\ l.main = Len(hash) /\ l.i = H[t] /\ l.p = mine[t]
    <3> DEFINE l == [main |-> Len(hash), n |-> 0, i |-> H[t], p |-> mine[t]]
    <3>1. Hash!To(t, "copy", l) /\ mine[t] # 0 /\ mine[t] \in Nat
      BY <2>2, <2>4
    <3>2. l \in Local /\ l.main = Len(hash) /\ l.i = H[t] /\ l.p = mine[t]
      BY <1>2, <3>1 DEF Local
    <3> HIDE DEF l
    <3> QED
      BY <3>1, <3>2
  <2>5. CASE ~\A j \in 1 .. Len(hash) : FoundBy(H, hash[j], t) = {}
    <3>1. PICK j \in 1 .. Len(hash) : \E i \in 0 .. hash[j].capacity - 1 :
            /\ i \in FoundBy(H, hash[j], t)
            /\ \/ Hash!Return(t, hash[j].value[i])
               \/ /\ Hash!To(t, "copy", [main |-> Len(hash), n |-> 0, i |-> H[t],
                                         p |-> hash[j].value[i]])
                  /\ mine' = mine
      BY <2>5
    <3>2. PICK i \in 0 .. hash[j].capacity - 1 :
            /\ i \in FoundBy(H, hash[j], t)
            /\ \/ Hash!Return(t, hash[j].value[i])
               \/ /\ Hash!To(t, "copy", [main |-> Len(hash), n |-> 0, i |-> H[t],
                                         p |-> hash[j].value[i]])
                  /\ mine' = mine
      BY <3>1
    <3>3. CASE Hash!Return(t, hash[j].value[i])
      <4>1. Hash!To(t, "idle", Hash!Zero) /\ mine' = mine
        BY <2>3, <3>2, <3>3
      <4> QED
        BY <4>1, LocalValues
    <3>4. CASE ~Hash!Return(t, hash[j].value[i])
      BY <2>4, <3>2, <3>4
    <3> QED
      BY <3>3, <3>4
  <2> QED
    BY <2>1, <2>5
<1>4. /\ pc' \in [Thread -> HashPlace] /\ loc' \in [Thread -> Local]
      /\ pc'[t] = q /\ loc'[t] = l
      /\ \A u \in Thread \ {t} : pc'[u] = pc[u] /\ loc'[u] = loc[u]
  BY <1>1, <1>3, Moved DEF HashPlace, Searching
<1>5. HashTypeInv'
  BY <1>1, <1>3, <1>4 DEF HashTypeInv
<1>6. FlagMoves(t)
  BY <1>4 DEF FlagMoves, Resizing
<1>7. CountMoves(t)
  <2>1. ~(t \in Pending)' /\ t \notin Pending
    BY <1>4 DEF Pending, Searching
  <2>2. (t \in Owning)' <=> t \in Owning
    BY <1>3, <1>4, <2>1 DEF Owning
  <2>3. count \in Int /\ exits \in Int
    BY <1>1 DEF HashTypeInv
  <2> QED
    BY <2>1, <2>2, <2>3 DEF CountMoves, One
<1>8. HoldsMoves(t)
  <2>1. Hash!Holds(t)' = Hash!Holds(t)
    BY <1>3, <1>4 DEF Hash!Holds
  <2>2. \A p \in Hash!Holds(t) : p \in 1 .. Len(inactive) /\ ~inactive[p]
    BY <1>1, HoldsRange DEF OwnAt
  <2> QED
    BY <1>2, <2>1, <2>2 DEF HoldsMoves
<1>9. OwnLocal(t)'
  BY <1>1, <1>2, <1>3, <1>4 DEF OwnLocal, Searching
<1>10. KeyAt(H, t)'
  <2>1. Held(t)' = Held(t)
    BY <1>3, <1>4 DEF Held
  <2> QED
    BY <1>1, <1>3, <1>4, <2>1 DEF KeyAt, Searching
<1>11. ProbeAt(H, t)'
  <2>1. Len(hash) \in 1 .. Len(hash)
    BY <1>2
  <2>2. q = "copy" => l.i - H[t] = 0 /\ l.i >= H[t]
    BY <1>2, <1>3
  <2>3. \A h : Passed(H, h, t, 0)
    BY DEF Passed
  <2> QED
    BY <1>3, <1>4, <2>1, <2>2, <2>3 DEF ProbeAt, Searching
<1>12. \A u : Evolves(u)
  BY <1>1, SameTables
<1> QED
  BY <1>3, <1>4, <1>5, <1>6, <1>7, <1>8, <1>9, <1>10, <1>11, <1>12, HashStep

\* The listeners of a thread that exits are called.
LEMMA HashExitStep ==
  ASSUME NEW H \in [Thread -> Nat], HashInv(H), NEW t \in Thread, pc[t] = "idle",
         mine[t] # 0, exits' = exits + 1, mutex' = t,
         Hash!To(t, "exit", [Hash!Zero EXCEPT !.main = Len(hash)]),
         UNCHANGED <<hash, count, resizing, inactive, mine>>
  PROVE  HashInv(H)'
<1>1. HashTypeInv /\ OwnAt(t) /\ OwnLocal(t) /\ KeyAt(H, t)
  BY DEF HashInv, OwnAt
<1>2. Len(hash) \in Nat /\ Len(inactive) \in Nat /\ exits \in Nat /\ count \in Int
  BY <1>1 DEF HashTypeInv
<1> DEFINE l == [Hash!Zero EXCEPT !.main = Len(hash)]
<1>3. l \in Local
  BY <1>2, LocalValues
<1>4. l.main = Len(hash)
  BY DEF Hash!Zero
<1> HIDE DEF l
<1>5. /\ pc' \in [Thread -> HashPlace] /\ loc' \in [Thread -> Local]
      /\ pc'[t] = "exit" /\ loc'[t] = l
      /\ \A u \in Thread \ {t} : pc'[u] = pc[u] /\ loc'[u] = loc[u]
  <2>1. Hash!To(t, "exit", l)
    BY DEF l
  <2> QED
    BY <1>1, <1>3, <2>1, Moved DEF HashPlace
<1>6. HashTypeInv'
  <2>1. exits' \in Nat /\ mutex' \in Thread \cup {NoThread}
    BY <1>2
  <2> QED
    BY <1>1, <1>5, <2>1 DEF HashTypeInv
<1>7. FlagMoves(t)
  BY <1>5 DEF FlagMoves, Resizing
<1>8. CountMoves(t)
  <2>1. t \notin Pending /\ (t \in Owning) /\ ~(t \in Pending)' /\ ~(t \in Owning)'
    BY <1>5 DEF Pending, Owning, Searching
  <2> QED
    BY <1>2, <2>1 DEF CountMoves, One
<1>9. HoldsMoves(t)
  <2>1. Hash!Holds(t)' = Hash!Holds(t)
    BY <1>5 DEF Hash!Holds
  <2>2. \A p \in Hash!Holds(t) : p \in 1 .. Len(inactive) /\ ~inactive[p]
    BY <1>1, HoldsRange DEF OwnAt
  <2> QED
    BY <1>2, <2>1, <2>2 DEF HoldsMoves
<1>10. OwnLocal(t)'
  BY <1>1, <1>5 DEF OwnLocal, Searching
<1>11. KeyAt(H, t)'
  <2>1. Held(t)' = Held(t)
    BY <1>5 DEF Held
  <2> QED
    BY <1>1, <1>2, <1>4, <1>5, <2>1 DEF KeyAt, Searching
<1>12. ProbeAt(H, t)'
  BY <1>2, <1>4, <1>5 DEF ProbeAt, Searching
<1>13. \A u : Evolves(u)
  BY <1>1, SameTables
<1> QED
  BY <1>5, <1>6, <1>7, <1>8, <1>9, <1>10, <1>11, <1>12, <1>13, HashStep

\* The id is taken out of one table.
LEMMA RemoveIs ==
  ASSUME HashTypeInv, NEW S, NEW m \in 1 .. Len(hash),
         hash' = [hash EXCEPT ![m].key =
                    [i \in DOMAIN @ |-> IF i \in S THEN Reusable ELSE @[i]]]
  PROVE  /\ hash' \in Seq(HashTable) /\ Len(hash') = Len(hash)
         /\ \A j \in 1 .. Len(hash) : j # m => hash'[j] = hash[j]
         /\ hash'[m].capacity = hash[m].capacity /\ hash'[m].value = hash[m].value
         /\ hash'[m].key \in [0 .. hash[m].capacity - 1 -> KeyValue]
         /\ \A i \in 0 .. hash[m].capacity - 1 :
              hash'[m].key[i] = IF i \in S THEN Reusable ELSE hash[m].key[i]
<1>1. hash \in Seq(HashTable)
  BY DEF HashTypeInv
<1> DEFINE h == hash[m]
           k == [i \in DOMAIN h.key |-> IF i \in S THEN Reusable ELSE h.key[i]]
<1>2. /\ h \in HashTable /\ h.capacity \in Nat \ {0}
      /\ h.key \in [0 .. h.capacity - 1 -> KeyValue]
  BY TableTypes
<1>3. k \in [0 .. h.capacity - 1 -> KeyValue]
  BY <1>2 DEF KeyValue
<1>4. \A i \in 0 .. h.capacity - 1 : k[i] = IF i \in S THEN Reusable ELSE h.key[i]
  BY <1>2
<1>5. hash' = [hash EXCEPT ![m] = [h EXCEPT !.key = k]]
  BY <1>1
<1> HIDE DEF k
<1>6. k \in KeyArrays
  BY <1>2, <1>3 DEF KeyArrays
<1>7. /\ [h EXCEPT !.key = k] \in HashTable
      /\ [h EXCEPT !.key = k].capacity = h.capacity
      /\ [h EXCEPT !.key = k].value = h.value /\ [h EXCEPT !.key = k].key = k
  BY <1>2, <1>6 DEF HashTable
<1>8. PICK x \in HashTable : x = [h EXCEPT !.key = k]
  BY <1>7
<1>9. /\ x.capacity = hash[m].capacity /\ x.value = hash[m].value
      /\ x.key \in [0 .. hash[m].capacity - 1 -> KeyValue]
      /\ \A i \in 0 .. hash[m].capacity - 1 :
           x.key[i] = IF i \in S THEN Reusable ELSE hash[m].key[i]
  BY <1>3, <1>4, <1>7, <1>8
<1>10. hash' = [hash EXCEPT ![m] = x]
  BY <1>5, <1>8
<1> HIDE DEF h
<1>11. /\ hash' \in Seq(HashTable) /\ Len(hash') = Len(hash)
       /\ \A j \in 1 .. Len(hash) : j # m => hash'[j] = hash[j]
       /\ hash'[m] = x
  BY <1>1, <1>10
<1> QED
  BY <1>9, <1>11

\* An exiting thread leaves no slot with its id in the tables it has been at.
LEMMA HashRemoveStep ==
  ASSUME NEW H \in [Thread -> Nat], HashInv(H), NEW t \in Thread, pc[t] = "exit",
         loc[t].main > 0,
         hash' = [hash EXCEPT ![loc[t].main].key =
                    [i \in DOMAIN @ |-> IF i \in FoundBy(H, hash[loc[t].main], t)
                                        THEN Reusable ELSE @[i]]],
         Hash!To(t, "exit", [loc[t] EXCEPT !.main = @ - 1]),
         UNCHANGED <<count, resizing, inactive, mutex, mine, exits>>
  PROVE  HashInv(H)'
<1>1. HashTypeInv /\ OwnAt(t) /\ OwnLocal(t) /\ KeyAt(H, t) /\ ProbeAt(H, t)
  BY DEF HashInv, OwnAt
<1>2. Len(hash) \in Nat /\ Len(inactive) \in Nat /\ exits \in Nat /\ count \in Int
  BY <1>1 DEF HashTypeInv
<1>3. PICK m \in 1 .. Len(hash) : m = loc[t].main
  <2>1. loc[t].main \in Nat /\ loc[t].main <= Len(hash)
    BY <1>1, LocalTypes DEF ProbeAt
  <2> QED
    BY <1>2, <2>1
<1> DEFINE S == FoundBy(H, hash[m], t)
           l == [loc[t] EXCEPT !.main = m - 1]
<1>4. S = {i \in 0 .. hash[m].capacity - 1 : hash[m].key[i] = t}
  BY SearchFinds
<1>5. Hash!To(t, "exit", l) /\ l \in Local /\ l.main = m - 1
  <2>1. loc[t] \in Local /\ m - 1 \in Nat
    BY <1>1, LocalTypes
  <2>2. l \in Local
    BY <2>1, LocalValues
  <2>3. Hash!To(t, "exit", l)
    BY <1>3
  <2> QED
    BY <2>1, <2>2, <2>3 DEF Local
<1>6. hash' = [hash EXCEPT ![m].key = [i \in DOMAIN @ |-> IF i \in S THEN Reusable ELSE @[i]]]
  BY <1>3
<1> HIDE DEF S, l
<1>7. /\ hash' \in Seq(HashTable) /\ Len(hash') = Len(hash)
      /\ \A j \in 1 .. Len(hash) : j # m => hash'[j] = hash[j]
      /\ hash'[m].capacity = hash[m].capacity /\ hash'[m].value = hash[m].value
      /\ hash'[m].key \in [0 .. hash[m].capacity - 1 -> KeyValue]
      /\ \A i \in 0 .. hash[m].capacity - 1 :
           hash'[m].key[i] = IF i \in S THEN Reusable ELSE hash[m].key[i]
  BY <1>1, <1>6, RemoveIs, ZenonT(40)
<1>8. \A i \in 0 .. hash[m].capacity - 1 :
        hash'[m].key[i] = IF hash[m].key[i] = t THEN Reusable ELSE hash[m].key[i]
  BY <1>4, <1>7
<1>9. /\ pc' \in [Thread -> HashPlace] /\ loc' \in [Thread -> Local]
      /\ pc'[t] = "exit" /\ loc'[t] = l
      /\ \A u \in Thread \ {t} : pc'[u] = pc[u] /\ loc'[u] = loc[u]
  BY <1>1, <1>5, Moved DEF HashPlace
<1>10. HashTypeInv'
  <2>1. \A j \in 1 .. Len(hash') :
          /\ hash'[j].key \in [0 .. hash'[j].capacity - 1 -> KeyValue]
          /\ hash'[j].value \in [0 .. hash'[j].capacity - 1 -> Nat]
    BY <1>1, <1>7, TableTypes
  <2>2. Len(hash') >= 1
    BY <1>1, <1>7 DEF HashTypeInv
  <2> QED
    BY <1>1, <1>7, <1>9, <2>1, <2>2 DEF HashTypeInv
<1>11. \A j \in 1 .. Len(hash) :
         /\ hash'[j].capacity = hash[j].capacity
         /\ \A i \in 0 .. hash[j].capacity - 1 :
              hash[j].key[i] # Empty => hash'[j].key[i] # Empty
  BY <1>7, <1>8, HashConstants
<1>12. \A u \in Thread \ {t} : Evolves(u)
  <2> SUFFICES ASSUME NEW u \in Thread \ {t} PROVE Evolves(u)
    OBVIOUS
  <2>1. \A j \in 1 .. Len(hash) : \A i \in 0 .. hash[j].capacity - 1 :
          /\ hash'[j].key[i] = u <=> hash[j].key[i] = u
          /\ hash[j].key[i] = u => hash'[j].value[i] = hash[j].value[i]
    <3> SUFFICES ASSUME NEW j \in 1 .. Len(hash), NEW i \in 0 .. hash[j].capacity - 1
                 PROVE  /\ hash'[j].key[i] = u <=> hash[j].key[i] = u
                        /\ hash[j].key[i] = u => hash'[j].value[i] = hash[j].value[i]
      OBVIOUS
    <3>1. CASE j = m
      <4>1. u # t /\ u # Reusable
        BY HashConstants
      <4>2. hash'[m].key[i] = IF hash[m].key[i] = t THEN Reusable ELSE hash[m].key[i]
        BY <1>8, <3>1
      <4>3. hash'[m].value = hash[m].value
        BY <1>7
      <4> QED
        BY <3>1, <4>1, <4>2, <4>3
    <3>2. CASE j # m
      BY <1>7, <3>2
    <3> QED
      BY <3>1, <3>2
  <2>2. Len(hash') = Len(hash)
    BY <1>7
  <2>3. Len(hash) <= Len(hash') /\ \A j : j \notin Len(hash) + 1 .. Len(hash')
    BY <1>2, <2>2
  <2> QED
    BY <1>11, <2>1, <2>3 DEF Evolves
<1>13. FlagMoves(t)
  BY <1>9 DEF FlagMoves, Resizing
<1>14. CountMoves(t)
  <2>1. ((t \in Pending)' <=> t \in Pending) /\ ((t \in Owning)' <=> t \in Owning)
    BY <1>9 DEF Pending, Owning
  <2> QED
    BY <1>2, <2>1 DEF CountMoves, One
<1>15. HoldsMoves(t)
  <2>1. Hash!Holds(t)' = Hash!Holds(t)
    BY <1>9 DEF Hash!Holds
  <2>2. \A p \in Hash!Holds(t) : p \in 1 .. Len(inactive) /\ ~inactive[p]
    BY <1>1, HoldsRange DEF OwnAt
  <2> QED
    BY <1>2, <2>1, <2>2 DEF HoldsMoves
<1>16. OwnLocal(t)'
  BY <1>1, <1>9 DEF OwnLocal, Searching
<1>17. KeyAt(H, t)'
  <2>1. Held(t)' = Held(t)
    BY <1>9 DEF Held
  <2>2. ASSUME NEW j \in 1 .. Len(hash'), NEW i \in 0 .. hash'[j].capacity - 1,
               hash'[j].key[i] = t
        PROVE  /\ Reachable(H, hash'[j], t, i) /\ hash'[j].value[i] = Held(t)'
               /\ Held(t)' # 0 /\ j <= l.main
    <3>1. j # m
      <4>1. t # Reusable
        BY HashConstants
      <4>2. hash'[m].capacity = hash[m].capacity
        BY <1>7
      <4> QED
        BY <1>8, <2>2, <4>1, <4>2
    <3>2. hash'[j] = hash[j] /\ j \in 1 .. Len(hash)
      BY <1>7, <3>1
    <3>3. /\ Reachable(H, hash[j], t, i) /\ hash[j].value[i] = Held(t)
          /\ Held(t) # 0 /\ j <= m
      BY <1>1, <1>3, <2>2, <3>2 DEF KeyAt
    <3> QED
      BY <1>2, <1>5, <2>1, <3>1, <3>2, <3>3
  <2> QED
    BY <1>9, <2>2 DEF KeyAt, Searching
<1>18. ProbeAt(H, t)'
  BY <1>2, <1>5, <1>7, <1>9, SMTT(40) DEF ProbeAt, Searching
<1> QED
  BY <1>9, <1>10, <1>12, <1>13, <1>14, <1>15, <1>16, <1>17, <1>18, HashStep

\* The producer of a thread that has exited is given up for reuse.
LEMMA HashExitedStep ==
  ASSUME NEW H \in [Thread -> Nat], HashInv(H), NEW t \in Thread, Hash!Exited(t)
  PROVE  HashInv(H)'
<1>1. /\ HashTypeInv /\ OwnLocal(t) /\ KeyAt(H, t) /\ pc[t] = "exit"
      /\ mine \in [Thread -> Nat] /\ inactive \in Seq(BOOLEAN)
  BY DEF HashInv, OwnAt, HashTypeInv, Hash!Exited
<1>2. /\ Hash!To(t, "idle", Hash!Zero) /\ mine' = [mine EXCEPT ![t] = 0]
      /\ UNCHANGED <<hash, resizing, count, exits>> /\ mutex' = NoThread
      /\ inactive' = [inactive EXCEPT ![mine[t]] = TRUE] /\ loc[t].main = 0
  BY DEF Hash!Exited, Hash!Return, Hash!used
<1>3. /\ pc' \in [Thread -> HashPlace] /\ loc' \in [Thread -> Local]
      /\ pc'[t] = "idle"
      /\ \A u \in Thread \ {t} : pc'[u] = pc[u] /\ loc'[u] = loc[u]
  BY <1>1, <1>2, LocalValues, Moved DEF HashPlace
<1>4. /\ mine' \in [Thread -> Nat] /\ mine'[t] = 0
      /\ \A u \in Thread \ {t} : mine'[u] = mine[u]
  BY <1>1, <1>2
<1>5. mine[t] \in 1 .. Len(inactive) /\ mine[t] \in Hash!Holds(t)
  <2>1. mine[t] # 0 /\ mine[t] <= Len(inactive)
    BY <1>1 DEF OwnLocal
  <2>2. Len(inactive) \in Nat /\ mine[t] \in Nat
    BY <1>1
  <2> QED
    BY <2>1, <2>2 DEF Hash!Holds
<1>6. /\ inactive' \in Seq(BOOLEAN) /\ Len(inactive') = Len(inactive)
      /\ Len(inactive) \in Nat
      /\ \A p \in 1 .. Len(inactive) : p # mine[t] => inactive'[p] = inactive[p]
  BY <1>1, <1>2, <1>5
<1>7. HashTypeInv'
  <2>1. mutex' \in Thread \cup {NoThread}
    BY <1>2
  <2> QED
    BY <1>1, <1>2, <1>3, <1>4, <1>6, <2>1 DEF HashTypeInv
<1>8. FlagMoves(t)
  BY <1>1, <1>2, <1>3 DEF FlagMoves, Resizing
<1>9. CountMoves(t)
  <2>1. t \notin Pending /\ t \notin Owning /\ ~(t \in Pending)' /\ ~(t \in Owning)'
    BY <1>1, <1>3, <1>4 DEF Pending, Owning, Searching
  <2>2. count \in Int /\ exits \in Int
    BY <1>1 DEF HashTypeInv
  <2> QED
    BY <1>2, <2>1, <2>2 DEF CountMoves, One
<1>10. HoldsMoves(t)
  <2>1. Hash!Holds(t)' = {}
    BY <1>3, <1>4 DEF Hash!Holds
  <2>2. ASSUME NEW p \in 1 .. Len(inactive), inactive'[p]
        PROVE  inactive[p] \/ p \in Hash!Holds(t)
    BY <1>5, <1>6, <2>2
  <2> QED
    BY <1>6, <2>1, <2>2 DEF HoldsMoves
<1>11. OwnLocal(t)'
  BY <1>3, <1>4, <1>6 DEF OwnLocal, Searching
<1>12. \A j \in 1 .. Len(hash) : \A i \in 0 .. hash[j].capacity - 1 : hash[j].key[i] # t
  <2> SUFFICES ASSUME NEW j \in 1 .. Len(hash), NEW i \in 0 .. hash[j].capacity - 1,
                      hash[j].key[i] = t
               PROVE  FALSE
    OBVIOUS
  <2>1. j <= 0
    BY <1>1, <1>2 DEF KeyAt
  <2> QED
    BY <2>1
<1>13. KeyAt(H, t)'
  BY <1>2, <1>3, <1>4, <1>12 DEF KeyAt
<1>14. ProbeAt(H, t)'
  BY <1>3 DEF ProbeAt, Searching
<1>15. \A u : Evolves(u)
  BY <1>1, <1>2, SameTables
<1> QED
  BY <1>3, <1>4, <1>7, <1>8, <1>9, <1>10, <1>11, <1>13, <1>14, <1>15, HashStep

(***************************************************************************)
(* ProducerHash: the theorem                                               *)
(***************************************************************************)
\* The steps in which the hash function plays no part.
LEMMA HashPlainSteps ==
  ASSUME NEW H \in [Thread -> Nat], HashInv(H), NEW t \in Thread,
         \/ Hash!Copy(t) \/ Hash!Count(t) \/ Hash!Test(t) \/ Hash!Resize(t)
         \/ Hash!ResizeFails(t) \/ Hash!Unlock(t) \/ Hash!Decide(t) \/ Hash!Walk(t)
         \/ Hash!Create(t) \/ Hash!CreateFails(t) \/ Hash!Probe(t) \/ Hash!Uncount(t)
         \/ Hash!Exited(t)
  PROVE  HashInv(H)'
  BY HashCopyStep, HashCountStep, HashTestStep, HashResizeStep, HashResizeFailsStep,
     HashUnlockStep, HashDecideStep, HashWalkStep, HashCreateStep, HashCreateFailsStep,
     HashProbeStep, HashUncountStep, HashExitedStep

\* A call that begins, with either hash function.
LEMMA HashBegins ==
  ASSUME NEW H \in [Thread -> Nat], HashInv(H), NEW t \in Thread, pc[t] = "idle",
         NEW F,
         \A j \in 1 .. Len(hash) : F[j] = FoundBy(H, hash[j], t),
         UNCHANGED <<hash, count, resizing, inactive, mutex, exits>>,
         \/ /\ {j \in 1 .. Len(hash) : F[j] # {}} = {}
            /\ Hash!To(t, "count", [Hash!Zero EXCEPT !.main = Len(hash)]) /\ mine' = mine
         \/ \E j \in {j \in 1 .. Len(hash) : F[j] # {}} :
              LET v == hash[j].value[CHOOSE i \in F[j] : TRUE] IN
              \/ Hash!Return(t, v)
              \/ /\ Hash!To(t, "copy", [main |-> Len(hash), n |-> 0, i |-> H[t], p |-> v])
                 /\ mine' = mine
  PROVE  HashInv(H)'
<1>1. CASE /\ {j \in 1 .. Len(hash) : F[j] # {}} = {}
           /\ Hash!To(t, "count", [Hash!Zero EXCEPT !.main = Len(hash)]) /\ mine' = mine
  <2>1. \A j \in 1 .. Len(hash) : FoundBy(H, hash[j], t) = {}
    BY <1>1
  <2> QED
    BY <1>1, <2>1, HashGetStep
<1>2. CASE \E j \in {j \in 1 .. Len(hash) : F[j] # {}} :
              LET v == hash[j].value[CHOOSE i \in F[j] : TRUE] IN
              \/ Hash!Return(t, v)
              \/ /\ Hash!To(t, "copy", [main |-> Len(hash), n |-> 0, i |-> H[t], p |-> v])
                 /\ mine' = mine
  <2>1. PICK j \in 1 .. Len(hash) :
          /\ F[j] # {}
          /\ LET v == hash[j].value[CHOOSE i \in F[j] : TRUE] IN
             \/ Hash!Return(t, v)
             \/ /\ Hash!To(t, "copy", [main |-> Len(hash), n |-> 0, i |-> H[t], p |-> v])
                /\ mine' = mine
    BY <1>2
  <2> DEFINE c == CHOOSE i \in F[j] : TRUE
  <2>2. c \in F[j]
    BY <2>1
  <2>3. \/ Hash!Return(t, hash[j].value[c])
        \/ /\ Hash!To(t, "copy", [main |-> Len(hash), n |-> 0, i |-> H[t],
                                  p |-> hash[j].value[c]])
           /\ mine' = mine
    BY <2>1
  <2> HIDE DEF c
  <2>4. c \in FoundBy(H, hash[j], t) /\ c \in 0 .. hash[j].capacity - 1
    BY <2>2 DEF FoundBy
  <2> QED
    BY <2>3, <2>4, HashGetStep
<1> QED
  BY <1>1, <1>2

\* Every step of the table with hash function HashOf.
LEMMA HashNext == ASSUME HashInv(HashOf), Hash!Next PROVE HashInv(HashOf)'
<1>1. PICK t \in Thread : Hash!Get(t) \/ Hash!Exit(t) \/ Hash!Step(t)
  BY DEF Hash!Next
<1>2. HashOf \in [Thread -> Nat] /\ HashTypeInv
  BY HashConstants DEF HashInv
<1>3. \A j \in 1 .. Len(hash) : Hash!Found(hash[j], t) = FoundBy(HashOf, hash[j], t)
  BY <1>2, TableTypes, FoundIs
<1>4. CASE Hash!Get(t)
  <2> DEFINE F == [j \in 1 .. Len(hash) |-> Hash!Found(hash[j], t)]
  <2>1. /\ pc[t] = "idle" /\ UNCHANGED <<hash, count, resizing, inactive, mutex, exits>>
        /\ \/ /\ {j \in 1 .. Len(hash) : F[j] # {}} = {}
              /\ Hash!To(t, "count", [Hash!Zero EXCEPT !.main = Len(hash)]) /\ mine' = mine
           \/ \E j \in {j \in 1 .. Len(hash) : F[j] # {}} :
                LET v == hash[j].value[CHOOSE i \in F[j] : TRUE] IN
                \/ Hash!Return(t, v)
                \/ /\ Hash!To(t, "copy", [main |-> Len(hash), n |-> 0, i |-> HashOf[t], p |-> v])
                   /\ mine' = mine
    BY <1>4 DEF Hash!Get, Hash!used
  <2>2. \A j \in 1 .. Len(hash) : F[j] = FoundBy(HashOf, hash[j], t)
    BY <1>3
  <2> HIDE DEF F
  <2> QED
    BY <1>2, <2>1, <2>2, HashBegins
<1>5. CASE Hash!Exit(t)
  BY <1>2, <1>5, HashExitStep DEF Hash!Exit
<1>6. CASE Hash!Subscribe(t)
  BY <1>2, <1>6, HashSubscribeStep DEF Hash!Subscribe, Hash!used
<1>7. CASE Hash!Remove(t)
  <2>1. loc[t].main \in Nat /\ loc[t].main > 0 /\ loc[t].main <= Len(hash) /\ pc[t] = "exit"
    BY <1>2, <1>7, LocalTypes DEF Hash!Remove, HashInv, ProbeAt
  <2>2. Len(hash) \in Nat
    BY <1>2 DEF HashTypeInv
  <2>3. Hash!Found(hash[loc[t].main], t) = FoundBy(HashOf, hash[loc[t].main], t)
    BY <1>3, <2>1, <2>2
  <2>4. /\ hash' = [hash EXCEPT ![loc[t].main].key =
              [i \in DOMAIN @ |-> IF i \in FoundBy(HashOf, hash[loc[t].main], t)
                                  THEN Reusable ELSE @[i]]]
        /\ Hash!To(t, "exit", [loc[t] EXCEPT !.main = @ - 1])
        /\ UNCHANGED <<count, resizing, inactive, mutex, mine, exits>>
    BY <1>7, <2>3 DEF Hash!Remove, Hash!used, Hash!Main
  <2> QED
    BY <1>2, <2>1, <2>4, HashRemoveStep
<1>8. CASE ~Hash!Subscribe(t) /\ ~Hash!Remove(t) /\ Hash!Step(t)
  BY <1>2, <1>8, HashPlainSteps DEF Hash!Step
<1> QED
  BY <1>1, <1>4, <1>5, <1>6, <1>7, <1>8

(***************************************************************************)
(* ProducerHash: the small table                                           *)
(***************************************************************************)
\* These steps depend neither on the hash function nor on the bounds.
LEMMA SmallIsHash ==
  ASSUME NEW t
  PROVE  /\ Small!Copy(t) <=> Hash!Copy(t)
         /\ Small!Count(t) <=> Hash!Count(t)
         /\ Small!Test(t) <=> Hash!Test(t)
         /\ Small!Resize(t) <=> Hash!Resize(t)
         /\ Small!ResizeFails(t) <=> Hash!ResizeFails(t)
         /\ Small!Unlock(t) <=> Hash!Unlock(t)
         /\ Small!Decide(t) <=> Hash!Decide(t)
         /\ Small!Walk(t) <=> Hash!Walk(t)
         /\ Small!Create(t) <=> Hash!Create(t)
         /\ Small!CreateFails(t) <=> Hash!CreateFails(t)
         /\ Small!Probe(t) <=> Hash!Probe(t)
         /\ Small!Uncount(t) <=> Hash!Uncount(t)
         /\ Small!Exited(t) <=> Hash!Exited(t)
<1>1. Small!Copy(t) <=> Hash!Copy(t)
  BY DEF Small!Copy, Small!used, Small!To, Small!Return, Small!Zero, Small!Main,
     Small!Slot, Small!KeyAt, Small!Put, Small!NextSlot, Hash!Copy, Hash!used,
     Hash!To, Hash!Return, Hash!Zero, Hash!Main, Hash!Slot, Hash!KeyAt, Hash!Put,
     Hash!NextSlot
<1>2. Small!Count(t) <=> Hash!Count(t)
  BY DEF Small!Count, Small!used, Small!To, Hash!Count, Hash!used, Hash!To
<1>3. Small!Test(t) <=> Hash!Test(t)
  BY DEF Small!Test, Small!used, Small!To, Small!Main, Small!Half, Hash!Test,
     Hash!used, Hash!To, Hash!Main, Hash!Half
<1>4. Small!Resize(t) <=> Hash!Resize(t)
  BY DEF Small!Resize, Small!used, Small!To, Small!Half, Small!NewCapacity,
     Small!Table, Hash!Resize, Hash!used, Hash!To, Hash!Half, Hash!NewCapacity,
     Hash!Table
<1>5. Small!ResizeFails(t) <=> Hash!ResizeFails(t)
  BY DEF Small!ResizeFails, Small!used, Small!To, Small!Half, Small!Zero,
     Hash!ResizeFails, Hash!used, Hash!To, Hash!Half, Hash!Zero
<1>6. Small!Unlock(t) <=> Hash!Unlock(t)
  BY DEF Small!Unlock, Small!used, Small!To, Hash!Unlock, Hash!used, Hash!To
<1>7. Small!Decide(t) <=> Hash!Decide(t)
  BY DEF Small!Decide, Small!used, Small!To, Small!Main, Small!Half, Hash!Decide,
     Hash!used, Hash!To, Hash!Main, Hash!Half
<1>8. Small!Walk(t) <=> Hash!Walk(t)
  BY DEF Small!Walk, Small!used, Small!To, Hash!Walk, Hash!used, Hash!To
<1>9. Small!Create(t) <=> Hash!Create(t)
  BY DEF Small!Create, Small!used, Small!To, Hash!Create, Hash!used, Hash!To
<1>10. Small!CreateFails(t) <=> Hash!CreateFails(t)
  BY DEF Small!CreateFails, Small!used, Small!To, Small!Zero, Hash!CreateFails,
     Hash!used, Hash!To, Hash!Zero
<1>11. Small!Probe(t) <=> Hash!Probe(t)
  BY DEF Small!Probe, Small!used, Small!To, Small!Return, Small!Zero, Small!Main,
     Small!Slot, Small!KeyAt, Small!Put, Small!NextSlot, Hash!Probe, Hash!used,
     Hash!To, Hash!Return, Hash!Zero, Hash!Main, Hash!Slot, Hash!KeyAt, Hash!Put,
     Hash!NextSlot
<1>12. Small!Uncount(t) <=> Hash!Uncount(t)
  BY DEF Small!Uncount, Small!used, Small!To, Small!Return, Small!Zero, Hash!Uncount,
     Hash!used, Hash!To, Hash!Return, Hash!Zero
<1>13. Small!Exited(t) <=> Hash!Exited(t)
  BY DEF Small!Exited, Small!used, Small!To, Small!Return, Small!Zero, Hash!Exited,
     Hash!used, Hash!To, Hash!Return, Hash!Zero
<1> QED
  BY <1>1, <1>2, <1>3, <1>4, <1>5, <1>6, <1>7, <1>8, <1>9, <1>10, <1>11, <1>12, <1>13

\* Every step of the table of two slots.
LEMMA SmallNext == ASSUME HashInv(SmallHashOf), Small!Next PROVE HashInv(SmallHashOf)'
<1>1. PICK t \in Thread : Small!Get(t) \/ Small!Exit(t) \/ Small!Step(t)
  BY DEF Small!Next
<1>2. SmallHashOf \in [Thread -> Nat] /\ HashTypeInv
  BY HashConstants DEF HashInv
<1>3. \A j \in 1 .. Len(hash) : Small!Found(hash[j], t) = FoundBy(SmallHashOf, hash[j], t)
  BY <1>2, TableTypes, FoundIs
<1>4. CASE Small!Get(t)
  <2> DEFINE F == [j \in 1 .. Len(hash) |-> Small!Found(hash[j], t)]
  <2>1. /\ pc[t] = "idle" /\ UNCHANGED <<hash, count, resizing, inactive, mutex, exits>>
        /\ \/ /\ {j \in 1 .. Len(hash) : F[j] # {}} = {}
              /\ Hash!To(t, "count", [Hash!Zero EXCEPT !.main = Len(hash)]) /\ mine' = mine
           \/ \E j \in {j \in 1 .. Len(hash) : F[j] # {}} :
                LET v == hash[j].value[CHOOSE i \in F[j] : TRUE] IN
                \/ Hash!Return(t, v)
                \/ /\ Hash!To(t, "copy", [main |-> Len(hash), n |-> 0, i |-> SmallHashOf[t],
                                          p |-> v])
                   /\ mine' = mine
    BY <1>4, ZenonT(40) DEF Small!Get, Small!used, Small!To, Small!Return, Small!Zero, Hash!To, Hash!Return,
       Hash!Zero
  <2>2. \A j \in 1 .. Len(hash) : F[j] = FoundBy(SmallHashOf, hash[j], t)
    BY <1>3
  <2> HIDE DEF F
  <2> QED
    BY <1>2, <2>1, <2>2, HashBegins
<1>5. CASE Small!Exit(t)
  BY <1>2, <1>5, HashExitStep DEF Small!Exit, Small!To, Small!Zero, Hash!To, Hash!Zero
<1>6. CASE Small!Subscribe(t)
  BY <1>2, <1>6, HashSubscribeStep DEF Small!Subscribe, Small!used, Small!To, Hash!To
<1>7. CASE Small!Remove(t)
  <2>1. loc[t].main \in Nat /\ loc[t].main > 0 /\ loc[t].main <= Len(hash) /\ pc[t] = "exit"
    BY <1>2, <1>7, LocalTypes DEF Small!Remove, HashInv, ProbeAt
  <2>2. Len(hash) \in Nat
    BY <1>2 DEF HashTypeInv
  <2>3. Small!Found(hash[loc[t].main], t) = FoundBy(SmallHashOf, hash[loc[t].main], t)
    BY <1>3, <2>1, <2>2
  <2>4. /\ hash' = [hash EXCEPT ![loc[t].main].key =
              [i \in DOMAIN @ |-> IF i \in FoundBy(SmallHashOf, hash[loc[t].main], t)
                                  THEN Reusable ELSE @[i]]]
        /\ Hash!To(t, "exit", [loc[t] EXCEPT !.main = @ - 1])
        /\ UNCHANGED <<count, resizing, inactive, mutex, mine, exits>>
    BY <1>7, <2>3 DEF Small!Remove, Small!used, Small!Main, Small!To, Hash!To
  <2> QED
    BY <1>2, <2>1, <2>4, HashRemoveStep
<1>8. CASE ~Small!Subscribe(t) /\ ~Small!Remove(t) /\ Small!Step(t)
  BY <1>2, <1>8, SmallIsHash, HashPlainSteps DEF Small!Step
<1> QED
  BY <1>1, <1>4, <1>5, <1>6, <1>7, <1>8

\* The invariant of the part that runs; the other parts keep the first table.
PartHash == IF part = "small" THEN SmallHashOf ELSE HashOf
ProducerInv == HashInv(PartHash)

\* The invariant holds at first.
LEMMA HashFirst ==
  ASSUME NEW H \in [Thread -> Nat], NEW n \in Nat \ {0}, hash = <<Hash!Table(n)>>,
         count = 0, resizing = FALSE, inactive = <<>>, mutex = NoThread,
         pc = [t \in Thread |-> "idle"], loc = [t \in Thread |-> Hash!Zero],
         mine = [t \in Thread |-> 0], exits = 0
  PROVE  HashInv(H)
<1> DEFINE h == Hash!Table(n)
<1>1. /\ h.capacity = n
      /\ h.key = [i \in 0 .. n - 1 |-> Empty] /\ h.value = [i \in 0 .. n - 1 |-> 0]
  BY DEF Hash!Table
<1>2. h.key \in [0 .. n - 1 -> KeyValue] /\ h.value \in [0 .. n - 1 -> Nat]
  BY <1>1 DEF KeyValue
<1>3. h \in HashTable
  <2>1. h.key \in KeyArrays /\ h.value \in ValueArrays
    BY <1>2 DEF KeyArrays, ValueArrays
  <2> QED
    BY <1>1, <2>1 DEF Hash!Table, HashTable
<1> HIDE DEF h
<1>4. hash = <<h>>
  BY DEF h
<1>5. hash \in Seq(HashTable) /\ Len(hash) = 1 /\ hash[1] = h
  BY <1>3, <1>4
<1>6. \A j \in 1 .. Len(hash) : hash[j] = h
  BY <1>5
<1>7. HashTypeInv
  <2>1. \A j \in 1 .. Len(hash) :
          /\ hash[j].key \in [0 .. hash[j].capacity - 1 -> KeyValue]
          /\ hash[j].value \in [0 .. hash[j].capacity - 1 -> Nat]
    BY <1>1, <1>2, <1>6
  <2>2. pc \in [Thread -> HashPlace] /\ loc \in [Thread -> Local]
    BY LocalValues DEF HashPlace
  <2>3. inactive \in Seq(BOOLEAN) /\ mine \in [Thread -> Nat] /\ mutex \in Thread \cup {NoThread}
    OBVIOUS
  <2>4. count \in Int /\ exits \in Nat /\ Len(hash) >= 1
    BY <1>5
  <2>5. resizing \in BOOLEAN
    OBVIOUS
  <2> QED
    BY <1>5, <2>1, <2>2, <2>3, <2>4, <2>5 DEF HashTypeInv
<1>8. ResizeInv
  BY DEF ResizeInv, Resizing
<1>9. HashCountInv
  <2>1. Pending = {} /\ Owning = {}
    BY DEF Pending, Owning, Searching
  <2> QED
    BY <2>1, FS_EmptySet DEF HashCountInv
<1>10. ASSUME NEW t \in Thread PROVE OwnAt(t) /\ KeyAt(H, t) /\ ProbeAt(H, t)
  <2>1. Hash!Holds(t) = {} /\ Len(inactive) = 0 /\ pc[t] = "idle" /\ mine[t] = 0
    BY DEF Hash!Holds
  <2>2. \A j \in 1 .. Len(hash) : \A i \in 0 .. hash[j].capacity - 1 : hash[j].key[i] # t
    BY <1>1, <1>6, HashConstants
  <2>3. OwnAt(t)
    BY <2>1 DEF OwnAt, OwnLocal, Searching
  <2>4. KeyAt(H, t)
    BY <2>1, <2>2 DEF KeyAt
  <2>5. ProbeAt(H, t)
    BY <2>1 DEF ProbeAt, Searching
  <2> QED
    BY <2>3, <2>4, <2>5
<1> QED
  BY <1>7, <1>8, <1>9, <1>10 DEF HashInv

\* The table of either part is empty at first.
LEMMA ProducerStart == Init => ProducerInv
<1> SUFFICES ASSUME Init PROVE ProducerInv
  OBVIOUS
<1>1. CASE part = "small"
  <2>1. Small!Init /\ PartHash = SmallHashOf
    BY <1>1 DEF Init, PartHash
  <2>2. Small!Table(2) = Hash!Table(2) /\ Small!Zero = Hash!Zero
    BY DEF Small!Table, Small!Zero, Hash!Table, Hash!Zero
  <2>3. /\ hash = <<Hash!Table(2)>> /\ count = 0 /\ resizing = FALSE /\ inactive = <<>>
        /\ mutex = NoThread /\ pc = [t \in Thread |-> "idle"]
        /\ loc = [t \in Thread |-> Hash!Zero] /\ mine = [t \in Thread |-> 0] /\ exits = 0
    BY <2>1, <2>2 DEF Small!Init
  <2>4. SmallHashOf \in [Thread -> Nat] /\ 2 \in Nat \ {0}
    BY HashConstants
  <2>5. HashInv(SmallHashOf)
    BY <2>3, <2>4, HashFirst
  <2> QED
    BY <2>1, <2>5 DEF ProducerInv
<1>2. CASE part # "small"
  <2>1. Hash!Init /\ PartHash = HashOf
    BY <1>2 DEF Init, PartHash
  <2> QED
    BY <2>1, HashConstants, HashFirst DEF Hash!Init, ProducerInv
<1> QED
  BY <1>1, <1>2

\* Every step keeps it.
LEMMA ProducerStep == ProducerInv /\ [Next]_vars => ProducerInv'
<1> SUFFICES ASSUME ProducerInv, [Next]_vars PROVE ProducerInv'
  OBVIOUS
<1>1. part' = part
  BY DEF Next, OfPool, OfHash, OfSmall, OfSearch, OfBulk, OfWalk, OfToken, OfBase, Rest, vars
<1>2. PartHash' = PartHash
  BY <1>1 DEF PartHash
<1>3. CASE UNCHANGED hashing
  BY <1>2, <1>3 DEF ProducerInv, hashing, HashInv, HashTypeInv, ResizeInv, Resizing,
     HashCountInv, Pending, Owning, OwnAt, OwnLocal, Hash!Holds, KeyAt, Held, ProbeAt
<1>4. CASE part = "hash" /\ Hash!Next
  BY <1>1, <1>4, HashNext DEF ProducerInv, PartHash
<1>5. CASE part = "small" /\ Small!Next
  BY <1>1, <1>5, SmallNext DEF ProducerInv, PartHash
<1> QED
  BY <1>3, <1>4, <1>5 DEF Next, OfPool, OfHash, OfSmall, OfSearch, OfBulk, OfWalk, OfToken,
     OfBase, Rest, vars

\* The instance's Cardinality is that of FiniteSets.
LEMMA HashCardinality == ASSUME NEW S PROVE Hash!Cardinality(S) = Cardinality(S)
<1>1. Hash!IsFiniteSet(S) <=> IsFiniteSet(S)
  BY Zenon DEF Hash!IsFiniteSet, IsFiniteSet
<1> QED
  BY <1>1 DEF Hash!Cardinality, Cardinality

\* The count stays within its bounds and the resize flag is a lock.
LEMMA HashTypes == ASSUME NEW H \in [Thread -> Nat], HashInv(H) PROVE Hash!TypeOK
<1>1. HashTypeInv /\ ResizeInv /\ HashCountInv
  BY DEF HashInv
<1>2. count \in 0 .. Cardinality(Thread) + exits
  <2>1. Pending \subseteq Thread /\ Owning \subseteq Thread
    BY DEF Pending, Owning
  <2>2. /\ Cardinality(Pending) \in Nat /\ Cardinality(Owning) \in Nat
        /\ Cardinality(Thread) \in Nat /\ Cardinality(Owning) <= Cardinality(Thread)
    BY <2>1, HashConstants, FS_Subset, FS_CardinalityType
  <2>3. count \in Int /\ exits \in Nat
    BY <1>1 DEF HashTypeInv
  <2>4. Cardinality(Pending) <= count /\ count <= Cardinality(Owning) + exits
    BY <1>1 DEF HashCountInv
  <2> QED
    BY <2>2, <2>3, <2>4
<1>3. mine \in [Thread -> 0 .. Len(inactive)]
  <2>1. \A t \in Thread : mine[t] <= Len(inactive)
    BY DEF HashInv, OwnAt, OwnLocal
  <2>2. mine \in [Thread -> Nat] /\ Len(inactive) \in Nat
    BY <1>1 DEF HashTypeInv
  <2> QED
    BY <2>1, <2>2
<1>4. Cardinality({t \in Thread : pc[t] \in {"resize", "unlock", "giveup"}}) =
        IF resizing THEN 1 ELSE 0
  <2> DEFINE R == {t \in Thread : pc[t] \in {"resize", "unlock", "giveup"}}
  <2>1. CASE resizing
    <3>1. PICK t \in Thread : Resizing(t)
      BY <1>1, <2>1 DEF ResizeInv
    <3>2. R = {t}
      BY <1>1, <3>1 DEF ResizeInv, Resizing
    <3>3. Cardinality(R) = 1
      BY <3>2, FS_Singleton
    <3> QED
      BY <2>1, <3>3
  <2>2. CASE ~resizing
    <3>1. R = {}
      BY <1>1, <2>2 DEF ResizeInv, Resizing
    <3>2. Cardinality(R) = 0
      BY <3>1, FS_EmptySet
    <3> QED
      BY <2>2, <3>2
  <2> QED
    BY <2>1, <2>2
<1>5. /\ resizing \in BOOLEAN /\ mutex \in Thread \cup {NoThread}
      /\ inactive \in Seq(BOOLEAN)
  BY <1>1 DEF HashTypeInv
<1>6. \A S : Hash!Cardinality(S) = Cardinality(S)
  BY HashCardinality
<1> QED
  BY <1>2, <1>3, <1>4, <1>5, <1>6, Zenon DEF Hash!TypeOK

\* No two threads hold the same producer.
LEMMA HashOwners == ASSUME NEW H \in [Thread -> Nat], HashInv(H) PROVE Hash!OneOwner
<1> SUFFICES ASSUME NEW t \in Thread
             PROVE  /\ Cardinality(Hash!Holds(t)) <= 1
                    /\ \A p \in Hash!Holds(t) :
                         ~inactive[p] /\ \A u \in Thread \ {t} : p \notin Hash!Holds(u)
  BY HashCardinality DEF Hash!OneOwner
<1>1. OwnAt(t) /\ OwnLocal(t)
  BY DEF HashInv, OwnAt
<1>2. PICK p : Hash!Holds(t) \subseteq {p}
  <2>1. CASE pc[t] \in {"subscribe", "probe", "uncount"}
    <3>1. mine[t] = 0
      BY <1>1, <2>1 DEF OwnLocal, Searching
    <3>2. Hash!Holds(t) \subseteq {loc[t].p}
      BY <3>1 DEF Hash!Holds
    <3> QED
      BY <3>2
  <2>2. CASE pc[t] \notin {"subscribe", "probe", "uncount"}
    <3>1. Hash!Holds(t) \subseteq {mine[t]}
      BY <1>1, <2>2 DEF OwnLocal, Hash!Holds
    <3> QED
      BY <3>1
  <2> QED
    BY <2>1, <2>2
<1>3. Cardinality(Hash!Holds(t)) <= 1
  <2>1. IsFiniteSet({p}) /\ Cardinality({p}) = 1
    BY FS_Singleton
  <2> QED
    BY <1>2, <2>1, FS_Subset
<1> QED
  BY <1>1, <1>3 DEF OwnAt

\* A search finds what the thread had, and nothing if it had nothing.
LEMMA HashFindsOwn ==
  ASSUME NEW H \in [Thread -> Nat], HashInv(H), NEW t \in Thread, pc[t] = "idle"
  PROVE  UNION {{hash[j].value[i] : i \in FoundBy(H, hash[j], t)} : j \in 1 .. Len(hash)} =
           {mine[t]} \ {0}
<1>1. \A j \in 1 .. Len(hash) :
        /\ FoundBy(H, hash[j], t) = {i \in 0 .. hash[j].capacity - 1 : hash[j].key[i] = t}
        /\ \A i \in FoundBy(H, hash[j], t) : hash[j].value[i] = mine[t] /\ mine[t] # 0
  BY SearchFinds
<1>2. mine[t] # 0 => \E j \in 1 .. Len(hash) : FoundBy(H, hash[j], t) # {}
  <2>1. KeyAt(H, t)
    BY DEF HashInv
  <2> QED
    BY <1>1, <2>1 DEF KeyAt
<1> DEFINE V(j) == {hash[j].value[i] : i \in FoundBy(H, hash[j], t)}
<1>3. ASSUME NEW j \in 1 .. Len(hash), NEW v \in V(j) PROVE v \in {mine[t]} \ {0}
  BY <1>1, <1>3
<1>4. mine[t] # 0 => \E j \in 1 .. Len(hash) : mine[t] \in V(j)
  BY <1>1, <1>2
<1> HIDE DEF V
<1>5. UNION {V(j) : j \in 1 .. Len(hash)} = {mine[t]} \ {0}
  BY <1>3, <1>4
<1> QED
  BY <1>5 DEF V

\* The same of the definitions of ProducerHash.
LEMMA ProducersFound ==
  ASSUME ProducerInv
  PROVE  IF part = "small" THEN Small!FindsItsOwn ELSE Hash!FindsItsOwn
<1>1. HashTypeInv /\ HashOf \in [Thread -> Nat] /\ SmallHashOf \in [Thread -> Nat]
  BY HashConstants DEF ProducerInv, HashInv
<1>2. ASSUME NEW t \in Thread, NEW j \in 1 .. Len(hash)
      PROVE  /\ Hash!Found(hash[j], t) = FoundBy(HashOf, hash[j], t)
             /\ Small!Found(hash[j], t) = FoundBy(SmallHashOf, hash[j], t)
  <2>1. hash[j].capacity \in Nat \ {0}
    BY <1>1, TableTypes
  <2> QED
    BY <2>1, FoundIs
<1>3. CASE part = "small"
  <2>1. HashInv(SmallHashOf)
    BY <1>3 DEF ProducerInv, PartHash
  <2>2. ASSUME NEW t \in Thread, pc[t] = "idle"
        PROVE  UNION {{hash[j].value[i] : i \in Small!Found(hash[j], t)} : j \in 1 .. Len(hash)}
                 = {mine[t]} \ {0}
    <3> DEFINE V(j) == {hash[j].value[i] : i \in FoundBy(SmallHashOf, hash[j], t)}
               W(j) == {hash[j].value[i] : i \in Small!Found(hash[j], t)}
    <3>1. UNION {V(j) : j \in 1 .. Len(hash)} = {mine[t]} \ {0}
      BY <1>1, <2>1, <2>2, HashFindsOwn
    <3>2. \A j \in 1 .. Len(hash) : W(j) = V(j)
      BY <1>2
    <3> HIDE DEF V, W
    <3>3. UNION {W(j) : j \in 1 .. Len(hash)} = UNION {V(j) : j \in 1 .. Len(hash)}
      BY <3>2
    <3> QED
      BY <3>1, <3>3 DEF W
  <2> QED
    BY <1>3, <2>2 DEF Small!FindsItsOwn
<1>4. CASE part # "small"
  <2>1. HashInv(HashOf)
    BY <1>4 DEF ProducerInv, PartHash
  <2>2. ASSUME NEW t \in Thread, pc[t] = "idle"
        PROVE  UNION {{hash[j].value[i] : i \in Hash!Found(hash[j], t)} : j \in 1 .. Len(hash)}
                 = {mine[t]} \ {0}
    <3> DEFINE V(j) == {hash[j].value[i] : i \in FoundBy(HashOf, hash[j], t)}
               W(j) == {hash[j].value[i] : i \in Hash!Found(hash[j], t)}
    <3>1. UNION {V(j) : j \in 1 .. Len(hash)} = {mine[t]} \ {0}
      BY <1>1, <2>1, <2>2, HashFindsOwn
    <3>2. \A j \in 1 .. Len(hash) : W(j) = V(j)
      BY <1>2
    <3> HIDE DEF V, W
    <3>3. UNION {W(j) : j \in 1 .. Len(hash)} = UNION {V(j) : j \in 1 .. Len(hash)}
      BY <3>2
    <3> QED
      BY <3>1, <3>3 DEF W
  <2> QED
    BY <1>4, <2>2 DEF Hash!FindsItsOwn
<1> QED
  BY <1>3, <1>4

\* An implicit producer has one owner at a time, whatever the hash function, for
\* any number of threads and tables of any size, although tables are chained,
\* threads exit and ids, slots and producers are reused: a producer is taken up
\* only by the compare-and-swap on inactive, a slot with a thread's id is
\* written and removed by that thread alone, and since no slot becomes empty again
\* a search for the id gets to every one of them.
THEOREM ProducersAreSafe == Spec => []ProducersSafe
<1>1. ProducerInv => ProducersSafe
  <2> SUFFICES ASSUME ProducerInv PROVE ProducersSafe
    OBVIOUS
  <2>1. PartHash \in [Thread -> Nat]
    BY HashConstants DEF PartHash
  <2>2. Hash!TypeOK /\ Hash!OneOwner
    BY <2>1, HashTypes, HashOwners DEF ProducerInv
  <2> QED
    BY <2>2, ProducersFound DEF ProducersSafe
<1> QED
  BY <1>1, ProducerStart, ProducerStep, PTL DEF Spec

(***************************************************************************)
(* TryDequeue: the invariant                                               *)
(***************************************************************************)
\* The values of the locals and of the tokens.
SearchLocal ==
  [kind : {"none", "any", "bulk", "token"}, ptr : Nat, best : Nat, size : Nat, n : Nat,
   last : Nat, max : Nat, seen : Nat, want : Nat, my : Nat]
TokenState == [desired : Nat, current : Nat, known : Int, consumed : Nat]
SearchPlace == {"idle", "size", "look", "claim", "settle", "done", "failed"}
Counters == [Search!Producer -> Nat]

ListTypeInv ==
  /\ producerCount \in Nat /\ listed \in Nat
  /\ listed <= producerCount /\ producerCount <= MaxProducers
  /\ tail \in Counters /\ taken \in Counters /\ opt \in Counters /\ over \in Counters
  /\ \A p \in Search!Producer : tail[p] <= MaxTail /\ (p > listed => tail[p] = 0)
  /\ globalOffset \in Nat
  /\ token \in [Thread -> TokenState]
  /\ at \in [Thread -> SearchPlace] /\ search \in [Thread -> SearchLocal]
  /\ start \in [Thread -> Counters] /\ disturbed \in [Thread -> SUBSET Search!Producer]

\* The claims at producer p, as in the proofs about ProducerBase: each is void, won,
\* or open at one consumer.
Settles(c, p) == at[c] = "settle" /\ search[c].ptr = p
OpenAt(p) ==
  [c \in Thread |-> IF Settles(c, p)
                    THEN search[c].my .. search[c].my + search[c].want - 1 ELSE {}]
Ledger(n, V, W, O) ==
  /\ V \subseteq 0 .. n - 1 /\ W \subseteq 0 .. n - 1 /\ V \cap W = {}
  /\ \A c \in Thread :
       /\ O[c] \subseteq 0 .. n - 1 /\ O[c] \cap V = {} /\ O[c] \cap W = {}
       /\ \A d \in Thread \ {c} : O[c] \cap O[d] = {}
  /\ \A x \in 0 .. n - 1 : x \in V \/ x \in W \/ \E c \in Thread : x \in O[c]
Under(V, n) == {x \in V : x < n}

\* Of the claims below top, all that were won among them, at most tail[p] are not
\* void; and a consumer has seen at most the void claims below its own.
StreamAt(p, V, W, top) ==
  /\ Ledger(opt[p], V, W, OpenAt(p))
  /\ over[p] = Cardinality(V) /\ taken[p] = Cardinality(W)
  /\ W \subseteq 0 .. top - 1 /\ top - Cardinality(Under(V, top)) <= tail[p]
  /\ \A c \in Thread : Settles(c, p) =>
       search[c].seen <= Cardinality(Under(V, search[c].my))
StreamInv(p) ==
  \E V \in SUBSET (0 .. opt[p] - 1) : \E W \in SUBSET (0 .. opt[p] - 1) :
    \E top \in 0 .. opt[p] : StreamAt(p, V, W, top)

\* Consumer c need not look at p any more.
Over(c, p) == p \in disturbed[c] \/ start[c][p] <= taken[p]

\* The producers that the walk of a token has visited since the current one.
Visited(ptr, current) ==
  {p \in Search!Producer : IF ptr < current THEN ptr < p /\ p <= current
                           ELSE p <= current \/ ptr < p}
SizeInv(c) ==
  LET l == search[c] IN
  /\ l.kind = "any" /\ l.max = 1 /\ l.last = 0 /\ l.best <= listed
  /\ l.n > 0 => l.size > 0
  /\ l.size > 0 => l.best \in 1 .. listed
  /\ l.n = 0 => \A p \in Search!Producer : p > l.ptr => Over(c, p)
AnyInv(c) ==
  LET l == search[c] IN
  /\ l.max = 1 /\ l.best \in 1 .. listed
  /\ l.n > 0 => l.ptr = l.best
  /\ l.n = 0 => Over(c, l.best) /\ \A p \in Search!Producer : p > l.ptr => Over(c, p)
BulkInv(c) == \A p \in Search!Producer : p > search[c].ptr => Over(c, p)
WalkInv(c) ==
  LET l == search[c] IN
  /\ token[c].current \in 1 .. listed
  /\ l.last = 0 => l.ptr = token[c].current
  /\ l.last # 0 =>
       /\ l.last \in 1 .. listed /\ l.ptr # token[c].current
       /\ \A p \in Search!Producer :
            p > l.last \/ p \in Visited(l.ptr, token[c].current) => Over(c, p)
ClaimAt(c) ==
  LET l == search[c] IN
  /\ at[c] \in {"claim", "settle"} =>
       l.want \in 1 .. l.max /\ l.seen <= over[l.ptr]
  /\ at[c] = "claim" /\ l.want < l.max => start[c][l.ptr] + l.seen <= l.want + opt[l.ptr]
  /\ at[c] = "settle" /\ l.want < l.max => start[c][l.ptr] + l.seen <= l.want + l.my
SearchInv(c) ==
  LET l == search[c] IN
  /\ l.ptr <= listed
  /\ token[c].desired <= listed /\ token[c].current <= listed
  /\ token[c].desired # 0 => token[c].current # 0
  /\ \A p \in Search!Producer : start[c][p] <= tail[p]
  /\ at[c] = "size" => SizeInv(c)
  /\ at[c] \in {"look", "claim", "settle"} =>
       /\ l.ptr # 0 /\ l.max # 0 /\ l.kind # "none"
       /\ l.kind = "any" => AnyInv(c)
       /\ l.kind = "bulk" => BulkInv(c)
       /\ l.kind = "token" => WalkInv(c)
  /\ ClaimAt(c)
  /\ at[c] = "failed" => \A p \in Search!Producer : Over(c, p)

ListInv ==
  /\ ListTypeInv
  /\ \A p \in Search!Producer : StreamInv(p)
  /\ \A c \in Thread : SearchInv(c)

\* With all producers listed from the beginning, the tokens that follow the global
\* offset move together; TokensKept: a step moves none of them.
SpreadInv ==
  /\ listed = MaxProducers /\ producerCount = MaxProducers
  /\ \A c \in Thread :
       /\ token[c].desired = 0 => token[c].known = -1
       /\ token[c].desired # 0 =>
            token[c].desired - 1 = (InitialOffset[c] - token[c].known - 1) % MaxProducers
TokensKept ==
  \A c \in Thread :
    token'[c].desired = token[c].desired /\ token'[c].known = token[c].known

-------------------------------------------------------------------------------
\* What the proofs use of the constants.
LEMMA ListConstants ==
  /\ MaxProducers \in Nat /\ MaxProducers >= 1 /\ MaxTail \in Nat /\ QUOTA \in Nat \ {0}
  /\ InitialOffset \in [Thread -> Nat] /\ MaxBulk \in Nat \ {0}
  /\ Search!Producer = 1 .. MaxProducers
<1>1. Search!TryDequeueAssumption
  BY Instances
<1> QED
  BY <1>1 DEF Search!TryDequeueAssumption, Search!Producer

\* A set of natural numbers below a bound is finite.
LEMMA FiniteUnder ==
  ASSUME NEW n \in Nat, NEW S \in SUBSET (0 .. n - 1)
  PROVE  IsFiniteSet(S) /\ Cardinality(S) \in Nat
<1>1. IsFiniteSet(0 .. n - 1)
  BY FS_Interval
<1>2. IsFiniteSet(S)
  BY <1>1, FS_Subset, Zenon
<1> QED
  BY <1>2, FS_CardinalityType, Zenon

\* Adding an interval of new claims adds its length.
LEMMA ClaimsAdded ==
  ASSUME NEW n \in Nat, NEW S \in SUBSET (0 .. n - 1),
         NEW a \in Nat, NEW k \in Nat, S \cap (a .. a + k - 1) = {}
  PROVE  Cardinality(S \cup (a .. a + k - 1)) = Cardinality(S) + k
<1> DEFINE I == a .. a + k - 1
<1>1. IsFiniteSet(I) /\ Cardinality(I) = k
  <2>1. IsFiniteSet(I) /\ Cardinality(I) = IF a > a + k - 1 THEN 0 ELSE (a + k - 1) - a + 1
    BY FS_Interval
  <2> QED
    BY <2>1
<1>2. IsFiniteSet(S) /\ Cardinality(S) \in Nat
  BY FiniteUnder
<1>3. Cardinality(S \cap I) = 0
  <2>1. S \cap I = {}
    OBVIOUS
  <2> QED
    BY <2>1, FS_EmptySet
<1> HIDE DEF I
<1>4. Cardinality(S \cup I) = Cardinality(S) + Cardinality(I) - Cardinality(S \cap I)
  BY <1>1, <1>2, FS_Union, Zenon
<1> QED
  BY <1>1, <1>2, <1>3, <1>4 DEF I

\* More void claims, more below any number.
LEMMA UnderGrows ==
  ASSUME NEW n \in Nat, NEW V \in SUBSET (0 .. n - 1), NEW U \in SUBSET V, NEW m
  PROVE  /\ Cardinality(Under(U, m)) \in Nat /\ Cardinality(Under(V, m)) \in Nat
         /\ Cardinality(Under(U, m)) <= Cardinality(Under(V, m))
<1>1. Under(U, m) \in SUBSET (0 .. n - 1) /\ Under(V, m) \in SUBSET (0 .. n - 1)
  BY DEF Under
<1>2. Under(U, m) \in SUBSET Under(V, m)
  BY DEF Under
<1>3. IsFiniteSet(Under(V, m))
  BY <1>1, FiniteUnder
<1>4. Cardinality(Under(U, m)) <= Cardinality(Under(V, m))
  BY <1>2, <1>3, FS_Subset, Zenon
<1> QED
  BY <1>1, <1>4, FiniteUnder

\* If only c has a claim open, every other one is void or won.
LEMMA LedgerTotal ==
  ASSUME NEW n \in Nat, NEW V, NEW W, NEW O, Ledger(n, V, W, O), NEW c \in Thread,
         \A d \in Thread \ {c} : O[d] = {}, NEW a \in Nat, NEW k \in Nat,
         O[c] = a .. a + k - 1
  PROVE  Cardinality(V) + Cardinality(W) + k = n
<1>1. V \in SUBSET (0 .. n - 1) /\ W \in SUBSET (0 .. n - 1) /\ V \cap W = {}
  BY DEF Ledger
<1>2. (V \cup W) \cup (a .. a + k - 1) = 0 .. n - 1
  <2>1. O[c] \subseteq 0 .. n - 1 /\ \A x \in 0 .. n - 1 : x \in V \/ x \in W \/ x \in O[c]
    BY DEF Ledger
  <2> QED
    BY <1>1, <2>1
<1>3. (V \cup W) \cap (a .. a + k - 1) = {}
  BY DEF Ledger
<1>4. /\ IsFiniteSet(V) /\ IsFiniteSet(W)
      /\ Cardinality(V) \in Nat /\ Cardinality(W) \in Nat
  BY <1>1, FiniteUnder
<1>5. Cardinality(V \cup W) = Cardinality(V) + Cardinality(W)
  <2>1. Cardinality(V \cap W) = 0
    BY <1>1, FS_EmptySet
  <2>2. Cardinality(V \cup W) = Cardinality(V) + Cardinality(W) - Cardinality(V \cap W)
    BY <1>4, FS_Union, Zenon
  <2> QED
    BY <1>4, <2>1, <2>2
<1>6. Cardinality((V \cup W) \cup (a .. a + k - 1)) = Cardinality(V \cup W) + k
  <2>1. V \cup W \in SUBSET (0 .. n - 1)
    BY <1>1
  <2> QED
    BY <1>3, <2>1, ClaimsAdded
<1>7. Cardinality(0 .. n - 1) = n
  <2>1. Cardinality(0 .. n - 1) = IF 0 > n - 1 THEN 0 ELSE (n - 1) - 0 + 1
    BY FS_Interval
  <2> QED
    BY <2>1
<1> QED
  BY <1>2, <1>4, <1>5, <1>6, <1>7

\* A new claim.
LEMMA LedgerClaim ==
  ASSUME NEW n \in Nat, NEW V, NEW W, NEW O \in [Thread -> SUBSET Nat], Ledger(n, V, W, O),
         NEW c \in Thread, O[c] = {}, NEW k \in Nat, NEW P \in [Thread -> SUBSET Nat],
         P[c] = n .. n + k - 1, \A d \in Thread \ {c} : P[d] = O[d]
  PROVE  Ledger(n + k, V, W, P)
<1>1. 0 .. n - 1 \subseteq 0 .. n + k - 1 /\ P[c] \subseteq 0 .. n + k - 1
  OBVIOUS
<1>2. V \subseteq 0 .. n - 1 /\ W \subseteq 0 .. n - 1 /\ V \cap W = {}
  BY DEF Ledger
<1>3. \A d \in Thread \ {c} : P[d] \subseteq 0 .. n - 1 /\ P[d] \cap V = {} /\ P[d] \cap W = {}
  BY DEF Ledger
<1>4. \A S \in SUBSET (0 .. n - 1) : P[c] \cap S = {}
  OBVIOUS
<1>5. \A d, e \in Thread : d # e => P[d] \cap P[e] = {}
  <2> SUFFICES ASSUME NEW d \in Thread, NEW e \in Thread, d # e PROVE P[d] \cap P[e] = {}
    OBVIOUS
  <2>1. CASE d = c
    BY <1>3, <1>4, <2>1
  <2>2. CASE e = c
    BY <1>3, <1>4, <2>2
  <2>3. CASE d # c /\ e # c
    BY <2>3 DEF Ledger
  <2> QED
    BY <2>1, <2>2, <2>3
<1>6. ASSUME NEW x \in 0 .. n + k - 1
      PROVE  x \in V \/ x \in W \/ \E d \in Thread : x \in P[d]
  <2>1. CASE x \in 0 .. n - 1
    <3>1. x \in V \/ x \in W \/ \E d \in Thread : x \in O[d]
      BY <2>1 DEF Ledger
    <3> QED
      BY <3>1
  <2>2. CASE x \notin 0 .. n - 1
    <3>1. x \in P[c]
      BY <2>2
    <3> QED
      BY <3>1
  <2> QED
    BY <2>1, <2>2
<1>7. ASSUME NEW d \in Thread
      PROVE  /\ P[d] \subseteq 0 .. n + k - 1 /\ P[d] \cap V = {} /\ P[d] \cap W = {}
             /\ \A e \in Thread \ {d} : P[d] \cap P[e] = {}
  <2>1. CASE d = c
    BY <1>1, <1>2, <1>4, <1>5, <2>1
  <2>2. CASE d # c
    BY <1>1, <1>3, <1>5, <2>2
  <2> QED
    BY <2>1, <2>2
<1>8. V \subseteq 0 .. n + k - 1 /\ W \subseteq 0 .. n + k - 1
  BY <1>1, <1>2
<1> QED
  BY <1>2, <1>6, <1>7, <1>8 DEF Ledger

\* A claim is settled: its beginning X is won, the rest Y is void.
LEMMA LedgerSettle ==
  ASSUME NEW n \in Nat, NEW V, NEW W, NEW O \in [Thread -> SUBSET Nat], Ledger(n, V, W, O),
         NEW c \in Thread, NEW X, NEW Y, O[c] = X \cup Y, X \cap Y = {},
         NEW P \in [Thread -> SUBSET Nat],
         P[c] = {}, \A d \in Thread \ {c} : P[d] = O[d]
  PROVE  Ledger(n, V \cup Y, W \cup X, P)
<1>1. /\ V \subseteq 0 .. n - 1 /\ W \subseteq 0 .. n - 1 /\ V \cap W = {}
      /\ X \subseteq 0 .. n - 1 /\ Y \subseteq 0 .. n - 1
      /\ X \cap V = {} /\ X \cap W = {} /\ Y \cap V = {} /\ Y \cap W = {}
  <2>1. /\ V \subseteq 0 .. n - 1 /\ W \subseteq 0 .. n - 1 /\ V \cap W = {}
        /\ O[c] \subseteq 0 .. n - 1 /\ O[c] \cap V = {} /\ O[c] \cap W = {}
    BY DEF Ledger
  <2> QED
    BY <2>1
<1>2. V \cup Y \subseteq 0 .. n - 1 /\ W \cup X \subseteq 0 .. n - 1
  BY <1>1
<1>3. (V \cup Y) \cap (W \cup X) = {}
  BY <1>1
<1>4. ASSUME NEW d \in Thread
      PROVE  /\ P[d] \subseteq 0 .. n - 1 /\ P[d] \cap (V \cup Y) = {} /\ P[d] \cap (W \cup X) = {}
             /\ \A e \in Thread \ {d} : P[d] \cap P[e] = {}
  <2>1. CASE d = c
    BY <2>1
  <2>2. CASE d # c
    <3>1. /\ O[d] \subseteq 0 .. n - 1 /\ O[d] \cap V = {} /\ O[d] \cap W = {}
          /\ O[d] \cap O[c] = {} /\ \A e \in Thread \ {d} : O[d] \cap O[e] = {}
      BY <2>2 DEF Ledger
    <3> QED
      BY <2>2, <3>1
  <2> QED
    BY <2>1, <2>2
<1>5. ASSUME NEW x \in 0 .. n - 1
      PROVE  x \in V \cup Y \/ x \in W \cup X \/ \E d \in Thread : x \in P[d]
  <2>1. x \in V \/ x \in W \/ \E d \in Thread : x \in O[d]
    BY DEF Ledger
  <2> QED
    BY <2>1
<1> QED
  BY <1>2, <1>3, <1>4, <1>5 DEF Ledger

\* Of the claims below top that are not void, the won ones are some.
LEMMA LedgerHead ==
  ASSUME NEW n \in Nat, NEW V \in SUBSET (0 .. n - 1), NEW top \in 0 .. n,
         NEW W \in SUBSET (0 .. top - 1), V \cap W = {}
  PROVE  Cardinality(W) + Cardinality(Under(V, top)) <= top
<1> DEFINE U == Under(V, top)
<1>0. top \in Nat
  OBVIOUS
<1>1. U \in SUBSET (0 .. top - 1) /\ W \cap U = {} /\ W \cup U \in SUBSET (0 .. top - 1)
  <2>1. U \subseteq 0 .. top - 1
    <3>1. \A x \in U : x \in Int /\ 0 <= x /\ x < top
      BY DEF Under
    <3>2. \A x \in Int : 0 <= x /\ x < top => x \in 0 .. top - 1
      BY <1>0
    <3> QED
      BY <3>1, <3>2, Zenon
  <2>2. U \subseteq V
    BY DEF Under
  <2> HIDE DEF U
  <2> QED
    BY <2>1, <2>2
<1> HIDE DEF U
<1>2. /\ IsFiniteSet(U) /\ IsFiniteSet(W)
      /\ Cardinality(U) \in Nat /\ Cardinality(W) \in Nat
  BY <1>0, <1>1, FiniteUnder
<1>3. Cardinality(W \cup U) = Cardinality(W) + Cardinality(U)
  <2>1. Cardinality(W \cap U) = 0
    BY <1>1, FS_EmptySet
  <2>2. Cardinality(W \cup U) = Cardinality(W) + Cardinality(U) - Cardinality(W \cap U)
    BY <1>2, FS_Union, Zenon
  <2> QED
    BY <1>2, <2>1, <2>2
<1>4. IsFiniteSet(0 .. top - 1) /\ Cardinality(0 .. top - 1) = top
  <2>1. /\ IsFiniteSet(0 .. top - 1)
        /\ Cardinality(0 .. top - 1) = IF 0 > top - 1 THEN 0 ELSE (top - 1) - 0 + 1
    BY FS_Interval
  <2> QED
    BY <2>1
<1>5. Cardinality(W \cup U) <= Cardinality(0 .. top - 1)
  BY <1>1, <1>4, FS_Subset, Zenon
<1> QED
  BY <1>2, <1>3, <1>4, <1>5 DEF U

(***************************************************************************)
(* TryDequeue: what a step of one consumer leaves alone                    *)
(***************************************************************************)
\* The types of where a consumer stands.
LEMMA SearchTypes ==
  ASSUME ListTypeInv, NEW c \in Thread
  PROVE  /\ at[c] \in SearchPlace /\ search[c] \in SearchLocal /\ token[c] \in TokenState
         /\ search[c].ptr \in Nat /\ search[c].best \in Nat /\ search[c].size \in Nat
         /\ search[c].n \in Nat /\ search[c].last \in Nat /\ search[c].max \in Nat
         /\ search[c].seen \in Nat /\ search[c].want \in Nat /\ search[c].my \in Nat
         /\ search[c].kind \in {"none", "any", "bulk", "token"}
         /\ token[c].desired \in Nat /\ token[c].current \in Nat
         /\ token[c].known \in Int /\ token[c].consumed \in Nat
<1>1. at[c] \in SearchPlace /\ search[c] \in SearchLocal /\ token[c] \in TokenState
  BY DEF ListTypeInv
<1>2. \A l \in SearchLocal :
        /\ l.ptr \in Nat /\ l.best \in Nat /\ l.size \in Nat /\ l.n \in Nat
        /\ l.last \in Nat /\ l.max \in Nat /\ l.seen \in Nat /\ l.want \in Nat
        /\ l.my \in Nat /\ l.kind \in {"none", "any", "bulk", "token"}
  BY DEF SearchLocal
<1>3. \A t \in TokenState :
        t.desired \in Nat /\ t.current \in Nat /\ t.known \in Int /\ t.consumed \in Nat
  BY DEF TokenState
<1> QED
  BY <1>1, <1>2, <1>3

\* The types of the counters.
LEMMA CounterTypes ==
  ASSUME ListTypeInv, NEW p \in Search!Producer
  PROVE  /\ tail[p] \in Nat /\ taken[p] \in Nat /\ opt[p] \in Nat /\ over[p] \in Nat
         /\ \A c \in Thread : start[c][p] \in Nat
  BY DEF ListTypeInv, Counters

\* Nothing is unlisted, unpublished, put back or forgotten.
ListGrows ==
  /\ listed <= listed'
  /\ \A p \in Search!Producer :
       /\ tail[p] <= tail'[p] /\ taken[p] <= taken'[p]
       /\ opt[p] <= opt'[p] /\ over[p] <= over'[p]
SearchKept(d) ==
  /\ at'[d] = at[d] /\ search'[d] = search[d] /\ token'[d] = token[d]
  /\ start'[d] = start[d] /\ disturbed'[d] = disturbed[d]

\* What need not be looked at stays so.
LEMMA OverStays ==
  ASSUME ListTypeInv, ListTypeInv', ListGrows, NEW d \in Thread, NEW p \in Search!Producer,
         start'[d] = start[d], disturbed[d] \subseteq disturbed'[d], Over(d, p)
  PROVE  Over(d, p)'
<1>1. taken[p] \in Nat /\ taken'[p] \in Nat /\ start[d][p] \in Nat
  BY DEF ListTypeInv, Counters
<1>2. taken[p] <= taken'[p]
  BY DEF ListGrows
<1> QED
  BY <1>1, <1>2 DEF Over

\* The search of a consumer that does not move.
LEMMA OthersSearch ==
  ASSUME ListTypeInv, ListTypeInv', ListGrows, NEW d \in Thread, SearchInv(d), SearchKept(d)
  PROVE  SearchInv(d)'
<1>1. \A p \in Search!Producer : Over(d, p) => Over(d, p)'
  BY OverStays DEF SearchKept
<1> DEFINE l == search[d]
           t == token[d]
<1>2. /\ l.ptr \in Nat /\ l.best \in Nat /\ l.last \in Nat /\ l.want \in Nat /\ l.my \in Nat
      /\ l.seen \in Nat /\ t.desired \in Nat /\ t.current \in Nat
  BY SearchTypes
<1>3. /\ search'[d] = l /\ token'[d] = t /\ at'[d] = at[d] /\ start'[d] = start[d]
  BY DEF SearchKept
<1> HIDE DEF l, t
<1>4. listed \in Nat /\ listed' \in Nat /\ listed <= listed'
  BY DEF ListTypeInv, ListGrows
<1>5. /\ l.ptr <= listed' /\ t.desired <= listed' /\ t.current <= listed'
      /\ t.desired # 0 => t.current # 0
  BY <1>2, <1>4 DEF SearchInv, l, t
<1>6. \A p \in Search!Producer : start[d][p] <= tail'[p]
  <2>1. \A p \in Search!Producer :
          /\ tail[p] \in Nat /\ tail'[p] \in Nat /\ start[d][p] \in Nat
          /\ tail[p] <= tail'[p] /\ start[d][p] <= tail[p]
    BY DEF ListTypeInv, Counters, ListGrows, SearchInv
  <2> QED
    BY <2>1
<1>7. at[d] = "size" => SizeInv(d)'
  <2>1. at[d] = "size" => SizeInv(d)
    BY DEF SearchInv
  <2> QED
    BY <1>1, <1>2, <1>3, <1>4, <2>1 DEF SizeInv, l
<1>8. at[d] \in {"look", "claim", "settle"} =>
        /\ l.ptr # 0 /\ l.max # 0 /\ l.kind # "none"
        /\ l.kind = "any" => AnyInv(d)'
        /\ l.kind = "bulk" => BulkInv(d)'
        /\ l.kind = "token" => WalkInv(d)'
  <2> SUFFICES ASSUME at[d] \in {"look", "claim", "settle"}
               PROVE  /\ l.ptr # 0 /\ l.max # 0 /\ l.kind # "none"
                      /\ l.kind = "any" => AnyInv(d)'
                      /\ l.kind = "bulk" => BulkInv(d)'
                      /\ l.kind = "token" => WalkInv(d)'
    OBVIOUS
  <2>1. /\ l.ptr # 0 /\ l.max # 0 /\ l.kind # "none"
        /\ l.kind = "any" => AnyInv(d)
        /\ l.kind = "bulk" => BulkInv(d)
        /\ l.kind = "token" => WalkInv(d)
    BY DEF SearchInv, l
  <2>2. ASSUME l.kind = "any" PROVE AnyInv(d)'
    <3>1. AnyInv(d)
      BY <2>1, <2>2
    <3>2. l.best \in Search!Producer
      BY <1>2, <3>1, ListConstants DEF AnyInv, l, ListTypeInv
    <3> QED
      BY <1>1, <1>2, <1>3, <1>4, <3>1, <3>2 DEF AnyInv, l
  <2>3. ASSUME l.kind = "bulk" PROVE BulkInv(d)'
    BY <1>1, <1>3, <2>1, <2>3 DEF BulkInv, l
  <2>4. ASSUME l.kind = "token" PROVE WalkInv(d)'
    <3>1. WalkInv(d)
      BY <2>1, <2>4
    <3>2. /\ t.current \in 1 .. listed' /\ (l.last = 0 => l.ptr = t.current)
          /\ l.last # 0 => l.last \in 1 .. listed' /\ l.ptr # t.current
      BY <1>2, <1>4, <3>1 DEF WalkInv, l, t
    <3>3. ASSUME l.last # 0, NEW p \in Search!Producer,
                 p > l.last \/ p \in Visited(l.ptr, t.current)
          PROVE  Over(d, p)'
      BY <1>1, <3>1, <3>3 DEF WalkInv, l, t
    <3> QED
      BY <1>3, <3>2, <3>3 DEF WalkInv
  <2> QED
    BY <2>1, <2>2, <2>3, <2>4
<1>9. ClaimAt(d)'
  <2>1. CASE at[d] \notin {"claim", "settle"}
    BY <1>3, <2>1 DEF ClaimAt
  <2>2. CASE at[d] \in {"claim", "settle"}
    <3>1. ClaimAt(d) /\ l.ptr # 0 /\ l.ptr <= listed
      BY <2>2 DEF SearchInv, l
    <3>2. l.ptr \in Search!Producer
      BY <1>2, <3>1, ListConstants, SMTT(40) DEF ListTypeInv
    <3>3. /\ opt[l.ptr] \in Nat /\ opt'[l.ptr] \in Nat /\ opt[l.ptr] <= opt'[l.ptr]
          /\ over[l.ptr] \in Nat /\ over'[l.ptr] \in Nat /\ over[l.ptr] <= over'[l.ptr]
          /\ start[d][l.ptr] \in Nat
      BY <3>2 DEF ListTypeInv, Counters, ListGrows
    <3> QED
      BY <1>2, <1>3, <3>1, <3>3 DEF ClaimAt, l
  <2> QED
    BY <2>1, <2>2
<1>10. at[d] = "failed" => \A p \in Search!Producer : Over(d, p)'
  BY <1>1 DEF SearchInv
<1> QED
  BY <1>3, <1>5, <1>6, <1>7, <1>8, <1>9, <1>10 DEF SearchInv

\* What a step of c has to show.
LEMMA ListStep ==
  ASSUME ListInv, ListTypeInv', ListGrows, NEW c, SearchInv(c)',
         \A d \in Thread \ {c} : SearchKept(d),
         \A p \in Search!Producer : StreamInv(p)'
  PROVE  ListInv'
<1>1. \A d \in Thread \ {c} : SearchInv(d)'
  BY OthersSearch DEF ListInv
<1> QED
  BY <1>1 DEF ListInv

\* The claims at a producer where none is made or settled.
LEMMA StreamStays ==
  ASSUME ListTypeInv, NEW p \in Search!Producer, StreamInv(p),
         opt'[p] = opt[p], over'[p] = over[p], taken'[p] = taken[p],
         tail'[p] \in Nat, tail[p] <= tail'[p],
         \A c \in Thread :
           /\ Settles(c, p)' <=> Settles(c, p)
           /\ Settles(c, p) => /\ search'[c].my = search[c].my
                               /\ search'[c].want = search[c].want
                               /\ search'[c].seen = search[c].seen
  PROVE  StreamInv(p)'
<1>1. PICK V \in SUBSET (0 .. opt[p] - 1), W \in SUBSET (0 .. opt[p] - 1),
           top \in 0 .. opt[p] : StreamAt(p, V, W, top)
  BY DEF StreamInv
<1>2. OpenAt(p)' = OpenAt(p)
  BY DEF OpenAt
<1>3. top - Cardinality(Under(V, top)) <= tail'[p]
  <2>1. Cardinality(Under(V, top)) \in Nat /\ tail[p] \in Nat
    BY UnderGrows, CounterTypes
  <2> QED
    BY <1>1, <2>1 DEF StreamAt
<1>4. StreamAt(p, V, W, top)'
  BY <1>1, <1>2, <1>3 DEF StreamAt
<1> QED
  BY <1>1, <1>4 DEF StreamInv

(***************************************************************************)
(* TryDequeue: after a producer was tried                                  *)
(***************************************************************************)
\* A consumer's place and locals after a step of it.
LEMMA SearchMoved ==
  ASSUME ListTypeInv, NEW c \in Thread, NEW q \in SearchPlace, NEW l \in SearchLocal,
         Search!To(c, q, l)
  PROVE  /\ at' \in [Thread -> SearchPlace] /\ search' \in [Thread -> SearchLocal]
         /\ at'[c] = q /\ search'[c] = l
         /\ \A d \in Thread \ {c} : at'[d] = at[d] /\ search'[d] = search[d]
<1>1. at \in [Thread -> SearchPlace] /\ search \in [Thread -> SearchLocal]
  BY DEF ListTypeInv
<1> QED
  BY <1>1 DEF Search!To

\* The locals of a call that has ended.
LEMMA ZeroSearch ==
  /\ Search!Zero \in SearchLocal /\ Search!Zero.ptr = 0 /\ Search!Zero.best = 0
  /\ Search!Zero.size = 0 /\ Search!Zero.n = 0 /\ Search!Zero.last = 0
  BY DEF SearchLocal, Search!Zero
\* The locals of a call that goes on at another producer.
LEMMA ClearedSearch ==
  ASSUME ListTypeInv, NEW c \in Thread
  PROVE  LET l == Search!Search(c) IN
         /\ l \in SearchLocal /\ l.kind = search[c].kind /\ l.ptr = search[c].ptr
         /\ l.best = search[c].best /\ l.size = search[c].size /\ l.n = search[c].n
         /\ l.last = search[c].last /\ l.max = search[c].max
<1>1. search[c] \in SearchLocal
  BY DEF ListTypeInv
<1>2. \A l \in SearchLocal :
        LET k == [l EXCEPT !.seen = 0, !.want = 0, !.my = 0] IN
        /\ k \in SearchLocal /\ k.kind = l.kind /\ k.ptr = l.ptr
        /\ k.best = l.best /\ k.size = l.size /\ k.n = l.n /\ k.last = l.last /\ k.max = l.max
  BY DEF SearchLocal
<1> QED
  BY <1>1, <1>2 DEF Search!Search

\* Where try_dequeue goes on.
LEMMA AnyGoes ==
  ASSUME ListTypeInv, NEW c \in Thread, NEW g, Search!AfterAny(c, g), search[c].ptr # 0
  PROVE  \E q \in SearchPlace, l \in SearchLocal :
           /\ Search!To(c, q, l)
           /\ \/ q = "done" /\ l.ptr = 0 /\ g = 1
              \/ /\ g # 1 /\ l.kind = search[c].kind /\ l.max = search[c].max
                 /\ l.best = search[c].best /\ l.n = 0
                 /\ l.ptr = (LET from == IF search[c].n > 0 THEN listed ELSE search[c].ptr - 1 IN
                             IF from > 0 /\ from = search[c].best THEN from - 1 ELSE from)
                 /\ q = IF l.ptr = 0 THEN "failed" ELSE "look"
<1> DEFINE k == Search!Search(c)
           from == IF search[c].n > 0 THEN listed ELSE search[c].ptr - 1
           nx == IF from > 0 /\ from = search[c].best THEN from - 1 ELSE from
           l == [k EXCEPT !.n = 0, !.ptr = nx]
<1>1. /\ k \in SearchLocal /\ k.kind = search[c].kind /\ k.ptr = search[c].ptr
      /\ k.best = search[c].best /\ k.n = search[c].n /\ k.max = search[c].max
  BY ClearedSearch
<1>2. CASE g = 1
  <2>1. Search!To(c, "done", Search!Zero)
    BY <1>2 DEF Search!AfterAny
  <2> QED
    BY <1>2, <2>1, ZeroSearch DEF SearchPlace
<1>3. CASE g # 1
  <2>1. Search!Try(c, l)
    BY <1>1, <1>3 DEF Search!AfterAny
  <2> HIDE DEF k
  <2>2. nx \in Nat
    <3>1. search[c].ptr \in Nat \ {0} /\ listed \in Nat
      BY SearchTypes DEF ListTypeInv
    <3> QED
      BY <3>1
  <2>3. l \in SearchLocal /\ l.ptr = nx /\ l.n = 0 /\ l.kind = k.kind /\ l.max = k.max
        /\ l.best = k.best
    BY <1>1, <2>2 DEF SearchLocal
  <2>4. Search!To(c, IF l.ptr = 0 THEN "failed" ELSE "look", l)
    BY <2>1 DEF Search!Try
  <2> HIDE DEF l, nx
  <2> QED
    BY <1>1, <1>3, <2>3, <2>4 DEF SearchPlace, nx
<1> QED
  BY <1>2, <1>3

\* Where try_dequeue_bulk goes on.
LEMMA BulkGoes ==
  ASSUME ListTypeInv, NEW c \in Thread, NEW g \in Nat, Search!AfterBulk(c, g),
         search[c].ptr # 0, g <= search[c].max
  PROVE  \E q \in SearchPlace, l \in SearchLocal :
           /\ Search!To(c, q, l)
           /\ \/ q = "done" /\ l.ptr = 0 /\ g = search[c].max
              \/ /\ g # search[c].max /\ l.kind = search[c].kind /\ l.max # 0
                 /\ l.ptr = search[c].ptr - 1
                 /\ q = IF l.ptr = 0 THEN "failed" ELSE "look"
<1> DEFINE k == Search!Search(c)
           l == [k EXCEPT !.max = @ - g, !.ptr = @ - 1]
<1>1. /\ k \in SearchLocal /\ k.kind = search[c].kind /\ k.ptr = search[c].ptr
      /\ k.max = search[c].max
  BY ClearedSearch
<1>2. CASE g = search[c].max
  <2>1. Search!To(c, "done", Search!Zero)
    BY <1>1, <1>2 DEF Search!AfterBulk
  <2> QED
    BY <1>2, <2>1, ZeroSearch DEF SearchPlace
<1>3. CASE g # search[c].max
  <2>1. Search!Try(c, l)
    BY <1>1, <1>3 DEF Search!AfterBulk
  <2> HIDE DEF k
  <2>2. k.max - g \in Nat \ {0} /\ k.ptr - 1 \in Nat
    BY <1>1, <1>3, SearchTypes
  <2>3. l \in SearchLocal /\ l.ptr = k.ptr - 1 /\ l.max = k.max - g /\ l.kind = k.kind
    BY <1>1, <2>2 DEF SearchLocal
  <2>4. Search!To(c, IF l.ptr = 0 THEN "failed" ELSE "look", l)
    BY <2>1 DEF Search!Try
  <2> HIDE DEF l
  <2> QED
    BY <1>1, <1>3, <2>2, <2>3, <2>4 DEF SearchPlace
<1> QED
  BY <1>2, <1>3

\* Where the walk of a token goes on.
WalkLast(c) == IF search[c].last = 0 THEN listed ELSE search[c].last
WalkNext(c) == IF search[c].ptr = 1 THEN WalkLast(c) ELSE search[c].ptr - 1
WalkCurrent(c, g) ==
  IF search[c].last # 0 /\ g > 0 THEN search[c].ptr ELSE token[c].current

\* The token and the walk after a producer was tried.
LEMMA TokenGoes ==
  ASSUME ListTypeInv, NEW c \in Thread, NEW g \in Nat, Search!AfterToken(c, g),
         search[c].ptr # 0, g <= search[c].max
  PROVE  /\ token' \in [Thread -> TokenState] /\ globalOffset' \in Nat
         /\ token'[c].desired = token[c].desired /\ token'[c].known = token[c].known
         /\ token'[c].current = WalkCurrent(c, g)
         /\ \A d \in Thread \ {c} : token'[d] = token[d]
         /\ \E q \in SearchPlace, l \in SearchLocal :
              /\ Search!To(c, q, l)
              /\ \/ q = "done" /\ l.ptr = 0 /\ g = search[c].max
                 \/ /\ q = "failed" /\ l.ptr = 0 /\ g # search[c].max
                    /\ WalkNext(c) = WalkCurrent(c, g)
                 \/ /\ g # search[c].max /\ WalkNext(c) # WalkCurrent(c, g) /\ q = "look"
                    /\ l.kind = search[c].kind /\ l.max # 0
                    /\ l.ptr = WalkNext(c) /\ l.last = WalkLast(c)
<1> DEFINE k == Search!Search(c)
           l == [k EXCEPT !.max = @ - g, !.last = WalkLast(c), !.ptr = WalkNext(c)]
<1>1. /\ k \in SearchLocal /\ k.kind = search[c].kind /\ k.ptr = search[c].ptr
      /\ k.max = search[c].max /\ k.last = search[c].last
  BY ClearedSearch
<1>2. /\ search[c].ptr \in Nat \ {0} /\ search[c].max \in Nat /\ search[c].last \in Nat
      /\ token[c].current \in Nat /\ listed \in Nat /\ token[c].consumed \in Nat
      /\ token \in [Thread -> TokenState] /\ globalOffset \in Nat
  BY SearchTypes DEF ListTypeInv
<1>3. WalkLast(c) \in Nat /\ WalkNext(c) \in Nat /\ WalkCurrent(c, g) \in Nat
  BY <1>2 DEF WalkLast, WalkNext, WalkCurrent
<1>4. /\ \E x \in Nat : token' = [token EXCEPT ![c].current = WalkCurrent(c, g),
                                              ![c].consumed = x]
      /\ globalOffset' \in {globalOffset, globalOffset + 1}
      /\ IF g = search[c].max THEN Search!To(c, "done", Search!Zero)
         ELSE IF WalkNext(c) = WalkCurrent(c, g) THEN Search!To(c, "failed", Search!Zero)
         ELSE Search!To(c, "look", l)
  <2> DEFINE x == IF search[c].last = 0 THEN token[c].consumed + g
                  ELSE IF g > 0 THEN g ELSE token[c].consumed
  <2>1. x \in Nat
    BY <1>2
  <2>2. /\ token' = [token EXCEPT ![c].current = WalkCurrent(c, g), ![c].consumed = x]
        /\ globalOffset' \in {globalOffset, globalOffset + 1}
        /\ IF g = search[c].max THEN Search!To(c, "done", Search!Zero)
           ELSE IF WalkNext(c) = WalkCurrent(c, g) THEN Search!To(c, "failed", Search!Zero)
           ELSE Search!To(c, "look", l)
    BY <1>1, <1>2 DEF Search!AfterToken, WalkLast, WalkNext, WalkCurrent
  <2> QED
    BY <2>1, <2>2
<1> HIDE DEF k
<1>5. /\ token' \in [Thread -> TokenState]
      /\ token'[c].desired = token[c].desired /\ token'[c].known = token[c].known
      /\ token'[c].current = WalkCurrent(c, g)
      /\ \A d \in Thread \ {c} : token'[d] = token[d]
  <2>1. PICK x \in Nat :
          token' = [token EXCEPT ![c].current = WalkCurrent(c, g), ![c].consumed = x]
    BY <1>4
  <2>2. token[c] \in TokenState
    BY <1>2
  <2> DEFINE y == [token[c] EXCEPT !.current = WalkCurrent(c, g), !.consumed = x]
  <2>3. /\ y \in TokenState /\ y.desired = token[c].desired /\ y.known = token[c].known
        /\ y.current = WalkCurrent(c, g)
    BY <1>3, <2>2 DEF TokenState
  <2>4. token' = [token EXCEPT ![c] = y]
    BY <1>2, <2>1, <2>2 DEF TokenState
  <2> HIDE DEF y
  <2> QED
    BY <1>2, <2>3, <2>4
<1>6. globalOffset' \in Nat
  BY <1>2, <1>4
<1>7. CASE g = search[c].max
  BY <1>4, <1>5, <1>6, <1>7, ZeroSearch DEF SearchPlace
<1>8. CASE g # search[c].max /\ WalkNext(c) = WalkCurrent(c, g)
  BY <1>4, <1>5, <1>6, <1>8, ZeroSearch DEF SearchPlace
<1>9. CASE g # search[c].max /\ WalkNext(c) # WalkCurrent(c, g)
  <2>1. k.max - g \in Nat \ {0}
    BY <1>1, <1>2, <1>9
  <2>2. /\ l \in SearchLocal /\ l.ptr = WalkNext(c) /\ l.max = k.max - g
        /\ l.kind = k.kind /\ l.last = WalkLast(c)
    BY <1>1, <1>3, <2>1 DEF SearchLocal
  <2>3. Search!To(c, "look", l)
    BY <1>4, <1>9
  <2> HIDE DEF l
  <2> QED
    BY <1>1, <1>5, <1>6, <1>9, <2>1, <2>2, <2>3 DEF SearchPlace
<1> QED
  BY <1>7, <1>8, <1>9

\* A producer was tried: what does not change then.
Tried(c) ==
  /\ listed' = listed /\ tail' = tail /\ start' = start
  /\ disturbed[c] \subseteq disturbed'[c]
TokenPoints(c) ==
  /\ token[c].desired <= listed /\ token[c].current <= listed
  /\ token[c].desired # 0 => token[c].current # 0

\* A search that ends.
LEMMA SearchEnds ==
  ASSUME NEW c \in Thread, SearchInv(c), ListTypeInv', Tried(c), TokenPoints(c)',
         at'[c] \in {"done", "failed"}, search'[c].ptr = 0,
         at'[c] = "failed" => \A p \in Search!Producer : Over(c, p)'
  PROVE  SearchInv(c)'
<1>1. listed' >= 0 /\ \A p \in Search!Producer : start'[c][p] <= tail'[p]
  BY DEF ListTypeInv, SearchInv, Tried
<1> QED
  BY <1>1 DEF SearchInv, TokenPoints, ClaimAt
\* A search that goes on at another producer.
LEMMA SearchGoesOn ==
  ASSUME NEW c \in Thread, SearchInv(c), ListTypeInv', Tried(c), TokenPoints(c)',
         at'[c] = "look", search'[c].ptr # 0, search'[c].ptr <= listed', search'[c].max # 0,
         search'[c].kind # "none",
         search'[c].kind = "any" => AnyInv(c)',
         search'[c].kind = "bulk" => BulkInv(c)',
         search'[c].kind = "token" => WalkInv(c)'
  PROVE  SearchInv(c)'
<1>1. \A p \in Search!Producer : start'[c][p] <= tail'[p]
  BY DEF SearchInv, Tried
<1> QED
  BY <1>1 DEF SearchInv, TokenPoints, ClaimAt

\* A producer that was not listed when a call began held nothing then.
LEMMA NotListed ==
  ASSUME ListTypeInv, NEW c \in Thread, SearchInv(c), NEW p \in Search!Producer, p > listed
  PROVE  Over(c, p)
<1>1. start[c][p] <= tail[p] /\ tail[p] = 0 /\ start[c][p] \in Nat /\ taken[p] \in Nat
  BY DEF SearchInv, ListTypeInv, Counters
<1> QED
  BY <1>1 DEF Over

\* try_dequeue comes to every producer.
LEMMA AnyKeeps ==
  ASSUME ListTypeInv, ListTypeInv', ListGrows, NEW c \in Thread, SearchInv(c),
         NEW r \in Search!Producer, r = search[c].ptr,
         at[c] \in {"look", "settle"}, search[c].kind = "any", NEW g \in Nat,
         g <= search[c].max, Search!AfterAny(c, g), Tried(c), token'[c] = token[c],
         g < search[c].max => Over(c, r)'
  PROVE  SearchInv(c)'
<1> DEFINE l == search[c]
<1>1. /\ l.ptr # 0 /\ l.ptr <= listed /\ AnyInv(c) /\ l.max = 1 /\ l.best \in 1 .. listed
      /\ l.ptr \in Nat /\ l.n \in Nat /\ l.best \in Nat /\ listed \in Nat
  BY SearchTypes DEF SearchInv, AnyInv, ListTypeInv
<1>2. \A p \in Search!Producer : Over(c, p) => Over(c, p)'
  BY OverStays DEF Tried
<1>3. TokenPoints(c)'
  BY DEF SearchInv, TokenPoints, Tried
<1>4. PICK q \in SearchPlace, k \in SearchLocal :
        /\ Search!To(c, q, k)
        /\ \/ q = "done" /\ k.ptr = 0 /\ g = 1
           \/ /\ g # 1 /\ k.kind = l.kind /\ k.max = l.max
              /\ k.best = l.best /\ k.n = 0
              /\ k.ptr = (LET from == IF l.n > 0 THEN listed ELSE l.ptr - 1 IN
                          IF from > 0 /\ from = l.best THEN from - 1 ELSE from)
              /\ q = IF k.ptr = 0 THEN "failed" ELSE "look"
  BY <1>1, AnyGoes
<1>5. at'[c] = q /\ search'[c] = k
  BY <1>4, SearchMoved
<1>6. CASE g = 1
  BY <1>3, <1>4, <1>5, <1>6, SearchEnds
<1>7. CASE g # 1
  <2>1. Over(c, r)' /\ listed' = listed
    BY <1>1, <1>7 DEF Tried
  <2>2. PICK b \in Search!Producer : b = l.best
    BY <1>1, ListConstants DEF ListTypeInv
  <2>3. Over(c, b)'
    <3>1. CASE l.n > 0
      BY <1>1, <2>1, <2>2, <3>1 DEF AnyInv
    <3>2. CASE l.n = 0
      BY <1>1, <1>2, <2>2, <3>2 DEF AnyInv
    <3> QED
      BY <1>1, <3>1, <3>2
  <2>4. ASSUME NEW p \in Search!Producer, p > k.ptr PROVE Over(c, p)'
    <3>0. p \in Nat
      BY ListConstants
    <3>1. CASE l.n > 0
      <4>1. p = b \/ p > listed
        BY <2>2, <1>1, <1>4, <1>7, <2>4, <3>0, <3>1
      <4> QED
        BY <1>2, <2>3, <4>1, NotListed
    <3>2. CASE l.n = 0
      <4>1. p = b \/ p = r \/ p > l.ptr
        BY <2>2, <1>1, <1>4, <1>7, <2>4, <3>0, <3>2
      <4>2. p > l.ptr => Over(c, p)
        BY <1>1, <3>2 DEF AnyInv
      <4> QED
        BY <1>2, <2>1, <2>3, <4>1, <4>2
    <3> QED
      BY <1>1, <3>1, <3>2
  <2>5. k.ptr \in Nat /\ k.ptr <= listed
    BY <1>1, <1>4, <1>7
  <2>6. CASE k.ptr = 0
    <3>1. \A p \in Search!Producer : p > 0
      BY ListConstants
    <3> QED
      BY <1>3, <1>4, <1>5, <1>7, <2>4, <2>6, <3>1, SearchEnds
  <2>7. CASE k.ptr # 0
    <3>1. AnyInv(c)'
      BY <1>1, <1>4, <1>5, <1>7, <2>1, <2>2, <2>3, <2>4 DEF AnyInv
    <3> QED
      BY <1>1, <1>3, <1>4, <1>5, <1>7, <2>1, <2>5, <2>7, <3>1, SearchGoesOn
  <2> QED
    BY <2>6, <2>7
<1> QED
  BY <1>6, <1>7

\* So does try_dequeue_bulk.
LEMMA BulkKeeps ==
  ASSUME ListTypeInv, ListTypeInv', ListGrows, NEW c \in Thread, SearchInv(c),
         NEW r \in Search!Producer, r = search[c].ptr,
         at[c] \in {"look", "settle"}, search[c].kind = "bulk", NEW g \in Nat,
         g <= search[c].max, Search!AfterBulk(c, g), Tried(c), token'[c] = token[c],
         g < search[c].max => Over(c, r)'
  PROVE  SearchInv(c)'
<1> DEFINE l == search[c]
<1>1. /\ l.ptr # 0 /\ l.ptr <= listed /\ BulkInv(c)
      /\ l.ptr \in Nat /\ l.max \in Nat /\ listed \in Nat
  BY SearchTypes DEF SearchInv, ListTypeInv
<1>2. \A p \in Search!Producer : Over(c, p) => Over(c, p)'
  BY OverStays DEF Tried
<1>3. TokenPoints(c)'
  BY DEF SearchInv, TokenPoints, Tried
<1>4. PICK q \in SearchPlace, k \in SearchLocal :
        /\ Search!To(c, q, k)
        /\ \/ q = "done" /\ k.ptr = 0 /\ g = l.max
           \/ /\ g # l.max /\ k.kind = l.kind /\ k.max # 0
              /\ k.ptr = l.ptr - 1
              /\ q = IF k.ptr = 0 THEN "failed" ELSE "look"
  BY <1>1, BulkGoes
<1>5. at'[c] = q /\ search'[c] = k
  BY <1>4, SearchMoved
<1>6. CASE g = l.max
  BY <1>3, <1>4, <1>5, <1>6, SearchEnds
<1>7. CASE g # l.max
  <2>1. Over(c, r)' /\ listed' = listed
    BY <1>1, <1>7 DEF Tried
  <2>2. ASSUME NEW p \in Search!Producer, p > k.ptr PROVE Over(c, p)'
    <3>1. p \in Nat
      BY ListConstants
    <3>2. p = r \/ p > l.ptr
      BY <1>1, <1>4, <1>7, <2>2, <3>1
    <3> QED
      BY <1>1, <1>2, <2>1, <3>2 DEF BulkInv
  <2>3. k.ptr \in Nat /\ k.ptr <= listed
    BY <1>1, <1>4, <1>7
  <2>4. CASE k.ptr = 0
    <3>1. \A p \in Search!Producer : p > 0
      BY ListConstants
    <3> QED
      BY <1>3, <1>4, <1>5, <1>7, <2>2, <2>4, <3>1, SearchEnds
  <2>5. CASE k.ptr # 0
    <3>1. BulkInv(c)'
      BY <1>5, <2>2 DEF BulkInv
    <3> QED
      BY <1>3, <1>4, <1>5, <1>7, <2>1, <2>3, <2>5, <3>1, SearchGoesOn
  <2> QED
    BY <2>4, <2>5
<1> QED
  BY <1>6, <1>7

\* Where a token's walk has been, as a condition on one producer.
LEMMA VisitedMeans ==
  ASSUME NEW p \in Search!Producer, NEW a, NEW b
  PROVE  p \in Visited(a, b) <=> IF a < b THEN a < p /\ p <= b ELSE p <= b \/ a < p
  BY DEF Visited

\* The walk of a token comes to every producer: it ends where everything between the
\* current producer and itself, round the list as it was, has been visited.
LEMMA TokenKeeps ==
  ASSUME ListTypeInv, ListTypeInv', ListGrows, NEW c \in Thread, SearchInv(c),
         NEW r \in Search!Producer, r = search[c].ptr,
         at[c] \in {"look", "settle"}, search[c].kind = "token", NEW g \in Nat,
         g <= search[c].max, Search!AfterToken(c, g), Tried(c),
         g < search[c].max => Over(c, r)'
  PROVE  SearchInv(c)'
<1> DEFINE l == search[c]
<1>1. /\ l.ptr \in 1 .. listed /\ WalkInv(c) /\ token[c].current \in 1 .. listed
      /\ l.ptr \in Nat /\ l.max \in Nat /\ l.last \in Nat /\ listed \in Nat /\ l.ptr # 0
  BY SearchTypes DEF SearchInv, ListTypeInv, WalkInv
<1>2. \A p \in Search!Producer : Over(c, p) => Over(c, p)'
  BY OverStays DEF Tried
<1>3. PICK was \in Nat : was = l.last
  BY <1>1
<1>5. PICK current \in 1 .. listed : current = token[c].current
  BY <1>1
<1>6. PICK last \in 1 .. listed : last = WalkLast(c)
  BY <1>1 DEF WalkLast, WalkInv
<1>7. PICK nx \in Nat : nx = (IF r = 1 THEN last ELSE r - 1) /\ nx = WalkNext(c)
  BY <1>1, <1>6 DEF WalkNext
<1>8. PICK now \in {r, current} : now = WalkCurrent(c, g)
  BY <1>1, <1>5 DEF WalkCurrent
<1>9. was = 0 => r = current /\ last = listed
  BY <1>1, <1>3, <1>5, <1>6 DEF WalkInv, WalkLast
<1>10. was # 0 => r # current /\ last = l.last
  BY <1>1, <1>3, <1>5, <1>6 DEF WalkInv, WalkLast
<1>11. ASSUME NEW p \in Search!Producer,
              g # l.max, p = r \/ p > last \/ (was # 0 /\ p \in Visited(r, current))
       PROVE  Over(c, p)'
  <2>1. CASE p = r
    BY <1>1, <1>11, <2>1
  <2>2. CASE was = 0 /\ p > last
    BY <1>2, <1>9, <2>2, NotListed
  <2>3. CASE was # 0 /\ (p > last \/ p \in Visited(r, current))
    <3>1. Over(c, p)
      BY <1>1, <1>3, <1>5, <1>10, <2>3 DEF WalkInv
    <3> QED
      BY <1>2, <3>1
  <2> QED
    BY <1>11, <2>1, <2>2, <2>3
<1>12. /\ token'[c].desired = token[c].desired /\ token'[c].current = now
       /\ \E q \in SearchPlace, k \in SearchLocal :
            /\ Search!To(c, q, k)
            /\ \/ q = "done" /\ k.ptr = 0 /\ g = l.max
               \/ q = "failed" /\ k.ptr = 0 /\ g # l.max /\ nx = now
               \/ /\ g # l.max /\ nx # now /\ q = "look"
                  /\ k.kind = l.kind /\ k.max # 0 /\ k.ptr = nx /\ k.last = last
  BY <1>1, <1>6, <1>7, <1>8, TokenGoes
<1>13. PICK q \in SearchPlace, k \in SearchLocal :
            /\ Search!To(c, q, k)
            /\ \/ q = "done" /\ k.ptr = 0 /\ g = l.max
               \/ q = "failed" /\ k.ptr = 0 /\ g # l.max /\ nx = now
               \/ /\ g # l.max /\ nx # now /\ q = "look"
                  /\ k.kind = l.kind /\ k.max # 0 /\ k.ptr = nx /\ k.last = last
  BY <1>12
<1>14. at'[c] = q /\ search'[c] = k
  BY <1>13, SearchMoved
<1>15. TokenPoints(c)' /\ listed' = listed
  <2>1. token[c].desired <= listed /\ listed' = listed
    BY DEF SearchInv, Tried
  <2>2. now \in 1 .. listed
    BY <1>1, <1>8
  <2> QED
    BY <1>1, <1>12, <2>1, <2>2 DEF TokenPoints
<1>16. \A p \in Search!Producer :
         /\ nx = now => p = r \/ p > last \/ (was # 0 /\ p \in Visited(r, current))
         /\ nx # now /\ p \in Visited(nx, now) =>
              p = r \/ p > last \/ (was # 0 /\ p \in Visited(r, current))
  <2> SUFFICES ASSUME NEW p \in Search!Producer
               PROVE  /\ nx = now => p = r \/ p > last \/ (was # 0 /\ p \in Visited(r, current))
                      /\ nx # now /\ p \in Visited(nx, now) =>
                           p = r \/ p > last \/ (was # 0 /\ p \in Visited(r, current))
    OBVIOUS
  <2>1. p \in Nat /\ p >= 1 /\ r \in 1 .. listed /\ listed \in Nat
    BY <1>1, ListConstants
  <2>2. p \in Visited(r, current) <=>
          IF r < current THEN r < p /\ p <= current ELSE p <= current \/ r < p
    BY VisitedMeans
  <2>3. p \in Visited(nx, now) <=> IF nx < now THEN nx < p /\ p <= now ELSE p <= now \/ nx < p
    BY VisitedMeans
  <2>4. (was = 0 => r = current /\ last = listed) /\ (was # 0 => r # current)
    BY <1>9, <1>10
  <2>5. nx = IF r = 1 THEN last ELSE r - 1
    BY <1>7
  <2>6. CASE now = r
    BY <2>1, <2>2, <2>3, <2>4, <2>5, <2>6
  <2>7. CASE now = current
    BY <2>1, <2>2, <2>3, <2>4, <2>5, <2>7
  <2> QED
    BY <2>6, <2>7
<1>17. CASE q = "done"
  BY <1>13, <1>14, <1>15, <1>17, SearchEnds
<1>18. CASE q = "failed"
  <2>1. \A p \in Search!Producer : Over(c, p)'
    BY <1>11, <1>13, <1>16, <1>18
  <2> QED
    BY <1>13, <1>14, <1>15, <1>18, <2>1, SearchEnds
<1>19. CASE q = "look"
  <2>1. /\ g # l.max /\ nx # now /\ k.kind = "token" /\ k.max # 0 /\ k.ptr = nx
        /\ k.last = last
    BY <1>13, <1>19
  <2>2. nx # 0 /\ nx <= listed
    BY <1>1, <1>6, <1>7
  <2>3. WalkInv(c)'
    <3>1. \A p \in Search!Producer :
            p > last \/ p \in Visited(nx, now) => Over(c, p)'
      BY <1>11, <1>16, <2>1
    <3>2. last # 0
      BY <1>6
    <3> QED
      BY <1>1, <1>8, <1>12, <1>14, <1>15, <2>1, <3>1, <3>2 DEF WalkInv
  <2> QED
    BY <1>14, <1>15, <1>19, <2>1, <2>2, <2>3, SearchGoesOn
<1> QED
  BY <1>13, <1>17, <1>18, <1>19

\* What follows depends on the operation called.
LEMMA AfterCases ==
  ASSUME ListTypeInv, NEW c \in Thread, SearchInv(c), at[c] \in {"look", "settle"},
         NEW g \in Nat, Search!After(c, g)
  PROVE  \/ /\ search[c].kind = "any" /\ Search!AfterAny(c, g)
            /\ token' = token /\ globalOffset' = globalOffset
         \/ /\ search[c].kind = "bulk" /\ Search!AfterBulk(c, g)
            /\ token' = token /\ globalOffset' = globalOffset
         \/ search[c].kind = "token" /\ Search!AfterToken(c, g)
<1>1. search[c].kind \in {"any", "bulk", "token"}
  BY SearchTypes DEF SearchInv
<1>2. CASE search[c].kind = "any"
  BY <1>2 DEF Search!After
<1>3. CASE search[c].kind = "bulk"
  BY <1>3 DEF Search!After
<1>4. CASE search[c].kind = "token"
  BY <1>4 DEF Search!After
<1> QED
  BY <1>1, <1>2, <1>3, <1>4

\* The types after a producer was tried, and the other consumers.
LEMMA AfterTypes ==
  ASSUME ListTypeInv, NEW c \in Thread, SearchInv(c), at[c] \in {"look", "settle"},
         NEW g \in Nat, g <= search[c].max, Search!After(c, g)
  PROVE  /\ token' \in [Thread -> TokenState] /\ globalOffset' \in Nat
         /\ at' \in [Thread -> SearchPlace] /\ search' \in [Thread -> SearchLocal]
         /\ at'[c] \in {"look", "done", "failed"}
         /\ token'[c].desired = token[c].desired /\ token'[c].known = token[c].known
         /\ \A d \in Thread \ {c} :
              at'[d] = at[d] /\ search'[d] = search[d] /\ token'[d] = token[d]
<1>0. search[c].ptr # 0
  BY DEF SearchInv
<1>1. token \in [Thread -> TokenState] /\ globalOffset \in Nat
  BY DEF ListTypeInv
<1>2. CASE search[c].kind = "any" /\ Search!AfterAny(c, g)
           /\ token' = token /\ globalOffset' = globalOffset
  <2>1. PICK q \in SearchPlace, l \in SearchLocal :
          Search!To(c, q, l) /\ q \in {"look", "done", "failed"}
    BY <1>0, <1>2, AnyGoes
  <2> QED
    BY <1>1, <1>2, <2>1, SearchMoved
<1>3. CASE search[c].kind = "bulk" /\ Search!AfterBulk(c, g)
           /\ token' = token /\ globalOffset' = globalOffset
  <2>1. PICK q \in SearchPlace, l \in SearchLocal :
          Search!To(c, q, l) /\ q \in {"look", "done", "failed"}
    BY <1>0, <1>3, BulkGoes
  <2> QED
    BY <1>1, <1>3, <2>1, SearchMoved
<1>4. CASE search[c].kind = "token" /\ Search!AfterToken(c, g)
  <2>1. /\ token' \in [Thread -> TokenState] /\ globalOffset' \in Nat
        /\ token'[c].desired = token[c].desired /\ token'[c].known = token[c].known
        /\ \A d \in Thread \ {c} : token'[d] = token[d]
    BY <1>0, <1>4, TokenGoes
  <2>2. PICK q \in SearchPlace, l \in SearchLocal :
          Search!To(c, q, l) /\ q \in {"look", "done", "failed"}
    BY <1>0, <1>4, TokenGoes
  <2> QED
    BY <2>1, <2>2, SearchMoved
<1> QED
  BY <1>2, <1>3, <1>4, AfterCases

\* The search goes on as it should, if the producer it leaves need not be looked at
\* any more.
LEMMA AfterKeeps ==
  ASSUME ListTypeInv, ListTypeInv', ListGrows, NEW c \in Thread, SearchInv(c),
         NEW r \in Search!Producer, r = search[c].ptr,
         at[c] \in {"look", "settle"}, NEW g \in Nat,
         g <= search[c].max, Search!After(c, g), Tried(c),
         g < search[c].max => Over(c, r)'
  PROVE  SearchInv(c)'
<1>2. CASE search[c].kind = "any" /\ Search!AfterAny(c, g)
           /\ token' = token /\ globalOffset' = globalOffset
  BY <1>2, AnyKeeps
<1>3. CASE search[c].kind = "bulk" /\ Search!AfterBulk(c, g)
           /\ token' = token /\ globalOffset' = globalOffset
  BY <1>3, BulkKeeps
<1>4. CASE search[c].kind = "token" /\ Search!AfterToken(c, g)
  BY <1>4, TokenKeeps
<1> QED
  BY <1>2, <1>3, <1>4, AfterCases

(***************************************************************************)
(* TryDequeue: one step of a consumer at a producer                        *)
(***************************************************************************)
\* The claims when no consumer makes or settles one.
LEMMA StreamsStay ==
  ASSUME ListTypeInv, \A p \in Search!Producer : StreamInv(p), NEW c,
         opt' = opt, over' = over, taken' = taken,
         \A p \in Search!Producer : tail'[p] \in Nat /\ tail[p] <= tail'[p],
         c \in Thread => at[c] # "settle" /\ at'[c] # "settle",
         \A d \in Thread \ {c} : at'[d] = at[d] /\ search'[d] = search[d]
  PROVE  \A p \in Search!Producer : StreamInv(p)'
<1> SUFFICES ASSUME NEW p \in Search!Producer PROVE StreamInv(p)'
  OBVIOUS
<1>1. ASSUME NEW d \in Thread
      PROVE  /\ Settles(d, p)' <=> Settles(d, p)
             /\ Settles(d, p) => /\ search'[d].my = search[d].my
                                 /\ search'[d].want = search[d].want
                                 /\ search'[d].seen = search[d].seen
  BY DEF Settles
<1> QED
  BY <1>1, StreamStays

\* Where c stands is a producer of the list.
LEMMA AtProducer ==
  ASSUME ListTypeInv, NEW c \in Thread, SearchInv(c), at[c] \in {"look", "claim", "settle"}
  PROVE  \E r \in Search!Producer : r = search[c].ptr /\ r <= listed
<1>1. search[c].ptr \in Nat /\ search[c].ptr # 0 /\ search[c].ptr <= listed
  BY SearchTypes DEF SearchInv
<1> QED
  BY <1>1, ListConstants DEF ListTypeInv

\* No other claim is open.
LEMMA NoneOpen ==
  ASSUME NEW c \in Thread, NEW p, ~Search!OpenByOthers(c, p)
  PROVE  \A d \in Thread \ {c} : OpenAt(p)[d] = {}
  BY DEF Search!OpenByOthers, OpenAt, Settles

\* A stream found empty, with no claim open, has been taken up to its tail.
LEMMA FoundEmpty ==
  ASSUME ListInv, NEW c \in Thread, NEW p \in Search!Producer, ~Search!OpenByOthers(c, p),
         ~Settles(c, p), tail[p] - (opt[p] - over[p]) <= 0
  PROVE  Over(c, p)
<1>1. PICK V \in SUBSET (0 .. opt[p] - 1), W \in SUBSET (0 .. opt[p] - 1),
           top \in 0 .. opt[p] : StreamAt(p, V, W, top)
  BY DEF ListInv, StreamInv
<1>2. /\ tail[p] \in Nat /\ taken[p] \in Nat /\ opt[p] \in Nat /\ over[p] \in Nat
      /\ start[c][p] \in Nat
  BY CounterTypes DEF ListInv
<1>3. \A d \in Thread \ {c} : OpenAt(p)[d] = {}
  BY NoneOpen
<1>4. PICK a \in Nat, k \in Nat : k = 0 /\ OpenAt(p)[c] = a .. a + k - 1
  <2>1. OpenAt(p)[c] = {} /\ 0 .. 0 + 0 - 1 = {}
    BY DEF OpenAt
  <2> QED
    BY <2>1
<1>5. Ledger(opt[p], V, W, OpenAt(p))
  BY <1>1 DEF StreamAt
<1>6. Cardinality(V) + Cardinality(W) + k = opt[p]
  BY <1>2, <1>3, <1>4, <1>5, LedgerTotal
<1>7. over[p] + taken[p] = opt[p]
  BY <1>1, <1>2, <1>4, <1>6 DEF StreamAt
<1>8. start[c][p] <= tail[p]
  BY DEF ListInv, SearchInv
<1> QED
  BY <1>2, <1>7, <1>8 DEF Over

\* What c missed because of another's claim it remembers.
LEMMA MissedTypes ==
  ASSUME ListTypeInv, NEW c \in Thread, NEW p \in Search!Producer, NEW raced \in BOOLEAN,
         Search!Missed(c, p, raced)
  PROVE  /\ disturbed' \in [Thread -> SUBSET Search!Producer]
         /\ disturbed[c] \subseteq disturbed'[c] /\ (raced => p \in disturbed'[c])
         /\ \A d \in Thread \ {c} : disturbed'[d] = disturbed[d]
<1>1. disturbed \in [Thread -> SUBSET Search!Producer]
  BY DEF ListTypeInv
<1>2. CASE raced
  BY <1>1, <1>2 DEF Search!Missed
<1>3. CASE ~raced
  BY <1>1, <1>3 DEF Search!Missed
<1> QED
  BY <1>2, <1>3

\* A consumer at the same producer, a step further in dequeue_bulk.
LEMMA SameProducer ==
  ASSUME ListTypeInv, ListTypeInv', ListGrows, NEW c \in Thread, SearchInv(c),
         at[c] \in {"look", "claim"}, at'[c] \in {"claim", "settle"}, ClaimAt(c)',
         listed' = listed, tail' = tail, start' = start, disturbed' = disturbed, token' = token,
         search'[c].kind = search[c].kind, search'[c].ptr = search[c].ptr,
         search'[c].best = search[c].best, search'[c].n = search[c].n,
         search'[c].last = search[c].last, search'[c].max = search[c].max
  PROVE  SearchInv(c)'
<1>1. \A p \in Search!Producer : Over(c, p) => Over(c, p)'
  BY OverStays
<1>2. /\ search[c].ptr # 0 /\ search[c].max # 0 /\ search[c].kind # "none"
      /\ search[c].kind = "any" => AnyInv(c)
      /\ search[c].kind = "bulk" => BulkInv(c)
      /\ search[c].kind = "token" => WalkInv(c)
      /\ search[c].ptr <= listed /\ token[c].desired <= listed /\ token[c].current <= listed
      /\ token[c].desired # 0 => token[c].current # 0
      /\ \A p \in Search!Producer : start[c][p] <= tail[p]
  BY DEF SearchInv
<1>3. AnyInv(c) => AnyInv(c)'
  <2> SUFFICES ASSUME AnyInv(c) PROVE AnyInv(c)'
    OBVIOUS
  <2>1. PICK b \in Search!Producer : b = search[c].best
    BY SearchTypes, ListConstants DEF AnyInv, ListTypeInv
  <2> QED
    BY <1>1, <2>1 DEF AnyInv
<1>4. BulkInv(c) => BulkInv(c)'
  BY <1>1 DEF BulkInv
<1>5. WalkInv(c) => WalkInv(c)'
  BY <1>1 DEF WalkInv
<1> QED
  BY <1>2, <1>3, <1>4, <1>5 DEF SearchInv

\* A look: at a stream with something in it, or at one to leave.
LEMMA LookKeeps ==
  ASSUME ListInv, NEW c \in Thread, Search!Look(c)
  PROVE  ListInv' /\ TokensKept
<1>1. ListTypeInv /\ SearchInv(c) /\ at[c] = "look"
  BY DEF ListInv, Search!Look
<1>2. PICK r \in Search!Producer : r = search[c].ptr
  BY <1>1, AtProducer
<1>3. /\ producerCount' = producerCount /\ listed' = listed /\ tail' = tail /\ taken' = taken
      /\ opt' = opt /\ over' = over /\ start' = start
  BY DEF Search!Look, Search!queueVars
<1>4. ListGrows
  BY <1>1, <1>3, CounterTypes DEF ListGrows, ListTypeInv
<1>5. \A p \in Search!Producer : tail'[p] \in Nat /\ tail[p] <= tail'[p]
  BY <1>1, <1>3, CounterTypes
<1> DEFINE desired == tail[r] - (opt[r] - over[r])
<1>6. /\ tail[r] \in Nat /\ opt[r] \in Nat /\ over[r] \in Nat /\ start[c][r] \in Nat
      /\ desired \in Int
  BY <1>1, CounterTypes
<1>7. CASE desired > 0
  <2> DEFINE w == Search!Least(desired, search[c].max)
             l == [search[c] EXCEPT !.want = w, !.seen = over[r]]
  <2>1. /\ Search!To(c, "claim", l)
        /\ globalOffset' = globalOffset /\ token' = token /\ disturbed' = disturbed
    BY <1>2, <1>7 DEF Search!Look
  <2>2. search[c] \in SearchLocal /\ search[c].max \in Nat /\ search[c].max # 0
    BY <1>1, SearchTypes DEF SearchInv
  <2>3. /\ w \in Nat /\ w \in 1 .. search[c].max
        /\ w < search[c].max => w = desired
    BY <1>6, <1>7, <2>2 DEF Search!Least
  <2> HIDE DEF w
  <2>4. /\ l \in SearchLocal /\ l.kind = search[c].kind /\ l.ptr = search[c].ptr
        /\ l.best = search[c].best /\ l.n = search[c].n /\ l.last = search[c].last
        /\ l.max = search[c].max /\ l.want = w /\ l.seen = over[r]
    BY <1>6, <2>2, <2>3 DEF SearchLocal
  <2> HIDE DEF l
  <2>5. /\ at' \in [Thread -> SearchPlace] /\ search' \in [Thread -> SearchLocal]
        /\ at'[c] = "claim" /\ search'[c] = l
        /\ \A d \in Thread \ {c} : at'[d] = at[d] /\ search'[d] = search[d]
    <3>1. "claim" \in SearchPlace
      BY DEF SearchPlace
    <3> QED
      BY <1>1, <2>1, <2>4, <3>1, SearchMoved
  <2>6. ListTypeInv'
    BY <1>1, <1>3, <2>1, <2>5 DEF ListTypeInv
  <2>7. ClaimAt(c)'
    <3>1. start[c][r] <= tail[r]
      BY <1>1 DEF SearchInv
    <3>2. w < search[c].max => start[c][r] + over[r] <= w + opt[r]
      BY <1>6, <2>3, <3>1
    <3> QED
      BY <1>2, <1>3, <1>6, <2>3, <2>4, <2>5, <3>2 DEF ClaimAt
  <2>8. SearchInv(c)'
    BY <1>1, <1>3, <1>4, <2>1, <2>4, <2>5, <2>6, <2>7, SameProducer
  <2>9. \A p \in Search!Producer : StreamInv(p)'
    <3>1. \A p \in Search!Producer : StreamInv(p)
      BY DEF ListInv
    <3> QED
      BY <1>1, <1>3, <1>5, <2>5, <3>1, StreamsStay
  <2>10. \A d \in Thread \ {c} : SearchKept(d)
    BY <1>3, <2>1, <2>5 DEF SearchKept
  <2>11. TokensKept
    BY <2>1 DEF TokensKept
  <2> QED
    BY <1>4, <2>6, <2>8, <2>9, <2>10, <2>11, ListStep
<1>8. CASE ~(desired > 0)
  <2>1. Search!After(c, 0) /\ Search!Missed(c, r, Search!OpenByOthers(c, r))
    BY <1>2, <1>8 DEF Search!Look
  <2>2. /\ token' \in [Thread -> TokenState] /\ globalOffset' \in Nat
        /\ at' \in [Thread -> SearchPlace] /\ search' \in [Thread -> SearchLocal]
        /\ at'[c] \in {"look", "done", "failed"}
        /\ token'[c].desired = token[c].desired /\ token'[c].known = token[c].known
        /\ \A d \in Thread \ {c} :
              at'[d] = at[d] /\ search'[d] = search[d] /\ token'[d] = token[d]
    <3>1. 0 <= search[c].max
      BY <1>1, SearchTypes
    <3> QED
      BY <1>1, <2>1, <3>1, AfterTypes
  <2>3. /\ disturbed' \in [Thread -> SUBSET Search!Producer]
        /\ disturbed[c] \subseteq disturbed'[c]
        /\ Search!OpenByOthers(c, r) => r \in disturbed'[c]
        /\ \A d \in Thread \ {c} : disturbed'[d] = disturbed[d]
    <3>1. Search!OpenByOthers(c, r) \in BOOLEAN
      BY DEF Search!OpenByOthers
    <3> QED
      BY <1>1, <2>1, <3>1, MissedTypes
  <2>4. ListTypeInv'
    BY <1>1, <1>3, <2>2, <2>3 DEF ListTypeInv
  <2>5. Over(c, r)'
    <3>1. CASE Search!OpenByOthers(c, r)
      BY <2>3, <3>1 DEF Over
    <3>2. CASE ~Search!OpenByOthers(c, r)
      <4>1. ~Settles(c, r)
        BY <1>1 DEF Settles
      <4>2. Over(c, r)
        BY <1>6, <1>8, <3>2, <4>1, FoundEmpty
      <4> QED
        BY <1>1, <1>3, <1>4, <2>3, <2>4, <4>2, OverStays
    <3> QED
      BY <3>1, <3>2
  <2>6. Tried(c)
    BY <1>3, <2>3 DEF Tried
  <2>7. SearchInv(c)'
    <3>1. 0 <= search[c].max /\ at[c] \in {"look", "settle"} /\ 0 \in Nat
      BY <1>1, SearchTypes
    <3> QED
      BY <1>1, <1>2, <1>4, <2>1, <2>4, <2>5, <2>6, <3>1, AfterKeeps
  <2>8. \A p \in Search!Producer : StreamInv(p)'
    <3>1. \A p \in Search!Producer : StreamInv(p)
      BY DEF ListInv
    <3> QED
      BY <1>1, <1>3, <1>5, <2>2, <3>1, StreamsStay
  <2>9. \A d \in Thread \ {c} : SearchKept(d)
    BY <1>3, <2>2, <2>3 DEF SearchKept
  <2>10. TokensKept
    BY <2>2 DEF TokensKept
  <2> QED
    BY <1>4, <2>4, <2>7, <2>8, <2>9, <2>10, ListStep
<1> QED
  BY <1>7, <1>8

\* Claims are sets of natural numbers.
LEMMA OpenTypes ==
  ASSUME ListTypeInv, ListTypeInv', NEW p
  PROVE  OpenAt(p) \in [Thread -> SUBSET Nat] /\ OpenAt(p)' \in [Thread -> SUBSET Nat]
<1>1. \A i \in Nat, k \in Nat : i .. i + k - 1 \in SUBSET Nat
  OBVIOUS
<1>2. \A d \in Thread : /\ search[d].my \in Nat /\ search[d].want \in Nat
                        /\ search'[d].my \in Nat /\ search'[d].want \in Nat
  <2>1. \A l \in SearchLocal : l.my \in Nat /\ l.want \in Nat
    BY DEF SearchLocal
  <2>2. \A d \in Thread : search[d] \in SearchLocal /\ search'[d] \in SearchLocal
    BY DEF ListTypeInv
  <2> QED
    BY <2>1, <2>2
<1>3. OpenAt(p) \in [Thread -> SUBSET Nat]
  BY <1>1, <1>2 DEF OpenAt
<1>4. OpenAt(p)' \in [Thread -> SUBSET Nat]
  BY <1>1, <1>2 DEF OpenAt
<1> QED
  BY <1>3, <1>4

\* A claim.
LEMMA ClaimKeeps ==
  ASSUME ListInv, NEW c \in Thread, Search!Claim(c)
  PROVE  ListInv'
<1>1. ListTypeInv /\ SearchInv(c) /\ at[c] = "claim"
  BY DEF ListInv, Search!Claim
<1>2. PICK r \in Search!Producer : r = search[c].ptr
  BY <1>1, AtProducer
<1> DEFINE l == [search[c] EXCEPT !.my = opt[r]]
           w == search[c].want
<1>3. /\ producerCount' = producerCount /\ listed' = listed /\ tail' = tail /\ taken' = taken
      /\ over' = over /\ start' = start /\ disturbed' = disturbed
      /\ globalOffset' = globalOffset /\ token' = token
      /\ opt' = [opt EXCEPT ![r] = @ + w] /\ Search!To(c, "settle", l)
  BY <1>2 DEF Search!Claim
<1>4. /\ search[c] \in SearchLocal /\ w \in Nat /\ search[c].seen \in Nat
      /\ tail[r] \in Nat /\ opt[r] \in Nat /\ over[r] \in Nat /\ start[c][r] \in Nat
  BY <1>1, SearchTypes, CounterTypes
<1>5. /\ l \in SearchLocal /\ l.kind = search[c].kind /\ l.ptr = search[c].ptr
      /\ l.best = search[c].best /\ l.n = search[c].n /\ l.last = search[c].last
      /\ l.max = search[c].max /\ l.want = w /\ l.seen = search[c].seen /\ l.my = opt[r]
  BY <1>4 DEF SearchLocal
<1> HIDE DEF l, w
<1>6. /\ at' \in [Thread -> SearchPlace] /\ search' \in [Thread -> SearchLocal]
      /\ at'[c] = "settle" /\ search'[c] = l
      /\ \A d \in Thread \ {c} : at'[d] = at[d] /\ search'[d] = search[d]
  <2>1. "settle" \in SearchPlace
    BY DEF SearchPlace
  <2> QED
    BY <1>1, <1>3, <1>5, <2>1, SearchMoved
<1>7. opt' \in Counters /\ opt'[r] = opt[r] + w
      /\ \A p \in Search!Producer \ {r} : opt'[p] = opt[p]
  BY <1>1, <1>3, <1>4 DEF ListTypeInv, Counters
<1>8. ListTypeInv'
  BY <1>1, <1>3, <1>6, <1>7 DEF ListTypeInv
<1>9. ListGrows
  <2>1. \A p \in Search!Producer : opt[p] <= opt'[p]
    BY <1>1, <1>4, <1>7, CounterTypes
  <2> QED
    BY <1>1, <1>3, <2>1, CounterTypes DEF ListGrows, ListTypeInv
<1>10. w \in 1 .. search[c].max /\ search[c].seen <= over[r]
       /\ (w < search[c].max => start[c][r] + search[c].seen <= w + opt[r])
  BY <1>1, <1>2 DEF SearchInv, ClaimAt, w
<1>11. ClaimAt(c)'
  BY <1>2, <1>3, <1>5, <1>6, <1>10 DEF ClaimAt
<1>12. SearchInv(c)'
  BY <1>1, <1>3, <1>5, <1>6, <1>8, <1>9, <1>11, SameProducer
<1>13. ASSUME NEW p \in Search!Producer PROVE StreamInv(p)'
  <2>1. CASE p # r
    <3>1. ASSUME NEW d \in Thread
          PROVE  /\ Settles(d, p)' <=> Settles(d, p)
                 /\ Settles(d, p) => /\ search'[d].my = search[d].my
                                     /\ search'[d].want = search[d].want
                                     /\ search'[d].seen = search[d].seen
      <4>1. CASE d = c
        BY <1>1, <1>2, <1>5, <1>6, <2>1, <4>1 DEF Settles
      <4>2. CASE d # c
        BY <1>6, <4>2 DEF Settles
      <4> QED
        BY <4>1, <4>2
    <3>2. StreamInv(p) /\ tail[p] \in Nat
      BY <1>1, CounterTypes DEF ListInv
    <3>3. /\ opt'[p] = opt[p] /\ over'[p] = over[p] /\ taken'[p] = taken[p]
          /\ tail'[p] \in Nat /\ tail[p] <= tail'[p]
      BY <1>3, <1>7, <2>1, <3>2
    <3> QED
      BY <1>1, <3>1, <3>2, <3>3, StreamStays
  <2>2. CASE p = r
    <3>1. PICK V \in SUBSET (0 .. opt[r] - 1), W \in SUBSET (0 .. opt[r] - 1),
               top \in 0 .. opt[r] : StreamAt(r, V, W, top)
      BY DEF ListInv, StreamInv
    <3>2. PICK O \in [Thread -> SUBSET Nat] : O = OpenAt(r)
      BY <1>1, <1>8, OpenTypes
    <3>3. PICK P \in [Thread -> SUBSET Nat] : P = OpenAt(r)'
      BY <1>1, <1>8, OpenTypes
    <3>4. O[c] = {} /\ Ledger(opt[r], V, W, O)
      BY <1>1, <3>1, <3>2 DEF OpenAt, Settles, StreamAt
    <3>5. P[c] = opt[r] .. opt[r] + w - 1
      BY <1>2, <1>5, <1>6, <3>3 DEF OpenAt, Settles
    <3>6. \A d \in Thread \ {c} : P[d] = O[d]
      BY <1>6, <3>2, <3>3 DEF OpenAt, Settles
    <3>7. Ledger(opt[r] + w, V, W, P)
      <4>1. PICK n \in Nat, k \in Nat : n = opt[r] /\ k = w
        BY <1>4
      <4>2. Ledger(n, V, W, O) /\ P[c] = n .. n + k - 1
        BY <3>4, <3>5, <4>1
      <4>3. Ledger(n + k, V, W, P)
        BY <3>4, <3>6, <4>2, LedgerClaim
      <4> QED
        BY <4>1, <4>3
    <3>8. Under(V, opt[r]) = V
      <4>1. \A x \in 0 .. opt[r] - 1 : x < opt[r]
        BY <1>4
      <4> QED
        BY <4>1, Zenon DEF Under
    <3>9. ASSUME NEW d \in Thread, Settles(d, r)'
          PROVE  search'[d].seen <= Cardinality(Under(V, search'[d].my))
      <4>1. CASE d = c
        BY <1>5, <1>6, <1>10, <3>1, <3>8, <4>1 DEF StreamAt
      <4>2. CASE d # c
        BY <1>6, <3>1, <3>9, <4>2 DEF StreamAt, Settles
      <4> QED
        BY <4>1, <4>2
    <3>10. StreamAt(r, V, W, top)'
      BY <1>3, <1>7, <3>1, <3>3, <3>7, <3>9 DEF StreamAt
    <3>11. /\ V \in SUBSET (0 .. opt'[r] - 1) /\ W \in SUBSET (0 .. opt'[r] - 1)
           /\ top \in 0 .. opt'[r]
      <4>1. 0 .. opt[r] - 1 \subseteq 0 .. opt'[r] - 1 /\ 0 .. opt[r] \subseteq 0 .. opt'[r]
        BY <1>4, <1>7
      <4> QED
        BY <4>1
    <3> QED
      BY <2>2, <3>10, <3>11 DEF StreamInv
  <2> QED
    BY <2>1, <2>2
<1>14. \A d \in Thread \ {c} : SearchKept(d)
  BY <1>3, <1>6 DEF SearchKept
<1> QED
  BY <1>8, <1>9, <1>12, <1>13, <1>14, ListStep

\* Consumer c settles its claim on want elements from my on: got of them are won,
\* the others void.
SettlesClaim(n, V, W, top, O, P, c, t, my, want, got, seen) ==
  /\ n \in Nat /\ t \in Nat /\ my \in Nat /\ want \in Nat /\ got \in Nat /\ seen \in Nat
  /\ V \in SUBSET (0 .. n - 1) /\ W \in SUBSET (0 .. n - 1) /\ top \in 0 .. n
  /\ O \in [Thread -> SUBSET Nat] /\ P \in [Thread -> SUBSET Nat] /\ c \in Thread
  /\ Ledger(n, V, W, O) /\ W \subseteq 0 .. top - 1
  /\ top - Cardinality(Under(V, top)) <= t /\ seen <= Cardinality(Under(V, my))
  /\ want # 0 /\ got <= want /\ (got > 0 => my + got - seen <= t)
  /\ O[c] = my .. my + want - 1 /\ P[c] = {} /\ \A d \in Thread \ {c} : P[d] = O[d]

\* The claims then.
LEMMA SettledClaims ==
  ASSUME NEW n, NEW V, NEW W, NEW top, NEW O, NEW P, NEW c, NEW t, NEW my, NEW want,
         NEW got, NEW seen, SettlesClaim(n, V, W, top, O, P, c, t, my, want, got, seen)
  PROVE  \E V2 \in SUBSET (0 .. n - 1), W2 \in SUBSET (0 .. n - 1), top2 \in 0 .. n :
           /\ Ledger(n, V2, W2, P) /\ V \subseteq V2
           /\ Cardinality(V2) = Cardinality(V) + (want - got)
           /\ Cardinality(W2) = Cardinality(W) + got
           /\ W2 \subseteq 0 .. top2 - 1 /\ top2 - Cardinality(Under(V2, top2)) <= t
<1> USE DEF SettlesClaim
<1> DEFINE from == my + got
           rest == want - got
           X == my .. my + got - 1
           Y == from .. from + rest - 1
           V2 == V \cup Y
           W2 == W \cup X
           top2 == IF got = 0 \/ top >= from THEN top ELSE from
<1>1. from \in Nat /\ rest \in Nat
  OBVIOUS
<1>2. O[c] = X \cup Y /\ X \cap Y = {}
  OBVIOUS
<1>3. O[c] \subseteq 0 .. n - 1 /\ O[c] \cap V = {} /\ O[c] \cap W = {}
  BY DEF Ledger
<1>4. my + want <= n
  <2>1. my + want - 1 \in O[c]
    OBVIOUS
  <2>2. my + want - 1 \in 0 .. n - 1
    BY <1>3, <2>1
  <2> QED
    BY <2>2
<1>5. Ledger(n, V2, W2, P)
  <2> HIDE DEF X, Y
  <2> QED
    BY <1>2, LedgerSettle
<1>6. V2 \in SUBSET (0 .. n - 1) /\ W2 \in SUBSET (0 .. n - 1)
  BY <1>5 DEF Ledger
<1>7. Cardinality(V2) = Cardinality(V) + rest
  <2>1. V \cap (from .. from + rest - 1) = {}
    <3>1. Y \cap V = {}
      <4> HIDE DEF X, Y
      <4> QED
        BY <1>2, <1>3
    <3> QED
      BY <3>1
  <2>2. \A b, m \in Nat : V \cap (b .. b + m - 1) = {} =>
          Cardinality(V \cup (b .. b + m - 1)) = Cardinality(V) + m
    BY ClaimsAdded
  <2> HIDE DEF from, rest
  <2> QED
    BY <1>1, <2>1, <2>2
<1>8. Cardinality(W2) = Cardinality(W) + got
  <2>1. W \cap (my .. my + got - 1) = {}
    BY <1>2, <1>3
  <2> QED
    BY <2>1, ClaimsAdded, ZenonT(40)
<1>9. top2 \in 0 .. n
  BY <1>1, <1>4
<1>10. W2 \subseteq 0 .. top2 - 1
  <2>1. 0 .. top - 1 \subseteq 0 .. top2 - 1
    BY <1>1
  <2>2. X \subseteq 0 .. top2 - 1
    BY <1>1
  <2> QED
    BY <2>1, <2>2
<1>11. top2 - Cardinality(Under(V2, top2)) <= t
  <2>1. V \in SUBSET V2
    OBVIOUS
  <2> HIDE DEF V2, W2, X, Y
  <2>2. CASE top2 = top
    <3>1. /\ Cardinality(Under(V, top)) \in Nat /\ Cardinality(Under(V2, top)) \in Nat
          /\ Cardinality(Under(V, top)) <= Cardinality(Under(V2, top))
      BY <1>6, <2>1, UnderGrows
    <3> HIDE DEF top2
    <3> QED
      BY <2>2, <3>1
  <2>3. CASE top2 # top
    <3>1. top2 = from /\ got > 0
      BY <2>3
    <3> DEFINE U == Under(V, my)
    <3>2. U \in SUBSET V2 /\ Under(U, from) = U
      <4>1. \A x \in 0 .. n - 1 : x < my => x < from
        OBVIOUS
      <4>2. Under(U, from) = U
        BY <4>1, Zenon DEF Under
      <4>3. U \in SUBSET V2
        BY <2>1 DEF Under
      <4> QED
        BY <4>2, <4>3
    <3> HIDE DEF U
    <3>3. /\ Cardinality(Under(U, from)) \in Nat /\ Cardinality(Under(V2, from)) \in Nat
          /\ Cardinality(Under(U, from)) <= Cardinality(Under(V2, from))
      BY <1>6, <3>2, UnderGrows
    <3>4. seen <= Cardinality(Under(V2, from))
      BY <3>2, <3>3 DEF U
    <3> HIDE DEF top2
    <3> QED
      BY <3>1, <3>3, <3>4
  <2> QED
    BY <2>2, <2>3
<1>12. V \subseteq V2
  OBVIOUS
<1> HIDE DEF V2, W2, top2
<1> QED
  BY <1>5, <1>6, <1>7, <1>8, <1>9, <1>10, <1>11, <1>12

\* A consumer that comes away from a stream with less than it wanted, while no other
\* claim was open and none was given back since it looked, has emptied it as far as
\* the call has to.
LEMMA SettledOver ==
  ASSUME ListInv, NEW c \in Thread, NEW r \in Search!Producer, at[c] = "settle",
         r = search[c].ptr, NEW got \in Nat,
         got = (LET actual == tail[r] - (search[c].my - search[c].seen) IN
                IF actual > 0 THEN Search!Least(search[c].want, actual) ELSE 0),
         got < search[c].max, over[r] = search[c].seen, ~Search!OpenByOthers(c, r)
  PROVE  start[c][r] <= taken[r] + got
<1>1. PICK V \in SUBSET (0 .. opt[r] - 1), W \in SUBSET (0 .. opt[r] - 1),
           top \in 0 .. opt[r] : StreamAt(r, V, W, top)
  BY DEF ListInv, StreamInv
<1>2. /\ tail[r] \in Nat /\ taken[r] \in Nat /\ opt[r] \in Nat /\ over[r] \in Nat
      /\ start[c][r] \in Nat
  BY CounterTypes DEF ListInv
<1>3. PICK my \in Nat, want \in Nat, max \in Nat, seen \in Nat :
        /\ my = search[c].my /\ want = search[c].want /\ max = search[c].max
        /\ seen = search[c].seen
  BY SearchTypes DEF ListInv
<1>4. /\ start[c][r] <= tail[r] /\ want \in 1 .. max
      /\ want < max => start[c][r] + seen <= want + my
  BY <1>3 DEF ListInv, SearchInv, ClaimAt
<1>5. \A d \in Thread \ {c} : OpenAt(r)[d] = {}
  BY NoneOpen
<1>6. OpenAt(r)[c] = my .. my + want - 1
  BY <1>3 DEF OpenAt, Settles
<1>7. Ledger(opt[r], V, W, OpenAt(r))
  BY <1>1 DEF StreamAt
<1>8. Cardinality(V) + Cardinality(W) + want = opt[r]
  BY <1>2, <1>5, <1>6, <1>7, LedgerTotal
<1>9. over[r] + taken[r] + want = opt[r]
  BY <1>1, <1>8 DEF StreamAt
<1>10. my + want <= opt[r]
  <2>1. my + want - 1 \in OpenAt(r)[c]
    BY <1>4, <1>6
  <2>2. my + want - 1 \in 0 .. opt[r] - 1
    BY <1>7, <2>1 DEF Ledger
  <2> QED
    BY <1>2, <2>2
<1>11. taken[r] >= my - seen
  BY <1>2, <1>3, <1>9, <1>10
<1>12. got = (IF tail[r] - (my - seen) > 0
              THEN Search!Least(want, tail[r] - (my - seen)) ELSE 0) /\ got < max
  BY <1>3
<1> QED
  BY <1>2, <1>4, <1>11, <1>12 DEF Search!Least

\* The claims when c settles its own.
LEMMA SettledStreams ==
  ASSUME ListInv, ListTypeInv', NEW c \in Thread, NEW r \in Search!Producer, at[c] = "settle",
         r = search[c].ptr, NEW got \in Nat, got <= search[c].want,
         got > 0 => search[c].my + got - search[c].seen <= tail[r],
         at'[c] # "settle", tail' = tail, opt' = opt,
         taken' = [taken EXCEPT ![r] = @ + got],
         over' = [over EXCEPT ![r] = @ + (search[c].want - got)],
         \A d \in Thread \ {c} : at'[d] = at[d] /\ search'[d] = search[d],
         NEW p \in Search!Producer
  PROVE  StreamInv(p)'
<1>1. ListTypeInv
  BY DEF ListInv
<1>2. /\ tail[p] \in Nat /\ taken[p] \in Nat /\ opt[p] \in Nat /\ over[p] \in Nat
  BY <1>1, CounterTypes
<1>3. CASE p # r
  <2>1. ASSUME NEW d \in Thread
        PROVE  /\ Settles(d, p)' <=> Settles(d, p)
               /\ Settles(d, p) => /\ search'[d].my = search[d].my
                                   /\ search'[d].want = search[d].want
                                   /\ search'[d].seen = search[d].seen
    <3>1. CASE d = c
      BY <1>3, <3>1 DEF Settles
    <3>2. CASE d # c
      BY <3>2 DEF Settles
    <3> QED
      BY <3>1, <3>2
  <2>2. StreamInv(p)
    BY DEF ListInv
  <2>3. /\ opt'[p] = opt[p] /\ over'[p] = over[p] /\ taken'[p] = taken[p]
        /\ tail'[p] \in Nat /\ tail[p] <= tail'[p]
    BY <1>1, <1>2, <1>3 DEF ListTypeInv, Counters
  <2> QED
    BY <1>1, <2>1, <2>2, <2>3, StreamStays
<1>4. CASE p = r
  <2>1. PICK V \in SUBSET (0 .. opt[p] - 1), W \in SUBSET (0 .. opt[p] - 1),
             top \in 0 .. opt[p] : StreamAt(p, V, W, top)
    BY DEF ListInv, StreamInv
  <2>2. PICK O \in [Thread -> SUBSET Nat] : O = OpenAt(p)
    BY <1>1, OpenTypes
  <2>3. PICK P \in [Thread -> SUBSET Nat] : P = OpenAt(p)'
    BY <1>1, OpenTypes
  <2>4. PICK n \in Nat, t \in Nat : n = opt[p] /\ t = tail[p]
    BY <1>2
  <2>5. PICK my \in Nat, want \in Nat, seen \in Nat :
          my = search[c].my /\ want = search[c].want /\ seen = search[c].seen
    BY <1>1, SearchTypes
  <2>6. O[c] = my .. my + want - 1 /\ P[c] = {} /\ \A d \in Thread \ {c} : P[d] = O[d]
    BY <1>4, <2>2, <2>3, <2>5 DEF OpenAt, Settles
  <2>7. /\ Ledger(n, V, W, O) /\ W \subseteq 0 .. top - 1
        /\ top - Cardinality(Under(V, top)) <= t /\ seen <= Cardinality(Under(V, my))
    BY <1>4, <2>1, <2>2, <2>4, <2>5 DEF StreamAt, Settles
  <2>8. want # 0 /\ got <= want /\ (got > 0 => my + got - seen <= t)
    <3>1. search[c].want \in 1 .. search[c].max
      BY DEF ListInv, SearchInv, ClaimAt
    <3> QED
      BY <1>4, <2>4, <2>5, <3>1
  <2>9. V \in SUBSET (0 .. n - 1) /\ W \in SUBSET (0 .. n - 1) /\ top \in 0 .. n
    BY <2>4
  <2>10. PICK V2 \in SUBSET (0 .. n - 1), W2 \in SUBSET (0 .. n - 1), top2 \in 0 .. n :
           /\ Ledger(n, V2, W2, P) /\ V \subseteq V2
           /\ Cardinality(V2) = Cardinality(V) + (want - got)
           /\ Cardinality(W2) = Cardinality(W) + got
           /\ W2 \subseteq 0 .. top2 - 1 /\ top2 - Cardinality(Under(V2, top2)) <= t
    <3>1. SettlesClaim(n, V, W, top, O, P, c, t, my, want, got, seen)
      BY <2>6, <2>7, <2>8, <2>9 DEF SettlesClaim
    <3> QED
      BY <3>1, SettledClaims
  <2>11. over'[p] = Cardinality(V2) /\ taken'[p] = Cardinality(W2)
    <3>1. over'[p] = over[p] + (want - got) /\ taken'[p] = taken[p] + got
      BY <1>1, <1>4, <2>5 DEF ListTypeInv, Counters
    <3> QED
      BY <2>1, <2>10, <3>1 DEF StreamAt
  <2>12. ASSUME NEW d \in Thread, Settles(d, p)'
         PROVE  search'[d].seen <= Cardinality(Under(V2, search'[d].my))
    <3>1. d # c /\ search'[d] = search[d] /\ Settles(d, p)
      BY <2>12 DEF Settles
    <3>2. PICK m \in Nat, s \in Nat : m = search[d].my /\ s = search[d].seen
      BY <1>1, SearchTypes
    <3>3. s <= Cardinality(Under(V, m))
      BY <2>1, <3>1, <3>2 DEF StreamAt
    <3>4. /\ Cardinality(Under(V, m)) \in Nat /\ Cardinality(Under(V2, m)) \in Nat
          /\ Cardinality(Under(V, m)) <= Cardinality(Under(V2, m))
      <4>1. V \in SUBSET V2
        BY <2>10
      <4> QED
        BY <4>1, UnderGrows
    <3> QED
      BY <3>1, <3>2, <3>3, <3>4
  <2>13. StreamAt(p, V2, W2, top2)'
    BY <2>3, <2>4, <2>10, <2>11, <2>12 DEF StreamAt
  <2>14. opt'[p] = n
    BY <2>4
  <2> QED
    BY <2>13, <2>14 DEF StreamInv
<1> QED
  BY <1>3, <1>4

\* What is there is taken, the rest of the claim given back, and the search goes on.
LEMMA SettleKeeps ==
  ASSUME ListInv, NEW c \in Thread, Search!Settle(c)
  PROVE  ListInv' /\ TokensKept
<1>1. ListTypeInv /\ SearchInv(c) /\ at[c] = "settle"
  BY DEF ListInv, Search!Settle
<1>2. PICK r \in Search!Producer : r = search[c].ptr
  BY <1>1, AtProducer
<1>3. /\ tail[r] \in Nat /\ taken[r] \in Nat /\ opt[r] \in Nat /\ over[r] \in Nat
      /\ start[c][r] \in Nat
      /\ search[c].my \in Nat /\ search[c].want \in Nat /\ search[c].max \in Nat
      /\ search[c].seen \in Nat
  BY <1>1, SearchTypes, CounterTypes
<1> DEFINE actual == tail[r] - (search[c].my - search[c].seen)
           got == IF actual > 0 THEN Search!Least(search[c].want, actual) ELSE 0
           raced == got < search[c].max /\
                      (over[r] # search[c].seen \/ Search!OpenByOthers(c, r))
<1>4. PICK g \in Nat : g = got
  BY <1>3 DEF Search!Least
<1>5. /\ producerCount' = producerCount /\ listed' = listed /\ tail' = tail
      /\ opt' = opt /\ start' = start
      /\ taken' = [taken EXCEPT ![r] = @ + g]
      /\ over' = [over EXCEPT ![r] = @ + (search[c].want - g)]
      /\ Search!After(c, g) /\ Search!Missed(c, r, raced)
  <2>1. /\ producerCount' = producerCount /\ listed' = listed /\ tail' = tail
        /\ opt' = opt /\ start' = start
        /\ taken' = [taken EXCEPT ![r] = @ + got]
        /\ over' = [over EXCEPT ![r] = @ + (search[c].want - got)]
        /\ Search!After(c, got) /\ Search!Missed(c, r, raced)
    BY <1>2 DEF Search!Settle
  <2> HIDE DEF got, raced
  <2> QED
    BY <1>4, <2>1
<1>6. g <= search[c].want /\ (g > 0 => search[c].my + g - search[c].seen <= tail[r])
  BY <1>3, <1>4 DEF Search!Least
<1>7. search[c].want \in 1 .. search[c].max
  BY <1>1 DEF SearchInv, ClaimAt
<1>8. g <= search[c].max
  BY <1>3, <1>6, <1>7
<1>9. /\ token' \in [Thread -> TokenState] /\ globalOffset' \in Nat
      /\ at' \in [Thread -> SearchPlace] /\ search' \in [Thread -> SearchLocal]
      /\ at'[c] \in {"look", "done", "failed"}
      /\ token'[c].desired = token[c].desired /\ token'[c].known = token[c].known
      /\ \A d \in Thread \ {c} :
            at'[d] = at[d] /\ search'[d] = search[d] /\ token'[d] = token[d]
  BY <1>1, <1>5, <1>8, AfterTypes
<1>10. /\ disturbed' \in [Thread -> SUBSET Search!Producer]
       /\ disturbed[c] \subseteq disturbed'[c] /\ (raced => r \in disturbed'[c])
       /\ \A d \in Thread \ {c} : disturbed'[d] = disturbed[d]
  <2>1. raced \in BOOLEAN
    OBVIOUS
  <2> HIDE DEF raced
  <2> QED
    BY <1>1, <1>5, <2>1, MissedTypes
<1> HIDE DEF got, actual
<1>11. /\ taken' \in Counters /\ over' \in Counters
       /\ taken'[r] = taken[r] + g /\ over'[r] = over[r] + (search[c].want - g)
       /\ \A p \in Search!Producer \ {r} : taken'[p] = taken[p] /\ over'[p] = over[p]
  BY <1>1, <1>3, <1>5, <1>6 DEF ListTypeInv, Counters
<1>12. ListTypeInv'
  BY <1>1, <1>5, <1>9, <1>10, <1>11 DEF ListTypeInv
<1>13. ListGrows
  <2>1. \A p \in Search!Producer : taken[p] <= taken'[p] /\ over[p] <= over'[p]
    BY <1>1, <1>3, <1>6, <1>11, CounterTypes
  <2> QED
    BY <1>1, <1>5, <2>1, CounterTypes DEF ListGrows, ListTypeInv
<1>14. g < search[c].max => Over(c, r)'
  <2> SUFFICES ASSUME g < search[c].max PROVE Over(c, r)'
    OBVIOUS
  <2>1. CASE raced
    BY <1>10, <2>1 DEF Over
  <2>2. CASE ~raced
    <3>1. over[r] = search[c].seen /\ ~Search!OpenByOthers(c, r)
      BY <1>4, <2>2
    <3>2. start[c][r] <= taken[r] + g
      BY <1>1, <1>2, <1>4, <3>1, SettledOver DEF got, actual
    <3> QED
      BY <1>5, <1>11, <3>2 DEF Over
  <2> QED
    BY <2>1, <2>2
<1> HIDE DEF raced
<1>15. Tried(c)
  BY <1>5, <1>10 DEF Tried
<1>16. SearchInv(c)'
  BY <1>1, <1>2, <1>5, <1>8, <1>12, <1>13, <1>14, <1>15, AfterKeeps
<1>17. \A p \in Search!Producer : StreamInv(p)'
  BY <1>1, <1>2, <1>5, <1>6, <1>9, <1>12, SettledStreams
<1>18. \A d \in Thread \ {c} : SearchKept(d)
  BY <1>5, <1>9, <1>10 DEF SearchKept
<1>19. TokensKept
  BY <1>9 DEF TokensKept
<1> QED
  BY <1>12, <1>13, <1>16, <1>17, <1>18, <1>19, ListStep

(***************************************************************************)
(* TryDequeue: the other steps                                             *)
(***************************************************************************)
\* A step of c that leaves the counters alone, outside dequeue_bulk.
LEMMA QuietStep ==
  ASSUME ListInv, NEW c \in Thread, at[c] # "settle", at'[c] # "settle",
         producerCount' = producerCount, listed' = listed, tail' = tail, taken' = taken,
         opt' = opt, over' = over, globalOffset' \in Nat, token' \in [Thread -> TokenState],
         at' \in [Thread -> SearchPlace], search' \in [Thread -> SearchLocal],
         start' \in [Thread -> Counters], disturbed' \in [Thread -> SUBSET Search!Producer],
         \A d \in Thread \ {c} : SearchKept(d), SearchInv(c)'
  PROVE  ListInv'
<1>1. ListTypeInv /\ \A p \in Search!Producer : StreamInv(p)
  BY DEF ListInv
<1>2. ListTypeInv'
  BY <1>1 DEF ListTypeInv
<1>3. ListGrows
  BY <1>1, CounterTypes DEF ListGrows, ListTypeInv
<1>4. \A p \in Search!Producer : StreamInv(p)'
  <2>1. \A p \in Search!Producer : tail'[p] \in Nat /\ tail[p] <= tail'[p]
    BY <1>1, CounterTypes
  <2>2. \A d \in Thread \ {c} : at'[d] = at[d] /\ search'[d] = search[d]
    BY DEF SearchKept
  <2> QED
    BY <1>1, <2>1, <2>2, StreamsStay
<1> QED
  BY <1>2, <1>3, <1>4, ListStep

\* A step of no consumer.
LEMMA NoConsumerStep ==
  ASSUME ListInv, ListTypeInv', ListGrows, opt' = opt, over' = over, taken' = taken,
         globalOffset' = globalOffset, token' = token, at' = at, search' = search,
         start' = start, disturbed' = disturbed
  PROVE  ListInv'
<1>1. ListTypeInv /\ \A p \in Search!Producer : StreamInv(p)
  BY DEF ListInv
<1>2. \A d \in Thread : SearchInv(d)'
  <2>1. \A d \in Thread : SearchKept(d)
    BY DEF SearchKept
  <2> QED
    BY <1>1, <2>1, OthersSearch DEF ListInv
<1>3. ASSUME NEW p \in Search!Producer PROVE StreamInv(p)'
  <2>1. tail'[p] \in Nat /\ tail[p] <= tail'[p]
    BY DEF ListTypeInv, Counters, ListGrows
  <2>2. \A c \in Thread :
           /\ Settles(c, p)' <=> Settles(c, p)
           /\ Settles(c, p) => /\ search'[c].my = search[c].my
                               /\ search'[c].want = search[c].want
                               /\ search'[c].seen = search[c].seen
    BY DEF Settles
  <2> QED
    BY <1>1, <2>1, <2>2, StreamStays
<1> QED
  BY <1>2, <1>3 DEF ListInv

\* A producer is counted.
LEMMA CountKeeps ==
  ASSUME ListInv, Search!CountProducer
  PROVE  ListInv'
<1>1. ListTypeInv
  BY DEF ListInv
<1>2. ListTypeInv' /\ ListGrows
  BY <1>1, CounterTypes, ListConstants DEF ListTypeInv, ListGrows, Search!CountProducer
<1> QED
  BY <1>2, NoConsumerStep DEF Search!CountProducer

\* A producer is pushed on the list.
LEMMA PushKeeps ==
  ASSUME ListInv, Search!PushProducer
  PROVE  ListInv'
<1>1. ListTypeInv
  BY DEF ListInv
<1>2. listed' = listed + 1 /\ listed \in Nat /\ listed' \in Nat
  BY <1>1 DEF ListTypeInv, Search!PushProducer
<1>3. \A p \in Search!Producer : p > listed' => p > listed
  BY <1>2, ListConstants
<1>4. ListTypeInv'
  BY <1>1, <1>2, <1>3, ListConstants DEF ListTypeInv, Search!PushProducer
<1>5. ListGrows
  BY <1>1, <1>2, CounterTypes DEF ListGrows, Search!PushProducer
<1> QED
  BY <1>4, <1>5, NoConsumerStep DEF Search!PushProducer

\* An element is published.
LEMMA EnqueueKeeps ==
  ASSUME ListInv, NEW p \in Search!Producer, Search!Enqueue(p)
  PROVE  ListInv'
<1>1. ListTypeInv
  BY DEF ListInv
<1>2. /\ tail' \in Counters /\ tail'[p] = tail[p] + 1 /\ tail'[p] <= MaxTail /\ p <= listed
      /\ \A q \in Search!Producer \ {p} : tail'[q] = tail[q]
  <2>1. /\ tail' = [tail EXCEPT ![p] = @ + 1] /\ p <= listed /\ tail[p] < MaxTail
        /\ tail \in [Search!Producer -> Nat] /\ tail[p] \in Nat /\ MaxTail \in Nat
    BY <1>1, CounterTypes, ListConstants DEF ListTypeInv, Counters, Search!Enqueue
  <2> QED
    BY <2>1 DEF Counters
<1>3. ListTypeInv'
  <2>1. \A q \in Search!Producer : tail'[q] <= MaxTail /\ (q > listed => tail'[q] = 0)
    <3>1. p \in Nat /\ listed \in Nat
      BY <1>1, ListConstants DEF ListTypeInv
    <3> QED
      BY <1>1, <1>2, <3>1 DEF ListTypeInv
  <2> QED
    BY <1>1, <1>2, <2>1 DEF ListTypeInv, Search!Enqueue
<1>4. ListGrows
  BY <1>1, <1>2, CounterTypes DEF ListGrows, ListTypeInv, Search!Enqueue
<1> QED
  BY <1>3, <1>4, NoConsumerStep DEF Search!Enqueue

\* A call returns.
LEMMA ReturnKeeps ==
  ASSUME ListInv, NEW c \in Thread, Search!Return(c)
  PROVE  ListInv'
<1>1. ListTypeInv /\ SearchInv(c) /\ at[c] # "settle"
  BY DEF ListInv, Search!Return
<1>2. /\ Search!To(c, "idle", Search!Zero)
      /\ start' = [start EXCEPT ![c] = [p \in Search!Producer |-> 0]]
      /\ disturbed' = [disturbed EXCEPT ![c] = {}]
      /\ producerCount' = producerCount /\ listed' = listed /\ tail' = tail /\ taken' = taken
      /\ opt' = opt /\ over' = over /\ globalOffset' = globalOffset /\ token' = token
  BY DEF Search!Return, Search!queueVars
<1>3. /\ at' \in [Thread -> SearchPlace] /\ search' \in [Thread -> SearchLocal]
      /\ at'[c] = "idle" /\ search'[c] = Search!Zero
      /\ \A d \in Thread \ {c} : at'[d] = at[d] /\ search'[d] = search[d]
  <2>1. "idle" \in SearchPlace
    BY DEF SearchPlace
  <2> QED
    BY <1>1, <1>2, <2>1, SearchMoved, ZeroSearch
<1>4. /\ start' \in [Thread -> Counters] /\ \A p \in Search!Producer : start'[c][p] = 0
      /\ disturbed' \in [Thread -> SUBSET Search!Producer]
      /\ \A d \in Thread \ {c} : start'[d] = start[d] /\ disturbed'[d] = disturbed[d]
  BY <1>1, <1>2 DEF ListTypeInv, Counters
<1>5. /\ globalOffset \in Nat /\ token \in [Thread -> TokenState] /\ listed \in Nat
      /\ \A p \in Search!Producer : tail[p] >= 0
  BY <1>1, CounterTypes DEF ListTypeInv
<1>6. SearchInv(c)'
  BY <1>1, <1>2, <1>3, <1>4, <1>5, ZeroSearch DEF SearchInv, ClaimAt
<1>7. \A d \in Thread \ {c} : SearchKept(d)
  BY <1>2, <1>3, <1>4 DEF SearchKept
<1> QED
  BY <1>1, <1>2, <1>3, <1>4, <1>5, <1>6, <1>7, QuietStep

\* size_approx of one producer after the other, and the choice of the fullest.
LEMMA SizeKeeps ==
  ASSUME ListInv, NEW c \in Thread, Search!Size(c)
  PROVE  ListInv'
<1>1. ListTypeInv /\ SearchInv(c) /\ at[c] = "size" /\ SizeInv(c)
  BY DEF ListInv, SearchInv, Search!Size
<1>2. /\ producerCount' = producerCount /\ listed' = listed /\ tail' = tail /\ taken' = taken
      /\ opt' = opt /\ over' = over /\ globalOffset' = globalOffset /\ token' = token
      /\ start' = start /\ disturbed' = disturbed
  BY DEF Search!Size, Search!queueVars
<1>3. PICK l \in SearchLocal : l = search[c]
  BY <1>1, SearchTypes
<1>4. /\ l.ptr \in Nat /\ l.best \in Nat /\ l.size \in Nat /\ l.n \in Nat
      /\ l.kind = "any" /\ l.max = 1 /\ l.last = 0 /\ l.best <= listed /\ l.ptr <= listed
      /\ l.n > 0 => l.size > 0
      /\ l.size > 0 => l.best \in 1 .. listed
      /\ l.n = 0 => \A p \in Search!Producer : p > l.ptr => Over(c, p)
      /\ listed \in Nat
  BY <1>1, <1>3, SearchTypes DEF SizeInv, SearchInv, ListTypeInv
<1>5. \A p \in Search!Producer : Over(c, p) <=> Over(c, p)'
  BY <1>2 DEF Over
<1>6. /\ globalOffset \in Nat /\ token \in [Thread -> TokenState]
      /\ start \in [Thread -> Counters] /\ disturbed \in [Thread -> SUBSET Search!Producer]
  BY <1>1 DEF ListTypeInv
<1> DEFINE size == IF tail[l.ptr] > taken[l.ptr] THEN tail[l.ptr] - taken[l.ptr] ELSE 0
<1>7. CASE l.n < 3 /\ l.ptr > 0
  <2> DEFINE n == IF size > 0 THEN l.n + 1 ELSE l.n
             b == IF size > l.size THEN l.ptr ELSE l.best
             s == IF size > l.size THEN size ELSE l.size
             k == [l EXCEPT !.ptr = l.ptr - 1, !.n = n, !.best = b, !.size = s]
  <2>1. Search!To(c, "size", k)
    BY <1>3, <1>7 DEF Search!Size
  <2>2. PICK r \in Search!Producer : r = l.ptr
    BY <1>1, <1>4, <1>7, ListConstants DEF ListTypeInv
  <2>3. /\ size \in Nat /\ (size = 0 => tail[r] <= taken[r])
    BY <1>1, <2>2, CounterTypes
  <2> HIDE DEF size
  <2>4. n \in Nat /\ b \in Nat /\ s \in Nat /\ l.ptr - 1 \in Nat
    BY <1>4, <1>7, <2>3
  <2>5. /\ n > 0 => s > 0
        /\ s > 0 => b \in 1 .. listed
        /\ b <= listed /\ (n = 0 => l.n = 0 /\ size = 0)
    BY <1>4, <1>7, <2>3
  <2> HIDE DEF n, b, s
  <2>6. /\ k \in SearchLocal /\ k.kind = l.kind /\ k.max = l.max /\ k.last = l.last
        /\ k.ptr = l.ptr - 1 /\ k.n = n /\ k.best = b /\ k.size = s
    BY <2>4 DEF SearchLocal
  <2> HIDE DEF k
  <2>7. /\ at' \in [Thread -> SearchPlace] /\ search' \in [Thread -> SearchLocal]
        /\ at'[c] = "size" /\ search'[c] = k
        /\ \A d \in Thread \ {c} : at'[d] = at[d] /\ search'[d] = search[d]
    <3>1. "size" \in SearchPlace
      BY DEF SearchPlace
    <3> QED
      BY <1>1, <2>1, <2>6, <3>1, SearchMoved
  <2>8. ASSUME n = 0, NEW p \in Search!Producer, p > l.ptr - 1 PROVE Over(c, p)'
    <3>1. p = r \/ p > l.ptr
      BY <1>4, <2>2, <2>8, ListConstants
    <3>2. Over(c, r)
      <4>1. start[c][r] <= tail[r] /\ tail[r] <= taken[r]
        BY <1>1, <2>3, <2>5, <2>8 DEF SearchInv
      <4> QED
        BY <1>1, <4>1, CounterTypes DEF Over
    <3> QED
      BY <1>4, <1>5, <2>5, <2>8, <3>1, <3>2
  <2>9. SizeInv(c)'
    BY <1>2, <1>4, <2>5, <2>6, <2>7, <2>8 DEF SizeInv
  <2>10. SearchInv(c)'
    <3>1. k.ptr <= listed
      BY <1>4, <2>6
    <3> QED
      BY <1>1, <1>2, <2>7, <2>9, <3>1 DEF SearchInv, ClaimAt
  <2>11. \A d \in Thread \ {c} : SearchKept(d)
    BY <1>2, <2>7 DEF SearchKept
  <2> QED
    BY <1>1, <1>2, <1>6, <2>7, <2>10, <2>11, QuietStep
<1>8. CASE ~(l.n < 3 /\ l.ptr > 0)
  <2> DEFINE q == IF l.n = 0 THEN "failed" ELSE "look"
             k == [l EXCEPT !.ptr = l.best]
  <2>1. Search!To(c, q, k)
    BY <1>3, <1>8 DEF Search!Size
  <2>2. /\ k \in SearchLocal /\ k.kind = l.kind /\ k.max = l.max
        /\ k.ptr = l.best /\ k.n = l.n /\ k.best = l.best
    BY <1>4 DEF SearchLocal
  <2> HIDE DEF k
  <2>3. /\ at' \in [Thread -> SearchPlace] /\ search' \in [Thread -> SearchLocal]
        /\ at'[c] = q /\ search'[c] = k
        /\ \A d \in Thread \ {c} : at'[d] = at[d] /\ search'[d] = search[d]
    <3>1. q \in SearchPlace
      BY DEF SearchPlace
    <3> HIDE DEF q
    <3> QED
      BY <1>1, <2>1, <2>2, <3>1, SearchMoved
  <2>4. SearchInv(c)'
    <3>1. k.ptr <= listed
      BY <1>4, <2>2
    <3>2. CASE l.n = 0
      <4>1. \A p \in Search!Producer : Over(c, p)'
        BY <1>4, <1>5, <1>8, <3>2, ListConstants
      <4> QED
        BY <1>1, <1>2, <2>3, <3>1, <3>2, <4>1 DEF SearchInv, ClaimAt
    <3>3. CASE l.n # 0
      <4>1. k.n > 0 /\ k.ptr = k.best /\ k.best \in 1 .. listed /\ k.max = 1 /\ k.kind = "any"
        BY <1>4, <2>2, <3>3
      <4>2. AnyInv(c)'
        BY <1>2, <2>3, <4>1 DEF AnyInv
      <4>3. k.ptr # 0 /\ k.max # 0
        BY <1>4, <4>1
      <4> QED
        BY <1>1, <1>2, <2>3, <3>1, <3>3, <4>1, <4>2, <4>3 DEF SearchInv, ClaimAt
    <3> QED
      BY <3>2, <3>3
  <2>5. \A d \in Thread \ {c} : SearchKept(d)
    BY <1>2, <2>3 DEF SearchKept
  <2> QED
    BY <1>1, <1>2, <1>6, <2>3, <2>4, <2>5, QuietStep
<1> QED
  BY <1>7, <1>8

\* What a call sees as it begins.
LEMMA CallBegins ==
  ASSUME ListInv, NEW c \in Thread, Search!Begin(c), taken' = taken
  PROVE  /\ at[c] = "idle" /\ start' \in [Thread -> Counters] /\ start'[c] = tail
         /\ \A d \in Thread \ {c} : start'[d] = start[d]
         /\ disturbed' = disturbed /\ disturbed \in [Thread -> SUBSET Search!Producer]
         /\ \A p \in Search!Producer : p > listed => Over(c, p)'
<1>1. ListTypeInv
  BY DEF ListInv
<1>2. /\ at[c] = "idle" /\ start' = [start EXCEPT ![c] = tail] /\ disturbed' = disturbed
  BY DEF Search!Begin
<1>3. /\ start' \in [Thread -> Counters] /\ start'[c] = tail
      /\ \A d \in Thread \ {c} : start'[d] = start[d]
      /\ disturbed \in [Thread -> SUBSET Search!Producer]
  BY <1>1, <1>2 DEF ListTypeInv
<1>4. \A p \in Search!Producer : p > listed => tail[p] = 0 /\ taken[p] \in Nat
  BY <1>1, CounterTypes DEF ListTypeInv
<1>5. ASSUME NEW p \in Search!Producer, p > listed PROVE Over(c, p)'
  BY <1>3, <1>4, <1>5 DEF Over
<1> QED
  BY <1>2, <1>3, <1>5

\* A call has begun: what remains to be shown of it.
LEMMA CallStep ==
  ASSUME ListInv, NEW c \in Thread, Search!Begin(c), NEW q \in SearchPlace \ {"settle"},
         NEW l \in SearchLocal, Search!To(c, q, l),
         producerCount' = producerCount, listed' = listed, tail' = tail, taken' = taken,
         opt' = opt, over' = over, globalOffset' = globalOffset,
         token' \in [Thread -> TokenState], \A d \in Thread \ {c} : token'[d] = token[d],
         at'[c] = q /\ search'[c] = l => SearchInv(c)'
  PROVE  ListInv'
<1>1. ListTypeInv
  BY DEF ListInv
<1>2. /\ at' \in [Thread -> SearchPlace] /\ search' \in [Thread -> SearchLocal]
      /\ at'[c] = q /\ search'[c] = l
      /\ \A d \in Thread \ {c} : at'[d] = at[d] /\ search'[d] = search[d]
  BY <1>1, SearchMoved
<1>3. /\ at[c] = "idle" /\ start' \in [Thread -> Counters]
      /\ \A d \in Thread \ {c} : start'[d] = start[d]
      /\ disturbed' = disturbed /\ disturbed \in [Thread -> SUBSET Search!Producer]
  BY CallBegins
<1>4. \A d \in Thread \ {c} : SearchKept(d)
  BY <1>2, <1>3 DEF SearchKept
<1>5. globalOffset \in Nat
  BY <1>1 DEF ListTypeInv
<1> QED
  BY <1>2, <1>3, <1>4, <1>5, QuietStep

\* The part of a consumer's invariant that does not depend on where it stands.
LEMMA CallStarts ==
  ASSUME ListInv, NEW c \in Thread, listed' = listed, tail' = tail, start'[c] = tail,
         at'[c] \in {"size", "look", "failed"}, search'[c] \in SearchLocal,
         search'[c].ptr <= listed, TokenPoints(c)',
         at'[c] = "size" => SizeInv(c)',
         at'[c] = "look" =>
           /\ search'[c].ptr # 0 /\ search'[c].max # 0 /\ search'[c].kind # "none"
           /\ search'[c].kind = "any" => AnyInv(c)'
           /\ search'[c].kind = "bulk" => BulkInv(c)'
           /\ search'[c].kind = "token" => WalkInv(c)',
         at'[c] = "failed" => \A p \in Search!Producer : Over(c, p)'
  PROVE  SearchInv(c)'
<1>1. \A p \in Search!Producer : start'[c][p] <= tail'[p]
  BY CounterTypes DEF ListInv
<1> QED
  BY <1>1 DEF SearchInv, ClaimAt, TokenPoints

\* try_dequeue(item).
LEMMA CallAnyKeeps ==
  ASSUME ListInv, NEW c \in Thread, Search!CallAny(c)
  PROVE  ListInv'
<1>1. ListTypeInv /\ SearchInv(c) /\ listed \in Nat /\ token \in [Thread -> TokenState]
  BY DEF ListInv, ListTypeInv
<1> DEFINE l == [Search!Zero EXCEPT !.kind = "any", !.ptr = listed, !.max = 1]
<1>2. /\ Search!Begin(c) /\ Search!To(c, "size", l)
      /\ producerCount' = producerCount /\ listed' = listed /\ tail' = tail /\ taken' = taken
      /\ opt' = opt /\ over' = over /\ globalOffset' = globalOffset /\ token' = token
  BY DEF Search!CallAny, Search!queueVars
<1>3. /\ l \in SearchLocal /\ l.kind = "any" /\ l.ptr = listed /\ l.max = 1
      /\ l.best = 0 /\ l.size = 0 /\ l.n = 0 /\ l.last = 0
  BY <1>1 DEF SearchLocal, Search!Zero
<1> HIDE DEF l
<1>4. start'[c] = tail /\ \A p \in Search!Producer : p > listed => Over(c, p)'
  BY <1>2, CallBegins
<1>5. TokenPoints(c)'
  BY <1>1, <1>2 DEF SearchInv, TokenPoints
<1>6. ASSUME at'[c] = "size", search'[c] = l PROVE SearchInv(c)'
  <2>1. SizeInv(c)'
    BY <1>1, <1>2, <1>3, <1>4, <1>6 DEF SizeInv
  <2> QED
    BY <1>1, <1>2, <1>3, <1>4, <1>5, <1>6, <2>1, CallStarts
<1>7. "size" \in SearchPlace \ {"settle"}
  BY DEF SearchPlace
<1> QED
  BY <1>1, <1>2, <1>3, <1>6, <1>7, CallStep

\* try_dequeue_bulk(itemFirst, max).
LEMMA CallBulkKeeps ==
  ASSUME ListInv, NEW c \in Thread, NEW max \in Nat \ {0}, Search!CallBulk(c, max)
  PROVE  ListInv'
<1>1. ListTypeInv /\ SearchInv(c) /\ listed \in Nat /\ token \in [Thread -> TokenState]
  BY DEF ListInv, ListTypeInv
<1> DEFINE l == [Search!Zero EXCEPT !.kind = "bulk", !.ptr = listed, !.max = max]
           q == IF l.ptr = 0 THEN "failed" ELSE "look"
<1>2. /\ Search!Begin(c) /\ Search!To(c, q, l)
      /\ producerCount' = producerCount /\ listed' = listed /\ tail' = tail /\ taken' = taken
      /\ opt' = opt /\ over' = over /\ globalOffset' = globalOffset /\ token' = token
  BY DEF Search!CallBulk, Search!queueVars, Search!Try
<1>3. /\ l \in SearchLocal /\ l.kind = "bulk" /\ l.ptr = listed /\ l.max = max
  BY <1>1 DEF SearchLocal, Search!Zero
<1> HIDE DEF l
<1>4. start'[c] = tail /\ \A p \in Search!Producer : p > listed => Over(c, p)'
  BY <1>2, CallBegins
<1>5. TokenPoints(c)'
  BY <1>1, <1>2 DEF SearchInv, TokenPoints
<1>6. ASSUME at'[c] = q, search'[c] = l PROVE SearchInv(c)'
  <2>1. BulkInv(c)'
    BY <1>3, <1>4, <1>6 DEF BulkInv
  <2>2. l.ptr = 0 => \A p \in Search!Producer : Over(c, p)'
    BY <1>1, <1>3, <1>4, ListConstants
  <2> QED
    BY <1>1, <1>2, <1>3, <1>4, <1>5, <1>6, <2>1, <2>2, CallStarts
<1>7. q \in SearchPlace \ {"settle"}
  BY DEF SearchPlace
<1> HIDE DEF q
<1> QED
  BY <1>1, <1>2, <1>3, <1>6, <1>7, CallStep

\* Steps along the list stay in the list.
LEMMA AlongTypes ==
  ASSUME listed \in Nat \ {0}, NEW p \in Int, NEW k \in Int
  PROVE  Search!Along(p, k) \in 1 .. listed
<1>1. PICK n \in Nat \ {0} : n = listed
  OBVIOUS
<1>2. (p - 1 - k) % n \in 0 .. n - 1
  <2>1. p - 1 - k \in Int
    OBVIOUS
  <2> QED
    BY <2>1, DivMod
<1>3. Search!Along(p, k) = ((p - 1 - k) % n) + 1
  BY <1>1 DEF Search!Along
<1> QED
  BY <1>1, <1>2, <1>3

\* Where a token points after a rotation.
LEMMA RotateTypes ==
  ASSUME ListTypeInv, NEW c \in Thread, listed # 0
  PROVE  /\ Search!Rotate(c) \in TokenState
         /\ Search!Rotate(c).desired \in 1 .. listed
         /\ Search!Rotate(c).current = Search!Rotate(c).desired
         /\ Search!Rotate(c).known = globalOffset
<1>1. /\ listed \in Nat \ {0} /\ producerCount \in Nat \ {0} /\ globalOffset \in Nat
      /\ token[c].desired \in Nat /\ token[c].known \in Int /\ InitialOffset[c] \in Nat
  BY SearchTypes, ListConstants DEF ListTypeInv
<1> DEFINE first == Search!Along(listed, producerCount - 1 - (InitialOffset[c] % producerCount))
           place == IF token[c].desired = 0 THEN first ELSE token[c].desired
           to == Search!Along(place, (globalOffset - token[c].known) % producerCount)
<1>2. PICK n \in Nat \ {0} : n = producerCount
  BY <1>1
<1>3. InitialOffset[c] % producerCount \in Int
      /\ (globalOffset - token[c].known) % producerCount \in Int
  <2>1. \A a \in Int : a % n \in Int
    BY DivMod
  <2> QED
    BY <1>1, <1>2, <2>1
<1>4. first \in 1 .. listed
  <2>1. producerCount - 1 - (InitialOffset[c] % producerCount) \in Int /\ listed \in Int
    BY <1>1, <1>3
  <2> QED
    BY <1>1, <2>1, AlongTypes
<1> HIDE DEF first
<1>5. place \in Int
  BY <1>1, <1>4
<1> HIDE DEF place
<1>6. to \in 1 .. listed
  BY <1>1, <1>3, <1>5, AlongTypes
<1>7. Search!Rotate(c) = [desired |-> to, current |-> to, known |-> globalOffset, consumed |-> 0]
  BY DEF Search!Rotate, to, place, first
<1> HIDE DEF to
<1> QED
  BY <1>1, <1>6, <1>7 DEF TokenState

\* try_dequeue and try_dequeue_bulk with a token.
LEMMA CallTokenKeeps ==
  ASSUME ListInv, NEW c \in Thread, NEW max \in Nat \ {0}, Search!CallToken(c, max)
  PROVE  ListInv'
<1>1. /\ ListTypeInv /\ SearchInv(c) /\ listed \in Nat /\ token \in [Thread -> TokenState]
      /\ token[c].desired \in Nat /\ token[c].current \in Nat
  BY SearchTypes DEF ListInv, ListTypeInv
<1>2. /\ Search!Begin(c)
      /\ producerCount' = producerCount /\ listed' = listed /\ tail' = tail /\ taken' = taken
      /\ opt' = opt /\ over' = over /\ globalOffset' = globalOffset
  BY DEF Search!CallToken, Search!queueVars
<1>3. start'[c] = tail /\ \A p \in Search!Producer : p > listed => Over(c, p)'
  BY <1>2, CallBegins
<1>4. /\ "look" \in SearchPlace \ {"settle"} /\ "failed" \in SearchPlace \ {"settle"}
  BY DEF SearchPlace
<1>5. ASSUME NEW ptr \in 1 .. listed, token'[c].current = ptr, token'[c].desired <= listed,
             token' \in [Thread -> TokenState], \A d \in Thread \ {c} : token'[d] = token[d],
             Search!Try(c, [Search!Zero EXCEPT !.kind = "token", !.ptr = ptr, !.max = max])
      PROVE  ListInv'
  <2> DEFINE l == [Search!Zero EXCEPT !.kind = "token", !.ptr = ptr, !.max = max]
  <2>0. ptr \in Nat \ {0} /\ ptr <= listed
    BY <1>1
  <2>1. /\ l \in SearchLocal /\ l.kind = "token" /\ l.ptr = ptr /\ l.max = max /\ l.last = 0
    BY <2>0 DEF SearchLocal, Search!Zero
  <2>2. Search!To(c, "look", l)
    BY <1>5, <2>0, <2>1 DEF Search!Try
  <2> HIDE DEF l
  <2>3. ASSUME at'[c] = "look", search'[c] = l PROVE SearchInv(c)'
    <3>1. WalkInv(c)'
      BY <1>2, <1>5, <2>1, <2>3 DEF WalkInv
    <3>2. TokenPoints(c)'
      BY <1>2, <1>5, <2>0 DEF TokenPoints
    <3> QED
      BY <1>2, <1>3, <2>0, <2>1, <2>3, <3>1, <3>2, CallStarts
  <2> QED
    BY <1>2, <1>4, <1>5, <2>1, <2>2, <2>3, CallStep
<1>6. CASE token[c].desired # 0 /\ token[c].known = globalOffset
  <2>1. /\ token' = token
        /\ Search!Try(c, [Search!Zero EXCEPT !.kind = "token", !.ptr = token[c].current,
                                             !.max = max])
    BY <1>6 DEF Search!CallToken
  <2>2. PICK ptr \in 1 .. listed : ptr = token[c].current
    BY <1>1, <1>6 DEF SearchInv
  <2>3. token[c].desired <= listed
    BY <1>1 DEF SearchInv
  <2> QED
    BY <1>1, <1>5, <2>1, <2>2, <2>3
<1>7. CASE ~(token[c].desired # 0 /\ token[c].known = globalOffset)
           /\ listed = 0 /\ token[c].desired = 0
  <2>1. token' = token /\ Search!To(c, "failed", Search!Zero)
    BY <1>7 DEF Search!CallToken
  <2>2. ASSUME at'[c] = "failed", search'[c] = Search!Zero PROVE SearchInv(c)'
    <3>1. TokenPoints(c)'
      BY <1>1, <1>2, <2>1 DEF SearchInv, TokenPoints
    <3>2. \A p \in Search!Producer : Over(c, p)'
      BY <1>3, <1>7, ListConstants
    <3> QED
      BY <1>1, <1>2, <1>3, <2>2, <3>1, <3>2, ZeroSearch, CallStarts
  <2> QED
    BY <1>1, <1>2, <1>4, <2>1, <2>2, ZeroSearch, CallStep
<1>8. CASE ~(token[c].desired # 0 /\ token[c].known = globalOffset)
           /\ ~(listed = 0 /\ token[c].desired = 0)
  <2>1. /\ token' = [token EXCEPT ![c] = Search!Rotate(c)]
        /\ Search!Try(c, [Search!Zero EXCEPT !.kind = "token", !.ptr = Search!Rotate(c).current,
                                             !.max = max])
    BY <1>8 DEF Search!CallToken
  <2>2. listed # 0
    BY <1>1, <1>8 DEF SearchInv
  <2>3. PICK t \in TokenState : t = Search!Rotate(c)
    BY <1>1, <2>2, RotateTypes
  <2>4. t.desired \in 1 .. listed /\ t.current = t.desired
    BY <1>1, <2>2, <2>3, RotateTypes
  <2>5. PICK ptr \in 1 .. listed : ptr = t.current
    BY <2>4
  <2>6. /\ token' \in [Thread -> TokenState] /\ token'[c] = t
        /\ \A d \in Thread \ {c} : token'[d] = token[d]
    BY <1>1, <2>1, <2>3
  <2>7. Search!Try(c, [Search!Zero EXCEPT !.kind = "token", !.ptr = ptr, !.max = max])
    BY <2>1, <2>3, <2>5
  <2>8. token'[c].current = ptr /\ token'[c].desired <= listed
    BY <1>1, <2>4, <2>5, <2>6
  <2> QED
    BY <1>5, <2>6, <2>7, <2>8
<1> QED
  BY <1>6, <1>7, <1>8

(***************************************************************************)
(* TryDequeue: rotation                                                    *)
(***************************************************************************)
\* Remainders may be taken before subtracting.
LEMMA ModSub ==
  ASSUME NEW n \in Nat \ {0}, NEW a \in Int, NEW b \in Int
  PROVE  ((a % n) - (b % n)) % n = (a - b) % n
<1>1. PICK i \in Int, j \in 0 .. n - 1 : a = n * i + j /\ j = a % n
  BY DivMod
<1>2. PICK k \in Int, m \in 0 .. n - 1 : b = n * k + m /\ m = b % n
  BY DivMod
<1>3. i - k \in Int /\ j - m \in Int /\ a - b = (j - m) + n * (i - k)
  BY <1>1, <1>2
<1>4. ((j - m) + n * (i - k)) % n = (j - m) % n
  BY <1>3, ModShift
<1> QED
  BY <1>1, <1>2, <1>3, <1>4

\* A remainder is its own remainder.
LEMMA ModSame ==
  ASSUME NEW n \in Nat \ {0}, NEW r \in 0 .. n - 1
  PROVE  r % n = r
<1>1. PICK q \in Int : q = 0
  OBVIOUS
<1>2. (n * q + r) % n = r
  BY DivUnique
<1>3. n * q + r = r
  BY <1>1
<1> QED
  BY <1>2, <1>3

\* Equal remainders stay equal when the same number is added.
LEMMA ModKeeps ==
  ASSUME NEW n \in Nat \ {0}, NEW a \in Int, NEW b \in Int, NEW k \in Int,
         (a - k) % n = (b - k) % n
  PROVE  a % n = b % n
<1>1. PICK i \in Int, r \in 0 .. n - 1 : a - k = n * i + r /\ r = (a - k) % n
  <2>1. a - k \in Int
    OBVIOUS
  <2> QED
    BY <2>1, DivMod
<1>2. PICK j \in Int : b - k = n * j + r
  <2>1. PICK m \in Int : m = b - k
    OBVIOUS
  <2>2. m \div n \in Int /\ m = n * (m \div n) + (m % n)
    BY DivMod
  <2>3. m % n = r
    BY <1>1, <2>1
  <2> QED
    BY <2>1, <2>2, <2>3
<1>3. i - j \in Int /\ a = b + n * (i - j)
  BY <1>1, <1>2
<1>4. (b + n * (i - j)) % n = b % n
  BY <1>3, ModShift
<1> QED
  BY <1>3, <1>4

\* Where rotation takes a token.
LEMMA RotateSpreads ==
  ASSUME ListTypeInv, SpreadInv, NEW c \in Thread
  PROVE  Search!Rotate(c).desired - 1 = (InitialOffset[c] - globalOffset - 1) % MaxProducers
<1>1. PICK n \in Nat \ {0} : n = MaxProducers /\ n = listed /\ n = producerCount
  BY ListConstants DEF SpreadInv
<1>2. PICK f \in Nat : f = InitialOffset[c]
  BY ListConstants
<1>3. PICK g \in Nat, k \in Int, w \in Nat :
        g = globalOffset /\ k = token[c].known /\ w = token[c].desired
  BY SearchTypes DEF ListTypeInv
<1>4. (w = 0 => k = -1) /\ (w # 0 => w - 1 = (f - k - 1) % n)
  BY <1>1, <1>2, <1>3 DEF SpreadInv
<1> DEFINE along(p, i) == ((p - 1 - i) % n) + 1
           place == IF w = 0 THEN along(n, n - 1 - (f % n)) ELSE w
<1>5. Search!Rotate(c).desired = along(place, (g - k) % n)
  BY <1>1, <1>2, <1>3 DEF Search!Rotate, Search!Along
<1>6. place - 1 = (f - k - 1) % n
  <2>1. CASE w = 0
    <3>1. PICK r \in 0 .. n - 1 : r = f % n
      <4>1. f \in Int
        OBVIOUS
      <4> QED
        BY <4>1, DivMod
    <3>2. r % n = r
      BY ModSame
    <3>3. n - 1 - (n - 1 - r) = r
      OBVIOUS
    <3>4. along(n, n - 1 - r) = r + 1
      BY <3>2, <3>3
    <3>5. f - k - 1 = f
      BY <1>4, <2>1
    <3> QED
      BY <2>1, <3>1, <3>4, <3>5
  <2>2. CASE w # 0
    BY <1>4, <2>2
  <2> QED
    BY <2>1, <2>2
<1>7. place \in Int
  <2>1. (f - k - 1) % n \in Int
    <3>1. f - k - 1 \in Int
      OBVIOUS
    <3> QED
      BY <3>1, DivMod
  <2>2. CASE w = 0
    <3>1. \A x \in Int : x % n \in Int
      BY DivMod
    <3>2. n - 1 - (f % n) \in Int
      BY <3>1
    <3>3. (n - 1 - (n - 1 - (f % n))) % n \in Int
      BY <3>1, <3>2
    <3> QED
      BY <2>2, <3>3
  <2> QED
    BY <2>2
<1> HIDE DEF place
<1>8. along(place, (g - k) % n) - 1 = (((f - k - 1) % n) - ((g - k) % n)) % n
  <2>1. (place - 1 - ((g - k) % n)) % n \in Int
    <3>1. \A x \in Int : x % n \in Int
      BY DivMod
    <3>2. (g - k) % n \in Int
      BY <3>1
    <3> QED
      BY <1>7, <3>1, <3>2
  <2>2. PICK x \in Int : x = (place - 1 - ((g - k) % n)) % n
    BY <2>1
  <2>3. along(place, (g - k) % n) - 1 = (place - 1 - ((g - k) % n)) % n
    <3>1. along(place, (g - k) % n) = x + 1
      BY <2>2, Zenon
    <3> HIDE DEF along
    <3> QED
      BY <2>2, <3>1
  <2> QED
    BY <1>6, <2>3, Zenon
<1>9. (((f - k - 1) % n) - ((g - k) % n)) % n = (f - g - 1) % n
  <2>1. PICK a \in Int, b \in Int : a = f - k - 1 /\ b = g - k
    OBVIOUS
  <2>2. ((a % n) - (b % n)) % n = (a - b) % n
    BY ModSub
  <2>3. a - b = f - g - 1
    BY <2>1
  <2> QED
    BY <2>1, <2>2, <2>3
<1> HIDE DEF along
<1> QED
  BY <1>1, <1>2, <1>3, <1>5, <1>8, <1>9

\* A call with a token keeps the tokens spread.
LEMMA CallTokenSpreads ==
  ASSUME ListInv, SpreadInv, NEW c \in Thread, NEW max, Search!CallToken(c, max)
  PROVE  SpreadInv'
<1>1. ListTypeInv /\ token \in [Thread -> TokenState]
  BY DEF ListInv, ListTypeInv
<1>2. listed' = listed /\ producerCount' = producerCount
  BY DEF Search!CallToken, Search!queueVars
<1>3. CASE token' = token
  BY <1>2, <1>3 DEF SpreadInv
<1>4. CASE token' = [token EXCEPT ![c] = Search!Rotate(c)]
  <2>1. listed # 0
    BY ListConstants DEF SpreadInv
  <2>2. PICK t \in TokenState : t = Search!Rotate(c)
    BY <1>1, <2>1, RotateTypes
  <2>3. /\ t.desired # 0 /\ t.known = globalOffset
        /\ t.desired - 1 = (InitialOffset[c] - globalOffset - 1) % MaxProducers
    <3>1. t.desired \in 1 .. listed /\ t.known = globalOffset
      BY <1>1, <2>1, <2>2, RotateTypes
    <3> QED
      BY <1>1, <2>2, <3>1, RotateSpreads
  <2>4. token'[c] = t /\ \A d \in Thread \ {c} : token'[d] = token[d]
    BY <1>1, <1>4, <2>2
  <2> QED
    BY <1>2, <2>3, <2>4 DEF SpreadInv
<1> QED
  BY <1>3, <1>4 DEF Search!CallToken

\* Tokens that follow the same offset are designated different producers.
LEMMA SpreadTokens ==
  ASSUME ListInv, SpreadInv
  PROVE  Token!TokensSpread
<1> SUFFICES ASSUME NEW c \in Thread, NEW d \in Thread,
                    token[c].desired # 0, token[d].desired # 0, token[c].known = token[d].known,
                    InitialOffset[c] % listed # InitialOffset[d] % listed,
                    token[c].desired = token[d].desired
             PROVE  FALSE
  BY DEF Token!TokensSpread
<1>1. PICK n \in Nat \ {0} : n = MaxProducers /\ n = listed
  BY ListConstants DEF SpreadInv
<1>2. PICK i \in Int, j \in Int, k \in Int :
        i = InitialOffset[c] /\ j = InitialOffset[d] /\ k = token[c].known + 1
  BY SearchTypes, ListConstants DEF ListInv
<1>3. token[c].known \in Int
  BY SearchTypes DEF ListInv
<1>4. (i - k) % n = (j - k) % n
  <2>1. /\ token[c].desired - 1 = (i - token[c].known - 1) % n
        /\ token[d].desired - 1 = (j - token[c].known - 1) % n
    BY <1>1, <1>2 DEF SpreadInv
  <2>2. i - token[c].known - 1 = i - k /\ j - token[c].known - 1 = j - k
    BY <1>2, <1>3
  <2> QED
    BY <2>1, <2>2
<1>5. i % n = j % n
  BY <1>4, ModKeeps, ZenonT(40)
<1> QED
  BY <1>1, <1>2, <1>5

(***************************************************************************)
(* TryDequeue: the instances                                               *)
(***************************************************************************)
\* The operations called, and the bounds, do not matter for a step.
LEMMA BulkIsSearch ==
  ASSUME NEW c, NEW p, NEW max
  PROVE  /\ Bulk!CountProducer <=> Search!CountProducer
         /\ Bulk!PushProducer <=> Search!PushProducer
         /\ Bulk!Enqueue(p) <=> Search!Enqueue(p)
         /\ Bulk!Size(c) <=> Search!Size(c)
         /\ Bulk!Look(c) <=> Search!Look(c)
         /\ Bulk!Claim(c) <=> Search!Claim(c)
         /\ Bulk!Settle(c) <=> Search!Settle(c)
         /\ Bulk!Return(c) <=> Search!Return(c)
         /\ Bulk!CallBulk(c, max) <=> Search!CallBulk(c, max)
<1>1. Bulk!CountProducer <=> Search!CountProducer
    BY DEF Bulk!CountProducer, Search!CountProducer
<1>2. Bulk!PushProducer <=> Search!PushProducer
    BY DEF Bulk!PushProducer, Search!PushProducer
<1>3. Bulk!Enqueue(p) <=> Search!Enqueue(p)
    BY DEF Bulk!Enqueue, Search!Enqueue
<1>4. Bulk!Size(c) <=> Search!Size(c)
    BY DEF Bulk!Size, Bulk!To, Bulk!queueVars, Search!Size, Search!To, Search!queueVars
<1>5. Bulk!Look(c) <=> Search!Look(c)
    BY DEF Bulk!Look, Bulk!After, Bulk!AfterAny, Bulk!AfterBulk, Bulk!AfterToken,
     Bulk!QuotaReached,
     Bulk!Search, Bulk!Try, Bulk!To, Bulk!Zero, Bulk!Missed, Bulk!OpenByOthers,
     Bulk!Least, Bulk!queueVars, Search!Look, Search!After, Search!AfterAny,
     Search!AfterBulk, Search!AfterToken, Search!QuotaReached, Search!Search, Search!Try, Search!To,
     Search!Zero, Search!Missed, Search!OpenByOthers, Search!Least, Search!queueVars
<1>6. Bulk!Claim(c) <=> Search!Claim(c)
    BY DEF Bulk!Claim, Bulk!To, Search!Claim, Search!To
<1>7. Bulk!Settle(c) <=> Search!Settle(c)
    BY DEF Bulk!Settle, Bulk!After, Bulk!AfterAny, Bulk!AfterBulk, Bulk!AfterToken,
     Bulk!QuotaReached,
     Bulk!Search, Bulk!Try, Bulk!To, Bulk!Zero, Bulk!Missed, Bulk!OpenByOthers,
     Bulk!Least, Search!Settle, Search!After, Search!AfterAny, Search!AfterBulk,
     Search!AfterToken, Search!QuotaReached, Search!Search, Search!Try, Search!To, Search!Zero,
     Search!Missed, Search!OpenByOthers, Search!Least
<1>8. Bulk!Return(c) <=> Search!Return(c)
    BY DEF Bulk!Return, Bulk!To, Bulk!Zero, Bulk!queueVars, Bulk!Producer,
     Search!Return, Search!To, Search!Zero, Search!queueVars, Search!Producer
<1>9. Bulk!CallBulk(c, max) <=> Search!CallBulk(c, max)
    BY DEF Bulk!CallBulk, Bulk!Begin, Bulk!Try, Bulk!To, Bulk!Zero, Bulk!queueVars,
     Bulk!Producer, Search!CallBulk, Search!Begin, Search!Try, Search!To, Search!Zero,
     Search!queueVars, Search!Producer
<1> QED
  BY <1>1, <1>2, <1>3, <1>4, <1>5, <1>6, <1>7, <1>8, <1>9

\* The same of a walk with a token.
LEMMA WalkIsSearch ==
  ASSUME NEW c, NEW p, NEW max
  PROVE  /\ Walk!CountProducer <=> Search!CountProducer
         /\ Walk!PushProducer <=> Search!PushProducer
         /\ Walk!Enqueue(p) <=> Search!Enqueue(p)
         /\ Walk!Size(c) <=> Search!Size(c)
         /\ Walk!Look(c) <=> Search!Look(c)
         /\ Walk!Claim(c) <=> Search!Claim(c)
         /\ Walk!Settle(c) <=> Search!Settle(c)
         /\ Walk!Return(c) <=> Search!Return(c)
         /\ Walk!CallToken(c, max) <=> Search!CallToken(c, max)
<1>1. Walk!CountProducer <=> Search!CountProducer
    BY DEF Walk!CountProducer, Search!CountProducer
<1>2. Walk!PushProducer <=> Search!PushProducer
    BY DEF Walk!PushProducer, Search!PushProducer
<1>3. Walk!Enqueue(p) <=> Search!Enqueue(p)
    BY DEF Walk!Enqueue, Search!Enqueue
<1>4. Walk!Size(c) <=> Search!Size(c)
    BY DEF Walk!Size, Walk!To, Walk!queueVars, Search!Size, Search!To, Search!queueVars
<1>5. Walk!Look(c) <=> Search!Look(c)
    BY DEF Walk!Look, Walk!After, Walk!AfterAny, Walk!AfterBulk, Walk!AfterToken,
     Walk!QuotaReached,
     Walk!Search, Walk!Try, Walk!To, Walk!Zero, Walk!Missed, Walk!OpenByOthers,
     Walk!Least, Walk!queueVars, Search!Look, Search!After, Search!AfterAny,
     Search!AfterBulk, Search!AfterToken, Search!QuotaReached, Search!Search, Search!Try, Search!To,
     Search!Zero, Search!Missed, Search!OpenByOthers, Search!Least, Search!queueVars
<1>6. Walk!Claim(c) <=> Search!Claim(c)
    BY DEF Walk!Claim, Walk!To, Search!Claim, Search!To
<1>7. Walk!Settle(c) <=> Search!Settle(c)
    BY DEF Walk!Settle, Walk!After, Walk!AfterAny, Walk!AfterBulk, Walk!AfterToken,
     Walk!QuotaReached,
     Walk!Search, Walk!Try, Walk!To, Walk!Zero, Walk!Missed, Walk!OpenByOthers,
     Walk!Least, Search!Settle, Search!After, Search!AfterAny, Search!AfterBulk,
     Search!AfterToken, Search!QuotaReached, Search!Search, Search!Try, Search!To, Search!Zero,
     Search!Missed, Search!OpenByOthers, Search!Least
<1>8. Walk!Return(c) <=> Search!Return(c)
    BY DEF Walk!Return, Walk!To, Walk!Zero, Walk!queueVars, Walk!Producer,
     Search!Return, Search!To, Search!Zero, Search!queueVars, Search!Producer
<1>9. Walk!CallToken(c, max) <=> Search!CallToken(c, max)
    BY DEF Walk!CallToken, Walk!Begin, Walk!Try, Walk!To, Walk!Zero, Walk!queueVars,
     Walk!Producer, Walk!Rotate, Walk!Along, Search!CallToken, Search!Begin, Search!Try,
     Search!To, Search!Zero, Search!queueVars, Search!Producer, Search!Rotate,
     Search!Along
<1> QED
  BY <1>1, <1>2, <1>3, <1>4, <1>5, <1>6, <1>7, <1>8, <1>9

\* The same of a walk where all producers are listed from the beginning.
LEMMA TokenIsSearch ==
  ASSUME NEW c, NEW p, NEW max
  PROVE  /\ Token!CountProducer <=> Search!CountProducer
         /\ Token!PushProducer <=> Search!PushProducer
         /\ Token!Enqueue(p) <=> Search!Enqueue(p)
         /\ Token!Size(c) <=> Search!Size(c)
         /\ Token!Look(c) <=> Search!Look(c)
         /\ Token!Claim(c) <=> Search!Claim(c)
         /\ Token!Settle(c) <=> Search!Settle(c)
         /\ Token!Return(c) <=> Search!Return(c)
         /\ Token!CallToken(c, max) <=> Search!CallToken(c, max)
<1>1. Token!CountProducer <=> Search!CountProducer
    BY DEF Token!CountProducer, Search!CountProducer
<1>2. Token!PushProducer <=> Search!PushProducer
    BY DEF Token!PushProducer, Search!PushProducer
<1>3. Token!Enqueue(p) <=> Search!Enqueue(p)
    BY DEF Token!Enqueue, Search!Enqueue
<1>4. Token!Size(c) <=> Search!Size(c)
    BY DEF Token!Size, Token!To, Token!queueVars, Search!Size, Search!To,
     Search!queueVars
<1>5. Token!Look(c) <=> Search!Look(c)
    BY DEF Token!Look, Token!After, Token!AfterAny, Token!AfterBulk, Token!AfterToken,
     Token!QuotaReached,
     Token!Search, Token!Try, Token!To, Token!Zero, Token!Missed, Token!OpenByOthers,
     Token!Least, Token!queueVars, Search!Look, Search!After, Search!AfterAny,
     Search!AfterBulk, Search!AfterToken, Search!QuotaReached, Search!Search, Search!Try, Search!To,
     Search!Zero, Search!Missed, Search!OpenByOthers, Search!Least, Search!queueVars
<1>6. Token!Claim(c) <=> Search!Claim(c)
    BY DEF Token!Claim, Token!To, Search!Claim, Search!To
<1>7. Token!Settle(c) <=> Search!Settle(c)
    BY DEF Token!Settle, Token!After, Token!AfterAny, Token!AfterBulk, Token!AfterToken,
     Token!QuotaReached,
     Token!Search, Token!Try, Token!To, Token!Zero, Token!Missed, Token!OpenByOthers,
     Token!Least, Search!Settle, Search!After, Search!AfterAny, Search!AfterBulk,
     Search!AfterToken, Search!QuotaReached, Search!Search, Search!Try, Search!To, Search!Zero,
     Search!Missed, Search!OpenByOthers, Search!Least
<1>8. Token!Return(c) <=> Search!Return(c)
    BY DEF Token!Return, Token!To, Token!Zero, Token!queueVars, Token!Producer,
     Search!Return, Search!To, Search!Zero, Search!queueVars, Search!Producer
<1>9. Token!CallToken(c, max) <=> Search!CallToken(c, max)
    BY DEF Token!CallToken, Token!Begin, Token!Try, Token!To, Token!Zero,
     Token!queueVars, Token!Producer, Token!Rotate, Token!Along, Search!CallToken,
     Search!Begin, Search!Try, Search!To, Search!Zero, Search!queueVars,
     Search!Producer, Search!Rotate, Search!Along
<1> QED
  BY <1>1, <1>2, <1>3, <1>4, <1>5, <1>6, <1>7, <1>8, <1>9

\* What producers do.
ListIsFed ==
  Search!CountProducer \/ Search!PushProducer \/ \E p \in Search!Producer : Search!Enqueue(p)

\* Producers come and enqueue.
LEMMA FedKeeps == ASSUME ListInv, ListIsFed PROVE ListInv' /\ token' = token
<1>1. ListInv'
  BY CountKeeps, PushKeeps, EnqueueKeeps DEF ListIsFed
<1>2. token' = token
  BY DEF ListIsFed, Search!CountProducer, Search!PushProducer, Search!Enqueue
<1> QED
  BY <1>1, <1>2

\* What consumers do.
SearchGoes(c) ==
  \/ Search!Size(c) \/ Search!Look(c) \/ Search!Claim(c) \/ Search!Settle(c) \/ Search!Return(c)

\* A step of a call that has begun.
LEMMA GoingKeeps ==
  ASSUME ListInv, NEW c \in Thread, SearchGoes(c)
  PROVE  ListInv' /\ TokensKept
<1>1. CASE Search!Size(c)
  <2>1. token' = token
    BY <1>1 DEF Search!Size
  <2> QED
    BY <1>1, <2>1, SizeKeeps DEF TokensKept
<1>2. CASE Search!Look(c)
  BY <1>2, LookKeeps
<1>3. CASE Search!Claim(c)
  <2>1. token' = token
    BY <1>3 DEF Search!Claim
  <2> QED
    BY <1>3, <2>1, ClaimKeeps DEF TokensKept
<1>4. CASE Search!Settle(c)
  BY <1>4, SettleKeeps
<1>5. CASE Search!Return(c)
  <2>1. token' = token
    BY <1>5 DEF Search!Return
  <2> QED
    BY <1>5, <2>1, ReturnKeeps DEF TokensKept
<1> QED
  BY <1>1, <1>2, <1>3, <1>4, <1>5 DEF SearchGoes

\* Every step of try_dequeue.
LEMMA SearchNext == ASSUME ListInv, Search!Next PROVE ListInv'
<1>1. CASE ListIsFed
  BY <1>1, FedKeeps
<1>2. ASSUME NEW c \in Thread, Search!CallAny(c) \/ SearchGoes(c) PROVE ListInv'
  BY <1>2, CallAnyKeeps, GoingKeeps
<1> QED
  BY <1>1, <1>2 DEF Search!Next, Search!Call, Search!Step, ListIsFed, SearchGoes

\* Every step of try_dequeue_bulk.
LEMMA BulkNext == ASSUME ListInv, Bulk!Next PROVE ListInv'
<1>1. Bulk!Producer = Search!Producer /\ 1 .. MaxBulk \subseteq Nat \ {0}
  BY ListConstants DEF Bulk!Producer, Search!Producer
<1>2. CASE ListIsFed
  BY <1>2, FedKeeps
<1>3. ASSUME NEW c \in Thread, SearchGoes(c) PROVE ListInv'
  BY <1>3, GoingKeeps
<1>4. ASSUME NEW c \in Thread, NEW max \in 1 .. MaxBulk, Bulk!CallBulk(c, max) PROVE ListInv'
  BY <1>1, <1>4, BulkIsSearch, CallBulkKeeps
<1>5. ASSUME NEW c \in Thread, Bulk!Step(c) PROVE ListInv'
  BY <1>3, <1>5, BulkIsSearch DEF Bulk!Step, SearchGoes
<1>6. ASSUME Bulk!CountProducer \/ Bulk!PushProducer \/ \E p \in Bulk!Producer : Bulk!Enqueue(p)
      PROVE  ListInv'
  BY <1>1, <1>2, <1>6, BulkIsSearch DEF ListIsFed
<1> QED
  BY <1>4, <1>5, <1>6 DEF Bulk!Next, Bulk!Call

\* Every step of the operations with a token.
LEMMA WalkNextStep == ASSUME ListInv, Walk!Next PROVE ListInv'
<1>1. Walk!Producer = Search!Producer
  BY DEF Walk!Producer, Search!Producer
<1>2. CASE ListIsFed
  BY <1>2, FedKeeps
<1>3. ASSUME NEW c \in Thread, SearchGoes(c) PROVE ListInv'
  BY <1>3, GoingKeeps
<1>4. ASSUME NEW c \in Thread, NEW max \in Nat \ {0}, Walk!CallToken(c, max) PROVE ListInv'
  BY <1>4, WalkIsSearch, CallTokenKeeps
<1>5. ASSUME NEW c \in Thread, Walk!Step(c) PROVE ListInv'
  BY <1>3, <1>5, WalkIsSearch DEF Walk!Step, SearchGoes
<1>6. ASSUME Walk!CountProducer \/ Walk!PushProducer \/ \E p \in Walk!Producer : Walk!Enqueue(p)
      PROVE  ListInv'
  BY <1>1, <1>2, <1>6, WalkIsSearch DEF ListIsFed
<1>7. \A max \in 1 .. 1 : max \in Nat \ {0}
  OBVIOUS
<1> QED
  BY <1>4, <1>5, <1>6, <1>7 DEF Walk!Next, Walk!Call

\* Every step of the operations with a token, with all producers listed.
LEMMA TokenNextStep == ASSUME ListInv, SpreadInv, Token!Next PROVE ListInv' /\ SpreadInv'
<1>1. Token!Producer = Search!Producer
  BY DEF Token!Producer, Search!Producer
<1>2. ASSUME ListIsFed PROVE ListInv' /\ SpreadInv'
  <2>1. listed = MaxProducers /\ producerCount = MaxProducers
    BY DEF SpreadInv
  <2>2. ~Search!CountProducer /\ ~Search!PushProducer
    BY <2>1, ListConstants DEF Search!CountProducer, Search!PushProducer
  <2>3. listed' = listed /\ producerCount' = producerCount
    BY <1>2, <2>2 DEF ListIsFed, Search!Enqueue
  <2> QED
    BY <1>2, <2>3, FedKeeps DEF SpreadInv
<1>3. ASSUME NEW c \in Thread, SearchGoes(c) PROVE ListInv' /\ SpreadInv'
  <2>1. listed' = listed /\ producerCount' = producerCount
    BY <1>3 DEF SearchGoes, Search!Size, Search!Look, Search!Claim, Search!Settle, Search!Return,
       Search!queueVars
  <2>2. ListInv' /\ TokensKept
    BY <1>3, GoingKeeps
  <2> QED
    BY <2>1, <2>2 DEF SpreadInv, TokensKept
<1>4. ASSUME NEW c \in Thread, NEW max \in Nat \ {0}, Token!CallToken(c, max)
      PROVE  ListInv' /\ SpreadInv'
  BY <1>4, TokenIsSearch, CallTokenKeeps, CallTokenSpreads
<1>5. ASSUME NEW c \in Thread, Token!Step(c) PROVE ListInv' /\ SpreadInv'
  BY <1>3, <1>5, TokenIsSearch DEF Token!Step, SearchGoes
<1>6. ASSUME Token!CountProducer \/ Token!PushProducer \/ \E p \in Token!Producer : Token!Enqueue(p)
      PROVE  ListInv' /\ SpreadInv'
  BY <1>1, <1>2, <1>6, TokenIsSearch DEF ListIsFed
<1>7. \A max \in 1 .. 1 : max \in Nat \ {0}
  OBVIOUS
<1> QED
  BY <1>4, <1>5, <1>6, <1>7 DEF Token!Next, Token!Call

\* The initial values of the list.
LEMMA ListFirst ==
  ASSUME NEW n \in 1 .. MaxProducers, producerCount = n, listed = n,
         tail = [p \in Search!Producer |-> 0], taken = [p \in Search!Producer |-> 0],
         opt = [p \in Search!Producer |-> 0], over = [p \in Search!Producer |-> 0],
         globalOffset = 0,
         token = [c \in Thread |-> [desired |-> 0, current |-> 0, known |-> -1, consumed |-> 0]],
         at = [c \in Thread |-> "idle"], search = [c \in Thread |-> Search!Zero],
         start = [c \in Thread |-> tail], disturbed = [c \in Thread |-> {}]
  PROVE  ListInv
<1>1. n \in Nat /\ n <= MaxProducers /\ MaxTail \in Nat
  BY ListConstants
<1>2. ListTypeInv
  <2>1. token \in [Thread -> TokenState]
    BY DEF TokenState
  <2>2. at \in [Thread -> SearchPlace] /\ search \in [Thread -> SearchLocal]
    BY ZeroSearch DEF SearchPlace
  <2>3. /\ tail \in Counters /\ taken \in Counters /\ opt \in Counters /\ over \in Counters
        /\ start \in [Thread -> Counters] /\ disturbed \in [Thread -> SUBSET Search!Producer]
    BY DEF Counters
  <2> QED
    BY <1>1, <2>1, <2>2, <2>3 DEF ListTypeInv
<1>3. ASSUME NEW p \in Search!Producer PROVE StreamInv(p)
  <2>1. Cardinality({}) = 0 /\ 0 .. 0 - 1 = {} /\ Under({}, 0) = {}
    BY FS_EmptySet DEF Under
  <2>2. \A c \in Thread : ~Settles(c, p)
    BY DEF Settles
  <2>3. OpenAt(p) = [c \in Thread |-> {}]
    BY <2>2 DEF OpenAt
  <2>4. Ledger(0, {}, {}, OpenAt(p))
    BY <2>1, <2>3 DEF Ledger
  <2>5. StreamAt(p, {}, {}, 0)
    <3>1. opt[p] = 0 /\ over[p] = 0 /\ taken[p] = 0 /\ tail[p] = 0
      OBVIOUS
    <3>2. 0 - Cardinality(Under({}, 0)) <= tail[p]
      <4>1. Cardinality(Under({}, 0)) = 0
        BY <2>1, Zenon
      <4> QED
        BY <3>1, <4>1
    <3> QED
      BY <2>1, <2>2, <2>4, <3>1, <3>2, Zenon DEF StreamAt
  <2>6. {} \in SUBSET (0 .. opt[p] - 1) /\ 0 \in 0 .. opt[p]
    OBVIOUS
  <2> QED
    BY <2>5, <2>6 DEF StreamInv
<1>4. ASSUME NEW c \in Thread PROVE SearchInv(c)
  <2>1. at[c] = "idle" /\ search[c].ptr = 0 /\ token[c].desired = 0 /\ token[c].current = 0
    BY ZeroSearch
  <2>2. \A p \in Search!Producer : start[c][p] <= tail[p]
    OBVIOUS
  <2> QED
    BY <1>1, <2>1, <2>2 DEF SearchInv, ClaimAt
<1> QED
  BY <1>2, <1>3, <1>4 DEF ListInv

\* The invariant of all parts: the list changes in those that search it.
ListPartInv == ListInv /\ (part = "token" => SpreadInv)

\* It holds at first.
LEMMA ListStart == Init => ListPartInv
<1> SUFFICES ASSUME Init PROVE ListPartInv
  OBVIOUS
<1>1. CASE part = "token"
  <2>1. Token!Init
    BY <1>1 DEF Init
  <2>2. Token!Producer = Search!Producer /\ Token!Zero = Search!Zero
    BY DEF Token!Producer, Search!Producer, Token!Zero, Search!Zero
  <2>3. MaxProducers \in 1 .. MaxProducers
    BY ListConstants
  <2>4. ListInv
    BY <2>1, <2>2, <2>3, ListFirst DEF Token!Init
  <2>5. SpreadInv
    BY <2>1 DEF Token!Init, SpreadInv
  <2> QED
    BY <2>4, <2>5 DEF ListPartInv
<1>2. CASE part # "token"
  <2>1. Search!Init
    BY <1>2 DEF Init
  <2>2. 1 \in 1 .. MaxProducers
    BY ListConstants
  <2>3. ListInv
    BY <2>1, <2>2, ListFirst DEF Search!Init
  <2> QED
    BY <1>2, <2>3 DEF ListPartInv
<1> QED
  BY <1>1, <1>2

\* Every step keeps it.
LEMMA ListPartStep == ListPartInv /\ [Next]_vars => ListPartInv'
<1> SUFFICES ASSUME ListPartInv, [Next]_vars PROVE ListPartInv'
  OBVIOUS
<1>1. part' = part
  BY DEF Next, OfPool, OfHash, OfSmall, OfSearch, OfBulk, OfWalk, OfToken, OfBase, Rest, vars
<1>2. CASE UNCHANGED list
  <2>1. ListInv'
    <3>1. ListTypeInv /\ ListTypeInv' /\ ListGrows
      BY <1>2, CounterTypes DEF list, ListPartInv, ListInv, ListTypeInv, ListGrows
    <3> QED
      BY <1>2, <3>1, NoConsumerStep DEF list, ListPartInv
  <2>2. SpreadInv => SpreadInv'
    BY <1>2 DEF list, SpreadInv
  <2> QED
    BY <1>1, <2>1, <2>2 DEF ListPartInv
<1>3. CASE part = "search" /\ Search!Next
  BY <1>1, <1>3, SearchNext DEF ListPartInv
<1>4. CASE part = "bulk" /\ Bulk!Next
  BY <1>1, <1>4, BulkNext DEF ListPartInv
<1>5. CASE part = "walk" /\ Walk!Next
  BY <1>1, <1>5, WalkNextStep DEF ListPartInv
<1>6. CASE part = "token" /\ Token!Next
  BY <1>1, <1>6, TokenNextStep DEF ListPartInv
<1> QED
  BY <1>2, <1>3, <1>4, <1>5, <1>6 DEF Next, OfPool, OfHash, OfSmall, OfSearch, OfBulk, OfWalk,
     OfToken, OfBase, Rest, vars

\* No stream is read past its tail, and tokens point into the list.
LEMMA ListTypes == ASSUME ListInv PROVE Search!TypeOK
<1>1. ListTypeInv
  BY DEF ListInv
<1>2. ASSUME NEW p \in Search!Producer PROVE 0 <= taken[p] /\ taken[p] <= tail[p]
  <2>1. PICK V \in SUBSET (0 .. opt[p] - 1), W \in SUBSET (0 .. opt[p] - 1),
             top \in 0 .. opt[p] : StreamAt(p, V, W, top)
    BY DEF ListInv, StreamInv
  <2>2. tail[p] \in Nat /\ taken[p] \in Nat /\ opt[p] \in Nat
    BY <1>1, CounterTypes
  <2>3. W \in SUBSET (0 .. top - 1) /\ V \cap W = {} /\ taken[p] = Cardinality(W)
        /\ top - Cardinality(Under(V, top)) <= tail[p]
    BY <2>1 DEF StreamAt, Ledger
  <2>4. Cardinality(W) + Cardinality(Under(V, top)) <= top
    <3>1. PICK n \in Nat : n = opt[p]
      BY <2>2
    <3>2. V \in SUBSET (0 .. n - 1) /\ top \in 0 .. n
      BY <3>1
    <3> QED
      BY <2>3, <3>2, LedgerHead
  <2>5. Cardinality(Under(V, top)) \in Nat
    BY <2>2, UnderGrows
  <2> QED
    BY <2>2, <2>3, <2>4, <2>5
<1>3. ASSUME NEW c \in Thread
      PROVE  /\ token[c].desired \in 0 .. listed /\ token[c].current \in 0 .. listed
             /\ search[c].ptr \in 0 .. listed /\ disturbed[c] \subseteq Search!Producer
  <2>1. token[c].desired <= listed /\ token[c].current <= listed /\ search[c].ptr <= listed
    BY DEF ListInv, SearchInv
  <2>2. /\ token[c].desired \in Nat /\ token[c].current \in Nat /\ search[c].ptr \in Nat
        /\ listed \in Nat /\ disturbed[c] \in SUBSET Search!Producer
    BY <1>1, SearchTypes DEF ListTypeInv
  <2> QED
    BY <2>1, <2>2
<1> QED
  BY <1>1, <1>2, <1>3 DEF Search!TypeOK, ListTypeInv

\* A call that comes back with less than it wanted has overlooked nothing, for any
\* number of consumers and producers and streams of any length: what was there when
\* it began is taken from every stream it has left, or it met there an open claim of
\* another consumer or one given back since it looked; and it has left every stream,
\* those of the producers that came later too.  Tokens that follow the same global
\* offset point at different producers.
THEOREM NothingIsOverlooked == Spec => []NothingOverlooked
<1>1. ListPartInv => NothingOverlooked
  <2> SUFFICES ASSUME ListPartInv PROVE NothingOverlooked
    OBVIOUS
  <2>1. Search!TypeOK
    BY ListTypes DEF ListPartInv
  <2>2. Search!NothingOverlooked
    BY DEF Search!NothingOverlooked, ListPartInv, ListInv, SearchInv, Over
  <2>3. part = "token" => Token!TokensSpread
    BY SpreadTokens DEF ListPartInv
  <2> QED
    BY <2>1, <2>2, <2>3 DEF NothingOverlooked
<1> QED
  BY <1>1, ListStart, ListPartStep, PTL DEF Spec
===============================================================================
