--------------------------- MODULE ExplicitProducer ---------------------------
(***************************************************************************)
(* ExplicitProducer of include/data_proxy/concurrentqueue.h: the sub-queue *)
(* behind a ProducerToken.  Its blocks form a ring that it keeps for ever: *)
(* a block whose flags say that it is empty is used again.  A circular     *)
(* index of (base, block) pairs, plain memory behind an atomic front,      *)
(* tells the consumers where an element is.                                *)
(*                                                                         *)
(* As in ImplicitProducer, enqueue is enqueue_bulk with count = 1: it      *)
(* resets the block earlier and publishes the front before the element is  *)
(* built, neither of which a consumer can see.  When the constructor may   *)
(* throw, enqueue writes the index entry after it and enqueue_bulk before  *)
(* it; the latter is modelled, and it leaves more to be undone.  MayFail   *)
(* and MayThrow tell whether memory may run out and constructors throw.    *)
(***************************************************************************)
EXTENDS ProducerBase, Sequences, SequencesExt

CONSTANTS
  Block, BLOCK_SIZE,
  INDEX_SIZE,         \* EXPLICIT_INITIAL_INDEX_SIZE
  MAX_SUBQUEUE_SIZE,
  MayFail, MayThrow,
  Null

ASSUME ExplicitAssumption ==
  /\ BLOCK_SIZE \in Nat \ {0, 1} /\ INDEX_SIZE \in Nat \ {0, 1}
  /\ MayFail \in BOOLEAN /\ MayThrow \in BOOLEAN

VARIABLES
  free, slot,
  empty,       \* emptyFlags of each block
  nxt,         \* Block::next
  header,      \* the BlockIndexHeader objects; blockIndex is the last
  slotsUsed, indexSize, indexFront,   \* the pr_blockIndex... fields
  tailBlock,
  enq, rd

explVars == <<free, slot, empty, nxt, header, slotsUsed, indexSize, indexFront,
              tailBlock, enq, rd>>
vars == <<baseVars, explVars>>

Place == 0 .. BLOCK_SIZE - 1
Idle == [pc |-> "idle"]
BaseOf(i) == (i \div BLOCK_SIZE) * BLOCK_SIZE
IsEmpty(b) == \A p \in Place : empty[b][p]
Cur == Last(header)

\* new_block_index(expose): twice the size, the used entries first.
NewIndex(expose) ==
  [size |-> 2 * indexSize, front |-> expose - 1,
   entries |-> [p \in 0 .. 2 * indexSize - 1 |->
                  IF p < slotsUsed
                  THEN Cur.entries[(indexFront - slotsUsed + p) % indexSize]
                  ELSE [base |-> 0, block |-> Null]]]

Init ==
  /\ BaseInit
  /\ free = Block
  /\ slot = [x \in Block \X Place |-> Null]
  /\ empty = [b \in Block |-> [p \in Place |-> FALSE]]
  /\ nxt = [b \in Block |-> Null]
  /\ slotsUsed = 0 /\ indexFront = 0
  /\ tailBlock = Null
  /\ enq = Idle
  /\ rd = [c \in Consumer |-> Idle]
  \* The constructor's new_block_index(0), which may fail.
  /\ indexSize \in IF MayFail THEN {INDEX_SIZE \div 2, INDEX_SIZE} ELSE {INDEX_SIZE}
  /\ header = IF indexSize < INDEX_SIZE THEN <<>>
              ELSE <<[size |-> INDEX_SIZE, front |-> -1,
                      entries |-> [p \in 0 .. INDEX_SIZE - 1 |-> [base |-> 0, block |-> Null]]]>>

(***************************************************************************)
(* enqueue_bulk(itemFirst, n).                                             *)
(***************************************************************************)
FirstNew == BaseOf(tailIndex + BLOCK_SIZE - 1)
LastNew == BaseOf(tailIndex + enq.n - 1)

Enqueue(n) ==
  /\ enq.pc = "idle"
  /\ tailIndex + n <= MaxTail
  /\ enq' = [pc |-> IF FirstNew <= BaseOf(tailIndex + n - 1) THEN "ahead" ELSE "construct",
             n |-> n, base |-> FirstNew, start |-> tailBlock, first |-> Null,
             front |-> indexFront, used |-> slotsUsed]
  /\ UNCHANGED <<baseVars, free, slot, empty, nxt, header, slotsUsed, indexSize,
                 indexFront, tailBlock, rd>>

\* The entry for the block of enq.base, at pr_blockIndexFront.
AddEntry(b) ==
  /\ header' = [header EXCEPT ![Len(header)].entries[indexFront] =
                  [base |-> enq.base, block |-> b]]
  /\ indexFront' = (indexFront + 1) % indexSize

\* Where enqueue_bulk goes on with block b for enq.base in hand.
Have(b, pcMore) ==
  [enq EXCEPT !.pc = IF enq.base = LastNew THEN "reset" ELSE pcMore,
              !.base = @ + BLOCK_SIZE,
              !.first = IF @ = Null THEN b ELSE @]

CanReuse == tailBlock # Null /\ nxt[tailBlock] # enq.first /\ IsEmpty(nxt[tailBlock])

\* Fault: the block ahead is used again without looking at its flags.
ReuseUnchecked ==
  /\ enq.pc = "ahead" /\ tailBlock # Null /\ nxt[tailBlock] # enq.first
  /\ tailBlock' = nxt[tailBlock]
  /\ AddEntry(nxt[tailBlock])
  /\ enq' = Have(nxt[tailBlock], "ahead")
  /\ UNCHANGED <<baseVars, free, slot, empty, nxt, slotsUsed, indexSize, rd>>

\* The block ahead of us in the ring is empty: use it again.
Reuse ==
  /\ enq.pc = "ahead" /\ CanReuse
  /\ tailBlock' = nxt[tailBlock]
  /\ AddEntry(nxt[tailBlock])
  /\ enq' = Have(nxt[tailBlock], "ahead")
  /\ UNCHANGED <<baseVars, free, slot, empty, nxt, slotsUsed, indexSize, rd>>

NoReuse ==
  /\ enq.pc = "ahead" /\ ~CanReuse
  /\ enq' = [enq EXCEPT !.pc = "room"]
  /\ UNCHANGED <<baseVars, free, slot, empty, nxt, header, slotsUsed, indexSize,
                 indexFront, tailBlock, rd>>

\* Fault: a full index is not noticed.
RoomIndexUnchecked ==
  LET full == MAX_SUBQUEUE_SIZE = 0 \/ MAX_SUBQUEUE_SIZE - BLOCK_SIZE < enq.base - headIndex
  IN
  /\ enq.pc = "room"
  /\ enq' = [enq EXCEPT !.pc = IF full THEN "fail"
                               ELSE IF header = <<>> THEN "index" ELSE "block"]
  /\ UNCHANGED <<baseVars, free, slot, empty, nxt, header, slotsUsed, indexSize,
                 indexFront, tailBlock, rd>>

\* A new block is needed: is there room in the sub-queue and in the index?
Room ==
  LET full == MAX_SUBQUEUE_SIZE = 0 \/ MAX_SUBQUEUE_SIZE - BLOCK_SIZE < enq.base - headIndex
  IN
  /\ enq.pc = "room"
  /\ enq' = [enq EXCEPT !.pc = IF full THEN "fail"
                               ELSE IF header = <<>> \/ slotsUsed = indexSize THEN "index"
                               ELSE "block"]
  /\ UNCHANGED <<baseVars, free, slot, empty, nxt, header, slotsUsed, indexSize,
                 indexFront, tailBlock, rd>>

NewBlockIndex ==
  /\ enq.pc = "index"
  /\ header' = Append(header, NewIndex(enq.used))
  /\ indexSize' = 2 * indexSize
  /\ indexFront' = slotsUsed
  /\ enq' = [enq EXCEPT !.pc = "block", !.front = enq.used]
  /\ UNCHANGED <<baseVars, free, slot, empty, nxt, slotsUsed, tailBlock, rd>>

\* requisition_block, set_all_empty, into the ring behind the tail block.
Requisition ==
  /\ enq.pc = "block"
  /\ \E b \in free :
       /\ free' = free \ {b}
       /\ empty' = [empty EXCEPT ![b] = [p \in Place |-> TRUE]]
       /\ nxt' = IF tailBlock = Null THEN [nxt EXCEPT ![b] = b]
                 ELSE [nxt EXCEPT ![b] = nxt[tailBlock], ![tailBlock] = b]
       /\ tailBlock' = b
       /\ AddEntry(b)
       /\ enq' = Have(b, "room")
  /\ slotsUsed' = slotsUsed + 1
  /\ UNCHANGED <<baseVars, slot, indexSize, rd>>

\* No memory for an index or a block (or not allowed to ask for it).
AllocationFails ==
  /\ MayFail
  /\ enq.pc \in {"index", "block"}
  /\ enq' = [enq EXCEPT !.pc = "fail"]
  /\ UNCHANGED <<baseVars, free, slot, empty, nxt, header, slotsUsed, indexSize,
                 indexFront, tailBlock, rd>>

\* Undo changes, but keep injected blocks.
Revert ==
  /\ indexFront' = enq.front
  /\ slotsUsed' = enq.used
  /\ tailBlock' = IF enq.start = Null THEN enq.first ELSE enq.start
  /\ enq' = Idle
  /\ UNCHANGED <<baseVars, free, slot, empty, nxt, header, indexSize, rd>>

EnqueueFails == enq.pc = "fail" /\ Revert

\* The blocks from first on to the tail block, along the ring.
Fresh ==
  LET walk[k \in 0 .. Cardinality(Block)] ==
        IF k = 0 THEN {enq.first}
        ELSE walk[k-1] \cup {nxt[b] : b \in walk[k-1] \ {tailBlock}}
  IN walk[Cardinality(Block)]

\* Fault: a block used again keeps the flags of its last use.
ResetEmptySkipped ==
  /\ enq.pc = "reset"
  /\ enq' = [enq EXCEPT !.pc = "construct"]
  /\ UNCHANGED <<baseVars, free, slot, empty, nxt, header, slotsUsed, indexSize,
                 indexFront, tailBlock, rd>>

ResetEmpty ==
  /\ enq.pc = "reset"
  /\ empty' = [b \in Block |-> IF b \in Fresh THEN [p \in Place |-> FALSE] ELSE empty[b]]
  /\ enq' = [enq EXCEPT !.pc = "construct"]
  /\ UNCHANGED <<baseVars, free, slot, nxt, header, slotsUsed, indexSize,
                 indexFront, tailBlock, rd>>

\* The block of element i: the start block, then along the ring from first.
BlockFor(i) ==
  LET along[k \in Nat] == IF k = 0 THEN enq.first ELSE nxt[along[k-1]]
  IN IF i < FirstNew THEN enq.start ELSE along[(i - FirstNew) \div BLOCK_SIZE]

Construct ==
  LET new == tailIndex .. tailIndex + enq.n - 1 IN
  /\ enq.pc = "construct"
  /\ slot' = [x \in Block \X Place |->
                IF \E i \in new : x = <<BlockFor(i), i % BLOCK_SIZE>>
                THEN CHOOSE i \in new : x = <<BlockFor(i), i % BLOCK_SIZE>>
                ELSE slot[x]]
  /\ enq' = [enq EXCEPT !.pc = "front"]
  /\ UNCHANGED <<baseVars, free, empty, nxt, header, slotsUsed, indexSize,
                 indexFront, tailBlock, rd>>

\* A constructor throws: what was built is destroyed, the operation reverted.
ConstructThrows == MayThrow /\ enq.pc = "construct" /\ Revert

SetFront ==
  /\ enq.pc = "front"
  /\ header' = IF enq.first = Null THEN header
               ELSE [header EXCEPT ![Len(header)].front = (indexFront - 1) % indexSize]
  /\ enq' = [enq EXCEPT !.pc = "publish"]
  /\ UNCHANGED <<baseVars, free, slot, empty, nxt, slotsUsed, indexSize, indexFront,
                 tailBlock, rd>>

\* Fault: the tail is set to the number of elements of this call.
EnqueuePublishCount ==
  /\ enq.pc = "publish"
  /\ tailIndex' = enq.n
  /\ enq' = Idle
  /\ UNCHANGED <<headIndex, dequeueOptimisticCount, dequeueOvercommit, pc, loc, void, won>>
  /\ UNCHANGED <<free, slot, empty, nxt, header, slotsUsed, indexSize, indexFront,
                 tailBlock, rd>>

EnqueuePublish ==
  /\ enq.pc = "publish"
  /\ Publish(enq.n)
  /\ enq' = Idle
  /\ UNCHANGED <<free, slot, empty, nxt, header, slotsUsed, indexSize, indexFront,
                 tailBlock, rd>>

EnqueueBulk ==
  \/ \E n \in 1..MaxBulk : Enqueue(n)
  \/ Reuse \/ NoReuse \/ Room \/ NewBlockIndex \/ Requisition \/ AllocationFails
  \/ EnqueueFails \/ ResetEmpty \/ Construct \/ ConstructThrows \/ SetFront
  \/ EnqueuePublish

(***************************************************************************)
(* dequeue_bulk after the claim.  An assignment that throws changes only   *)
(* what the caller receives.                                               *)
(***************************************************************************)
ReadTo(c, s) == rd' = [rd EXCEPT ![c] = s]
Unread == <<free, slot, empty, nxt, header, slotsUsed, indexSize, indexFront,
            tailBlock, enq>>

LoadIndex(c) ==
  /\ pc[c] = "take" /\ rd[c].pc = "idle"
  /\ ReadTo(c, [pc |-> "front", h |-> Len(header)])
  /\ UNCHANGED <<baseVars, Unread>>

LoadFront(c) ==
  /\ rd[c].pc = "front"
  /\ ReadTo(c, [pc |-> "base", h |-> rd[c].h, f |-> header[rd[c].h].front])
  /\ UNCHANGED <<baseVars, Unread>>

\* Fault: the front entry is taken for that of the head.
LoadBaseAtFront(c) ==
  /\ rd[c].pc = "base"
  /\ ReadTo(c, [pc |-> "block", h |-> rd[c].h, i |-> loc[c].index, pos |-> rd[c].f])
  /\ UNCHANGED <<baseVars, Unread>>

LoadBase(c) ==
  LET h == header[rd[c].h]
      offset == (BaseOf(loc[c].index) - h.entries[rd[c].f].base) \div BLOCK_SIZE
  IN
  /\ rd[c].pc = "base"
  /\ ReadTo(c, [pc |-> "block", h |-> rd[c].h, i |-> loc[c].index,
                pos |-> (rd[c].f + offset) % h.size])
  /\ UNCHANGED <<baseVars, Unread>>

EntryOf(c) == header[rd[c].h].entries[rd[c].pos]

LoadBlock(c) ==
  /\ rd[c].pc = "block"
  /\ ReadTo(c, [pc |-> "move", h |-> rd[c].h, i |-> rd[c].i, pos |-> rd[c].pos,
                block |-> EntryOf(c).block])
  /\ UNCHANGED <<baseVars, Unread>>

Run(c) == rd[c].i .. Least(BaseOf(rd[c].i) + BLOCK_SIZE, loc[c].index + loc[c].got) - 1
RunPlaces(c) == {i % BLOCK_SIZE : i \in Run(c)}

Move(c) ==
  /\ rd[c].pc = "move"
  /\ slot' = [x \in Block \X Place |->
                IF x[1] = rd[c].block /\ x[2] \in RunPlaces(c) THEN Null ELSE slot[x]]
  /\ ReadTo(c, [rd[c] EXCEPT !.pc = "flag"])
  /\ UNCHANGED <<baseVars, free, empty, nxt, header, slotsUsed, indexSize, indexFront,
                 tailBlock, enq>>

\* set_many_empty in explicit_context, then the next entry or the end.
SetManyEmpty(c) ==
  LET i == rd[c].i + Cardinality(Run(c)) IN
  /\ rd[c].pc = "flag"
  /\ empty' = [empty EXCEPT ![rd[c].block] = [p \in Place |-> p \in RunPlaces(c) \/ @[p]]]
  /\ IF i < loc[c].index + loc[c].got
     THEN /\ ReadTo(c, [pc |-> "block", h |-> rd[c].h, i |-> i,
                        pos |-> (rd[c].pos + 1) % header[rd[c].h].size])
          /\ UNCHANGED baseVars
     ELSE Taken(c) /\ ReadTo(c, Idle)
  /\ UNCHANGED <<free, slot, nxt, header, slotsUsed, indexSize, indexFront, tailBlock, enq>>

DequeueBulk(c) ==
  \/ (\E max \in 1..MaxBulk : LoadTail(c, max)) /\ UNCHANGED explVars
  \/ Claiming(c) /\ UNCHANGED explVars
  \/ LoadIndex(c) \/ LoadFront(c) \/ LoadBase(c) \/ LoadBlock(c) \/ Move(c)
  \/ SetManyEmpty(c)

(***************************************************************************)
(* ~ExplicitProducer: walk the ring, destroy what is left in blocks that   *)
(* are not empty, and return every block.                                  *)
(***************************************************************************)
Ring ==
  LET walk[k \in 0 .. Cardinality(Block)] ==
        IF k = 0 THEN {tailBlock} \ {Null} ELSE walk[k-1] \cup {nxt[b] : b \in walk[k-1]}
  IN walk[Cardinality(Block)]

\* The search for the block that is dequeued in part walks the index from its
\* oldest entry, round and round, to the first that does not end below the head.
IndexEntry(k) == Cur.entries[(indexFront - slotsUsed + k) % indexSize]
IsPast(k) == IndexEntry(k).base + BLOCK_SIZE < headIndex
SearchEnds == headIndex % BLOCK_SIZE # 0 => \E k \in 0 .. indexSize - 1 : ~IsPast(k)

HalfEntry ==
  IndexEntry(CHOOSE k \in 0 .. indexSize - 1 :
               ~IsPast(k) /\ \A j \in 0 .. k-1 : IsPast(j))
HalfDequeued == IF headIndex % BLOCK_SIZE = 0 THEN Null ELSE HalfEntry.block

\* Fault: a tail block that is full is taken for one with no element.
DestroyTailCut ==
  {x \in Ring \X Place :
     /\ ~IsEmpty(x[1])
     /\ (x[1] = HalfDequeued => x[2] >= headIndex % BLOCK_SIZE)
     /\ (x[1] = tailBlock => x[2] < tailIndex % BLOCK_SIZE)}

\* The places whose element the destructor destroys.
Destroyed ==
  {x \in Ring \X Place :
     /\ ~IsEmpty(x[1])
     /\ (x[1] = HalfDequeued => x[2] >= headIndex % BLOCK_SIZE)
     /\ (x[1] = tailBlock /\ tailIndex % BLOCK_SIZE # 0 => x[2] < tailIndex % BLOCK_SIZE)}

Quiet == enq.pc = "idle" /\ \A c \in Consumer : pc[c] = "idle"

Destroy ==
  /\ Quiet /\ SearchEnds
  /\ free' = free \cup Ring
  /\ slot' = [x \in Block \X Place |-> IF x \in Destroyed THEN Null ELSE slot[x]]
  /\ enq' = [pc |-> "destroyed"]
  /\ UNCHANGED <<baseVars, empty, nxt, header, slotsUsed, indexSize, indexFront,
                 tailBlock, rd>>

Next ==
  \/ EnqueueBulk
  \/ enq.pc # "destroyed" /\ \E c \in Consumer : DequeueBulk(c)
  \/ Destroy

Spec == Init /\ [][Next]_vars
-------------------------------------------------------------------------------
\* Type correctness: the fields of the producer, of its ring of blocks and of its
\* index keep their ranges; pr_blockIndexSlotsUsed never exceeds the index size.
TypeOK ==
  /\ BaseTypeOK
  /\ free \subseteq Block /\ nxt \in [Block -> Block \cup {Null}]
  /\ slot \in [Block \X Place -> 0 .. MaxTail - 1 \cup {Null}]
  /\ empty \in [Block -> [Place -> BOOLEAN]]
  /\ slotsUsed \in 0 .. indexSize /\ indexFront \in 0 .. indexSize - 1

\* The entry a consumer arrives at is that of its element, although the
\* producer writes entries in plain memory and swaps indexes meanwhile: an
\* entry is overwritten only when its block is empty, for which "guaranteed to
\* be room" is the code's reason.
LookupHits ==
  \A c \in Consumer : rd[c].pc = "block" => EntryOf(c).base = BaseOf(rd[c].i)

\* A consumer moves out exactly the elements it claimed, from a block the
\* producer has not begun to fill again.
ReadsOwnElements ==
  \A c \in Consumer : rd[c].pc = "move" =>
    \A i \in Run(c) : slot[<<rd[c].block, i % BLOCK_SIZE>>] = i

\* The assertion of set_many_empty: a place is marked empty once per use.
MarkedOnce ==
  \A c \in Consumer : rd[c].pc = "flag" =>
    \A p \in RunPlaces(c) : ~empty[rd[c].block][p]

\* The places that hold an element.
LeftOver == {x \in Block \X Place : slot[x] # Null}

\* The destructor's search for the block dequeued in part ends, and every element
\* not yet dequeued is destroyed.
DestroysWhatIsLeft == Quiet => SearchEnds /\ LeftOver \subseteq Destroyed

\* "Destruct any elements not yet dequeued", and nothing else: the destructor of T
\* is called for no place where there is no element.
DestroysOnlyElements == Quiet /\ SearchEnds => Destroyed \subseteq LeftOver

\* The assertion after the search: the entry that was found begins below the head.
HalfDequeuedBelowHead ==
  Quiet /\ SearchEnds /\ headIndex % BLOCK_SIZE # 0 => HalfEntry.base < headIndex

\* The sub-queue implements the counter protocol of ProducerBase.
ImplementsBase == BaseSpec

\* A consumer finds its elements where it looks, although the producer goes
\* round its ring and replaces its index meanwhile.  It may no longer do so after
\* Revert has undone a bulk over several blocks.
BlocksInPlace == TypeOK /\ LookupHits /\ ReadsOwnElements /\ MarkedOnce
===============================================================================
