--------------------------- MODULE ImplicitProducer ---------------------------
(***************************************************************************)
(* ImplicitProducer of include/data_proxy/concurrentqueue.h: the sub-queue *)
(* behind ConcurrentQueue::enqueue without a token, which is how every     *)
(* thread pushes to the MessageBus.  It adds to ProducerBase where the     *)
(* elements are: blocks taken from and returned to the pool (BlockPool)    *)
(* and a circular index from block bases to blocks that the producer fills *)
(* and grows while consumers look blocks up in it and clear entries.       *)
(*                                                                         *)
(* enqueue is enqueue_bulk with count = 1: it takes the same steps, except *)
(* that a throwing constructor is called before the new block is put in    *)
(* the index and not after.  Stores that only the producer reads back are  *)
(* merged with a neighbouring step.                                        *)
(***************************************************************************)
EXTENDS ProducerBase, Sequences, SequencesExt

CONSTANTS
  Block,              \* blocks in the pool
  BLOCK_SIZE,
  INDEX_SIZE,         \* IMPLICIT_INITIAL_INDEX_SIZE
  MAX_SUBQUEUE_SIZE,
  MaxEntries,         \* bound: index entries for which memory suffices
  Null

ASSUME ImplicitAssumption ==
  /\ BLOCK_SIZE \in Nat \ {0, 1} /\ INDEX_SIZE \in Nat \ {0, 1}
  /\ MaxEntries \in Nat /\ INDEX_SIZE <= MaxEntries
  /\ Null \notin Block /\ Null \notin Nat

VARIABLES
  free,        \* blocks in the pool
  slot,        \* the element in each place of each block, or Null
  dequeued,    \* elementsCompletelyDequeued of each block
  key, value,  \* the BlockIndexEntry objects
  header,      \* the BlockIndexHeader objects; blockIndex is the last
  tailBlock,
  enq,         \* where the producer stands
  rd           \* where each consumer stands after headIndex.fetch_add

implVars == <<free, slot, dequeued, key, value, header, tailBlock, enq, rd>>
vars == <<baseVars, implVars>>

INVALID_BLOCK_BASE == 1
Place == 0 .. BLOCK_SIZE - 1
Idle == [pc |-> "idle"]
BaseOf(i) == (i \div BLOCK_SIZE) * BLOCK_SIZE

\* new_block_index without and with a previous index: the old entries from
\* the oldest on, then as many new ones.
FirstHeader ==
  [capacity |-> INDEX_SIZE, tail |-> INDEX_SIZE - 1,
   index |-> [p \in 0 .. INDEX_SIZE - 1 |-> p + 1]]

\* Fault: the entries are copied from position 0 on.
NextHeaderUnrotated(prev) ==
  [capacity |-> 2 * prev.capacity, tail |-> prev.capacity - 1,
   index |-> [p \in 0 .. 2 * prev.capacity - 1 |->
                IF p < prev.capacity THEN prev.index[p] ELSE p + 1]]

NextHeader(prev) ==
  [capacity |-> 2 * prev.capacity, tail |-> prev.capacity - 1,
   index |-> [p \in 0 .. 2 * prev.capacity - 1 |->
                IF p < prev.capacity
                THEN prev.index[(prev.tail + 1 + p) % prev.capacity]
                ELSE p + 1]]

Entry == 1 .. MaxEntries

Init ==
  /\ BaseInit
  /\ free = Block
  /\ slot = [x \in Block \X Place |-> Null]
  /\ dequeued = [b \in Block |-> 0]
  /\ key = [e \in Entry |-> INVALID_BLOCK_BASE]
  /\ value = [e \in Entry |-> Null]
  /\ header \in {<<>>, <<FirstHeader>>}   \* memory may fail in the constructor
  /\ tailBlock = Null
  /\ enq = Idle
  /\ rd = [c \in Consumer |-> Idle]

Cur == Last(header)
SetTail(t) == header' = [header EXCEPT ![Len(header)].tail = t]

\* get_block_index_index_for_index: the position of the entry for element i in
\* header h, counted back from the entry at its tail t.
PositionFor(h, t, i) ==
  (t + (BaseOf(i) - key[h.index[t]]) \div BLOCK_SIZE) % h.capacity

\* get_block_index_entry_for_index, by the producer.
EntryFor(i) == Cur.index[PositionFor(Cur, Cur.tail, i)]

(***************************************************************************)
(* enqueue_bulk(itemFirst, n).                                             *)
(***************************************************************************)
\* The bases of the blocks that elements tailIndex .. tailIndex+n-1 still need.
FirstNew == BaseOf(tailIndex + BLOCK_SIZE - 1)
LastNew(n) == BaseOf(tailIndex + n - 1)

Enqueue(n) ==
  /\ enq.pc = "idle"
  /\ tailIndex + n <= MaxTail
  /\ enq' = [pc |-> IF FirstNew <= LastNew(n) THEN "room" ELSE "construct",
             n |-> n, base |-> FirstNew, chain |-> <<>>]
  /\ UNCHANGED <<baseVars, free, slot, dequeued, key, value, header, tailBlock, rd>>

Undo == [pc |-> "undo", chain |-> enq.chain, base |-> FirstNew]

\* The limit on the size of the sub-queue, against the present headIndex.
Room ==
  /\ enq.pc = "room"
  /\ enq' = IF MAX_SUBQUEUE_SIZE = 0 \/ MAX_SUBQUEUE_SIZE - BLOCK_SIZE < enq.base - headIndex
            THEN Undo ELSE [enq EXCEPT !.pc = "insert"]
  /\ UNCHANGED <<baseVars, free, slot, dequeued, key, value, header, tailBlock, rd>>

\* insert_block_index_entry: the next entry, if it is unused or its block gone.
NewTail == (Cur.tail + 1) % Cur.capacity
NewEntry == Cur.index[NewTail]

\* Fault: a full index is not noticed.
InsertKeyUnchecked ==
  /\ enq.pc = "insert" /\ header # <<>>
  /\ key' = [key EXCEPT ![NewEntry] = enq.base]
  /\ enq' = [enq EXCEPT !.pc = "tail"]
  /\ UNCHANGED <<baseVars, free, slot, dequeued, value, header, tailBlock, rd>>

InsertKey ==
  /\ enq.pc = "insert" /\ header # <<>>
  /\ key[NewEntry] = INVALID_BLOCK_BASE \/ value[NewEntry] = Null
  /\ key' = [key EXCEPT ![NewEntry] = enq.base]
  /\ enq' = [enq EXCEPT !.pc = "tail"]
  /\ UNCHANGED <<baseVars, free, slot, dequeued, value, header, tailBlock, rd>>

InsertTail ==
  /\ enq.pc = "tail"
  /\ SetTail(NewTail)
  /\ enq' = [enq EXCEPT !.pc = "block"]
  /\ UNCHANGED <<baseVars, free, slot, dequeued, key, value, tailBlock, rd>>

\* No room in the index: allocate one twice the size and try again ...
NewBlockIndex ==
  /\ enq.pc = "insert" /\ header # <<>>
  /\ key[NewEntry] # INVALID_BLOCK_BASE /\ value[NewEntry] # Null
  /\ 2 * Cur.capacity <= MaxEntries
  /\ header' = Append(header, NextHeader(Cur))
  /\ UNCHANGED <<baseVars, free, slot, dequeued, key, value, tailBlock, enq, rd>>

\* ... or fail, out of memory, not allowed to allocate, or without any index.
InsertFails ==
  /\ enq.pc = "insert"
  /\ header # <<>> => key[NewEntry] # INVALID_BLOCK_BASE /\ value[NewEntry] # Null
  /\ enq' = Undo
  /\ UNCHANGED <<baseVars, free, slot, dequeued, key, value, header, tailBlock, rd>>

\* requisition_block, then reset_empty.
Requisition ==
  /\ enq.pc = "block"
  /\ \E b \in free :
       /\ free' = free \ {b}
       /\ dequeued' = [dequeued EXCEPT ![b] = 0]
       /\ enq' = [enq EXCEPT !.pc = "value", !.chain = Append(@, b)]
  /\ UNCHANGED <<baseVars, slot, key, value, header, tailBlock, rd>>

\* No block: rewind_block_index_tail and clear the entry just inserted.
RequisitionFails ==
  /\ enq.pc = "block"
  /\ value' = [value EXCEPT ![Cur.index[Cur.tail]] = Null]
  /\ SetTail((Cur.tail - 1) % Cur.capacity)
  /\ enq' = Undo
  /\ UNCHANGED <<baseVars, free, slot, dequeued, key, tailBlock, rd>>

SetValue ==
  /\ enq.pc = "value"
  /\ value' = [value EXCEPT ![Cur.index[Cur.tail]] = Last(enq.chain)]
  /\ enq' = [enq EXCEPT !.pc = IF enq.base < LastNew(enq.n) THEN "room" ELSE "construct",
                        !.base = @ + BLOCK_SIZE]
  /\ UNCHANGED <<baseVars, free, slot, dequeued, key, header, tailBlock, rd>>

\* The block of element i of the present call.
BlockFor(i) ==
  IF i < FirstNew THEN tailBlock ELSE enq.chain[(i - FirstNew) \div BLOCK_SIZE + 1]

Construct ==
  LET new == tailIndex .. tailIndex + enq.n - 1 IN
  /\ enq.pc = "construct"
  /\ slot' = [x \in Block \X Place |->
                IF \E i \in new : x = <<BlockFor(i), i % BLOCK_SIZE>>
                THEN CHOOSE i \in new : x = <<BlockFor(i), i % BLOCK_SIZE>>
                ELSE slot[x]]
  /\ tailBlock' = BlockFor(tailIndex + enq.n - 1)
  /\ enq' = [enq EXCEPT !.pc = "publish"]
  /\ UNCHANGED <<baseVars, free, dequeued, key, value, header, rd>>

\* A constructor throws: what was constructed is destroyed, the rest undone.
ConstructThrows ==
  /\ enq.pc = "construct"
  /\ enq' = Undo
  /\ UNCHANGED <<baseVars, free, slot, dequeued, key, value, header, tailBlock, rd>>

\* Take the blocks of this call out of the index again, one by one ...
UndoEntry ==
  LET k == (enq.base - FirstNew) \div BLOCK_SIZE IN
  /\ enq.pc = "undo" /\ k < Len(enq.chain)
  /\ value' = [value EXCEPT ![EntryFor(enq.base)] = Null]
  /\ SetTail((Cur.tail - 1) % Cur.capacity)
  /\ enq' = [enq EXCEPT !.base = @ + BLOCK_SIZE]
  /\ UNCHANGED <<baseVars, free, slot, dequeued, key, tailBlock, rd>>

\* ... and give them back: enqueue fails.
UndoDone ==
  /\ enq.pc = "undo" /\ enq.base = FirstNew + Len(enq.chain) * BLOCK_SIZE
  /\ free' = free \cup ToSet(enq.chain)
  /\ enq' = Idle
  /\ UNCHANGED <<baseVars, slot, dequeued, key, value, header, tailBlock, rd>>

\* Fault: the tail is set to the number of elements of this call.
EnqueuePublishCount ==
  /\ enq.pc = "publish"
  /\ tailIndex' = enq.n
  /\ enq' = Idle
  /\ UNCHANGED <<headIndex, dequeueOptimisticCount, dequeueOvercommit, pc, loc, void, won>>
  /\ UNCHANGED <<free, slot, dequeued, key, value, header, tailBlock, rd>>

EnqueuePublish ==
  /\ enq.pc = "publish"
  /\ Publish(enq.n)
  /\ enq' = Idle
  /\ UNCHANGED <<free, slot, dequeued, key, value, header, tailBlock, rd>>

EnqueueBulk ==
  \/ \E n \in 1..MaxBulk : Enqueue(n)
  \/ Room \/ InsertKey \/ InsertTail \/ NewBlockIndex \/ InsertFails
  \/ Requisition \/ RequisitionFails \/ SetValue \/ Construct \/ ConstructThrows
  \/ UndoEntry \/ UndoDone \/ EnqueuePublish

(***************************************************************************)
(* dequeue_bulk after the claim: find the block, move elements out of it,  *)
(* count them, and return the block when all of it is dequeued.  If an     *)
(* assignment throws, the rest of the claim is destroyed and counted the   *)
(* same way.                                                               *)
(***************************************************************************)
ReadTo(c, s) == rd' = [rd EXCEPT ![c] = s]

LoadIndex(c) ==
  /\ pc[c] = "take" /\ rd[c].pc = "idle"
  /\ ReadTo(c, [pc |-> "tail", h |-> Len(header)])
  /\ UNCHANGED <<baseVars, free, slot, dequeued, key, value, header, tailBlock, enq>>

LoadIndexTail(c) ==
  /\ rd[c].pc = "tail"
  /\ ReadTo(c, [pc |-> "key", h |-> rd[c].h, t |-> header[rd[c].h].tail])
  /\ UNCHANGED <<baseVars, free, slot, dequeued, key, value, header, tailBlock, enq>>

\* Fault: the entry at the tail is taken for that of the newest element.
LoadKeyAtTail(c) ==
  /\ rd[c].pc = "key"
  /\ ReadTo(c, [pc |-> "value", h |-> rd[c].h, pos |-> rd[c].t, i |-> loc[c].index])
  /\ UNCHANGED <<baseVars, free, slot, dequeued, key, value, header, tailBlock, enq>>

LoadKey(c) ==
  /\ rd[c].pc = "key"
  /\ ReadTo(c, [pc |-> "value", h |-> rd[c].h, i |-> loc[c].index,
                pos |-> PositionFor(header[rd[c].h], rd[c].t, loc[c].index)])
  /\ UNCHANGED <<baseVars, free, slot, dequeued, key, value, header, tailBlock, enq>>

EntryOf(c) == header[rd[c].h].index[rd[c].pos]

LoadValue(c) ==
  /\ rd[c].pc = "value"
  /\ ReadTo(c, [pc |-> "move", h |-> rd[c].h, i |-> rd[c].i, pos |-> rd[c].pos,
                block |-> value[EntryOf(c)]])
  /\ UNCHANGED <<baseVars, free, slot, dequeued, key, value, header, tailBlock, enq>>

\* The elements of c's claim that are in its present block.
Run(c) == rd[c].i .. Least(BaseOf(rd[c].i) + BLOCK_SIZE, loc[c].index + loc[c].got) - 1

Move(c) ==
  /\ rd[c].pc = "move"
  /\ slot' = [x \in Block \X Place |->
                IF x[1] = rd[c].block /\ \E i \in Run(c) : i % BLOCK_SIZE = x[2]
                THEN Null ELSE slot[x]]
  /\ ReadTo(c, [rd[c] EXCEPT !.pc = "count"])
  /\ UNCHANGED <<baseVars, free, dequeued, key, value, header, tailBlock, enq>>

\* Fault: the block is returned when the last of its elements is taken,
\* whoever is still busy with the others.
SetManyEmptyLast(c) ==
  LET b == rd[c].block IN
  /\ rd[c].pc = "count"
  /\ dequeued' = [dequeued EXCEPT ![b] = @ + Cardinality(Run(c))]
  /\ ReadTo(c, [rd[c] EXCEPT !.pc =
       IF (rd[c].i + Cardinality(Run(c))) % BLOCK_SIZE = 0 THEN "clear" ELSE "next"])
  /\ UNCHANGED <<baseVars, free, slot, key, value, header, tailBlock, enq>>

\* set_many_empty in implicit_context: is the whole block dequeued now?
SetManyEmpty(c) ==
  LET b == rd[c].block IN
  /\ rd[c].pc = "count"
  /\ dequeued' = [dequeued EXCEPT ![b] = @ + Cardinality(Run(c))]
  /\ ReadTo(c, [rd[c] EXCEPT !.pc = IF dequeued'[b] = BLOCK_SIZE THEN "clear" ELSE "next"])
  /\ UNCHANGED <<baseVars, free, slot, key, value, header, tailBlock, enq>>

\* Fault: the entry keeps pointing to the block.
ClearEntrySkipped(c) ==
  /\ rd[c].pc = "clear"
  /\ ReadTo(c, [rd[c] EXCEPT !.pc = "free"])
  /\ UNCHANGED <<baseVars, free, slot, dequeued, key, value, header, tailBlock, enq>>

ClearEntry(c) ==
  /\ rd[c].pc = "clear"
  /\ value' = [value EXCEPT ![EntryOf(c)] = Null]
  /\ ReadTo(c, [rd[c] EXCEPT !.pc = "free"])
  /\ UNCHANGED <<baseVars, free, slot, dequeued, key, header, tailBlock, enq>>

FreeBlock(c) ==
  /\ rd[c].pc = "free"
  /\ free' = free \cup {rd[c].block}
  /\ ReadTo(c, [rd[c] EXCEPT !.pc = "next"])
  /\ UNCHANGED <<baseVars, slot, dequeued, key, value, header, tailBlock, enq>>

\* On to the next entry, or the call is done.
NextRun(c) ==
  LET i == rd[c].i + Cardinality(Run(c)) IN
  /\ rd[c].pc = "next"
  /\ IF i < loc[c].index + loc[c].got
     THEN /\ ReadTo(c, [pc |-> "value", h |-> rd[c].h, i |-> i,
                        pos |-> (rd[c].pos + 1) % header[rd[c].h].capacity])
          /\ UNCHANGED baseVars
     ELSE Taken(c) /\ ReadTo(c, Idle)
  /\ UNCHANGED <<free, slot, dequeued, key, value, header, tailBlock, enq>>

DequeueBulk(c) ==
  \/ (\E max \in 1..MaxBulk : LoadTail(c, max)) /\ UNCHANGED implVars
  \/ Claiming(c) /\ UNCHANGED implVars
  \/ LoadIndex(c) \/ LoadIndexTail(c) \/ LoadKey(c) \/ LoadValue(c) \/ Move(c)
  \/ SetManyEmpty(c) \/ ClearEntry(c) \/ FreeBlock(c) \/ NextRun(c)

(***************************************************************************)
(* ~ImplicitProducer, with no operation under way: the elements that are   *)
(* left are destroyed, their blocks returned, and the tail block too       *)
(* unless it was filled and emptied completely.                            *)
(***************************************************************************)
\* Fault: a partly filled tail block is not returned if its elements are gone.
DestroyEmptyTailKept ==
  /\ enq.pc = "idle" /\ \A c \in Consumer : pc[c] = "idle"
  /\ slot' = [x \in Block \X Place |->
                IF slot[x] \in headIndex .. tailIndex - 1 THEN Null ELSE slot[x]]
  /\ free' = free
       \cup {value[EntryFor(i)] : i \in headIndex .. BaseOf(tailIndex - 1) - 1}
       \cup (IF tailBlock # Null /\ headIndex # tailIndex THEN {tailBlock} ELSE {})
  /\ enq' = [pc |-> "destroyed"]
  /\ UNCHANGED <<baseVars, dequeued, key, value, header, tailBlock, rd>>

Destroy ==
  /\ enq.pc = "idle" /\ \A c \in Consumer : pc[c] = "idle"
  /\ slot' = [x \in Block \X Place |->
                IF slot[x] \in headIndex .. tailIndex - 1 THEN Null ELSE slot[x]]
  /\ free' = free
       \cup {value[EntryFor(i)] : i \in headIndex .. BaseOf(tailIndex - 1) - 1}
       \cup (IF tailBlock # Null /\ (headIndex # tailIndex \/ tailIndex % BLOCK_SIZE # 0)
             THEN {tailBlock} ELSE {})
  /\ enq' = [pc |-> "destroyed"]
  /\ UNCHANGED <<baseVars, dequeued, key, value, header, tailBlock, rd>>

Next ==
  \/ EnqueueBulk
  \/ enq.pc # "destroyed" /\ \E c \in Consumer : DequeueBulk(c)
  \/ Destroy

Spec == Init /\ [][Next]_vars
-------------------------------------------------------------------------------
\* Types; a block never counts more elements than it has (the assertions of
\* set_many_empty and is_empty).
TypeOK ==
  /\ BaseTypeOK
  /\ free \subseteq Block /\ tailBlock \in Block \cup {Null}
  /\ slot \in [Block \X Place -> 0 .. MaxTail - 1 \cup {Null}]
  /\ dequeued \in [Block -> 0 .. BLOCK_SIZE]
  /\ key \in [Entry -> Nat] /\ value \in [Entry -> Block \cup {Null}]

\* The assertion of get_block_index_index_for_index, from the lookup on until
\* the entry is used: the entry a consumer found is that of its element and
\* points to a block, although the producer inserts, rewinds and grows the index
\* meanwhile.
LookupHits ==
  \A c \in Consumer : rd[c].pc = "value" =>
    key[EntryOf(c)] = BaseOf(rd[c].i) /\ value[EntryOf(c)] # Null

\* A consumer moves out exactly the elements it claimed: they are constructed,
\* in the block it found, and the block is not back in the pool.
ReadsOwnElements ==
  \A c \in Consumer : rd[c].pc = "move" =>
    /\ rd[c].block \in Block \ free
    /\ \A i \in Run(c) : slot[<<rd[c].block, i % BLOCK_SIZE>>] = i

\* A block in the pool holds no element and no entry leads to it, so whoever
\* gets it next cannot disturb this producer.
PoolBlocksUnused ==
  \A b \in free :
    /\ enq.pc # "destroyed" => \A e \in Entry : value[e] # b
    /\ \A s \in Place : slot[<<b, s>>] = Null
    /\ \A c \in Consumer : rd[c].pc \in {"move", "count", "clear", "free"} => rd[c].block # b

\* The destructor returns every block and destroys every element, whatever
\* failed, threw or was undone before.
DestroyReturnsAll ==
  enq.pc = "destroyed" =>
    free = Block /\ \A x \in Block \X Place : slot[x] = Null

\* The detailed sub-queue implements the counter protocol of ProducerBase, so
\* what is proved there holds here.
ImplementsBase == BaseSpec

\* A consumer finds its elements where it looks, although blocks and index
\* entries are given back, reused and replaced meanwhile.
BlocksInPlace == TypeOK /\ LookupHits /\ ReadsOwnElements /\ PoolBlocksUnused
===============================================================================
