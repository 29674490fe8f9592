-------------------------- MODULE MCExplicitProducer --------------------------
(***************************************************************************)
(* ExplicitProducer for TLC.  A behaviour is one of two, by the value of   *)
(* part: single operations of two consumers, or bulk operations over       *)
(* several blocks with one consumer (with MaxOver = 0 only Patient calls). *)
(* Allocations and constructors may fail at every point of both.           *)
(*                                                                         *)
(* An enqueue that is undone keeps the blocks it took in the ring and      *)
(* leaves its traces in the index.  The history variable undone tells      *)
(* which such calls there were, so that the properties can say what still  *)
(* holds after them; MCExplicitRoom.cfg shows what no longer does.         *)
(***************************************************************************)
EXTENDS ExplicitProducer, TLC

CONSTANTS
  SingleTail,    \* bound: elements enqueued singly
  SingleBlocks,  \* bound: blocks in use at a time in single operations
  AfterUndone    \* bound: whether a behaviour goes on after a bulk over several
                 \* blocks was undone

VARIABLES
  part,
  undone   \* history: "one" or "several", the new blocks of the calls that were
           \* undone, for want of memory or room or by a throwing constructor,
           \* after they had taken a block

Single == INSTANCE ExplicitProducer WITH MaxBulk <- 1, MaxTail <- SingleTail
Bulk == INSTANCE ExplicitProducer WITH MaxOver <- 0

IsUndone == enq.pc \in {"fail", "construct"} /\ enq.first # Null /\ enq'.pc = "idle"

\* Bound: after a bulk over several blocks was undone no further call is.
Remember ==
  /\ "several" \in undone => AfterUndone /\ ~IsUndone
  /\ undone' = IF IsUndone
               THEN undone \cup {IF FirstNew = LastNew THEN "one" ELSE "several"}
               ELSE undone
  /\ UNCHANGED part

PartInit == part \in {"single", "bulk"} /\ undone = {} /\ Init
OfSingle ==
  /\ part = "single" /\ Single!Next /\ Remember
  /\ Cardinality(Block \ free') <= SingleBlocks
OfBulk == part = "bulk" /\ Bulk!Next /\ Remember
PartSpec == PartInit /\ [][OfSingle \/ OfBulk]_<<vars, part, undone>>

Symmetry == Permutations(Consumer \ {Patient}) \cup Permutations(Block)
-------------------------------------------------------------------------------
\* A consumer finds its elements where it looks, although the producer goes
\* round its ring, overwrites entries and replaces its index meanwhile, and
\* whatever failed or threw before, unless a bulk over several blocks was undone
\* half way (concurrentqueue.h 2079-2120 and 2195-2203).
FoundUnlessUndone == "several" \notin undone => BlocksInPlace

\* The destructor ends and destroys every element not yet dequeued, with the same
\* exception; if no call that took a block was undone, it destroys nothing else,
\* and its assertion on the block that is dequeued in part holds.
DestroyedUnlessUndone ==
  /\ "several" \notin undone => DestroysWhatIsLeft
  /\ undone = {} => DestroysOnlyElements /\ HalfDequeuedBelowHead
===============================================================================
