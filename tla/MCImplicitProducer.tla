-------------------------- MODULE MCImplicitProducer --------------------------
(***************************************************************************)
(* ImplicitProducer for TLC.  A behaviour is one of two, by the value of   *)
(* part: single operations of two consumers, or bulk operations over       *)
(* several blocks of one consumer (with MaxOver = 0 only Patient calls).   *)
(* The constants of the properties are the larger ones of the two.         *)
(***************************************************************************)
EXTENDS ImplicitProducer, TLC

CONSTANT SingleTail   \* bound: elements enqueued singly

VARIABLE part

Single == INSTANCE ImplicitProducer WITH MaxBulk <- 1, MaxTail <- SingleTail
Bulk == INSTANCE ImplicitProducer WITH MaxOver <- 0

PartInit == part \in {"single", "bulk"} /\ Init
OfSingle == part = "single" /\ Single!Next /\ UNCHANGED part
OfBulk == part = "bulk" /\ Bulk!Next /\ UNCHANGED part
PartSpec == PartInit /\ [][OfSingle \/ OfBulk]_<<vars, part>>

Symmetry == Permutations(Consumer \ {Patient}) \cup Permutations(Block)
===============================================================================
