----------------------------- MODULE MCQueueParts -----------------------------
(***************************************************************************)
(* QueueParts for TLC: two threads, of which t1 is the patient consumer.   *)
(***************************************************************************)
EXTENDS QueueParts

CONSTANTS t1, t2

Threads == {t1, t2}

\* The two ids collide in a table of four slots, in a larger one they do not.
HashOfThread == [t \in Threads |-> IF t = t1 THEN 0 ELSE 4]

SmallHashOfThread == [t \in Threads |-> IF t = t1 THEN 0 ELSE 1]

\* t1 has the first ConsumerToken.
OffsetOfThread == [t \in Threads |-> IF t = t1 THEN 0 ELSE 1]
===============================================================================
