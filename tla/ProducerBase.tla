----------------------------- MODULE ProducerBase -----------------------------
(***************************************************************************)
(* The sub-queue one producer thread fills and any number of consumers     *)
(* empty (ProducerBase in include/data_proxy/concurrentqueue.h), reduced   *)
(* to its four counters.  A consumer first claims elements optimistically  *)
(* on dequeueOptimisticCount, gives back on dequeueOvercommit what turned  *)
(* out not to be there, and only then advances headIndex.  The protocol is *)
(* the same in ExplicitProducer and ImplicitProducer, and dequeue is       *)
(* dequeue_bulk with max = 1; the blocks that hold the elements are added  *)
(* in those two modules.                                                   *)
(*                                                                         *)
(* The atomics are sequentially consistent here, and index_t is unbounded: *)
(* 64 bits do not wrap around in practice.                                 *)
(***************************************************************************)
EXTENDS Integers, FiniteSets

CONSTANTS
  Consumer,
  Patient,    \* a consumer that keeps calling
  MaxBulk,    \* bound: elements per bulk operation
  MaxTail,    \* bound: elements ever enqueued
  MaxOver     \* bound: overcommits after which only Patient begins a call

ASSUME BaseAssumption ==
  /\ MaxBulk \in Nat \ {0} /\ MaxTail \in Nat /\ MaxOver \in Nat
  /\ Patient \in Consumer

VARIABLES
  tailIndex, headIndex, dequeueOptimisticCount, dequeueOvercommit,
  pc,    \* where each consumer stands in dequeue
  loc,   \* its locals
  void,  \* history: claims given back on dequeueOvercommit
  won    \* history: claims that advanced headIndex

baseVars == <<tailIndex, headIndex, dequeueOptimisticCount, dequeueOvercommit,
              pc, loc, void, won>>

\* Locals, zero once they are of no further use.  max, tail, over: the argument
\* and what was loaded; want = desiredCount, my = myDequeueCount,
\* got = actualCount, index = firstIndex.
Local == [max : Nat, tail : Nat, over : Nat, want : Nat, my : Nat, got : Nat,
          index : Nat]
Zero == [max |-> 0, tail |-> 0, over |-> 0, want |-> 0, my |-> 0, got |-> 0,
         index |-> 0]

BaseInit ==
  /\ tailIndex = 0 /\ headIndex = 0
  /\ dequeueOptimisticCount = 0 /\ dequeueOvercommit = 0
  /\ pc = [c \in Consumer |-> "idle"]
  /\ loc = [c \in Consumer |-> Zero]
  /\ void = {} /\ won = {}

Least(a, b) == IF a < b THEN a ELSE b

\* Consumer c goes to p, with its locals as l.
To(c, p, l) ==
  /\ pc' = [pc EXCEPT ![c] = p]
  /\ loc' = [loc EXCEPT ![c] = l]

\* tailIndex.store at the end of enqueue and enqueue_bulk.
Publish(n) ==
  /\ tailIndex + n <= MaxTail
  /\ tailIndex' = tailIndex + n
  /\ UNCHANGED <<headIndex, dequeueOptimisticCount, dequeueOvercommit, pc, loc,
                 void, won>>

(***************************************************************************)
(* dequeue_bulk(itemFirst, max), one atomic access per step.               *)
(***************************************************************************)
LoadTail(c, max) ==
  /\ pc[c] = "idle"
  /\ dequeueOvercommit < MaxOver \/ c = Patient
  /\ To(c, "overcommit", [Zero EXCEPT !.max = max, !.tail = tailIndex])
  /\ UNCHANGED <<tailIndex, headIndex, dequeueOptimisticCount, dequeueOvercommit,
                 void, won>>

LoadOvercommit(c) ==
  /\ pc[c] = "overcommit"
  /\ To(c, "optimistic", [loc[c] EXCEPT !.over = dequeueOvercommit])
  /\ UNCHANGED <<tailIndex, headIndex, dequeueOptimisticCount, dequeueOvercommit,
                 void, won>>

\* Nothing seems to be left: return 0.
SeemsEmpty(c) ==
  /\ pc[c] = "optimistic"
  /\ loc[c].tail - (dequeueOptimisticCount - loc[c].over) <= 0
  /\ To(c, "idle", Zero)
  /\ UNCHANGED <<tailIndex, headIndex, dequeueOptimisticCount, dequeueOvercommit,
                 void, won>>

\* Fault: desiredCount is not limited to max.
LoadOptimisticUncapped(c) ==
  LET desired == loc[c].tail - (dequeueOptimisticCount - loc[c].over) IN
  /\ pc[c] = "optimistic"
  /\ desired > 0
  /\ To(c, "claim", [loc[c] EXCEPT !.want = desired])
  /\ UNCHANGED <<tailIndex, headIndex, dequeueOptimisticCount, dequeueOvercommit,
                 void, won>>

LoadOptimistic(c) ==
  LET desired == loc[c].tail - (dequeueOptimisticCount - loc[c].over) IN
  /\ pc[c] = "optimistic"
  /\ desired > 0
  /\ To(c, "claim", [loc[c] EXCEPT !.want = Least(desired, loc[c].max)])
  /\ UNCHANGED <<tailIndex, headIndex, dequeueOptimisticCount, dequeueOvercommit,
                 void, won>>

Claim(c) ==
  /\ pc[c] = "claim"
  /\ To(c, "reload", [Zero EXCEPT !.my = dequeueOptimisticCount, !.over = loc[c].over,
                                  !.want = loc[c].want])
  /\ dequeueOptimisticCount' = dequeueOptimisticCount + loc[c].want
  /\ UNCHANGED <<tailIndex, headIndex, dequeueOvercommit, void, won>>

\* Fault: the claim is not tested against the tail again.
ReloadTrusted(c) ==
  /\ pc[c] = "reload"
  /\ To(c, "head", [loc[c] EXCEPT !.got = loc[c].want])
  /\ UNCHANGED <<tailIndex, headIndex, dequeueOptimisticCount, dequeueOvercommit,
                 void, won>>

Reload(c) ==
  LET actual == tailIndex - (loc[c].my - loc[c].over)
      got == IF actual > 0 THEN Least(loc[c].want, actual) ELSE 0
  IN
  /\ pc[c] = "reload"
  /\ To(c, IF got < loc[c].want THEN "give" ELSE "head", [loc[c] EXCEPT !.got = got])
  /\ UNCHANGED <<tailIndex, headIndex, dequeueOptimisticCount, dequeueOvercommit,
                 void, won>>

\* The claims of c that failed, and those that succeeded.
Failed(c) == loc[c].my + loc[c].got .. loc[c].my + loc[c].want - 1
Succeeded(c) == loc[c].my .. loc[c].my + loc[c].got - 1

\* Fault: the failed claims are not given back.
GiveBackNothing(c) ==
  /\ pc[c] = "give"
  /\ void' = void \cup Failed(c)
  /\ IF loc[c].got = 0 THEN To(c, "idle", Zero) ELSE To(c, "head", loc[c])
  /\ UNCHANGED <<tailIndex, headIndex, dequeueOptimisticCount, dequeueOvercommit, won>>

\* dequeueOvercommit.fetch_add; with nothing got, return 0.
GiveBack(c) ==
  /\ pc[c] = "give"
  /\ dequeueOvercommit' = dequeueOvercommit + (loc[c].want - loc[c].got)
  /\ void' = void \cup Failed(c)
  /\ IF loc[c].got = 0 THEN To(c, "idle", Zero) ELSE To(c, "head", loc[c])
  /\ UNCHANGED <<tailIndex, headIndex, dequeueOptimisticCount, won>>

FetchHead(c) ==
  /\ pc[c] = "head"
  /\ headIndex' = headIndex + loc[c].got
  /\ won' = won \cup Succeeded(c)
  /\ To(c, "take", [Zero EXCEPT !.index = headIndex, !.got = loc[c].got])
  /\ UNCHANGED <<tailIndex, dequeueOptimisticCount, dequeueOvercommit, void>>

\* The elements index .. index + got - 1 have been moved out: return got.
Taken(c) ==
  /\ pc[c] = "take"
  /\ To(c, "idle", Zero)
  /\ UNCHANGED <<tailIndex, headIndex, dequeueOptimisticCount, dequeueOvercommit,
                 void, won>>

\* The steps of a dequeue up to the claim of elements.
Claiming(c) ==
  \/ LoadOvercommit(c) \/ SeemsEmpty(c) \/ LoadOptimistic(c) \/ Claim(c)
  \/ Reload(c) \/ GiveBack(c) \/ FetchHead(c)

BaseNext ==
  \/ \E n \in 1..MaxBulk : Publish(n)
  \/ \E c \in Consumer : \/ \E max \in 1..MaxBulk : LoadTail(c, max)
                         \/ Claiming(c) \/ Taken(c)

BaseSpec == BaseInit /\ [][BaseNext]_baseVars
-------------------------------------------------------------------------------
\* Types; a consumer never claims more than its caller has room for.
BaseTypeOK ==
  /\ tailIndex \in 0..MaxTail /\ headIndex \in Nat
  /\ dequeueOptimisticCount \in Nat /\ dequeueOvercommit \in Nat
  /\ pc \in [Consumer -> {"idle", "overcommit", "optimistic", "claim", "reload",
                          "give", "head", "take"}]
  /\ loc \in [Consumer -> Local]
  /\ \A c \in Consumer : pc[c] = "claim" => loc[c].want \in 1 .. loc[c].max
  /\ void \subseteq Nat /\ won \subseteq Nat

\* headIndex never passes tailIndex, although it is advanced without a
\* compare-and-swap: nobody takes an element that was not published.
OnlyPublished == headIndex <= tailIndex

\* The elements a consumer of pc "take" moves out.
Mine(c) == loc[c].index .. loc[c].index + loc[c].got - 1

\* No two consumers hold the same element, and what they hold is published.
ExactlyOnce ==
  \A c \in Consumer : pc[c] = "take" =>
    /\ Mine(c) \subseteq 0 .. tailIndex - 1
    /\ Mine(c) \cap (headIndex .. tailIndex - 1) = {}
    /\ \A d \in Consumer \ {c} : pc[d] = "take" => Mine(c) \cap Mine(d) = {}

\* When no claim is open, the optimistic count less the overcommit is the head
\* again: no race leaves an element hidden behind a claim nobody holds.
NothingHidden ==
  (\A c \in Consumer : pc[c] \notin {"reload", "give", "head"}) =>
    dequeueOptimisticCount - dequeueOvercommit = headIndex

\* A consumer that keeps calling sees every element taken once the others stop
\* overcommitting.  (While they do not stop, two consumers can make each other
\* fail for ever: each GiveBack makes the other's overcommit stale.)
EveryElementTaken ==
  \A k \in 1..MaxTail : tailIndex >= k ~> headIndex >= k

\* The optimistic claim as a whole: types, nothing taken before it is published
\* or twice, and no element hidden behind the counters.
ClaimsSound == BaseTypeOK /\ OnlyPublished /\ ExactlyOnce /\ NothingHidden
===============================================================================
