------------------------------ MODULE QueueParts ------------------------------
(***************************************************************************)
(* The structures all threads of a ConcurrentQueue share: the block pool   *)
(* and its free list (BlockPool), the hash table from threads              *)
(* to producers (ProducerHash), the search of a consumer through the list  *)
(* of producers (TryDequeue), without and with a token, and, for its       *)
(* liveness, the claim of an element of one producer (ProducerBase).       *)
(*                                                                         *)
(* They share no variable, so instead of their product each behaviour runs *)
(* one of them, named by the variable part, and leaves the others in their *)
(* initial states.                                                         *)
(***************************************************************************)
EXTENDS Integers, Sequences, FiniteSets

CONSTANTS
  Thread,                              \* threads, and consumers
  PoolSize, Heap, RECYCLE, Null,       \* BlockPool
  HashOf, HASH_SIZE, SmallHashOf,      \* ProducerHash
  MaxTables, MaxFails, MaxExits, Empty, Reusable, NoThread,
  InitialOffset, QUOTA, MaxProducers, MaxTail, MaxBulk, MaxOver,  \* TryDequeue
  Patient, MaxElements, MaxOvercommit        \* ProducerBase

VARIABLES
  part,
  index, head, refs, should, next, live, own, th,
  hash, count, resizing, inactive, mutex, pc, loc, mine, fails, exits,
  producerCount, listed, tail, taken, opt, over, globalOffset, token, at,
  search, start, disturbed,
  tailIndex, headIndex, dequeueOptimisticCount, dequeueOvercommit, stage, claim,
  void, won

pool == <<index, head, refs, should, next, live, own, th>>
hashing == <<hash, count, resizing, inactive, mutex, pc, loc, mine, fails, exits>>
list == <<producerCount, listed, tail, taken, opt, over, globalOffset, token,
          at, search, start, disturbed>>
base == <<tailIndex, headIndex, dequeueOptimisticCount, dequeueOvercommit, stage,
          claim, void, won>>
vars == <<part, pool, hashing, list, base>>

Pool == INSTANCE BlockPool
Hash == INSTANCE ProducerHash

\* A table of two slots has to be replaced by the first thread that comes.
Small == INSTANCE ProducerHash WITH
  HashOf <- SmallHashOf, HASH_SIZE <- 2, MaxExits <- 1

\* Producers come while consumers search, without and with tokens.
Search == INSTANCE TryDequeue WITH
  Consumer <- Thread, Kinds <- {"any"}, ListedFirst <- 1,
  head <- taken, pc <- at, loc <- search
Bulk == INSTANCE TryDequeue WITH
  Consumer <- Thread, Kinds <- {"bulk"}, ListedFirst <- 1,
  head <- taken, pc <- at, loc <- search
Walk == INSTANCE TryDequeue WITH
  Consumer <- Thread, Kinds <- {"token"}, MaxBulk <- 1, ListedFirst <- 1,
  head <- taken, pc <- at, loc <- search

\* Tokens rotate over all producers.
Token == INSTANCE TryDequeue WITH
  Consumer <- Thread, Kinds <- {"token"}, MaxBulk <- 1, ListedFirst <- MaxProducers,
  head <- taken, pc <- at, loc <- search

\* One producer, and consumers of which one keeps calling.
Base == INSTANCE ProducerBase WITH
  Consumer <- Thread, MaxTail <- MaxElements,
  MaxOver <- MaxOvercommit, pc <- stage, loc <- claim

ASSUME Instances ==
  /\ Pool!PoolAssumption /\ Hash!HashAssumption /\ Small!HashAssumption
  /\ Search!TryDequeueAssumption /\ Bulk!TryDequeueAssumption
  /\ Walk!TryDequeueAssumption /\ Token!TryDequeueAssumption

Init ==
  /\ part \in {"pool", "hash", "small", "search", "bulk", "walk", "token", "base"}
  /\ Base!BaseInit /\ Pool!Init
  /\ IF part = "small" THEN Small!Init ELSE Hash!Init
  /\ IF part = "token" THEN Token!Init ELSE Search!Init

\* A step of one part.
OfPool(A) == part = "pool" /\ A /\ UNCHANGED <<part, hashing, list, base>>
OfHash(A) == part = "hash" /\ A /\ UNCHANGED <<part, pool, list, base>>
OfSmall(A) == part = "small" /\ A /\ UNCHANGED <<part, pool, list, base>>
OfSearch(A) == part = "search" /\ A /\ UNCHANGED <<part, pool, hashing, base>>
OfBulk(A) == part = "bulk" /\ A /\ UNCHANGED <<part, pool, hashing, base>>
OfWalk(A) == part = "walk" /\ A /\ UNCHANGED <<part, pool, hashing, base>>
OfToken(A) == part = "token" /\ A /\ UNCHANGED <<part, pool, hashing, base>>
OfBase(A) == part = "base" /\ A /\ UNCHANGED <<part, pool, hashing, list>>

\* Between calls, consumers may rest.
Rest ==
  /\ part \in {"search", "bulk", "walk", "token"}
  /\ \A t \in Thread : at[t] = "idle"
  /\ UNCHANGED vars

Next ==
  \/ OfPool(Pool!Next) \/ OfHash(Hash!Next) \/ OfSmall(Small!Next)
  \/ OfSearch(Search!Next) \/ OfBulk(Bulk!Next)
  \/ OfWalk(Walk!Next) \/ OfToken(Token!Next)
  \/ OfBase(Base!BaseNext) \/ Rest

\* What thread t does once its call has begun.
Going(t) ==
  \/ OfPool(Pool!Step(t)) \/ OfHash(Hash!Step(t)) \/ OfSmall(Small!Step(t))
  \/ OfSearch(Search!Step(t)) \/ OfBulk(Bulk!Step(t))
  \/ OfWalk(Walk!Step(t)) \/ OfToken(Token!Step(t))
  \/ OfBase(Base!Claiming(t) \/ Base!Taken(t))

Spec == Init /\ [][Next]_vars

\* A call that has begun goes on; nobody is obliged to begin one, except
\* the patient consumer of Base, which comes back for more as a dispatch thread
\* does while its queue is not empty.  The mutex of ThreadExitNotifier is passed
\* on fairly: the waiting time behind it is that of other threads' exits.
FairSpec ==
  /\ Spec
  /\ \A t \in Thread : WF_vars(Going(t)) /\ SF_vars(OfHash(Hash!Subscribe(t)) \/ OfSmall(Small!Subscribe(t)))
  /\ WF_vars(OfBase(\E max \in 1..MaxBulk : Base!LoadTail(Patient, max)))
-------------------------------------------------------------------------------
\* A block is in exactly one place: in the pool, on the free list, on its way, or
\* with one thread.  One whose SHOULD_BE_ON_FREELIST bit is set is in the hands of
\* a thread that will add it or pass it on, one just taken does not have the bit
\* (the assertion of try_get), and none goes back to the heap while a slow try_get
\* may still look at it, as the comment of FreeList demands.
BlocksSafe ==
  /\ Pool!TypeOK /\ Pool!OnePlace /\ Pool!SomebodyAdds
  /\ Pool!BitClear /\ Pool!NoUseAfterFree

\* An implicit producer has one owner, although exits, reuse of producers, slots
\* and thread ids, and resizing of the hash table interleave; a thread gets the
\* producer it had before and never what one with the same id has left behind.
ProducersSafe ==
  /\ Hash!TypeOK /\ Hash!OneOwner
  /\ IF part = "small" THEN Small!FindsItsOwn ELSE Hash!FindsItsOwn

\* A try_dequeue that comes back with less than it wanted has left nothing that
\* was there when it began, except where another consumer's claim was open; and
\* rotation keeps two ConsumerTokens on different producers.
NothingOverlooked ==
  /\ Search!TypeOK /\ Search!NothingOverlooked
  /\ part = "token" => Token!TokensSpread

\* A call to the free list is held up for ever only by calls of other threads
\* that keep finishing.  A first enqueue and a thread's exit end: nobody waits for
\* ever for a hash table that another thread allocates or has failed to allocate,
\* and a probe ends, "because at least one slot is free in the hash table".
\* A try_dequeue ends: a walk comes round although producers are added.
CallsEnd ==
  /\ Pool!CallsFinish /\ []Hash!SlotFree
  /\ \A t \in Thread :
       pc[t] # "idle" \/ at[t] # "idle" ~> pc[t] = "idle" /\ at[t] = "idle"

\* A consumer that keeps calling sees every element of a producer taken, although
\* the claims of another make its own fail.
EveryElementTaken == Base!EveryElementTaken
===============================================================================
