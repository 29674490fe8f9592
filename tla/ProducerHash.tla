----------------------------- MODULE ProducerHash -----------------------------
(***************************************************************************)
(* How ConcurrentQueue finds the ImplicitProducer of the calling thread:   *)
(* a lock-free hash table from thread ids to producers that grows by       *)
(* chaining a larger table before the old one, the list of producers, and  *)
(* the callback that gives a producer up for reuse when its thread exits.  *)
(*                                                                         *)
(* A key equal to a thread's id is only ever written and removed by that   *)
(* thread and a slot never becomes empty again, so a search for one's own  *)
(* id is one step; an insertion is one step per slot probed.  A new thread *)
(* may get the id of one that has exited.                                  *)
(***************************************************************************)
EXTENDS Integers, Sequences, FiniteSets

CONSTANTS
  Thread,          \* the thread ids
  HashOf,          \* hash_thread_id
  HASH_SIZE,       \* INITIAL_IMPLICIT_PRODUCER_HASH_SIZE
  MaxTables,       \* bound: hash tables
  MaxFails,        \* bound: allocations that fail
  MaxExits,        \* bound: threads that exit
  Empty, Reusable, \* invalid_thread_id and invalid_thread_id2
  NoThread

HashAssumption ==
  /\ HashOf \in [Thread -> Nat]
  /\ HASH_SIZE \in Nat \ {0} /\ MaxTables \in Nat \ {0}
  /\ MaxFails \in Nat /\ MaxExits \in Nat
  /\ Empty # Reusable /\ Thread \cap {Empty, Reusable, NoThread} = {}

VARIABLES
  hash,      \* the ImplicitProducerHash objects; implicitProducerHash is the last
  count,     \* implicitProducerHashCount
  resizing,  \* implicitProducerHashResizeInProgress
  inactive,  \* ProducerBase::inactive of the producers, oldest first
  mutex,     \* the mutex of ThreadExitNotifier
  pc, loc,   \* where each thread stands, and its locals
  mine,      \* the producer whose exit listener the thread subscribed, or 0
  fails, exits   \* how often an allocation failed and a thread exited

used == <<fails, exits>>
vars == <<hash, count, resizing, inactive, mutex, pc, loc, mine, used>>

Table(capacity) ==
  [capacity |-> capacity,
   key |-> [i \in 0 .. capacity - 1 |-> Empty],
   value |-> [i \in 0 .. capacity - 1 |-> 0]]

\* Locals: main = mainHash, n = newCount, i = index or list position, p = producer.
Zero == [main |-> 0, n |-> 0, i |-> 0, p |-> 0]

Init ==
  /\ hash = <<Table(HASH_SIZE)>>
  /\ count = 0 /\ resizing = FALSE /\ inactive = <<>> /\ mutex = NoThread
  /\ pc = [t \in Thread |-> "idle"]
  /\ loc = [t \in Thread |-> Zero]
  /\ mine = [t \in Thread |-> 0]
  /\ fails = 0 /\ exits = 0

To(t, p, l) == pc' = [pc EXCEPT ![t] = p] /\ loc' = [loc EXCEPT ![t] = l]
Return(t, p) == To(t, "idle", Zero) /\ mine' = [mine EXCEPT ![t] = p]
Main(t) == hash[loc[t].main]
Half(h) == h.capacity \div 2

\* The slots of table h at which a probe for t arrives before an empty one.
Probed(h, t) ==
  LET at(k) == (HashOf[t] + k) % h.capacity IN
  {at(k) : k \in {k \in 0 .. h.capacity - 1 : \A j \in 0 .. k-1 : h.key[at(j)] # Empty}}
Found(h, t) == {i \in Probed(h, t) : h.key[i] = t}

(***************************************************************************)
(* get_or_add_implicit_producer.                                           *)
(***************************************************************************)
\* Look the id up in the current and all previous tables, the newest first.
Get(t) ==
  LET main == Len(hash)
      tables == {j \in 1..main : Found(hash[j], t) # {}}
      value(j) == hash[j].value[CHOOSE i \in Found(hash[j], t) : TRUE]
  IN
  /\ pc[t] = "idle"
  /\ \/ /\ tables = {}
        /\ To(t, "count", [Zero EXCEPT !.main = main]) /\ UNCHANGED mine
     \/ \E j \in tables :
          /\ \A k \in tables : k <= j
          /\ IF j = main THEN Return(t, value(j))
             ELSE /\ To(t, "copy", [main |-> main, n |-> 0, i |-> HashOf[t], p |-> value(j)])
                  /\ UNCHANGED mine
  /\ UNCHANGED <<hash, count, resizing, inactive, mutex, used>>

Slot(t) == loc[t].i % Main(t).capacity
KeyAt(t) == Main(t).key[Slot(t)]
Put(t) ==
  hash' = [hash EXCEPT ![loc[t].main].key[Slot(t)] = t,
                       ![loc[t].main].value[Slot(t)] = loc[t].p]
NextSlot(t, p) == To(t, p, [loc[t] EXCEPT !.i = @ + 1]) /\ UNCHANGED <<hash, mine, used>>

\* Found in an old table: lazily add it to the main one.
Copy(t) ==
  /\ pc[t] = "copy"
  /\ IF KeyAt(t) \in {Empty, Reusable} THEN Put(t) /\ Return(t, loc[t].p)
     ELSE NextSlot(t, "copy")
  /\ UNCHANGED <<count, resizing, inactive, mutex, used>>

Count(t) ==
  /\ pc[t] = "count"
  /\ count' = count + 1
  /\ To(t, "test", [loc[t] EXCEPT !.n = count + 1])
  /\ UNCHANGED <<hash, resizing, inactive, mutex, mine, used>>

\* A table half full is to be replaced, by whoever gets the resize lock.
Test(t) ==
  LET lock == loc[t].n >= Half(Main(t)) /\ ~resizing IN
  /\ pc[t] = "test"
  /\ resizing' = (resizing \/ lock)
  /\ To(t, IF lock THEN "resize" ELSE "decide", loc[t])
  /\ UNCHANGED <<hash, count, inactive, mutex, mine, used>>

\* The capacity doubled until n is below half of it; it need not exceed 4 n.
NewCapacity(h, n) ==
  {c \in 2 * h.capacity .. 4 * (n + h.capacity) :
     /\ \E k \in 1 .. n + 1 : c = h.capacity * 2 ^ k
     /\ n < c \div 2 /\ (c = 2 * h.capacity \/ n >= c \div 4)}

Resize(t) ==
  LET last == hash[Len(hash)] IN
  /\ pc[t] = "resize"
  /\ IF loc[t].n >= Half(last)
     THEN /\ Len(hash) < MaxTables
          /\ hash' \in {Append(hash, Table(c)) : c \in NewCapacity(last, loc[t].n)}
          /\ To(t, "unlock", [loc[t] EXCEPT !.main = Len(hash) + 1])
     ELSE /\ To(t, "unlock", [loc[t] EXCEPT !.main = Len(hash)])
          /\ UNCHANGED hash
  /\ UNCHANGED <<count, resizing, inactive, mutex, mine, used>>

ResizeFails(t) ==
  /\ pc[t] = "resize"
  /\ loc[t].n >= Half(hash[Len(hash)])
  /\ fails < MaxFails /\ fails' = fails + 1
  /\ count' = count - 1
  /\ To(t, "giveup", Zero)
  /\ UNCHANGED <<hash, resizing, inactive, mutex, mine, exits>>

\* Fault: the lock is kept when the allocation fails.
UnlockForgotten(t) ==
  /\ pc[t] \in {"unlock", "giveup"}
  /\ resizing' = (pc[t] = "giveup")
  /\ To(t, IF pc[t] = "unlock" THEN "decide" ELSE "idle", loc[t])
  /\ UNCHANGED <<hash, count, inactive, mutex, mine, used>>

Unlock(t) ==
  /\ pc[t] \in {"unlock", "giveup"}
  /\ resizing' = FALSE
  /\ To(t, IF pc[t] = "unlock" THEN "decide" ELSE "idle", loc[t])
  /\ UNCHANGED <<hash, count, inactive, mutex, mine, used>>

\* Fault: a full table is added to as well.
DecideAlways(t) ==
  /\ pc[t] = "decide"
  /\ To(t, "walk", [loc[t] EXCEPT !.i = Len(inactive)])
  /\ UNCHANGED <<hash, count, resizing, inactive, mutex, mine, used>>

\* Less than three quarters full: add to this table; otherwise wait.
Decide(t) ==
  /\ pc[t] = "decide"
  /\ IF loc[t].n < Half(Main(t)) + Main(t).capacity \div 4
     THEN To(t, "walk", [loc[t] EXCEPT !.i = Len(inactive)])
     ELSE To(t, "test", [loc[t] EXCEPT !.main = Len(hash)])
  /\ UNCHANGED <<hash, count, resizing, inactive, mutex, mine, used>>

\* Fault: a producer found inactive is taken without a compare-and-swap.
WalkNoSwap(t) ==
  /\ pc[t] = "walk" /\ loc[t].i > 0
  /\ IF inactive[loc[t].i]
     THEN /\ To(t, "subscribe", [loc[t] EXCEPT !.p = loc[t].i])
          /\ UNCHANGED inactive
     ELSE /\ To(t, "walk", [loc[t] EXCEPT !.i = @ - 1])
          /\ UNCHANGED inactive
  /\ UNCHANGED <<hash, count, resizing, mutex, mine, used>>

\* recycle_or_create_producer: the first inactive producer of the list ...
Walk(t) ==
  /\ pc[t] = "walk" /\ loc[t].i > 0
  /\ IF inactive[loc[t].i]
     THEN /\ inactive' = [inactive EXCEPT ![loc[t].i] = FALSE]
          /\ To(t, "subscribe", [loc[t] EXCEPT !.p = loc[t].i])
     ELSE /\ To(t, "walk", [loc[t] EXCEPT !.i = @ - 1])
          /\ UNCHANGED inactive
  /\ UNCHANGED <<hash, count, resizing, mutex, mine, used>>

\* ... or a new one, pushed on the list by add_producer.
Create(t) ==
  /\ pc[t] = "walk" /\ loc[t].i = 0
  /\ inactive' = Append(inactive, FALSE)
  /\ To(t, "subscribe", [loc[t] EXCEPT !.p = Len(inactive) + 1])
  /\ UNCHANGED <<hash, count, resizing, mutex, mine, used>>

CreateFails(t) ==
  /\ pc[t] = "walk" /\ loc[t].i = 0
  /\ fails < MaxFails /\ fails' = fails + 1
  /\ count' = count - 1
  /\ To(t, "idle", Zero)
  /\ UNCHANGED <<hash, resizing, inactive, mutex, mine, exits>>

\* ThreadExitNotifier::subscribe.
Subscribe(t) ==
  /\ pc[t] = "subscribe" /\ mutex = NoThread
  /\ To(t, "probe", [loc[t] EXCEPT !.i = HashOf[t]])
  /\ UNCHANGED <<hash, count, resizing, inactive, mutex, mine, used>>

Probe(t) ==
  /\ pc[t] = "probe"
  /\ CASE KeyAt(t) = Reusable -> Put(t) /\ To(t, "uncount", loc[t]) /\ UNCHANGED mine
       [] KeyAt(t) = Empty -> Put(t) /\ Return(t, loc[t].p)
       [] OTHER -> NextSlot(t, "probe")
  /\ UNCHANGED <<count, resizing, inactive, mutex, used>>

\* The slot was "already counted as a used slot".
Uncount(t) ==
  /\ pc[t] = "uncount"
  /\ count' = count - 1
  /\ Return(t, loc[t].p)
  /\ UNCHANGED <<hash, resizing, inactive, mutex, used>>

(***************************************************************************)
(* ~ThreadExitNotifier and implicit_producer_thread_exited, under the      *)
(* mutex: remove the id from every table, then mark the producer inactive. *)
(***************************************************************************)
Exit(t) ==
  /\ pc[t] = "idle" /\ mine[t] # 0 /\ mutex = NoThread
  /\ exits < MaxExits /\ exits' = exits + 1
  /\ mutex' = t
  /\ To(t, "exit", [Zero EXCEPT !.main = Len(hash)])
  /\ UNCHANGED <<hash, count, resizing, inactive, mine, fails>>

\* Fault: only the current table is searched.
RemoveFromMain(t) ==
  /\ pc[t] = "exit" /\ loc[t].main > 0
  /\ hash' = [hash EXCEPT ![loc[t].main].key =
       [i \in DOMAIN @ |-> IF i \in Found(Main(t), t) THEN Reusable ELSE @[i]]]
  /\ To(t, "exit", Zero)
  /\ UNCHANGED <<count, resizing, inactive, mutex, mine, used>>

Remove(t) ==
  /\ pc[t] = "exit" /\ loc[t].main > 0
  /\ hash' = [hash EXCEPT ![loc[t].main].key =
       [i \in DOMAIN @ |-> IF i \in Found(Main(t), t) THEN Reusable ELSE @[i]]]
  /\ To(t, "exit", [loc[t] EXCEPT !.main = @ - 1])
  /\ UNCHANGED <<count, resizing, inactive, mutex, mine, used>>

Exited(t) ==
  /\ pc[t] = "exit" /\ loc[t].main = 0
  /\ inactive' = [inactive EXCEPT ![mine[t]] = TRUE]
  /\ mutex' = NoThread
  /\ Return(t, 0)
  /\ UNCHANGED <<hash, count, resizing, used>>

\* The steps of a call, or an exit, that has begun.
Step(t) ==
  \/ Copy(t) \/ Count(t) \/ Test(t) \/ Resize(t) \/ ResizeFails(t) \/ Unlock(t)
  \/ Decide(t) \/ Walk(t) \/ Create(t) \/ CreateFails(t) \/ Subscribe(t)
  \/ Probe(t) \/ Uncount(t) \/ Remove(t) \/ Exited(t)

Next == \E t \in Thread : Get(t) \/ Exit(t) \/ Step(t)

Spec == Init /\ [][Next]_vars
-------------------------------------------------------------------------------
\* Types; at most one thread is in the section the resize flag guards.
TypeOK ==
  /\ count \in 0 .. Cardinality(Thread) + exits
  /\ resizing \in BOOLEAN /\ mutex \in Thread \cup {NoThread}
  /\ inactive \in Seq(BOOLEAN) /\ mine \in [Thread -> 0 .. Len(inactive)]
  /\ Cardinality({t \in Thread : pc[t] \in {"resize", "unlock", "giveup"}}) =
       IF resizing THEN 1 ELSE 0

\* The producer a thread has or is about to return.
Holds(t) == {mine[t], IF pc[t] \in {"subscribe", "probe", "uncount", "copy"} THEN loc[t].p ELSE 0} \ {0}

\* A producer is a single-producer queue: no two threads hold the same one, and
\* none holds one that is marked inactive, however exits, reuse of producers,
\* slots and thread ids, and resizing interleave.
OneOwner ==
  \A t \in Thread :
    /\ Cardinality(Holds(t)) <= 1
    /\ \A p \in Holds(t) : ~inactive[p] /\ \A u \in Thread \ {t} : p \notin Holds(u)

\* A thread that calls again finds the producer it had, so its elements stay in
\* order, and a new thread never finds what one with its id has left behind.
FindsItsOwn ==
  \A t \in Thread : pc[t] = "idle" =>
    UNION {{hash[j].value[i] : i \in Found(hash[j], t)} : j \in 1 .. Len(hash)} =
      {mine[t]} \ {0}

\* "Not an infinite loop because at least one slot is free in the hash table."
SlotFree ==
  \A j \in 1 .. Len(hash) : \E i \in DOMAIN hash[j].key : hash[j].key[i] = Empty
===============================================================================
