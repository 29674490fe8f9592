------------------------------ MODULE TryDequeue ------------------------------
(***************************************************************************)
(* The dequeueing operations of ConcurrentQueue, which search the          *)
(* sub-queues of all producers: try_dequeue, which begins with the fullest *)
(* of the first few; try_dequeue_bulk and try_dequeue_non_interleaved      *)
(* (max = 1), which go down the list; and those with a ConsumerToken,      *)
(* which begin at a designated producer and move all tokens on when a      *)
(* quota is used up.  A sub-queue is the counter protocol of ProducerBase, *)
(* in three steps: look, claim, settle.                                    *)
(*                                                                         *)
(* Producers are numbered in the order in which they were pushed on the    *)
(* list; producerListTail is the number of producers listed and next_prod  *)
(* of p is p - 1.                                                          *)
(***************************************************************************)
EXTENDS Integers, FiniteSets

CONSTANTS
  Consumer,
  Kinds,          \* the operations that are called
  InitialOffset,  \* ConsumerToken::initialOffset, which counts the tokens
  QUOTA,          \* EXPLICIT_CONSUMER_CONSUMPTION_QUOTA_BEFORE_ROTATE
  ListedFirst,    \* producers on the list in the initial state
  MaxProducers,   \* bound: producers
  MaxTail,        \* bound: elements per producer
  MaxBulk,        \* bound: elements per bulk operation
  MaxOver         \* bound: claims given back per producer

TryDequeueAssumption ==
  /\ Kinds \subseteq {"any", "bulk", "token"}
  /\ InitialOffset \in [Consumer -> Nat] /\ QUOTA \in Nat \ {0}
  /\ MaxProducers \in Nat /\ ListedFirst \in 0 .. MaxProducers
  /\ MaxBulk \in Nat \ {0} /\ MaxTail \in Nat

VARIABLES
  producerCount, listed,
  tail, head, opt, over,   \* the counters of each producer
  globalOffset,            \* globalExplicitConsumerOffset
  token,                   \* the ConsumerToken of each consumer
  pc, loc,                 \* where each consumer stands, and its locals
  start, disturbed         \* history of each call: the tails at its beginning, and the
                           \* producers it missed only because of another's open claim

queueVars == <<producerCount, listed, tail, head, opt, over>>
vars == <<queueVars, globalOffset, token, pc, loc, start, disturbed>>

Producer == 1 .. MaxProducers

\* kind of call; ptr = the producer at hand, best and size = the fullest so far,
\* n = nonEmptyCount; last = where the walk of a token wraps to; max = elements
\* still wanted; seen, want, my = locals of dequeue_bulk.
Zero == [kind |-> "none", ptr |-> 0, best |-> 0, size |-> 0, n |-> 0, last |-> 0,
         max |-> 0, seen |-> 0, want |-> 0, my |-> 0]

Init ==
  /\ producerCount = ListedFirst /\ listed = ListedFirst
  /\ tail = [p \in Producer |-> 0] /\ head = [p \in Producer |-> 0]
  /\ opt = [p \in Producer |-> 0] /\ over = [p \in Producer |-> 0]
  /\ globalOffset = 0
  /\ token = [c \in Consumer |-> [desired |-> 0, current |-> 0, known |-> -1, consumed |-> 0]]
  /\ pc = [c \in Consumer |-> "idle"]
  /\ loc = [c \in Consumer |-> Zero]
  /\ start = [c \in Consumer |-> tail]
  /\ disturbed = [c \in Consumer |-> {}]

To(c, p, l) == pc' = [pc EXCEPT ![c] = p] /\ loc' = [loc EXCEPT ![c] = l]

(***************************************************************************)
(* Producers: add_producer counts first and pushes then; enqueue.          *)
(***************************************************************************)
CountProducer ==
  /\ producerCount = listed /\ producerCount < MaxProducers
  /\ producerCount' = producerCount + 1
  /\ UNCHANGED <<listed, tail, head, opt, over, globalOffset, token, pc, loc, start, disturbed>>

PushProducer ==
  /\ listed < producerCount
  /\ listed' = listed + 1
  /\ UNCHANGED <<producerCount, tail, head, opt, over, globalOffset, token, pc, loc, start,
                 disturbed>>

Enqueue(p) ==
  /\ p <= listed /\ tail[p] < MaxTail
  /\ tail' = [tail EXCEPT ![p] = @ + 1]
  /\ UNCHANGED <<producerCount, listed, head, opt, over, globalOffset, token, pc, loc, start,
                 disturbed>>

(***************************************************************************)
(* Where a call begins.                                                    *)
(***************************************************************************)
Begin(c) ==
  /\ pc[c] = "idle"
  /\ \A p \in Producer : over[p] < MaxOver
  /\ start' = [start EXCEPT ![c] = tail]
  /\ UNCHANGED disturbed

\* The next producer to try, or the end of the search.
Try(c, l) == To(c, IF l.ptr = 0 THEN "failed" ELSE "look", l)

\* try_dequeue(item).
CallAny(c) ==
  /\ Begin(c)
  /\ To(c, "size", [Zero EXCEPT !.kind = "any", !.ptr = listed, !.max = 1])
  /\ UNCHANGED <<queueVars, globalOffset, token>>

\* try_dequeue_bulk(itemFirst, max) and try_dequeue_non_interleaved.
CallBulk(c, max) ==
  /\ Begin(c)
  /\ Try(c, [Zero EXCEPT !.kind = "bulk", !.ptr = listed, !.max = max])
  /\ UNCHANGED <<queueVars, globalOffset, token>>

\* size_approx of one producer after the other, until three are not empty; then
\* the fullest is tried first.
Size(c) ==
  LET l == loc[c]
      size == IF tail[l.ptr] > head[l.ptr] THEN tail[l.ptr] - head[l.ptr] ELSE 0
  IN
  /\ pc[c] = "size"
  /\ IF l.n < 3 /\ l.ptr > 0
     THEN To(c, "size", [l EXCEPT !.ptr = @ - 1,
                                  !.n = IF size > 0 THEN @ + 1 ELSE @,
                                  !.best = IF size > l.size THEN l.ptr ELSE @,
                                  !.size = IF size > @ THEN size ELSE @])
     ELSE To(c, IF l.n = 0 THEN "failed" ELSE "look", [l EXCEPT !.ptr = l.best])
  /\ UNCHANGED <<queueVars, globalOffset, token, start, disturbed>>

\* k steps along the list from p, which wraps around to listed.
Along(p, k) == ((p - 1 - k) % listed) + 1

\* Fault: the token does not remember the offset it followed.
RotateForgetful(c) ==
  LET first == token[c].desired = 0
      at == IF first THEN Along(listed, producerCount - 1 - (InitialOffset[c] % producerCount))
            ELSE token[c].desired
      to == Along(at, (globalOffset - token[c].known) % producerCount)
  IN [desired |-> to, current |-> to, known |-> token[c].known, consumed |-> 0]

\* update_current_producer_after_rotation.
Rotate(c) ==
  LET first == token[c].desired = 0
      at == IF first THEN Along(listed, producerCount - 1 - (InitialOffset[c] % producerCount))
            ELSE token[c].desired
      to == Along(at, (globalOffset - token[c].known) % producerCount)
  IN [desired |-> to, current |-> to, known |-> globalOffset, consumed |-> 0]

\* try_dequeue and try_dequeue_bulk with a token.
CallToken(c, max) ==
  /\ Begin(c)
  /\ IF token[c].desired # 0 /\ token[c].known = globalOffset
     THEN /\ UNCHANGED token
          /\ Try(c, [Zero EXCEPT !.kind = "token", !.ptr = token[c].current, !.max = max])
     ELSE IF listed = 0 /\ token[c].desired = 0
     THEN UNCHANGED token /\ To(c, "failed", Zero)
     ELSE /\ token' = [token EXCEPT ![c] = Rotate(c)]
          /\ Try(c, [Zero EXCEPT !.kind = "token", !.ptr = Rotate(c).current, !.max = max])
  /\ UNCHANGED <<queueVars, globalOffset>>

(***************************************************************************)
(* What follows after g elements were taken from the producer at hand.     *)
(***************************************************************************)
\* The locals of c's search, those of dequeue_bulk cleared.
Search(c) == [loc[c] EXCEPT !.seen = 0, !.want = 0, !.my = 0]

\* Fault: when the fullest producer turns out to be empty, no other is tried.
AfterAnyBestOnly(c, g) ==
  To(c, IF g = 1 THEN "done" ELSE "failed", Zero)

\* try_dequeue: done, or the whole list without the fullest.
AfterAny(c, g) ==
  LET l == Search(c)
      from == IF l.n > 0 THEN listed ELSE l.ptr - 1
      next == IF from > 0 /\ from = l.best THEN from - 1 ELSE from
  IN IF g = 1 THEN To(c, "done", Zero)
     ELSE Try(c, [l EXCEPT !.n = 0, !.ptr = next])

AfterBulk(c, g) ==
  LET l == Search(c) IN
  IF g = l.max THEN To(c, "done", Zero)
  ELSE Try(c, [l EXCEPT !.max = @ - g, !.ptr = @ - 1])

\* Has the token taken its share from the current producer?  try_dequeue tests ==,
\* try_dequeue_bulk >=.
QuotaReached(n, max) == IF max = 1 THEN n = QUOTA ELSE n >= QUOTA

\* Fault: the walk ends at the end of the list.
AfterTokenNoWrap(c, g) ==
  LET l == Search(c)
      t == token[c]
      atFirst == l.last = 0
      last == IF atFirst THEN listed ELSE l.last
      next == IF l.ptr = 1 THEN last ELSE l.ptr - 1
      current == IF ~atFirst /\ g > 0 THEN l.ptr ELSE t.current
  IN
  /\ token' = [token EXCEPT ![c].current = current,
                            ![c].consumed = IF atFirst THEN @ + g ELSE IF g > 0 THEN g ELSE @]
  /\ globalOffset' = IF atFirst /\ g = l.max /\ QuotaReached(t.consumed + g, l.max)
                     THEN globalOffset + 1 ELSE globalOffset
  /\ IF g = l.max THEN To(c, "done", Zero)
     ELSE IF next = current \/ l.ptr = 1 THEN To(c, "failed", Zero)
     ELSE To(c, "look", [l EXCEPT !.max = @ - g, !.last = last, !.ptr = next])

\* Fault: whether the walk is round is not tested after it wrapped.
AfterTokenWrapUntested(c, g) ==
  LET l == Search(c)
      t == token[c]
      atFirst == l.last = 0
      last == IF atFirst THEN listed ELSE l.last
      next == IF l.ptr = 1 THEN last ELSE l.ptr - 1
      current == IF ~atFirst /\ g > 0 THEN l.ptr ELSE t.current
  IN
  /\ token' = [token EXCEPT ![c].current = current,
                            ![c].consumed = IF atFirst THEN @ + g ELSE IF g > 0 THEN g ELSE @]
  /\ globalOffset' = IF atFirst /\ g = l.max /\ QuotaReached(t.consumed + g, l.max)
                     THEN globalOffset + 1 ELSE globalOffset
  /\ IF g = l.max THEN To(c, "done", Zero)
     ELSE IF l.ptr - 1 = current THEN To(c, "failed", Zero)
     ELSE To(c, "look", [l EXCEPT !.max = @ - g, !.last = last, !.ptr = next])

\* With a token: the first producer counts against the quota; then round the
\* list, wrapping to its tail as it is at that moment, until the current
\* producer comes again.
AfterToken(c, g) ==
  LET l == Search(c)
      t == token[c]
      atFirst == l.last = 0
      last == IF atFirst THEN listed ELSE l.last
      next == IF l.ptr = 1 THEN last ELSE l.ptr - 1
      current == IF ~atFirst /\ g > 0 THEN l.ptr ELSE t.current
  IN
  /\ token' = [token EXCEPT ![c].current = current,
                            ![c].consumed = IF atFirst THEN @ + g ELSE IF g > 0 THEN g ELSE @]
  /\ globalOffset' = IF atFirst /\ g = l.max /\ QuotaReached(t.consumed + g, l.max)
                     THEN globalOffset + 1 ELSE globalOffset
  /\ IF g = l.max THEN To(c, "done", Zero)
     ELSE IF next = current THEN To(c, "failed", Zero)
     ELSE To(c, "look", [l EXCEPT !.max = @ - g, !.last = last, !.ptr = next])

After(c, g) ==
  CASE loc[c].kind = "any" -> AfterAny(c, g) /\ UNCHANGED <<token, globalOffset>>
    [] loc[c].kind = "bulk" -> AfterBulk(c, g) /\ UNCHANGED <<token, globalOffset>>
    [] loc[c].kind = "token" -> AfterToken(c, g)

(***************************************************************************)
(* dequeue_bulk of the producer at hand.                                   *)
(***************************************************************************)
Least(a, b) == IF a < b THEN a ELSE b
OpenByOthers(c, p) == \E d \in Consumer \ {c} : pc[d] = "settle" /\ loc[d].ptr = p

\* History: c came away from p with less than it wanted.
Missed(c, p, raced) ==
  disturbed' = IF raced THEN [disturbed EXCEPT ![c] = @ \cup {p}] ELSE disturbed

Look(c) ==
  LET p == loc[c].ptr
      desired == tail[p] - (opt[p] - over[p])
  IN
  /\ pc[c] = "look"
  /\ IF desired > 0
     THEN /\ To(c, "claim", [loc[c] EXCEPT !.want = Least(desired, loc[c].max), !.seen = over[p]])
          /\ UNCHANGED <<globalOffset, token, disturbed>>
     ELSE After(c, 0) /\ Missed(c, p, OpenByOthers(c, p))
  /\ UNCHANGED <<queueVars, start>>

Claim(c) ==
  /\ pc[c] = "claim"
  /\ opt' = [opt EXCEPT ![loc[c].ptr] = @ + loc[c].want]
  /\ To(c, "settle", [loc[c] EXCEPT !.my = opt[loc[c].ptr]])
  /\ UNCHANGED <<producerCount, listed, tail, head, over, globalOffset, token, start, disturbed>>

\* What is there is taken, the rest of the claim given back.
Settle(c) ==
  LET p == loc[c].ptr
      actual == tail[p] - (loc[c].my - loc[c].seen)
      got == IF actual > 0 THEN Least(loc[c].want, actual) ELSE 0
  IN
  /\ pc[c] = "settle"
  /\ head' = [head EXCEPT ![p] = @ + got]
  /\ over' = [over EXCEPT ![p] = @ + (loc[c].want - got)]
  /\ After(c, got)
  /\ Missed(c, p, got < loc[c].max /\ (over[p] # loc[c].seen \/ OpenByOthers(c, p)))
  /\ UNCHANGED <<producerCount, listed, tail, opt, start>>

Return(c) ==
  /\ pc[c] \in {"done", "failed"}
  /\ To(c, "idle", Zero)
  /\ start' = [start EXCEPT ![c] = [p \in Producer |-> 0]]
  /\ disturbed' = [disturbed EXCEPT ![c] = {}]
  /\ UNCHANGED <<queueVars, globalOffset, token>>

Call(c) ==
  \/ "any" \in Kinds /\ CallAny(c)
  \/ "bulk" \in Kinds /\ \E max \in 1..MaxBulk : CallBulk(c, max)
  \/ "token" \in Kinds /\ \E max \in 1..MaxBulk : CallToken(c, max)

Step(c) == Size(c) \/ Look(c) \/ Claim(c) \/ Settle(c) \/ Return(c)

Next ==
  \/ CountProducer \/ PushProducer \/ \E p \in Producer : Enqueue(p)
  \/ \E c \in Consumer : Call(c) \/ Step(c)

Spec == Init /\ [][Next]_vars
-------------------------------------------------------------------------------
\* Types; no stream is read past its tail, and tokens point into the list.
TypeOK ==
  /\ listed <= producerCount /\ producerCount <= MaxProducers
  /\ \A p \in Producer : 0 <= head[p] /\ head[p] <= tail[p] /\ tail[p] <= MaxTail
  /\ \A c \in Consumer :
       /\ token[c].desired \in 0 .. listed /\ token[c].current \in 0 .. listed
       /\ loc[c].ptr \in 0 .. listed /\ disturbed[c] \subseteq Producer

\* "Returns false if all producer streams appeared empty at the time they were
\* checked": a call that comes back with less than it wanted has tried every
\* stream and left nothing that was there when it began, except in a stream
\* where another consumer's claim was open or given back just then.
NothingOverlooked ==
  \A c \in Consumer : pc[c] = "failed" =>
    \A p \in Producer \ disturbed[c] : start[c][p] <= head[p]

\* Rotation moves all tokens by the same amount: two tokens that follow the same
\* global offset are designated different producers, if there are enough of
\* them and none was added since.
TokensSpread ==
  listed = ListedFirst /\ producerCount = ListedFirst =>
    \A c, d \in Consumer :
      /\ token[c].desired # 0 /\ token[d].desired # 0 /\ token[c].known = token[d].known
      /\ InitialOffset[c] % listed # InitialOffset[d] % listed
      => token[c].desired # token[d].desired
===============================================================================
