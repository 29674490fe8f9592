------------------------- MODULE LightweightSemaphore -------------------------
(***************************************************************************)
(* LightweightSemaphore of include/data_proxy/lightweightsemaphore.h: an   *)
(* atomic count in front of an operating-system semaphore.  A negative     *)
(* count is the number of waiters that a signal has yet to release; a      *)
(* waiter whose time is up takes its decrement back unless a signal has    *)
(* meanwhile counted it in.  tryWait and wait are tryWaitMany and waitMany *)
(* with max = 1; a loop around a compare-and-swap is the swap that         *)
(* succeeds.                                                               *)
(***************************************************************************)
EXTENDS Integers, FiniteSets

CONSTANTS
  Thread,
  MaxWait,    \* bound: permits one call asks for
  MaxSignal   \* bound: permits ever signalled

ASSUME SemaphoreAssumption ==
  IsFiniteSet(Thread) /\ MaxWait \in Nat \ {0} /\ MaxSignal \in Nat

VARIABLES
  m_count,
  m_sema,     \* external: the value of the operating-system semaphore
  pc,
  kind,       \* how each thread waits: "try", "timed" or "forever"
  max,        \* how many permits it asked for
  got,        \* how many it has got
  owe,        \* posts to m_sema it has still to make
  signalled,  \* history: permits signalled and permits handed out
  granted

semVars == <<m_count, m_sema, pc, kind, max, got, owe, signalled, granted>>

SemInit ==
  /\ m_count = 0 /\ m_sema = 0 /\ signalled = 0 /\ granted = 0
  /\ pc = [t \in Thread |-> "idle"]
  /\ kind = [t \in Thread |-> "try"]
  /\ max = [t \in Thread |-> 0]
  /\ got = [t \in Thread |-> 0]
  /\ owe = [t \in Thread |-> 0]

Goto(t, p) == pc' = [pc EXCEPT ![t] = p]
Smaller(a, b) == IF a < b THEN a ELSE b

(***************************************************************************)
(* tryWaitMany(n), wait and waitMany(n, timeout).                          *)
(***************************************************************************)
Call(t, k, n) ==
  /\ pc[t] = "idle"
  /\ Goto(t, "try")
  /\ kind' = [kind EXCEPT ![t] = k]
  /\ max' = [max EXCEPT ![t] = n]
  /\ UNCHANGED <<m_count, m_sema, got, owe, signalled, granted>>

\* Take what is there, up to max: in tryWaitMany and while spinning.
TakeMany(t) ==
  LET n == Smaller(m_count, max[t]) IN
  /\ pc[t] \in {"try", "spin"} /\ m_count > 0
  /\ m_count' = m_count - n
  /\ got' = [got EXCEPT ![t] = n]
  /\ granted' = granted + n
  /\ Goto(t, "return")
  /\ UNCHANGED <<m_sema, kind, max, owe, signalled>>

TryFails(t) ==
  /\ pc[t] = "try" /\ m_count <= 0
  /\ Goto(t, IF kind[t] = "try" THEN "return" ELSE "spin")
  /\ UNCHANGED <<m_count, m_sema, kind, max, got, owe, signalled, granted>>

Granted(t) ==
  /\ got' = [got EXCEPT ![t] = 1]
  /\ granted' = granted + 1
  /\ Goto(t, "more")

\* m_maxSpins are over: fetch_sub.
FetchSub(t) ==
  /\ pc[t] = "spin"
  /\ m_count' = m_count - 1
  /\ IF m_count > 0 THEN Granted(t) ELSE Goto(t, "sema") /\ UNCHANGED <<got, granted>>
  /\ UNCHANGED <<m_sema, kind, max, owe, signalled>>

\* Fault: whether m_sema was posted is not tested after the time was up.
SemaWaitUntested(t) ==
  /\ pc[t] = "late" \/ (pc[t] = "sema" /\ m_sema > 0)
  /\ m_sema' = m_sema - 1
  /\ Granted(t)
  /\ UNCHANGED <<m_count, kind, max, owe, signalled>>

\* m_sema.wait or timed_wait succeeds, or try_wait after the time was up.
SemaWait(t) ==
  /\ pc[t] \in {"sema", "late"} /\ m_sema > 0
  /\ m_sema' = m_sema - 1
  /\ Granted(t)
  /\ UNCHANGED <<m_count, kind, max, owe, signalled>>

TimeOut(t) ==
  /\ pc[t] = "sema" /\ kind[t] = "timed"
  /\ Goto(t, "undo")
  /\ UNCHANGED <<m_count, m_sema, kind, max, got, owe, signalled, granted>>

\* Fault: the decrement is taken back whatever the count.
UndoAlways(t) ==
  /\ pc[t] = "undo"
  /\ m_count' = m_count + 1
  /\ Goto(t, "return")
  /\ UNCHANGED <<m_sema, kind, max, got, owe, signalled, granted>>

\* Not counted in by a signal: take the decrement back and give up.
Undo(t) ==
  /\ pc[t] = "undo" /\ m_count < 0
  /\ m_count' = m_count + 1
  /\ Goto(t, "return")
  /\ UNCHANGED <<m_sema, kind, max, got, owe, signalled, granted>>

\* Perhaps counted in: a post to m_sema must be on its way.
UndoLate(t) ==
  /\ pc[t] = "undo" /\ m_count >= 0
  /\ Goto(t, "late")
  /\ UNCHANGED <<m_count, m_sema, kind, max, got, owe, signalled, granted>>

TryAgain(t) ==
  /\ pc[t] = "late" /\ m_sema = 0
  /\ Goto(t, "undo")
  /\ UNCHANGED <<m_count, m_sema, kind, max, got, owe, signalled, granted>>

\* 1 + tryWaitMany(max - 1).
TakeMore(t) ==
  LET n == IF m_count > 0 THEN Smaller(m_count, max[t] - 1) ELSE 0 IN
  /\ pc[t] = "more"
  /\ m_count' = m_count - n
  /\ got' = [got EXCEPT ![t] = @ + n]
  /\ granted' = granted + n
  /\ Goto(t, "return")
  /\ UNCHANGED <<m_sema, kind, max, owe, signalled>>

Return(t) ==
  /\ pc[t] = "return"
  /\ Goto(t, "idle")
  /\ got' = [got EXCEPT ![t] = 0]
  /\ max' = [max EXCEPT ![t] = 0]
  /\ kind' = [kind EXCEPT ![t] = "try"]
  /\ UNCHANGED <<m_count, m_sema, owe, signalled, granted>>

(***************************************************************************)
(* signal(n): the count first, then a post for each waiter it counts in.   *)
(***************************************************************************)
\* Fault: every unit is posted, not only those somebody waits for.
SignalAll(t, n) ==
  /\ pc[t] = "idle" /\ signalled + n <= MaxSignal
  /\ m_count' = m_count + n
  /\ owe' = [owe EXCEPT ![t] = n]
  /\ signalled' = signalled + n
  /\ Goto(t, "post")
  /\ UNCHANGED <<m_sema, kind, max, got, granted>>

\* Fault: at most one waiter is released.
SignalOne(t, n) ==
  /\ pc[t] = "idle" /\ signalled + n <= MaxSignal
  /\ m_count' = m_count + n
  /\ owe' = [owe EXCEPT ![t] = IF m_count < 0 THEN 1 ELSE 0]
  /\ signalled' = signalled + n
  /\ Goto(t, "post")
  /\ UNCHANGED <<m_sema, kind, max, got, granted>>

Signal(t, n) ==
  /\ pc[t] = "idle" /\ signalled + n <= MaxSignal
  /\ m_count' = m_count + n
  /\ owe' = [owe EXCEPT ![t] = IF m_count < 0 THEN Smaller(-m_count, n) ELSE 0]
  /\ signalled' = signalled + n
  /\ Goto(t, "post")
  /\ UNCHANGED <<m_sema, kind, max, got, granted>>

Post(t) ==
  /\ pc[t] = "post" /\ owe[t] > 0
  /\ m_sema' = m_sema + 1
  /\ owe' = [owe EXCEPT ![t] = @ - 1]
  /\ UNCHANGED <<m_count, pc, kind, max, got, signalled, granted>>

Posted(t) ==
  /\ pc[t] = "post" /\ owe[t] = 0
  /\ Goto(t, "idle")
  /\ UNCHANGED <<m_count, m_sema, kind, max, got, owe, signalled, granted>>

\* The steps of a call that has begun, up to its return.
Waiting(t) ==
  \/ TakeMany(t) \/ TryFails(t) \/ FetchSub(t) \/ SemaWait(t) \/ Undo(t)
  \/ UndoLate(t) \/ TryAgain(t) \/ TakeMore(t)
Signalling(t) == Post(t) \/ Posted(t)

SemNext ==
  \E t \in Thread :
    \/ \E k \in {"try", "timed", "forever"}, n \in 1..MaxWait : Call(t, k, n)
    \/ Waiting(t) \/ TimeOut(t) \/ Return(t)
    \/ \E n \in 1..MaxSignal : Signal(t, n)
    \/ Signalling(t)

SemSpec == SemInit /\ [][SemNext]_semVars

-------------------------------------------------------------------------------
\* Types: the operating-system semaphore never goes below zero.
SemTypeOK ==
  /\ m_count \in Int /\ m_sema \in Nat /\ signalled \in Nat /\ granted \in Nat
  /\ pc \in [Thread -> {"idle", "try", "spin", "sema", "undo", "late", "more", "return", "post"}]
  /\ kind \in [Thread -> {"try", "timed", "forever"}]
  /\ max \in [Thread -> Nat] /\ got \in [Thread -> Nat] /\ owe \in [Thread -> Nat]

\* Threads that have decremented m_count and are neither served nor gone.
Waiter == {t \in Thread : pc[t] \in {"sema", "undo", "late"}}

\* The posts that threads have still to make.
Owed == UNION {{t} \X (1 .. owe[t]) : t \in Thread}

\* Nobody gets a permit that was not signalled, and whoever waits without a
\* timeout gets one (the assertion of waitMany).
PermitsBacked ==
  /\ granted <= signalled
  /\ \A t \in Thread : pc[t] = "return" /\ kind[t] = "forever" => got[t] > 0

\* A timeout that races with signals neither eats a permit nor leaves one
\* behind: what was signalled is handed out, on the count, or reserved for a
\* waiter, and m_sema has or will get a post for each waiter counted in.
Conserved ==
  /\ signalled = granted + m_count + Cardinality(Waiter)
  /\ m_sema + Cardinality(Owed) =
       Cardinality(Waiter) - (IF m_count < 0 THEN -m_count ELSE 0)

\* Nobody sleeps on m_sema while a permit is left: with no post pending, a
\* sleeper means that all permits are handed out.
NoLostSignal ==
  (\E t \in Thread : pc[t] = "sema") /\ m_sema = 0 /\ Owed = {} => granted = signalled

\* A waiter whose time is up returns: a post it counts on does arrive.
TimedOutReturns ==
  \A t \in Thread : pc[t] \in {"undo", "late"} ~> pc[t] = "return"

\* The accounting of permits as a whole: types, no permit invented, lost or left
\* behind, and no sleeper beside one.
PermitsSound == SemTypeOK /\ PermitsBacked /\ Conserved /\ NoLostSignal
===============================================================================
