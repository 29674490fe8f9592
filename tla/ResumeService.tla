---------------------------- MODULE ResumeService ----------------------------
(***************************************************************************)
(* What CoExecutor promises to the awaits that call it, without threads,   *)
(* mutex or condition variable: a request to resume a coroutine is         *)
(* accepted, is started at most once, ends at most once, and is only ever  *)
(* abandoned after the executor has been told to stop.                     *)
(***************************************************************************)
EXTENDS Naturals

CONSTANT Request    \* identities of the calls to resume_coroutine

VARIABLES pending,  \* accepted, no worker has taken them yet
          running,  \* some worker is inside handle.resume()
          finished, \* resume() has returned
          stopped   \* stop() has been called

vars == <<pending, running, finished, stopped>>

Init ==
  /\ pending = {}
  /\ running = {}
  /\ finished = {}
  /\ stopped = FALSE

Submit(r) ==
  /\ r \notin pending \cup running \cup finished
  /\ pending' = pending \cup {r}
  /\ UNCHANGED <<running, finished, stopped>>

\* No request is started once stop() has been called.
Begin(r) ==
  /\ ~stopped
  /\ r \in pending
  /\ pending' = pending \ {r}
  /\ running' = running \cup {r}
  /\ UNCHANGED <<finished, stopped>>

End(r) ==
  /\ r \in running
  /\ running' = running \ {r}
  /\ finished' = finished \cup {r}
  /\ UNCHANGED <<pending, stopped>>

Stop ==
  /\ stopped' = TRUE
  /\ UNCHANGED <<pending, running, finished>>

Next ==
  \/ \E r \in Request : Submit(r) \/ Begin(r) \/ End(r)
  \/ Stop

Spec == Init /\ [][Next]_vars
==============================================================================
