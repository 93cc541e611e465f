------------------------- MODULE JobQueueRefinement -------------------------
(***************************************************************************)
(* JobQueue implements JobLifecycle: the statuses a row can have and       *)
(* its absence are mapped to the four states a client can tell apart.      *)
(***************************************************************************)
EXTENDS JobQueue

LifecycleState(j) ==
    CASE status[j] = "ABSENT"  -> "none"
      [] status[j] = "DELETED" -> "removed"
      [] Active(j)             -> "open"
      [] Terminal(j)           -> "closed"

Lifecycle == INSTANCE JobLifecycle WITH state <- [j \in Jobs |-> LifecycleState(j)]

\* Every step of the delivery core, seen from outside, accepts, closes,
\* reopens or removes jobs, never resurrects a removed one and never opens a
\* second job of a document (the promise behind uq_active_job_document).
ImplementsLifecycle == Lifecycle!Spec
=============================================================================
