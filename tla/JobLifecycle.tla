---------------------------- MODULE JobLifecycle ----------------------------
(***************************************************************************)
(* What the job tables promise to everyone outside the delivery core: a    *)
(* job is accepted once, is open or closed, may be reopened by a retry,    *)
(* and is gone for good once it has been removed; a document never has two *)
(* open jobs.  JobQueue implements it (JobQueueRefinement), and the        *)
(* statements of deletions, webhooks and retries do (JobRetention).        *)
(***************************************************************************)
CONSTANTS Jobs, Docs, DocOf

VARIABLE state    \* state[j]: none, open, closed or removed

\* No other job of the document is open.
Alone(j) == \A k \in Jobs \ {j} : DocOf[k] = DocOf[j] => state[k] # "open"

Init == state = [j \in Jobs |-> "none"]

Accept(j) ==
    /\ state[j] = "none"
    /\ Alone(j)
    /\ state' = [state EXCEPT ![j] = "open"]

Close(j) ==
    /\ state[j] = "open"
    /\ state' = [state EXCEPT ![j] = "closed"]

Reopen(j) ==
    /\ state[j] = "closed"
    /\ Alone(j)
    /\ state' = [state EXCEPT ![j] = "open"]

\* Nothing keeps an open job from being removed.
Remove(S) ==
    /\ \A j \in S : state[j] # "none"
    /\ state' = [j \in Jobs |-> IF j \in S THEN "removed" ELSE state[j]]

Next ==
    \/ \E j \in Jobs : Accept(j) \/ Close(j) \/ Reopen(j)
    \/ \E S \in SUBSET Jobs : Remove(S)

Spec == Init /\ [][Next]_state
=============================================================================
