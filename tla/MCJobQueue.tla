----------------------------- MODULE MCJobQueue -----------------------------
(***************************************************************************)
(* Instances of JobQueue for TLC.                                          *)
(***************************************************************************)
EXTENDS JobQueueRefinement, TLC

CONSTANTS j1, j2, d1, d2

\* Two jobs of one document: retries and webhooks compete for the index.
SameDocument == (j1 :> d1) @@ (j2 :> d1)
OneJob == (j1 :> d1)
\* Two rows in one list of the sweeper.
TwoDocuments == (j1 :> d1) @@ (j2 :> d2)

Symmetry == Permutations(Workers) \cup Permutations(Publishers)
\* Jobs may be exchanged together with their documents.
JobSymmetry ==
    {p \in Permutations(Jobs \cup Docs) :
        \A j \in Jobs : p[j] \in Jobs /\ DocOf[p[j]] = p[DocOf[j]]}
=============================================================================
