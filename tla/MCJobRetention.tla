---------------------------- MODULE MCJobRetention ----------------------------
(* An instance of JobRetention: two jobs of one document. *)
EXTENDS JobRetention

CONSTANTS j1, j2, d1

McJobs == {j1, j2}
McDocs == {d1}
McDocOf == [j \in McJobs |-> d1]
=============================================================================
