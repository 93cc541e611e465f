-------------------------- MODULE MCAdminAccounts --------------------------
(* AdminAccounts on small instances. *)
EXTENDS AdminAccounts, TLC
CONSTANTS u1, u2, u3, r1, r2
ThreeUsers == {u1, u2, u3}
TwoRequests == {r1, r2}
\* The page sends both fields, other clients one.
StatedAsks == {[role |-> "viewer", enabled |-> "yes"], [role |-> "admin", enabled |-> "yes"],
               [role |-> "keep", enabled |-> "no"]}
\* With an explicit null.
SomeAsks == {[role |-> "viewer", enabled |-> "no"], [role |-> "admin", enabled |-> "yes"],
             [role |-> "keep", enabled |-> "null"]}
\* First is one of the users, the others are interchangeable.
Symmetric == Permutations(TwoRequests) \cup Permutations(ThreeUsers \ {First})
=============================================================================
