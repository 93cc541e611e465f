------------------------ MODULE MCDocumentProcessing ------------------------
(***************************************************************************)
(* Instances of DocumentProcessing for TLC.                                *)
(***************************************************************************)
EXTENDS DocumentProcessing, TLC

Symmetry == Permutations(Runs)

\* A document as Paperless consumes it: the title is the name of the file, and
\* nothing else is set.  The server does not have the default correspondent yet.
Consumed ==
    /\ Init
    /\ paperless = [i \in Items |-> IF i = "title" THEN Stem ELSE Empty]
    /\ known = Correspondents \ {Default}
ConsumedSpec == Consumed /\ [][Next]_vars
=============================================================================
