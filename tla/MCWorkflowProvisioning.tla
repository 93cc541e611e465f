----------------------- MODULE MCWorkflowProvisioning -----------------------
(* WorkflowProvisioning on small instances. *)
EXTENDS WorkflowProvisioning, TLC
CONSTANTS i1, i2, c1, c2
OneSlug == {i1}
TwoCalls == {c1, c2}
S(mode, ocr, request, manual, secret) ==
    [mode |-> mode, ocr |-> ocr, ocrRequest |-> request, manual |-> manual, secret |-> secret]
\* The default, the OCR handoff, and a rotated secret with the automatic and the
\* manual tag.
SomeSettings ==
    {S("document_added", FALSE, FALSE, FALSE, 1), S("document_added", TRUE, TRUE, FALSE, 1),
     S("tag_added", FALSE, FALSE, TRUE, 2)}
\* A legacy workflow belongs to an instance that exists already; a user's workflow
\* that sends to the address of an instance has been made for a new one.  No
\* secret has been rotated.
Start ==
    /\ Init
    /\ \A i \in Slugs : /\ (workflows[1].name = "legacy") <=> (rows[i].state = "row")
                        /\ rows[i].settings.secret = 1
StartSpec == Start /\ [][Next]_vars
Symmetric == Permutations(TwoCalls)
=============================================================================
