-------------------------- MODULE MCWebhookIntake --------------------------
(***************************************************************************)
(* Instances of WebhookIntake for TLC.                                     *)
(***************************************************************************)
EXTENDS WebhookIntake

Setting(mode, ocr, ocrRequest, manual) ==
    [mode |-> mode, ocr |-> ocr, ocrRequest |-> ocrRequest, manual |-> manual]

\* Each automatic workflow; the manual tag with those that need no OCR.
SomeInstances ==
    { Setting("document_added", FALSE, FALSE, TRUE),
      Setting("tag_added", FALSE, FALSE, TRUE),
      Setting("document_added", TRUE, TRUE, FALSE),
      Setting("document_added", TRUE, FALSE, FALSE) }
Bound(commands, changes, faults) ==
    [commands |-> commands, changes |-> changes, faults |-> faults]

\* Two commands that may overlap, or one with every other event.
SomeBounds == {Bound(2, 0, 0), Bound(1, 2, 1)}
=============================================================================
