------------------------ MODULE MCFieldConfiguration ------------------------
(* FieldConfiguration on small instances. *)
EXTENDS FieldConfiguration, TLC
CONSTANTS e1, e2
OneEditor == {e1}
TwoEditors == {e1, e2}
\* Three labels; two of them differ in spelling only.
SomeLabels == {"A", "a", "B"}
SomeNormalForm == [label \in SomeLabels |-> IF label = "a" THEN "A" ELSE label]
\* Paperless has a custom field whose name is the label of the standard field in
\* another spelling.
Start == Init /\ remote[1] = CustomField("a", "text")
StartSpec == Start /\ [][Next]_vars
\* Typed by an administrator, and given by Paperless only later.
SecondIds == {2}
Symmetric == Permutations(TwoEditors)
=============================================================================
