--------------------------- MODULE MCSchemaCatalogue ---------------------------
(* Instances of SchemaCatalogue for TLC.                                   *)
EXTENDS SchemaCatalogue, TLC

CONSTANTS c1, c2, w1

F(label, type, occurrence, prompt) ==
    [label |-> label, type |-> type, occurrence |-> occurrence, prompt |-> prompt]

(* A field, with another prompt, optional, twice in one list as different  *)
(* types, and with a second field before it.                               *)
Base   == F("total", "currency", "required", "")
Second == F("tax", "currency", "required", "")
Lists  == {<<Base>>,
           <<F("total", "currency", "required", "sum")>>,
           <<F("total", "currency", "optional", "")>>,
           <<Base, F("total", "number", "required", "")>>,
           <<Second, Base>>}

BaseList   == <<Base>>
Clients    == {c1, c2}
Workspaces == {"default", w1}
Symmetric  == Permutations(Clients)
=============================================================================
