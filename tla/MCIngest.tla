------------------------------- MODULE MCIngest -------------------------------
(* Instances of FolderWatcher for TLC.                                     *)
EXTENDS FolderWatcher

CONSTANTS n1, n2, p1

(* One that can reject, one whose type only warned, and one of no steps.   *)
ClientConfigs == {<< [type |-> "extract", min |-> 0], [type |-> "validate", min |-> 50] >>,
                  << [type |-> "export", min |-> 0], [type |-> "custom", min |-> 0] >>,
                  <<>>}
=============================================================================
