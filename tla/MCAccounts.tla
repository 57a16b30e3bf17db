------------------------------ MODULE MCAccounts ------------------------------
(* Instances of Accounts for TLC.                                          *)
EXTENDS Accounts

CONSTANTS u1, u2

(* Both users may register in the default workspace.                       *)
Registrations == {<<u1, "default">>, <<u2, "default">>}
=============================================================================
