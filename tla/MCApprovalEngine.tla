--------------------------- MODULE MCApprovalEngine ---------------------------
(* Instances of ApprovalEngine for TLC.                                    *)
EXTENDS ApprovalEngine, TLC

(* Reviewers, requests and corrections are interchangeable.                *)
Symmetry == Permutations(Reviewer) \cup Permutations(Request) \cup Permutations(Value)

(* Bound: after a late request a behaviour is followed through two rounds. *)
Bounded == late => \A i \in Round : Exists(i) => i <= 2
=============================================================================
