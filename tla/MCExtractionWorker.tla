------------------------- MODULE MCExtractionWorker -------------------------
(* Instances of ExtractionWorker for TLC.                                  *)
EXTENDS ExtractionWorker, TLC

CONSTANTS j1, j2, j3, b1

(* One batch of all files; or the last file submitted on its own.          *)
OneBatch == [j \in Job |-> b1]
BatchAndSingle == [j \in Job |-> IF j = j3 THEN NoBatch ELSE b1]

Symmetry == Permutations(Worker)
=============================================================================
