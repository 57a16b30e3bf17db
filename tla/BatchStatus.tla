----------------------------- MODULE BatchStatus -----------------------------
(***************************************************************************)
(* The pure part of services/batch-service.py: the status a batch row gets *)
(* from its three counters.                                                *)
(***************************************************************************)
EXTENDS Integers

(* Values of batches.status; "absent" stands for a row not created yet.    *)
BatchState == {"absent", "pending", "processing", "completed", "partial", "failed"}

(* The statuses update_batch_counters stamps with completed_at.            *)
Terminal == {"completed", "partial", "failed"}

(* _derive_status: the early returns, first match wins.                    *)
DeriveStatus(total, completed, failed) ==
    LET done == completed + failed
    IN  IF done = 0 THEN "pending"
        ELSE IF done < total THEN "processing"
        ELSE IF failed = total THEN "failed"
        ELSE IF failed > 0 THEN "partial"
        ELSE "completed"
=============================================================================
