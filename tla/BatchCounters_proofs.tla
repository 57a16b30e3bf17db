------------------------- MODULE BatchCounters_proofs -------------------------
(***************************************************************************)
(* What the batch counters can be trusted for with the in-memory queue,    *)
(* for every number of jobs, batches, workers and crashes, although        *)
(* update_batch_counters reads in one statement and writes in another.     *)
(* A lost update only makes the counters smaller, so the argument bounds   *)
(* them from above: by the jobs that are settled and the jobs that are     *)
(* done for good, two sets that never lose a member.                       *)
(***************************************************************************)
EXTENDS ExtractionWorker_proofs

USE DEF Saves

-----------------------------------------------------------------------------
(* Batch rows and their status.                                            *)

LEMMA DeriveStatusFacts ==
    ASSUME NEW t \in Nat, NEW c \in Nat, NEW f \in Nat
    PROVE  /\ DeriveStatus(t, c, f) # "absent"
           /\ c + f = 0 => DeriveStatus(t, c, f) = "pending"
           /\ DeriveStatus(t, c, f) = "completed" => f = 0 /\ c >= t
BY DEF DeriveStatus

LEMMA RowNext == TypeOK /\ OneOwner /\ BatchBeforeJobs /\ StatusMatchesCounters /\ [Next]_vars
                    => BatchBeforeJobs' /\ StatusMatchesCounters'
<1> SUFFICES ASSUME TypeOK, OneOwner, BatchBeforeJobs, StatusMatchesCounters, [Next]_vars
             PROVE  BatchBeforeJobs' /\ StatusMatchesCounters'
  OBVIOUS
<1> USE DEF batchVars, rowVars, queueVars, workerVars, reviewVars, faultVars
<1>1. ASSUME UNCHANGED <<batchVars, step>> PROVE BatchBeforeJobs' /\ StatusMatchesCounters'
  BY <1>1 DEF BatchBeforeJobs, StatusMatchesCounters, InBatch, Files
<1>2. ASSUME NEW b \in Batch, CreateBatch(b) PROVE BatchBeforeJobs' /\ StatusMatchesCounters'
  <2>1. /\ bStatus[b] = "absent" /\ bStatus' = [bStatus EXCEPT ![b] = "pending"]
        /\ UNCHANGED <<bCompleted, bFailed, step>>
    BY <1>2 DEF CreateBatch
  <2>2. BatchBeforeJobs'
    BY <2>1 DEF BatchBeforeJobs, InBatch, TypeOK
  <2>3. DeriveStatus(Cardinality(Files(b)), bCompleted[b], bFailed[b]) = "pending"
    BY <2>1, FilesFinite, DeriveStatusFacts DEF BatchBeforeJobs, TypeOK
  <2>4. StatusMatchesCounters'
    BY <2>1, <2>3 DEF StatusMatchesCounters, Files, TypeOK
  <2>5. QED
    BY <2>2, <2>4
<1>3. ASSUME NEW b \in Batch, CancelBatch(b) PROVE BatchBeforeJobs' /\ StatusMatchesCounters'
  <2>1. /\ bStatus[b] # "absent" /\ bStatus' = [bStatus EXCEPT ![b] = "failed"]
        /\ UNCHANGED <<bCompleted, bFailed, step>>
    BY <1>3 DEF CancelBatch
  <2>2. BatchBeforeJobs'
    BY <2>1 DEF BatchBeforeJobs, InBatch, TypeOK
  <2>3. StatusMatchesCounters'
    BY <2>1 DEF StatusMatchesCounters, Files, TypeOK
  <2>4. QED
    BY <2>2, <2>3
<1>4. ASSUME NEW j \in Job, Submit(j) PROVE BatchBeforeJobs' /\ StatusMatchesCounters'
  <2>1. /\ UNCHANGED batchVars
        /\ \A k \in Job : step'[k] # "unsent" =>
               step[k] # "unsent" \/ (InBatch(k) => bStatus[BatchOf[k]] # "absent")
    BY <1>4 DEF Submit, SkipFile, CreateJob, AddItem, Enqueue, NextFile, TypeOK
  <2>2. QED
    BY <2>1 DEF BatchBeforeJobs, StatusMatchesCounters, InBatch, Files
<1>5. CASE ApiCrash
  <2>1. /\ UNCHANGED batchVars
        /\ \A k \in Job : step'[k] # "unsent" =>
               step[k] # "unsent" \/ (InBatch(k) => bStatus[BatchOf[k]] # "absent")
    BY <1>5 DEF ApiCrash, Abandoned
  <2>2. QED
    BY <2>1 DEF BatchBeforeJobs, StatusMatchesCounters, InBatch, Files
<1>6. ASSUME NEW w \in Worker, WriteCounters(w)
      PROVE  BatchBeforeJobs' /\ StatusMatchesCounters'
  <2> DEFINE b == BatchOf[cur[w]]
  <2>1. /\ bCompleted' = [bCompleted EXCEPT ![b] = Counted(w).completed]
        /\ bFailed' = [bFailed EXCEPT ![b] = Counted(w).failed]
        /\ bStatus' = [bStatus EXCEPT ![b] = NewStatus(w)]
        /\ step' = step
    BY <1>6 DEF WriteCounters
  <2>2. b \in Batch
    BY <1>6, HeldJob DEF WriteCounters
  <2>3. Counted(w).completed \in Nat /\ Counted(w).failed \in Nat
    BY CountedType
  <2>4. /\ NewStatus(w) = DeriveStatus(Cardinality(Files(b)), Counted(w).completed, Counted(w).failed)
        /\ NewStatus(w) # "absent"
    BY <2>3, FilesFinite, DeriveStatusFacts DEF NewStatus
  <2>5. BatchBeforeJobs'
    BY <2>1, <2>2, <2>4 DEF BatchBeforeJobs, InBatch, TypeOK
  <2>6. StatusMatchesCounters'
    BY <2>1, <2>2, <2>4 DEF StatusMatchesCounters, Files, TypeOK
  <2>7. QED
    BY <2>5, <2>6
<1>7. ASSUME NEW w \in Worker, WorkerStep(w) \/ Drop(w), ~WriteCounters(w)
      PROVE  UNCHANGED <<batchVars, step>>
  BY <1>7 DEF WorkerStep, Drop, Take, MarkProcessing, Raise, Decide, SaveResult,
              SavePipelineResult, MarkFailed, Reread, ReadCounters
<1>8. ASSUME NEW j \in Job, Review(j) PROVE UNCHANGED <<batchVars, step>>
  BY <1>8 DEF Review, FinaliseReview, LegacyCheck, LegacyReview
<1>9. CASE WorkerCrash
  BY <1>1, <1>9 DEF WorkerCrash
<1>10. CASE UNCHANGED vars
  BY <1>1, <1>10 DEF vars
<1>11. QED
  BY <1>1, <1>2, <1>3, <1>4, <1>5, <1>6, <1>7, <1>8, <1>9, <1>10 DEF Next

LEMMA RowsInductive == Spec => [](TypeOK /\ OneOwner /\ BatchBeforeJobs /\ StatusMatchesCounters)
<1>1. Init => BatchBeforeJobs /\ StatusMatchesCounters
  BY DEF Init, BatchBeforeJobs, StatusMatchesCounters
<1>2. QED
  BY <1>1, OwnedInductive, RowNext, PTL DEF Spec

(* Whatever interleaves, a batch row's status is the one derived from its  *)
(* own counters, unless it was cancelled: update_batch_counters writes     *)
(* both in one statement.  Holds with either queue.                        *)
THEOREM StatusConsistent == Spec => []StatusMatchesCounters
BY RowsInductive, PTL
-----------------------------------------------------------------------------
(* The in-memory queue loses jobs but never runs one twice: what one step  *)
(* can do to a job, by where the job is.                                   *)

LEMMA Moves ==
    ASSUME TypeOK, OneOwner, ~UseRedis, [Next]_vars, NEW j \in Job
    PROVE  /\ step[j] = "sent" => step'[j] = "sent"
           /\ step[j] = "sent" /\ j \notin queue => j \notin queue'
           /\ j \in Held' => j \in Held \/ j \in queue
           /\ \/ jobStatus'[j] = jobStatus[j]
              \/ step[j] # "sent" \/ j \in Held \/ jobStatus[j] = "pending"
              \/ finalised[j] < started[j] \/ jobStatus'[j] = "reviewed"
           /\ started'[j] = started[j] \/ j \in Held
           /\ finalised'[j] = finalised[j] \/ finalised[j] < started[j]
<1> DEFINE Good ==
           /\ step[j] = "sent" => step'[j] = "sent"
           /\ step[j] = "sent" /\ j \notin queue => j \notin queue'
           /\ j \in Held' => j \in Held \/ j \in queue
           /\ \/ jobStatus'[j] = jobStatus[j]
              \/ step[j] # "sent" \/ j \in Held \/ jobStatus[j] = "pending"
              \/ finalised[j] < started[j] \/ jobStatus'[j] = "reviewed"
           /\ started'[j] = started[j] \/ j \in Held
           /\ finalised'[j] = finalised[j] \/ finalised[j] < started[j]
<1> USE DEF batchVars, rowVars, queueVars, workerVars, reviewVars, faultVars
<1>1. ASSUME NEW b \in Batch, CreateBatch(b) \/ CancelBatch(b) PROVE Good
  BY <1>1 DEF CreateBatch, CancelBatch, Held, TypeOK
<1>2. ASSUME NEW k \in Job, Submit(k) PROVE Good
  BY <1>2 DEF Submit, SkipFile, CreateJob, AddItem, Enqueue, NextFile, Held, TypeOK
<1>3. ASSUME NEW k \in Job, Review(k) PROVE Good
  BY <1>3 DEF Review, FinaliseReview, LegacyCheck, LegacyReview, Held, TypeOK
<1>4. ASSUME NEW w \in Worker, NEW k \in Job, Take(w, k) PROVE Good
  BY <1>4 DEF Take, Held, TypeOK
<1>5. ASSUME NEW w \in Worker, pc[w] # "idle", cur' = cur \/ Release(w), UNCHANGED <<step, queue>>
      PROVE  /\ step[j] = "sent" => step'[j] = "sent"
             /\ step[j] = "sent" /\ j \notin queue => j \notin queue'
             /\ j \in Held' => j \in Held \/ j \in queue
  BY <1>5, OwnerRelease DEF Held
<1>6. ASSUME NEW w \in Worker, pc[w] # "idle", j # cur[w], NEW s, SetJob(w, s)
      PROVE  jobStatus'[j] = jobStatus[j]
  BY <1>6 DEF SetJob, TypeOK
<1>7. ASSUME NEW w \in Worker, SaveResult(w) \/ SavePipelineResult(w) \/ MarkFailed(w)
      PROVE  Good
  <2>1. pc[w] # "idle" /\ UNCHANGED <<step, queue, started, finalised>>
    BY <1>7 DEF SaveResult, SavePipelineResult, MarkFailed
  <2>2. cur' = cur \/ Release(w)
    BY <1>7 DEF SaveResult, SavePipelineResult, MarkFailed, ToCounters
  <2>3. j # cur[w] => jobStatus'[j] = jobStatus[j]
    BY <1>6, <1>7, <2>1 DEF SaveResult, SavePipelineResult, MarkFailed
  <2>4. j = cur[w] => j \in Held
    BY <2>1, HeldJob
  <2>5. QED
    BY <1>5, <2>1, <2>2, <2>3, <2>4
<1>8. ASSUME NEW w \in Worker, MarkProcessing(w) PROVE Good
  BY <1>6, <1>8, HeldJob DEF MarkProcessing, Held
<1>9. ASSUME NEW w \in Worker, Decide(w) PROVE Good
  <2>1. pc[w] # "idle" /\ UNCHANGED <<step, queue, jobStatus, finalised, cur>>
    BY <1>9 DEF Decide
  <2>2. j # cur[w] => started'[j] = started[j]
    BY <1>9 DEF Decide, TypeOK
  <2>3. QED
    BY <2>1, <2>2, HeldJob DEF Held
<1>10. ASSUME NEW w \in Worker, Raise(w) \/ ReadCounters(w) \/ Reread(w) \/ WriteCounters(w) \/ Drop(w)
       PROVE  Good
  <2>1. /\ pc[w] # "idle"
        /\ UNCHANGED <<step, queue, jobStatus, started, finalised>>
    BY <1>10 DEF Raise, RaisesAt, ReadCounters, Reread, WriteCounters, Drop
  <2>2. cur' = cur \/ Release(w)
    BY <1>10 DEF Raise, ReadCounters, Reread, WriteCounters, Drop
  <2>3. QED
    BY <1>5, <2>1, <2>2
<1>11. CASE ApiCrash
  BY <1>11 DEF ApiCrash, Abandoned, AllIdle, Held
<1>12. CASE UNCHANGED vars
  BY <1>12 DEF vars, Held
<1>13. QED
  BY <1>1, <1>2, <1>3, <1>4, <1>7, <1>8, <1>9, <1>10, <1>11, <1>12
  DEF Next, WorkerStep, WorkerCrash

(* The two sets that bound the counters never lose a member.               *)
LEMMA SetsGrow ==
    ASSUME TypeOK, OneOwner, ~UseRedis, [Next]_vars, NEW b
    PROVE  /\ SettledIn(b) \subseteq SettledIn(b)'
           /\ DoneIn(b) \subseteq DoneIn(b)'
<1>1. ASSUME NEW j \in SettledIn(b)
      PROVE  j \in SettledIn(b)'
  BY <1>1, Moves DEF SettledIn, Settled, Files
<1>2. ASSUME NEW j \in DoneIn(b)
      PROVE  j \in DoneIn(b)'
  <2>1. j \in Job /\ j \in SettledIn(b) /\ j \in SettledIn(b)'
    BY <1>1, <1>2 DEF DoneIn, SettledIn, Files
  <2>2. started[j] = finalised[j] /\ started[j] \in Nat /\ step[j] = "sent" /\ j \notin Held
    BY <1>2, <2>1 DEF DoneIn, SettledIn, Settled, TypeOK
  <2>3. started'[j] = finalised'[j]
    BY <2>1, <2>2, Moves
  <2>4. jobStatus'[j] \in {"completed", "reviewed"}
    BY <1>2, <2>1, <2>2, Moves DEF DoneIn
  <2>5. QED
    BY <2>1, <2>3, <2>4 DEF DoneIn
<1>3. QED
  BY <1>1, <1>2

LEMMA SetsFinite ==
    ASSUME NEW b
    PROVE  /\ SettledIn(b) \subseteq Files(b) /\ DoneIn(b) \subseteq SettledIn(b)
           /\ IsFiniteSet(SettledIn(b)) /\ IsFiniteSet(DoneIn(b))
           /\ Cardinality(SettledIn(b)) \in Nat /\ Cardinality(DoneIn(b)) \in Nat
<1>1. SettledIn(b) \subseteq Files(b) /\ DoneIn(b) \subseteq SettledIn(b)
  BY DEF SettledIn, DoneIn
<1>2. IsFiniteSet(SettledIn(b)) /\ IsFiniteSet(DoneIn(b))
  BY <1>1, FilesFinite, FS_Subset
<1>3. QED
  BY <1>1, <1>2, FS_CardinalityType

LEMMA SetsFinitePrime ==
    ASSUME NEW b
    PROVE  /\ IsFiniteSet(SettledIn(b)') /\ IsFiniteSet(DoneIn(b)')
           /\ Cardinality(SettledIn(b)') \in Nat /\ Cardinality(DoneIn(b)') \in Nat
<1>1. SettledIn(b)' \subseteq Files(b) /\ DoneIn(b)' \subseteq SettledIn(b)'
  BY DEF SettledIn, DoneIn, Files
<1>2. IsFiniteSet(SettledIn(b)') /\ IsFiniteSet(DoneIn(b)')
  BY <1>1, FilesFinite, FS_Subset
<1>3. QED
  BY <1>1, <1>2, FS_CardinalityType

LEMMA BoundsGrow ==
    ASSUME NEW b, NEW c \in Nat, NEW f \in Nat, WithinBounds(b, c, f),
           SettledIn(b) \subseteq SettledIn(b)', DoneIn(b) \subseteq DoneIn(b)'
    PROVE  WithinBounds(b, c, f)'
<1>1. /\ Cardinality(SettledIn(b)) <= Cardinality(SettledIn(b)')
      /\ Cardinality(DoneIn(b)) <= Cardinality(DoneIn(b)')
  BY SetsFinitePrime, FS_Subset
<1>2. QED
  BY <1>1, SetsFinite, SetsFinitePrime DEF WithinBounds

-----------------------------------------------------------------------------
(* Results and approval workflows.                                         *)

(* No step brings a job back before its result, or before its save.        *)
LEMMA PhasesEnd ==
    ASSUME TypeOK, OneOwner, ~UseRedis, [Next]_vars, NEW j \in Job
    PROVE  (Undecided(j)' => Undecided(j)) /\ (Unsaved(j)' => Unsaved(j))
<1> DEFINE Shrink == (Undecided(j)' => Undecided(j)) /\ (Unsaved(j)' => Unsaved(j))
<1> USE DEF batchVars, rowVars, queueVars, workerVars, reviewVars, faultVars, Undecided, Unsaved
<1>1. ASSUME NEW b \in Batch, CreateBatch(b) \/ CancelBatch(b) PROVE Shrink
  BY <1>1 DEF CreateBatch, CancelBatch
<1>2. ASSUME NEW k \in Job, Submit(k) PROVE Shrink
  BY <1>2 DEF Submit, SkipFile, CreateJob, AddItem, Enqueue, NextFile, TypeOK
<1>3. ASSUME NEW k \in Job, Review(k) PROVE Shrink
  BY <1>3 DEF Review, FinaliseReview, LegacyCheck, LegacyReview
<1>4. ASSUME NEW w \in Worker, NEW k \in Job, Take(w, k) PROVE Shrink
  BY <1>4 DEF Take, Go, TypeOK
<1>5. ASSUME NEW w \in Worker, Release(w), UNCHANGED <<step, queue>> PROVE Shrink
  BY <1>5, WorkerAssumption DEF Release, Go, TypeOK
<1>6. ASSUME NEW w \in Worker, MarkProcessing(w) \/ Raise(w) \/ Decide(w) \/ ReadCounters(w)
      PROVE  Shrink
  BY <1>6 DEF MarkProcessing, Raise, RaisesAt, Decide, ReadCounters, Go, TypeOK
<1>7. ASSUME NEW w \in Worker, SaveResult(w) \/ MarkFailed(w) PROVE Shrink
  <2>1. CASE Release(w)
    BY <1>5, <1>7, <2>1 DEF SaveResult, MarkFailed
  <2>2. CASE ~Release(w)
    BY <1>7, <2>2 DEF SaveResult, MarkFailed, ToCounters, Go, TypeOK
  <2>3. QED
    BY <2>1, <2>2
<1>8. ASSUME NEW w \in Worker, SavePipelineResult(w) \/ WriteCounters(w) \/ Drop(w)
      PROVE  Shrink
  BY <1>5, <1>8 DEF SavePipelineResult, WriteCounters, Drop
<1>9. ASSUME NEW w \in Worker, Reread(w) PROVE Shrink
  <2>1. CASE Release(w)
    BY <1>5, <1>9, <2>1 DEF Reread
  <2>2. CASE ~Release(w)
    BY <1>9, <2>2 DEF Reread, Go, TypeOK
  <2>3. QED
    BY <2>1, <2>2
<1>10. CASE ApiCrash
  BY <1>10, WorkerAssumption DEF ApiCrash, Abandoned, AllIdle
<1>11. CASE UNCHANGED vars
  BY <1>11 DEF vars
<1>12. QED
  BY <1>1, <1>2, <1>3, <1>4, <1>6, <1>7, <1>8, <1>9, <1>10, <1>11
  DEF Next, WorkerStep, WorkerCrash

(* The job a worker decides is undecided before that and not after it.     *)
LEMMA DecidedAfter ==
    ASSUME TypeOK, OneOwner, NEW w \in Worker, NEW j, j = cur[w], Decide(w)
    PROVE  Undecided(j) /\ ~Undecided(j)'
<1>1. /\ j \in Job /\ step[j] = "sent" /\ j \in Held /\ pc[w] = "running" /\ j # NoJob
  BY HeldJob, WorkerAssumption DEF Decide
<1>2. /\ \E route \in Saves : pc' = [pc EXCEPT ![w] = route]
      /\ cur' = cur
      /\ UNCHANGED <<step, queue>>
  BY DEF Decide, Go, queueVars
<1>3. j \notin queue /\ \A v \in Worker : cur[v] = j => v = w
  BY <1>1 DEF OneOwner
<1>4. QED
  BY <1>1, <1>2, <1>3 DEF Undecided, TypeOK

(* Saving its result puts a job past being unsaved.                        *)
LEMMA SavedAfter ==
    ASSUME TypeOK, OneOwner, NEW w \in Worker, NEW j, j = cur[w],
           SaveResult(w) \/ SavePipelineResult(w)
    PROVE  ~Unsaved(j)'
<1>1. /\ j \in Job /\ step[j] = "sent" /\ j \in Held /\ pc[w] \in Saves /\ j # NoJob
  BY HeldJob, WorkerAssumption DEF SaveResult, SavePipelineResult
<1>2. UNCHANGED <<step, queue>>
  BY DEF SaveResult, SavePipelineResult, queueVars
<1>3. \/ pc' = [pc EXCEPT ![w] = "reread"] /\ cur' = cur
      \/ pc' = [pc EXCEPT ![w] = "idle"] /\ cur' = [cur EXCEPT ![w] = NoJob]
  BY DEF SaveResult, SavePipelineResult, ToCounters, Release, Go
<1>4. j \notin queue /\ \A v \in Worker : cur[v] = j => v = w
  BY <1>1 DEF OneOwner
<1>5. QED
  BY <1>1, <1>2, <1>3, <1>4 DEF Unsaved, Undecided, TypeOK

LEMMA WorkflowsNext ==
    TypeOK /\ OneOwner /\ ~UseRedis /\ WorkflowsBegin /\ [Next]_vars => WorkflowsBegin'
<1> SUFFICES ASSUME TypeOK, OneOwner, ~UseRedis, WorkflowsBegin, [Next]_vars, NEW j \in Job
             PROVE  /\ finalised'[j] <= started'[j] /\ started'[j] <= 1
                    /\ Undecided(j)' => started'[j] = 0
  BY DEF WorkflowsBegin
<1> USE DEF batchVars, rowVars, queueVars, workerVars, reviewVars, faultVars
<1>1. /\ finalised[j] <= started[j] /\ started[j] <= 1
      /\ Undecided(j) => started[j] = 0
      /\ finalised[j] \in Nat /\ started[j] \in Nat
  BY DEF WorkflowsBegin, TypeOK
<1>2. ASSUME UNCHANGED <<started, finalised>>
      PROVE  /\ finalised'[j] <= started'[j] /\ started'[j] <= 1
             /\ Undecided(j)' => started'[j] = 0
  BY <1>1, <1>2, PhasesEnd
<1>3. ASSUME NEW w \in Worker, Decide(w)
      PROVE  /\ finalised'[j] <= started'[j] /\ started'[j] <= 1
             /\ Undecided(j)' => started'[j] = 0
  <2>1. finalised' = finalised /\ (j # cur[w] => started'[j] = started[j])
    BY <1>3 DEF Decide, TypeOK
  <2>2. CASE j # cur[w]
    BY <1>1, <2>1, <2>2, PhasesEnd
  <2>3. CASE j = cur[w]
    <3>1. started[j] = 0 /\ ~Undecided(j)'
      BY <1>1, <1>3, <2>3, DecidedAfter
    <3>2. started'[j] \in {0, 1}
      BY <1>3, <2>3, <3>1 DEF Decide, TypeOK
    <3>3. QED
      BY <1>1, <2>1, <3>1, <3>2
  <2>4. QED
    BY <2>2, <2>3
<1>4. ASSUME NEW k \in Job, FinaliseReview(k)
      PROVE  /\ finalised'[j] <= started'[j] /\ started'[j] <= 1
             /\ Undecided(j)' => started'[j] = 0
  <2>1. /\ started' = started /\ (j # k => finalised'[j] = finalised[j])
        /\ j = k => finalised[j] < started[j] /\ finalised'[j] = finalised[j] + 1
    BY <1>4 DEF FinaliseReview, TypeOK
  <2>2. QED
    BY <1>1, <2>1, PhasesEnd
<1>5. ASSUME NEW b \in Batch, CreateBatch(b) \/ CancelBatch(b)
      PROVE  UNCHANGED <<started, finalised>>
  BY <1>5 DEF CreateBatch, CancelBatch
<1>6. ASSUME NEW k \in Job, Submit(k) \/ LegacyCheck(k) \/ LegacyReview(k)
      PROVE  UNCHANGED <<started, finalised>>
  BY <1>6 DEF Submit, SkipFile, CreateJob, AddItem, Enqueue, LegacyCheck, LegacyReview
<1>7. ASSUME NEW w \in Worker, WorkerStep(w), ~Decide(w) PROVE UNCHANGED <<started, finalised>>
  BY <1>7 DEF WorkerStep, Take, MarkProcessing, Raise, SaveResult, SavePipelineResult,
              MarkFailed, Reread, ReadCounters, WriteCounters
<1>8. ASSUME ApiCrash \/ UNCHANGED vars PROVE UNCHANGED <<started, finalised>>
  BY <1>8 DEF ApiCrash, vars
<1>9. QED
  BY <1>2, <1>3, <1>4, <1>5, <1>6, <1>7, <1>8 DEF Next, Review, WorkerCrash, Drop

(* Only a save makes a job completed, and only with that verdict.          *)
LEMMA BecomesCompleted ==
    ASSUME TypeOK, OneOwner, ~UseRedis, [Next]_vars, NEW j \in Job,
           jobStatus[j] # "completed", jobStatus'[j] = "completed"
    PROVE  \E w \in Worker : /\ SaveResult(w) \/ SavePipelineResult(w)
                             /\ cur[w] = j /\ pc[w] \in Saves /\ verdict[w] = "completed"
                             /\ started' = started
<1> USE DEF batchVars, rowVars, queueVars, workerVars, reviewVars, faultVars
<1>1. ASSUME NEW b \in Batch, CreateBatch(b) \/ CancelBatch(b) PROVE FALSE
  BY <1>1 DEF CreateBatch, CancelBatch
<1>2. ASSUME NEW k \in Job, Submit(k) \/ Review(k) PROVE FALSE
  BY <1>2 DEF Submit, SkipFile, CreateJob, AddItem, Enqueue, Review, FinaliseReview,
              LegacyCheck, LegacyReview, TypeOK
<1>3. ASSUME NEW w \in Worker, WorkerStep(w), ~SaveResult(w), ~SavePipelineResult(w)
      PROVE  FALSE
  BY <1>3 DEF WorkerStep, Take, MarkProcessing, Raise, Decide, MarkFailed, SetJob, Reread,
              ReadCounters, WriteCounters, TypeOK
<1>4. ASSUME NEW w \in Worker, SaveResult(w) \/ SavePipelineResult(w)
      PROVE  /\ cur[w] = j /\ pc[w] \in Saves /\ verdict[w] = "completed"
             /\ started' = started
  BY <1>4 DEF SaveResult, SavePipelineResult, SetJob, TypeOK
<1>5. ASSUME ApiCrash \/ UNCHANGED vars PROVE FALSE
  BY <1>5 DEF ApiCrash, vars
<1>6. QED
  BY <1>1, <1>2, <1>3, <1>4, <1>5 DEF Next, WorkerCrash, Drop

(* Workflows begin only while a job is undecided.                          *)
LEMMA StartedFrame ==
    ASSUME TypeOK, OneOwner, ~UseRedis, [Next]_vars, NEW j \in Job, ~Undecided(j)
    PROVE  started'[j] = started[j]
<1> USE DEF batchVars, rowVars, queueVars, workerVars, reviewVars, faultVars
<1>1. ASSUME NEW w \in Worker, Decide(w) PROVE started'[j] = started[j]
  <2>1. j # cur[w]
    BY <1>1, DecidedAfter
  <2>2. QED
    BY <1>1, <2>1 DEF Decide, TypeOK
<1>2. ASSUME NEW b \in Batch, CreateBatch(b) \/ CancelBatch(b) PROVE started' = started
  BY <1>2 DEF CreateBatch, CancelBatch
<1>3. ASSUME NEW k \in Job, Submit(k) \/ Review(k) PROVE started' = started
  BY <1>3 DEF Submit, SkipFile, CreateJob, AddItem, Enqueue, Review, FinaliseReview,
              LegacyCheck, LegacyReview
<1>4. ASSUME NEW w \in Worker, WorkerStep(w), ~Decide(w) PROVE started' = started
  BY <1>4 DEF WorkerStep, Take, MarkProcessing, Raise, SaveResult, SavePipelineResult,
              MarkFailed, Reread, ReadCounters, WriteCounters
<1>5. ASSUME ApiCrash \/ UNCHANGED vars PROVE started' = started
  BY <1>5 DEF ApiCrash, vars
<1>6. QED
  BY <1>1, <1>2, <1>3, <1>4, <1>5 DEF Next, WorkerCrash, Drop

LEMMA CompletedNext ==
    TypeOK /\ OneOwner /\ ~UseRedis /\ WorkflowsBegin /\ CompletedUnreviewed /\ [Next]_vars
        => \A j \in Job : jobStatus'[j] = "completed" => started'[j] = 0 /\ ~Unsaved(j)'
<1> SUFFICES ASSUME TypeOK, OneOwner, ~UseRedis, WorkflowsBegin, CompletedUnreviewed,
                    [Next]_vars, NEW j \in Job, jobStatus'[j] = "completed"
             PROVE  started'[j] = 0 /\ ~Unsaved(j)'
  OBVIOUS
<1>1. CASE jobStatus[j] = "completed"
  <2>1. started[j] = 0 /\ ~Unsaved(j) /\ ~Undecided(j)
    BY <1>1 DEF CompletedUnreviewed, Unsaved
  <2>2. QED
    BY <2>1, StartedFrame, PhasesEnd
<1>2. CASE jobStatus[j] # "completed"
  <2>1. PICK w \in Worker : /\ SaveResult(w) \/ SavePipelineResult(w)
                            /\ cur[w] = j /\ pc[w] \in Saves /\ verdict[w] = "completed"
                            /\ started' = started
    BY <1>2, BecomesCompleted
  <2>2. started'[j] = 0
    BY <2>1 DEF CompletedUnreviewed
  <2>3. ~Unsaved(j)'
    BY <2>1, SavedAfter
  <2>4. QED
    BY <2>2, <2>3
<1>3. QED
  BY <1>1, <1>2

(* How a worker comes to be saving or at its counters.                     *)
LEMMA WorkerMoves ==
    ASSUME TypeOK, OneOwner, ~UseRedis, [Next]_vars, NEW v \in Worker,
           pc'[v] \in Saves \cup {"counting", "writing"}
    PROVE  \/ /\ pc'[v] = pc[v] /\ cur'[v] = cur[v]
              /\ verdict'[v] = verdict[v] /\ seen'[v] = seen[v]
           \/ pc'[v] \in Saves /\ Decide(v)
           \/ pc'[v] = "counting" /\ Reread(v)
           \/ pc'[v] = "writing" /\ ReadCounters(v)
<1> DEFINE Stays == /\ pc'[v] = pc[v] /\ cur'[v] = cur[v]
                    /\ verdict'[v] = verdict[v] /\ seen'[v] = seen[v]
<1> USE DEF batchVars, rowVars, queueVars, workerVars, reviewVars, faultVars
<1>1. ASSUME NEW b \in Batch, CreateBatch(b) \/ CancelBatch(b) PROVE Stays
  BY <1>1 DEF CreateBatch, CancelBatch
<1>2. ASSUME NEW k \in Job, Submit(k) \/ Review(k) PROVE Stays
  BY <1>2 DEF Submit, SkipFile, CreateJob, AddItem, Enqueue, Review, FinaliseReview,
              LegacyCheck, LegacyReview
<1>3. ASSUME NEW w \in Worker, WorkerStep(w) \/ Drop(w), w # v PROVE Stays
  BY <1>3 DEF WorkerStep, Drop, Take, MarkProcessing, Raise, Decide, SaveResult, SavePipelineResult,
              MarkFailed, Reread, ReadCounters, WriteCounters, ToCounters, Release, Go, TypeOK
<1>4. ASSUME WorkerStep(v) \/ Drop(v) PROVE Decide(v) \/ Reread(v) \/ ReadCounters(v)
  BY <1>4 DEF WorkerStep, Drop, Take, MarkProcessing, Raise, SaveResult, SavePipelineResult,
              MarkFailed, WriteCounters, ToCounters, Release, Go, TypeOK
<1>5. Decide(v) => pc'[v] \in Saves
  BY DEF Decide, Go, TypeOK
<1>6. Reread(v) => pc'[v] = "counting"
  BY DEF Reread, Release, Go, TypeOK
<1>7. ReadCounters(v) => pc'[v] = "writing"
  BY DEF ReadCounters, Go, TypeOK
<1>8. CASE ApiCrash
  BY <1>8 DEF ApiCrash, AllIdle
<1>9. CASE UNCHANGED vars
  BY <1>9 DEF vars
<1>10. QED
  BY <1>1, <1>2, <1>3, <1>4, <1>5, <1>6, <1>7, <1>8, <1>9 DEF Next, WorkerCrash

(* A job counted as completed stays completed or reviewed meanwhile.       *)
LEMMA CountedStays ==
    ASSUME TypeOK, OneOwner, ~UseRedis, WorkflowsBegin, [Next]_vars, NEW v \in Worker,
           pc[v] \in {"counting", "writing"}, NEW j, j = cur[v], started[j] = 0,
           jobStatus[j] \in {"completed", "reviewed"}
    PROVE  jobStatus'[j] \in {"completed", "reviewed"}
<1> USE DEF batchVars, rowVars, queueVars, workerVars, reviewVars, faultVars
<1>1. /\ j \in Job /\ step[j] = "sent" /\ j # NoJob
      /\ ~(finalised[j] < started[j])
  BY HeldJob, WorkerAssumption DEF WorkflowsBegin, TypeOK
<1>2. ASSUME NEW b \in Batch, CreateBatch(b) \/ CancelBatch(b) PROVE jobStatus'[j] = jobStatus[j]
  BY <1>1, <1>2 DEF CreateBatch, CancelBatch
<1>3. ASSUME NEW k \in Job, Submit(k) PROVE jobStatus'[j] = jobStatus[j]
  BY <1>1, <1>3 DEF Submit, SkipFile, CreateJob, AddItem, Enqueue, NextFile, TypeOK
<1>4. ASSUME NEW k \in Job, Review(k) PROVE jobStatus'[j] \in {jobStatus[j], "reviewed"}
  BY <1>1, <1>4 DEF Review, FinaliseReview, LegacyCheck, LegacyReview, TypeOK
<1>5. ASSUME NEW w \in Worker, WorkerStep(w) PROVE jobStatus'[j] = jobStatus[j]
  <2>1. CASE pc[w] \in {"loaded", "failing"} \cup Saves
    <3>1. w # v /\ cur[w] # j
      BY <1>1, <2>1 DEF OneOwner
    <3>2. QED
      BY <1>1, <1>5, <3>1 DEF WorkerStep, Take, MarkProcessing, Raise, Decide, SaveResult,
         SavePipelineResult, MarkFailed, SetJob, Reread, ReadCounters, WriteCounters, TypeOK
  <2>2. CASE pc[w] \notin {"loaded", "failing"} \cup Saves
    BY <1>5, <2>2 DEF WorkerStep, Take, MarkProcessing, Raise, Decide, SaveResult,
       SavePipelineResult, MarkFailed, Reread, ReadCounters, WriteCounters
  <2>3. QED
    BY <2>1, <2>2
<1>6. ASSUME ApiCrash \/ UNCHANGED vars PROVE jobStatus' = jobStatus
  BY <1>6 DEF ApiCrash, vars
<1>7. QED
  BY <1>2, <1>3, <1>4, <1>5, <1>6 DEF Next, WorkerCrash, Drop

(* A worker past deciding holds a job that is decided.                     *)
LEMMA HeldDecided ==
    ASSUME TypeOK, OneOwner, NEW v \in Worker,
           pc[v] \in Saves \cup {"reread", "counting", "writing"}
    PROVE  cur[v] \in Job /\ ~Undecided(cur[v])
<1>1. cur[v] \in Job /\ step[cur[v]] = "sent" /\ cur[v] \in Held /\ cur[v] # NoJob
  BY HeldJob, WorkerAssumption
<1>2. cur[v] \notin queue /\ \A w \in Worker : cur[w] = cur[v] => w = v
  BY <1>1 DEF OneOwner
<1>3. QED
  BY <1>1, <1>2 DEF Undecided

LEMMA UnreviewedNext ==
    TypeOK /\ OneOwner /\ ~UseRedis /\ WorkflowsBegin /\ CompletedUnreviewed /\ [Next]_vars
        => CompletedUnreviewed'
<1> SUFFICES ASSUME TypeOK, OneOwner, ~UseRedis, WorkflowsBegin, CompletedUnreviewed, [Next]_vars
             PROVE  CompletedUnreviewed'
  OBVIOUS
<1>1. ASSUME NEW v \in Worker, pc'[v] \in Saves, verdict'[v] = "completed"
      PROVE  started'[cur'[v]] = 0
  <2>1. CASE pc[v] \in Saves /\ cur'[v] = cur[v] /\ verdict'[v] = verdict[v]
    <3>1. started[cur[v]] = 0
      BY <1>1, <2>1 DEF CompletedUnreviewed
    <3>2. QED
      BY <2>1, <3>1, HeldDecided, StartedFrame
  <2>2. CASE Decide(v)
    <3>1. cur' = cur /\ started' = started
      BY <1>1, <2>2 DEF Decide, TypeOK
    <3>2. cur[v] \in Job /\ Undecided(cur[v])
      BY <2>2, HeldJob, DecidedAfter DEF Decide
    <3>3. QED
      BY <3>1, <3>2 DEF WorkflowsBegin
  <2>3. QED
    BY <1>1, <2>1, <2>2, WorkerMoves
<1>2. ASSUME NEW v \in Worker, pc'[v] \in {"counting", "writing"}
      PROVE  \/ verdict'[v] = "failed"
             \/ /\ verdict'[v] = "completed" /\ started'[cur'[v]] = 0
                /\ jobStatus'[cur'[v]] \in {"completed", "reviewed"}
  <2>1. ASSUME pc[v] \in {"counting", "writing"}, cur'[v] = cur[v], verdict'[v] = verdict[v]
        PROVE  \/ verdict'[v] = "failed"
               \/ /\ verdict'[v] = "completed" /\ started'[cur'[v]] = 0
                  /\ jobStatus'[cur'[v]] \in {"completed", "reviewed"}
    <3>1. CASE verdict[v] = "failed"
      BY <2>1, <3>1
    <3>2. CASE verdict[v] # "failed"
      <4>1. /\ verdict[v] = "completed" /\ started[cur[v]] = 0
            /\ jobStatus[cur[v]] \in {"completed", "reviewed"}
        BY <2>1, <3>2 DEF CompletedUnreviewed
      <4>2. started'[cur[v]] = 0
        BY <2>1, <4>1, HeldDecided, StartedFrame
      <4>3. jobStatus'[cur[v]] \in {"completed", "reviewed"}
        BY <2>1, <4>1, CountedStays
      <4>4. QED
        BY <2>1, <4>1, <4>2, <4>3
    <3>3. QED
      BY <3>1, <3>2
  <2>2. ASSUME Reread(v), pc'[v] = "counting"
        PROVE  \/ verdict'[v] = "failed"
               \/ /\ verdict'[v] = "completed" /\ started'[cur'[v]] = 0
                  /\ jobStatus'[cur'[v]] \in {"completed", "reviewed"}
    <3>1. /\ jobStatus[cur[v]] \in {"completed", "failed"}
          /\ verdict'[v] = jobStatus[cur[v]]
          /\ cur' = cur /\ UNCHANGED <<jobStatus, started>>
      BY <2>2 DEF Reread, Release, Go, TypeOK, rowVars, reviewVars
    <3>2. cur[v] \in Job
      BY <2>2, HeldJob DEF Reread
    <3>3. QED
      BY <3>1, <3>2 DEF CompletedUnreviewed
  <2>3. ReadCounters(v) => /\ pc[v] = "counting" /\ cur'[v] = cur[v]
                           /\ verdict'[v] = verdict[v]
    BY DEF ReadCounters
  <2>4. QED
    BY <1>2, <2>1, <2>2, <2>3, WorkerMoves
<1>3. QED
  BY <1>1, <1>2, CompletedNext DEF CompletedUnreviewed

-----------------------------------------------------------------------------
(* The counters.                                                           *)

(* One more member raises the bounds by one.                               *)
LEMMA OneMore ==
    ASSUME NEW S, NEW T, NEW x, IsFiniteSet(T), S \subseteq T, x \in T, x \notin S
    PROVE  Cardinality(S) + 1 <= Cardinality(T)
<1>1. IsFiniteSet(S) /\ Cardinality(S) \in Nat
  BY FS_Subset, FS_CardinalityType
<1>2. IsFiniteSet(S \cup {x}) /\ Cardinality(S \cup {x}) = Cardinality(S) + 1
  BY <1>1, FS_AddElement
<1>3. Cardinality(S \cup {x}) <= Cardinality(T)
  BY <1>2, FS_Subset
<1>4. QED
  BY <1>2, <1>3

(* The job a worker has just counted is settled, and done if it was        *)
(* counted as completed.                                                   *)
LEMMA CountedJoins ==
    ASSUME TypeOK, OneOwner, ~UseRedis, WorkflowsBegin, CompletedUnreviewed, [Next]_vars,
           NEW w \in Worker, WriteCounters(w), NEW j, j = cur[w], NEW b, b = BatchOf[cur[w]]
    PROVE  /\ j \notin SettledIn(b) /\ j \in SettledIn(b)'
           /\ verdict[w] = "completed" => j \notin DoneIn(b) /\ j \in DoneIn(b)'
<1>1. /\ j \in Job /\ step[j] = "sent" /\ j \in Held /\ j \notin queue /\ pc[w] = "writing"
  BY HeldJob DEF WriteCounters, OneOwner
<1>2. UNCHANGED <<step, queue, jobStatus, started, finalised>> /\ Release(w)
  BY DEF WriteCounters, rowVars, queueVars, reviewVars
<1>3. Held' = Held \ {j}
  BY <1>2, OwnerRelease
<1>4. j \notin SettledIn(b) /\ j \notin DoneIn(b)
  BY <1>1 DEF SettledIn, DoneIn, Settled
<1>5. j \in SettledIn(b)'
  BY <1>1, <1>2, <1>3 DEF SettledIn, Settled, Files
<1>6. ASSUME verdict[w] = "completed" PROVE j \in DoneIn(b)'
  <2>1. started[j] = 0 /\ jobStatus[j] \in {"completed", "reviewed"}
    BY <1>1, <1>6 DEF CompletedUnreviewed
  <2>2. finalised[j] = 0
    BY <1>1, <2>1 DEF WorkflowsBegin, TypeOK
  <2>3. QED
    BY <1>2, <1>5, <2>1, <2>2 DEF DoneIn
<1>7. QED
  BY <1>4, <1>5, <1>6

LEMMA CountersNext ==
    TypeOK /\ OneOwner /\ ~UseRedis /\ WorkflowsBegin /\ CompletedUnreviewed
        /\ CountersWithin /\ [Next]_vars => CountersWithin'
<1> SUFFICES ASSUME TypeOK, OneOwner, ~UseRedis, WorkflowsBegin, CompletedUnreviewed,
                    CountersWithin, [Next]_vars
             PROVE  CountersWithin'
  OBVIOUS
<1> USE DEF batchVars, rowVars, queueVars, workerVars, reviewVars, faultVars
<1>1. ASSUME NEW v \in Worker, pc'[v] = "writing",
             NEW b, b = BatchOf[cur'[v]], NEW c, c = seen'[v].completed, NEW f, f = seen'[v].failed
      PROVE  WithinBounds(b, c, f)'
  <2>1. CASE pc[v] = "writing" /\ cur'[v] = cur[v] /\ seen'[v] = seen[v]
    <3>1. c \in Nat /\ f \in Nat /\ WithinBounds(b, c, f)
      BY <1>1, <2>1 DEF CountersWithin, TypeOK
    <3>2. QED
      BY <3>1, BoundsGrow, SetsGrow
  <2>2. CASE ReadCounters(v)
    <3>1. c = bCompleted[b] /\ f = bFailed[b] /\ b \in Batch
      BY <1>1, <2>2, HeldJob DEF ReadCounters, TypeOK
    <3>2. c \in Nat /\ f \in Nat /\ WithinBounds(b, c, f)
      BY <3>1 DEF CountersWithin, TypeOK
    <3>3. QED
      BY <3>2, BoundsGrow, SetsGrow
  <2>3. QED
    BY <1>1, <2>1, <2>2, WorkerMoves
<1>2. ASSUME NEW b \in Batch, NEW c, c = bCompleted'[b], NEW f, f = bFailed'[b]
      PROVE  WithinBounds(b, c, f)'
  <2>1. CASE bCompleted'[b] = bCompleted[b] /\ bFailed'[b] = bFailed[b]
    <3>1. c \in Nat /\ f \in Nat /\ WithinBounds(b, c, f)
      BY <1>2, <2>1 DEF CountersWithin, TypeOK
    <3>2. QED
      BY <3>1, BoundsGrow, SetsGrow
  <2>2. ASSUME NEW w \in Worker, WriteCounters(w), b = BatchOf[cur[w]]
        PROVE  WithinBounds(b, c, f)'
    <3> DEFINE sc == seen[w].completed
               sf == seen[w].failed
    <3>1. sc \in Nat /\ sf \in Nat /\ pc[w] = "writing"
      BY <2>2 DEF TypeOK, WriteCounters
    <3>2. sc <= Cardinality(DoneIn(b)) /\ sc + sf <= Cardinality(SettledIn(b))
      BY <2>2, <3>1 DEF CountersWithin, WithinBounds
    <3>3. c = sc + Plus(w, "completed") /\ f = sf + Plus(w, "failed")
      BY <1>2, <2>2 DEF WriteCounters, Counted, TypeOK
    <3>4. Cardinality(SettledIn(b)) + 1 <= Cardinality(SettledIn(b)')
      BY <2>2, CountedJoins, SetsGrow, SetsFinitePrime, OneMore
    <3>5. verdict[w] = "completed" => Cardinality(DoneIn(b)) + 1 <= Cardinality(DoneIn(b)')
      BY <2>2, CountedJoins, SetsGrow, SetsFinitePrime, OneMore
    <3>6. Cardinality(DoneIn(b)) <= Cardinality(DoneIn(b)')
      BY SetsGrow, SetsFinitePrime, FS_Subset
    <3>7. QED
      BY <3>1, <3>2, <3>3, <3>4, <3>5, <3>6, SetsFinite, SetsFinitePrime DEF Plus, WithinBounds
  <2>3. ASSUME NEW w \in Worker, WriteCounters(w), b # BatchOf[cur[w]]
        PROVE  bCompleted'[b] = bCompleted[b] /\ bFailed'[b] = bFailed[b]
    BY <2>3 DEF WriteCounters, TypeOK
  <2>4. ASSUME NEW w \in Worker, WorkerStep(w), ~WriteCounters(w)
        PROVE  UNCHANGED <<bCompleted, bFailed>>
    BY <2>4 DEF WorkerStep, Take, MarkProcessing, Raise, Decide, SaveResult,
                SavePipelineResult, MarkFailed, Reread, ReadCounters
  <2>5. ASSUME NEW k \in Job, Submit(k) \/ Review(k) PROVE UNCHANGED <<bCompleted, bFailed>>
    BY <2>5 DEF Submit, SkipFile, CreateJob, AddItem, Enqueue, Review, FinaliseReview,
                LegacyCheck, LegacyReview
  <2>6. ASSUME NEW d \in Batch, CreateBatch(d) \/ CancelBatch(d)
        PROVE UNCHANGED <<bCompleted, bFailed>>
    BY <2>6 DEF CreateBatch, CancelBatch
  <2>7. ASSUME ApiCrash \/ UNCHANGED vars PROVE UNCHANGED <<bCompleted, bFailed>>
    BY <2>7 DEF ApiCrash, vars
  <2>8. QED
    BY <2>1, <2>2, <2>3, <2>4, <2>5, <2>6, <2>7 DEF Next, WorkerCrash, Drop
<1>3. QED
  BY <1>1, <1>2 DEF CountersWithin

(* The inductive invariant of the counters.                                *)
LEMMA BoundsInductive == Spec => [](TypeOK /\ OneOwner /\ CountsBounded)
<1>1. Init => CountsBounded
  <2> SUFFICES ASSUME Init PROVE WorkflowsBegin /\ CompletedUnreviewed /\ CountersWithin
    BY DEF CountsBounded
  <2>1. WorkflowsBegin /\ CompletedUnreviewed
    BY DEF Init, WorkflowsBegin, CompletedUnreviewed
  <2>2. \A b \in Batch : WithinBounds(b, bCompleted[b], bFailed[b])
    BY SetsFinite DEF Init, WithinBounds
  <2>3. QED
    BY <2>1, <2>2 DEF Init, CountersWithin
<1>2. TypeOK /\ OneOwner /\ CountsBounded /\ [Next]_vars => CountsBounded'
  BY WorkflowsNext, UnreviewedNext, CountersNext DEF CountsBounded
<1>3. QED
  BY <1>1, <1>2, OwnedInductive, PTL DEF Spec

(* The bounds hold in every reachable state with the in-memory queue.      *)
THEOREM CountersBounded == Spec => []CountsBounded
BY BoundsInductive, PTL

(* Lost updates can leave the counters of a batch too small, but however   *)
(* the workers' reads and writes interleave they never exceed its files.   *)
THEOREM NeverOvercounted == Spec => []NoOvercount
<1>1. TypeOK /\ CountsBounded => NoOvercount
  <2> SUFFICES ASSUME TypeOK, CountsBounded, ~UseRedis, NEW b \in Batch
               PROVE  bCompleted[b] + bFailed[b] <= Cardinality(Files(b))
    BY DEF NoOvercount
  <2>1. bCompleted[b] + bFailed[b] <= Cardinality(SettledIn(b))
    BY DEF CountsBounded, CountersWithin, WithinBounds
  <2>2. Cardinality(SettledIn(b)) <= Cardinality(Files(b))
    BY SetsFinite, FilesFinite, FS_Subset
  <2>3. QED
    BY <2>1, <2>2, SetsFinite, FilesFinite DEF TypeOK
<1>2. QED
  BY <1>1, BoundsInductive, PTL

(* A batch row says "completed" only when every file of the batch was run  *)
(* and its job is completed or reviewed: skipped, lost, failed, rejected   *)
(* and unfinished files all keep it from that status.                      *)
THEOREM CompletedBatchIsTrue == Spec => []CompletedIsTruthful
<1>1. TypeOK /\ CountsBounded /\ StatusMatchesCounters => CompletedIsTruthful
  <2> SUFFICES ASSUME TypeOK, CountsBounded, StatusMatchesCounters, ~UseRedis,
                      NEW b \in Batch, bStatus[b] = "completed"
               PROVE  \A j \in Files(b) : Settled(j) /\ jobStatus[j] \in {"completed", "reviewed"}
    BY DEF CompletedIsTruthful
  <2>1. DeriveStatus(Cardinality(Files(b)), bCompleted[b], bFailed[b]) = "completed"
    BY DEF StatusMatchesCounters
  <2>2. Cardinality(Files(b)) <= bCompleted[b]
    BY <2>1, FilesFinite, DeriveStatusFacts DEF TypeOK
  <2>3. bCompleted[b] <= Cardinality(DoneIn(b))
    BY DEF CountsBounded, CountersWithin, WithinBounds
  <2>4. DoneIn(b) \subseteq Files(b) /\ Cardinality(DoneIn(b)) <= Cardinality(Files(b))
    BY SetsFinite, FilesFinite, FS_Subset
  <2>5. Cardinality(DoneIn(b)) = Cardinality(Files(b))
    <3>1. /\ bCompleted[b] \in Nat /\ Cardinality(DoneIn(b)) \in Nat
          /\ Cardinality(Files(b)) \in Nat
      BY SetsFinite, FilesFinite DEF TypeOK
    <3>2. QED
      BY <2>2, <2>3, <2>4, <3>1
  <2>6. DoneIn(b) = Files(b)
    BY <2>4, <2>5, FilesFinite, FS_Subset
  <2>7. QED
    BY <2>6 DEF DoneIn, SettledIn
<1>2. QED
  BY <1>1, BoundsInductive, RowsInductive, PTL

(* _determine_final_status starts at most one approval workflow per job.   *)
THEOREM WorkflowOnce == Spec => []OneWorkflow
<1>1. CountsBounded => OneWorkflow
  BY DEF CountsBounded, WorkflowsBegin, OneWorkflow
<1>2. QED
  BY <1>1, BoundsInductive, PTL

(* No failure, cancellation, second run or rejection undoes a completed    *)
(* job: only a review changes it.                                          *)
THEOREM CompletedFinal == Spec => CompletedStays
<1> DEFINE Stays == ~UseRedis => \A j \in Job : jobStatus[j] = "completed" =>
                        jobStatus'[j] \in {"completed", "reviewed"}
<1> USE DEF batchVars, rowVars, queueVars, workerVars, reviewVars, faultVars
<1>1. TypeOK /\ OneOwner /\ CountsBounded /\ [Next]_vars => [Stays]_vars
  <2> SUFFICES ASSUME TypeOK, OneOwner, WorkflowsBegin, CompletedUnreviewed, [Next]_vars,
                      ~UseRedis, NEW j \in Job, jobStatus[j] = "completed"
               PROVE  jobStatus'[j] \in {"completed", "reviewed"}
    BY DEF CountsBounded
  <2>1. started[j] = 0 /\ ~Unsaved(j) /\ ~Undecided(j) /\ step[j] = "sent"
        /\ ~(finalised[j] < started[j])
    BY DEF CompletedUnreviewed, Unsaved, Undecided, WorkflowsBegin, TypeOK
  <2>2. ASSUME NEW b \in Batch, CreateBatch(b) \/ CancelBatch(b) PROVE jobStatus'[j] = jobStatus[j]
    BY <2>2 DEF CreateBatch, CancelBatch
  <2>3. ASSUME NEW k \in Job, Submit(k) PROVE jobStatus'[j] = jobStatus[j]
    BY <2>1, <2>3 DEF Submit, SkipFile, CreateJob, AddItem, Enqueue, NextFile, TypeOK
  <2>4. ASSUME NEW k \in Job, Review(k) PROVE jobStatus'[j] \in {jobStatus[j], "reviewed"}
    BY <2>1, <2>4 DEF Review, FinaliseReview, LegacyCheck, LegacyReview, TypeOK
  <2>5. ASSUME NEW w \in Worker, WorkerStep(w) PROVE jobStatus'[j] = jobStatus[j]
    <3>1. CASE pc[w] \in {"loaded", "failing"} \cup Saves
      <4>1. cur[w] # j
        BY <2>1, <3>1 DEF Unsaved, Undecided
      <4>2. QED
        BY <2>5, <3>1, <4>1 DEF WorkerStep, Take, MarkProcessing, Raise, Decide, SaveResult,
           SavePipelineResult, MarkFailed, SetJob, Reread, ReadCounters, WriteCounters, TypeOK
    <3>2. CASE pc[w] \notin {"loaded", "failing"} \cup Saves
      BY <2>5, <3>2 DEF WorkerStep, Take, MarkProcessing, Raise, Decide, SaveResult,
         SavePipelineResult, MarkFailed, Reread, ReadCounters, WriteCounters
    <3>3. QED
      BY <3>1, <3>2
  <2>6. ASSUME ApiCrash \/ UNCHANGED vars PROVE jobStatus' = jobStatus
    BY <2>6 DEF ApiCrash, vars
  <2>7. QED
    BY <2>2, <2>3, <2>4, <2>5, <2>6 DEF Next, WorkerCrash, Drop
<1>2. QED
  BY <1>1, BoundsInductive, PTL DEF Spec, CompletedStays
=============================================================================
