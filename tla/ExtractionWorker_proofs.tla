----------------------- MODULE ExtractionWorker_proofs -----------------------
(***************************************************************************)
(* Proofs about ExtractionWorker for every number of jobs, batches,        *)
(* workers, crashes, dropped runs and retries.                             *)
(***************************************************************************)
EXTENDS ExtractionWorker, FiniteSetTheorems, TLAPS

USE DEF Saves

-----------------------------------------------------------------------------
(* Types.                                                                  *)

LEMMA DeriveStatusType ==
    ASSUME NEW t \in Nat, NEW c \in Nat, NEW f \in Nat
    PROVE  DeriveStatus(t, c, f) \in BatchState
BY DEF DeriveStatus, BatchState

LEMMA FilesFinite ==
    ASSUME NEW b
    PROVE  IsFiniteSet(Files(b)) /\ Cardinality(Files(b)) \in Nat
<1>1. Files(b) \subseteq Job
  BY DEF Files
<1>2. IsFiniteSet(Files(b))
  BY <1>1, WorkerAssumption, FS_Subset
<1>3. QED
  BY <1>2, FS_CardinalityType

LEMMA CountedType ==
    ASSUME TypeOK, NEW w \in Worker
    PROVE  /\ Counted(w) \in [completed : Nat, failed : Nat]
           /\ NewStatus(w) \in BatchState
<1>1. Plus(w, "completed") \in Nat /\ Plus(w, "failed") \in Nat
  BY DEF Plus
<1>2. seen[w].completed \in Nat /\ seen[w].failed \in Nat
  BY DEF TypeOK
<1>3. Counted(w) \in [completed : Nat, failed : Nat]
  BY <1>1, <1>2 DEF Counted
<1>4. QED
  BY <1>3, FilesFinite, DeriveStatusType DEF NewStatus

(* What a worker holds at each step, as the leaves below need it.          *)
LEMMA HeldJob ==
    ASSUME TypeOK, OneOwner, NEW w \in Worker, pc[w] # "idle"
    PROVE  /\ cur[w] \in Job /\ cur[w] \in Held /\ step[cur[w]] = "sent"
           /\ pc[w] \in {"reread", "counting", "writing"} => BatchOf[cur[w]] \in Batch
<1>1. cur[w] \in Job /\ cur[w] \in Held
  BY DEF TypeOK, OneOwner, Held
<1>2. QED
  BY <1>1, WorkerAssumption DEF OneOwner, InBatch

LEMMA TypeNext == TypeOK /\ OneOwner /\ [Next]_vars => TypeOK'
<1> SUFFICES ASSUME TypeOK, OneOwner, [Next]_vars PROVE TypeOK'
  OBVIOUS
<1> USE WorkerAssumption DEF TypeOK, BatchState, JobState, ItemState, StepState, LegacyState, PcState,
        batchVars, rowVars, queueVars, workerVars, reviewVars, faultVars, Go
<1>1. ASSUME NEW b \in Batch, CreateBatch(b) PROVE TypeOK'
  BY <1>1 DEF CreateBatch
<1>2. ASSUME NEW b \in Batch, CancelBatch(b) PROVE TypeOK'
  BY <1>2 DEF CancelBatch
<1>3. ASSUME NEW j \in Job, Submit(j) PROVE TypeOK'
  <2>1. CASE SkipFile(j)
    BY <2>1 DEF SkipFile
  <2>2. CASE CreateJob(j)
    BY <2>2 DEF CreateJob
  <2>3. CASE AddItem(j)
    BY <2>3 DEF AddItem
  <2>4. CASE Enqueue(j)
    BY <2>4 DEF Enqueue
  <2>5. QED
    BY <1>3, <2>1, <2>2, <2>3, <2>4 DEF Submit
<1>4. ASSUME NEW j \in Job, FinaliseReview(j) PROVE TypeOK'
  BY <1>4 DEF FinaliseReview
<1>5. ASSUME NEW j \in Job, LegacyCheck(j) \/ LegacyReview(j) PROVE TypeOK'
  <2>1. CASE LegacyCheck(j)
    BY <2>1 DEF LegacyCheck
  <2>2. CASE LegacyReview(j)
    BY <2>2 DEF LegacyReview
  <2>3. QED
    BY <1>5, <2>1, <2>2
<1>6. ASSUME NEW w \in Worker, NEW j \in Job, Take(w, j) PROVE TypeOK'
  BY <1>6 DEF Take
<1>7. ASSUME NEW w \in Worker, MarkProcessing(w) PROVE TypeOK'
  BY <1>7 DEF MarkProcessing, SetJob
<1>8. ASSUME NEW w \in Worker, Raise(w) PROVE TypeOK'
  BY <1>8 DEF Raise
<1>9. ASSUME NEW w \in Worker, Decide(w) PROVE TypeOK'
  <2>1. cur[w] \in Job
    BY <1>9 DEF Decide
  <2>2. verdict' \in [Worker -> JobState] /\ pc' \in [Worker -> PcState]
    BY <1>9 DEF Decide, ByConfidence
  <2>3. started' \in [Job -> Nat]
    BY <1>9, <2>1 DEF Decide
  <2>4. QED
    BY <1>9, <2>2, <2>3 DEF Decide
<1>10. ASSUME NEW w \in Worker, Release(w)
       PROVE  /\ pc' \in [Worker -> PcState] /\ cur' \in [Worker -> Job \cup {NoJob}]
              /\ verdict' \in [Worker -> JobState]
              /\ seen' \in [Worker -> [completed : Nat, failed : Nat]]
  BY <1>10 DEF Release, Nothing
<1>11. ASSUME NEW w \in Worker, ToCounters(w)
       PROVE  /\ pc' \in [Worker -> PcState] /\ cur' \in [Worker -> Job \cup {NoJob}]
              /\ verdict' \in [Worker -> JobState]
              /\ seen' \in [Worker -> [completed : Nat, failed : Nat]]
  BY <1>10, <1>11 DEF ToCounters
<1>12. ASSUME NEW w \in Worker,
              SaveResult(w) \/ SavePipelineResult(w) \/ MarkFailed(w) PROVE TypeOK'
  <2>1. \/ jobStatus' = [jobStatus EXCEPT ![cur[w]] = verdict[w]]
        \/ jobStatus' = [jobStatus EXCEPT ![cur[w]] = "failed"]
    BY <1>12 DEF SaveResult, SavePipelineResult, MarkFailed, SetJob
  <2>2. jobStatus' \in [Job -> JobState]
    BY <2>1
  <2>3. QED
    BY <1>10, <1>11, <1>12, <2>2 DEF SaveResult, SavePipelineResult, MarkFailed
<1>13. ASSUME NEW w \in Worker, Reread(w) PROVE TypeOK'
  <2>1. CASE jobStatus[cur[w]] \in {"completed", "failed"}
    <3>1. /\ verdict' = [verdict EXCEPT ![w] = jobStatus[cur[w]]]
          /\ pc' = [pc EXCEPT ![w] = "counting"] /\ UNCHANGED <<cur, seen>>
      BY <1>13, <2>1 DEF Reread
    <3>2. verdict' \in [Worker -> JobState] /\ pc' \in [Worker -> PcState]
      BY <2>1, <3>1
    <3>3. QED
      BY <1>13, <3>1, <3>2 DEF Reread
  <2>2. CASE jobStatus[cur[w]] \notin {"completed", "failed"}
    BY <1>10, <1>13, <2>2 DEF Reread
  <2>3. QED
    BY <2>1, <2>2
<1>14. ASSUME NEW w \in Worker, ReadCounters(w) PROVE TypeOK'
  <2>1. BatchOf[cur[w]] \in Batch
    BY <1>14, HeldJob DEF ReadCounters
  <2>2. QED
    BY <1>14, <2>1 DEF ReadCounters
<1>15. ASSUME NEW w \in Worker, WriteCounters(w) PROVE TypeOK'
  <2>1. bStatus' \in [Batch -> BatchState] /\ bCompleted' \in [Batch -> Nat]
        /\ bFailed' \in [Batch -> Nat]
    BY <1>15, CountedType DEF WriteCounters
  <2>2. QED
    BY <1>10, <1>15, <2>1 DEF WriteCounters
<1>16. CASE ApiCrash
  <2>1. step' \in [Job -> StepState]
    BY <1>16 DEF ApiCrash, Abandoned
  <2>2. QED
    BY <1>16, <2>1 DEF ApiCrash, AllIdle, Nothing
<1>17. CASE WorkerCrash
  BY <1>17 DEF WorkerCrash, Redelivered, Held, AllIdle, Nothing
<1>18. ASSUME NEW w \in Worker, Drop(w) PROVE TypeOK'
  BY <1>10, <1>18 DEF Drop
<1>19. CASE UNCHANGED vars
  BY <1>19 DEF vars
<1>20. QED
  BY <1>1, <1>2, <1>3, <1>4, <1>5, <1>6, <1>7, <1>8, <1>9, <1>12, <1>13, <1>14, <1>15,
     <1>16, <1>17, <1>18, <1>19 DEF Next, WorkerStep, Review

-----------------------------------------------------------------------------
(* Ownership.                                                              *)

(* Most steps move no job: then OneOwner only depends on pc.               *)
LEMMA OwnerFrame ==
    ASSUME TypeOK, OneOwner, UNCHANGED <<cur, queue>>,
           \A j \in Job : step[j] = "sent" => step'[j] = "sent",
           \A w \in Worker : /\ pc[w] = "idle" <=> pc'[w] = "idle"
                             /\ pc'[w] \in {"reread", "counting", "writing"}
                                    => cur[w] \in Job /\ InBatch(cur[w])
    PROVE  OneOwner'
<1>1. Held' = Held /\ Held \subseteq Job
  BY DEF Held, TypeOK
<1>2. QED
  BY <1>1 DEF OneOwner, TypeOK, InBatch

(* Dropping a job keeps the others where they are.                         *)
LEMMA OwnerRelease ==
    ASSUME TypeOK, OneOwner, NEW w \in Worker, Release(w), UNCHANGED <<step, queue>>
    PROVE  OneOwner' /\ Held' = Held \ {cur[w]}
<1>1. /\ cur' = [cur EXCEPT ![w] = NoJob] /\ pc' = [pc EXCEPT ![w] = "idle"]
  BY DEF Release, Go
<1>2. Held' = Held \ {cur[w]}
  BY <1>1 DEF Held, TypeOK, OneOwner
<1>3. QED
  BY <1>1, <1>2 DEF OneOwner, TypeOK, InBatch

LEMMA OwnerNext == TypeOK /\ OneOwner /\ [Next]_vars => OneOwner'
<1> SUFFICES ASSUME TypeOK, OneOwner, [Next]_vars PROVE OneOwner'
  OBVIOUS
<1> USE DEF batchVars, rowVars, queueVars, workerVars, reviewVars, faultVars
<1>1. ASSUME NEW b \in Batch, CreateBatch(b) \/ CancelBatch(b) PROVE OneOwner'
  <2>1. UNCHANGED <<step, queue, pc, cur>>
    BY <1>1 DEF CreateBatch, CancelBatch
  <2>2. QED
    BY <2>1, HeldJob, OwnerFrame DEF OneOwner, InBatch
<1>2. ASSUME NEW j \in Job, Submit(j) PROVE OneOwner'
  <2>1. CASE SkipFile(j) \/ CreateJob(j) \/ AddItem(j)
    <3>1. step[j] # "sent" /\ UNCHANGED <<queue, pc, cur>>
      BY <2>1 DEF SkipFile, CreateJob, AddItem, NextFile
    <3>2. \A k \in Job : step[k] = "sent" => step'[k] = "sent"
      BY <2>1, <3>1 DEF SkipFile, CreateJob, AddItem, TypeOK
    <3>3. QED
      BY <3>1, <3>2, HeldJob, OwnerFrame DEF OneOwner
  <2>2. CASE Enqueue(j)
    <3>1. /\ queue' = queue \cup {j} /\ step' = [step EXCEPT ![j] = "sent"]
          /\ UNCHANGED <<pc, cur>> /\ step[j] # "sent"
      BY <2>2 DEF Enqueue
    <3>2. Held' = Held /\ j \notin Held
      BY <3>1 DEF Held, OneOwner
    <3>3. QED
      BY <3>1, <3>2 DEF OneOwner, TypeOK, InBatch
  <2>3. QED
    BY <1>2, <2>1, <2>2 DEF Submit
<1>3. ASSUME NEW j \in Job, Review(j) PROVE OneOwner'
  <2>1. UNCHANGED <<step, queue, pc, cur>>
    BY <1>3 DEF Review, FinaliseReview, LegacyCheck, LegacyReview
  <2>2. QED
    BY <2>1, HeldJob, OwnerFrame DEF OneOwner
<1>4. ASSUME NEW w \in Worker, NEW j \in Job, Take(w, j) PROVE OneOwner'
  <2>1. /\ pc[w] = "idle" /\ j \in queue /\ queue' = queue \ {j}
        /\ cur' = [cur EXCEPT ![w] = j] /\ pc' = [pc EXCEPT ![w] = "loaded"]
        /\ step' = step
    BY <1>4 DEF Take, Go
  <2>2. j \notin Held /\ cur[w] = NoJob /\ j # NoJob
    BY <2>1, WorkerAssumption DEF OneOwner
  <2>3. Held' = Held \cup {j}
    BY <2>1, <2>2 DEF Held, TypeOK
  <2>4. QED
    BY <2>1, <2>2, <2>3 DEF OneOwner, TypeOK, InBatch, Held
<1>5. ASSUME NEW w \in Worker, MarkProcessing(w) \/ Raise(w) \/ Decide(w) PROVE OneOwner'
  <2>1. /\ pc[w] # "idle"
        /\ \E next \in {"running", "failing"} \cup Saves : pc' = [pc EXCEPT ![w] = next]
        /\ UNCHANGED <<step, queue, cur>>
    BY <1>5 DEF MarkProcessing, Raise, Decide, Go, RaisesAt
  <2>2. QED
    BY <2>1, HeldJob, OwnerFrame DEF OneOwner, TypeOK
<1>6. ASSUME NEW w \in Worker, pc[w] # "idle", ToCounters(w), UNCHANGED <<step, queue>>
      PROVE  OneOwner'
  <2>1. CASE InBatch(cur[w])
    <3>1. pc' = [pc EXCEPT ![w] = "reread"] /\ cur' = cur
      BY <1>6, <2>1 DEF ToCounters, Go
    <3>2. QED
      BY <1>6, <2>1, <3>1, HeldJob, OwnerFrame DEF OneOwner, TypeOK
  <2>2. CASE ~InBatch(cur[w])
    BY <1>6, <2>2, OwnerRelease DEF ToCounters
  <2>3. QED
    BY <2>1, <2>2
<1>7. ASSUME NEW w \in Worker, SaveResult(w) \/ MarkFailed(w) PROVE OneOwner'
  BY <1>6, <1>7 DEF SaveResult, MarkFailed
<1>8. ASSUME NEW w \in Worker, SavePipelineResult(w) \/ WriteCounters(w) \/ Drop(w)
      PROVE  OneOwner'
  BY <1>8, OwnerRelease DEF SavePipelineResult, WriteCounters, Drop
<1>9. ASSUME NEW w \in Worker, Reread(w) PROVE OneOwner'
  <2>1. CASE Release(w)
    BY <1>9, <2>1, OwnerRelease DEF Reread
  <2>2. CASE ~Release(w)
    <3>1. /\ pc[w] = "reread" /\ pc' = [pc EXCEPT ![w] = "counting"]
          /\ UNCHANGED <<step, queue, cur>>
      BY <1>9, <2>2 DEF Reread, Go
    <3>2. QED
      BY <3>1, HeldJob, OwnerFrame DEF OneOwner, TypeOK
  <2>3. QED
    BY <2>1, <2>2
<1>10. ASSUME NEW w \in Worker, ReadCounters(w) PROVE OneOwner'
  <2>1. /\ pc[w] = "counting" /\ pc' = [pc EXCEPT ![w] = "writing"]
        /\ UNCHANGED <<step, queue, cur>>
    BY <1>10 DEF ReadCounters, Go
  <2>2. QED
    BY <2>1, HeldJob, OwnerFrame DEF OneOwner, TypeOK
<1>11. CASE ApiCrash
  <2>1. \A j \in Job : step[j] = "sent" => step'[j] = "sent"
    BY <1>11 DEF ApiCrash, Abandoned
  <2>2. CASE UseRedis
    <3>1. UNCHANGED <<queue, pc, cur>>
      BY <1>11, <2>2 DEF ApiCrash
    <3>2. QED
      BY <2>1, <3>1, HeldJob, OwnerFrame DEF OneOwner
  <2>3. CASE ~UseRedis
    <3>1. queue' = {} /\ AllIdle
      BY <1>11, <2>3 DEF ApiCrash
    <3>2. QED
      BY <3>1 DEF AllIdle, OneOwner, Held
  <2>4. QED
    BY <2>2, <2>3
<1>12. CASE WorkerCrash
  <2>1. AllIdle /\ queue' = queue \cup Redelivered /\ step' = step /\ Redelivered \subseteq Held
    BY <1>12 DEF WorkerCrash, Redelivered
  <2>2. Held' = {}
    BY <2>1 DEF AllIdle, Held
  <2>3. QED
    BY <2>1, <2>2 DEF AllIdle, OneOwner
<1>13. CASE UNCHANGED vars
  BY <1>13, HeldJob, OwnerFrame DEF vars, OneOwner
<1>14. QED
  BY <1>1, <1>2, <1>3, <1>4, <1>5, <1>7, <1>8, <1>9, <1>10, <1>11, <1>12, <1>13
  DEF Next, WorkerStep

(* Ownership needs the types (a step's target is a job) and the types need *)
(* ownership (a worker at its counters holds a job of a batch).            *)
LEMMA OwnedInductive == Spec => [](TypeOK /\ OneOwner)
<1>1. Init => TypeOK
  BY WorkerAssumption DEF Init, TypeOK, BatchState, JobState, ItemState, StepState, LegacyState, PcState, Nothing
<1>2. Init => OneOwner
  BY DEF Init, OneOwner, Held
<1>3. QED
  BY <1>1, <1>2, TypeNext, OwnerNext, PTL DEF Spec

(* Every variable of the model keeps to the values its column, queue or    *)
(* local variable can hold, through every handler, worker step and fault.  *)
THEOREM TypeCorrect == Spec => []TypeOK
BY OwnedInductive, PTL

(* process_job never runs twice at the same time for one job, whichever    *)
(* queue is used, however workers and processes crash or time out.         *)
THEOREM Ownership == Spec => []OneOwner
BY OwnedInductive, PTL
-----------------------------------------------------------------------------
(* The queue and its workers implement TaskQueue.                          *)

(* A step that moves no job and sends none is a stutter of the queue.      *)
LEMMA QueueStutters ==
    ASSUME Held' = Held, queue' = queue,
           \A j \in Job : step'[j] = "sent" <=> step[j] = "sent"
    PROVE  UNCHANGED TaskState
BY DEF TaskState

(* A worker letting go of its job finishes the task.                       *)
LEMMA ReleaseFinishes ==
    ASSUME TypeOK, OneOwner, NEW w \in Worker, pc[w] # "idle", Release(w),
           UNCHANGED <<step, queue>>
    PROVE  Q!Finish(cur[w])
<1> DEFINE j == cur[w]
<1>1. j \in Job /\ j \in Held /\ j \notin queue /\ step[j] = "sent"
  BY HeldJob DEF OneOwner
<1>2. Held' = Held \ {j}
  BY OwnerRelease
<1>3. TaskState[j] = "running"
  BY <1>1 DEF TaskState
<1>4. TaskState' = [TaskState EXCEPT ![j] = "gone"]
  BY <1>1, <1>2 DEF TaskState
<1>5. QED
  BY <1>3, <1>4 DEF Q!Finish

LEMMA QueueStep == TypeOK /\ OneOwner /\ [Next]_vars => [Q!Next]_TaskState
<1> SUFFICES ASSUME TypeOK, OneOwner, [Next]_vars PROVE Q!Next \/ UNCHANGED TaskState
  OBVIOUS
<1> USE DEF batchVars, rowVars, queueVars, workerVars, reviewVars, faultVars
<1>1. ASSUME NEW b \in Batch, CreateBatch(b) \/ CancelBatch(b) PROVE UNCHANGED TaskState
  BY <1>1, QueueStutters DEF CreateBatch, CancelBatch, Held
<1>2. ASSUME NEW j \in Job, Submit(j) PROVE Q!Next \/ UNCHANGED TaskState
  <2>1. CASE SkipFile(j) \/ CreateJob(j) \/ AddItem(j)
    <3>1. step[j] # "sent" /\ UNCHANGED <<queue, cur>>
      BY <2>1 DEF SkipFile, CreateJob, AddItem, NextFile
    <3>2. \A k \in Job : step'[k] = "sent" <=> step[k] = "sent"
      BY <2>1, <3>1 DEF SkipFile, CreateJob, AddItem, TypeOK
    <3>3. QED
      BY <3>1, <3>2, QueueStutters DEF Held
  <2>2. CASE Enqueue(j)
    <3>1. /\ queue' = queue \cup {j} /\ step' = [step EXCEPT ![j] = "sent"]
          /\ Held' = Held /\ step[j] # "sent"
      BY <2>2 DEF Enqueue, Held
    <3>2. j \notin queue /\ j \notin Held
      BY <3>1 DEF OneOwner
    <3>3. TaskState[j] = "new" /\ TaskState' = [TaskState EXCEPT ![j] = "queued"]
      BY <3>1, <3>2 DEF TaskState, TypeOK
    <3>4. QED
      BY <3>3 DEF Q!Next, Q!Put
  <2>3. QED
    BY <1>2, <2>1, <2>2 DEF Submit
<1>3. ASSUME NEW j \in Job, Review(j) PROVE UNCHANGED TaskState
  BY <1>3, QueueStutters DEF Review, FinaliseReview, LegacyCheck, LegacyReview, Held
<1>4. ASSUME NEW w \in Worker, NEW j \in Job, Take(w, j) PROVE Q!Next
  <2>1. /\ pc[w] = "idle" /\ j \in queue /\ queue' = queue \ {j}
        /\ cur' = [cur EXCEPT ![w] = j] /\ step' = step
    BY <1>4 DEF Take
  <2>2. cur[w] = NoJob /\ j # NoJob /\ j \notin Held
    BY <2>1, WorkerAssumption DEF OneOwner
  <2>3. Held' = Held \cup {j}
    BY <2>1, <2>2 DEF Held, TypeOK
  <2>4. TaskState[j] = "queued" /\ TaskState' = [TaskState EXCEPT ![j] = "running"]
    BY <2>1, <2>2, <2>3 DEF TaskState
  <2>5. QED
    BY <2>4 DEF Q!Next, Q!Start
<1>5. ASSUME NEW w \in Worker, MarkProcessing(w) \/ Raise(w) \/ Decide(w) \/ ReadCounters(w)
      PROVE  UNCHANGED TaskState
  BY <1>5, QueueStutters DEF MarkProcessing, Raise, Decide, ReadCounters, Held
<1>6. ASSUME NEW w \in Worker, pc[w] # "idle", ToCounters(w) \/ Release(w),
             UNCHANGED <<step, queue>>
      PROVE  Q!Next \/ UNCHANGED TaskState
  <2>1. CASE Release(w)
    <3>1. cur[w] \in Job /\ Q!Finish(cur[w])
      BY <1>6, <2>1, ReleaseFinishes, HeldJob
    <3>2. QED
      BY <3>1 DEF Q!Next
  <2>2. CASE ~Release(w)
    BY <1>6, <2>2, QueueStutters DEF ToCounters, Held
  <2>3. QED
    BY <2>1, <2>2
<1>7. ASSUME NEW w \in Worker,
             \/ SaveResult(w) \/ SavePipelineResult(w) \/ MarkFailed(w)
             \/ WriteCounters(w) \/ Drop(w)
      PROVE  Q!Next \/ UNCHANGED TaskState
  BY <1>6, <1>7 DEF SaveResult, SavePipelineResult, MarkFailed, WriteCounters, Drop
<1>8. ASSUME NEW w \in Worker, Reread(w) PROVE Q!Next \/ UNCHANGED TaskState
  <2>1. CASE Release(w)
    BY <1>6, <1>8, <2>1 DEF Reread
  <2>2. CASE ~Release(w)
    BY <1>8, <2>2, QueueStutters DEF Reread, Held
  <2>3. QED
    BY <2>1, <2>2
<1>9. CASE ApiCrash
  <2>1. \A j \in Job : step'[j] = "sent" <=> step[j] = "sent"
    BY <1>9 DEF ApiCrash, Abandoned
  <2>2. CASE UseRedis
    BY <1>9, <2>1, <2>2, QueueStutters DEF ApiCrash, Held
  <2>3. CASE ~UseRedis
    <3> DEFINE Lost == (queue \cup Held) \cap Job
    <3>1. queue' = {} /\ Held' = {}
      BY <1>9, <2>3 DEF ApiCrash, AllIdle, Held
    <3>2. Lost \subseteq {t \in Job : TaskState[t] \in {"queued", "running"}}
      BY DEF TaskState
    <3>3. TaskState' = [t \in Job |-> IF t \in {} THEN "queued"
                                     ELSE IF t \in Lost THEN "gone" ELSE TaskState[t]]
      BY <2>1, <3>1 DEF TaskState, OneOwner
    <3>4. Q!Fault({}, Lost)
      BY <3>2, <3>3 DEF Q!Fault
    <3>5. QED
      BY <3>4 DEF Q!Next
  <2>4. QED
    BY <2>2, <2>3
<1>10. CASE WorkerCrash
  <2> DEFINE Lost == Held \ Redelivered
  <2>1. UseRedis /\ queue' = queue \cup Redelivered /\ Held' = {} /\ step' = step
    BY <1>10 DEF WorkerCrash, AllIdle, Held
  <2>2. Held \subseteq Job /\ Redelivered \subseteq Held /\ Held \cap queue = {}
    BY DEF Held, TypeOK, OneOwner, Redelivered
  <2>3. \A t \in Held : TaskState[t] = "running"
    BY <2>2 DEF TaskState
  <2>4. TaskState' = [t \in Job |-> IF t \in Redelivered THEN "queued"
                                   ELSE IF t \in Lost THEN "gone" ELSE TaskState[t]]
    BY <2>1, <2>2 DEF TaskState, OneOwner
  <2>5. Q!Fault(Redelivered, Lost)
    BY <2>1, <2>2, <2>3, <2>4 DEF Q!Fault
  <2>6. Redelivered \in SUBSET Job /\ Lost \in SUBSET Job
    BY <2>2
  <2>7. QED
    BY <2>5, <2>6 DEF Q!Next
<1>11. CASE UNCHANGED vars
  BY <1>11, QueueStutters DEF vars, Held
<1>12. QED
  BY <1>1, <1>2, <1>3, <1>4, <1>5, <1>7, <1>8, <1>9, <1>10, <1>11 DEF Next, WorkerStep

(* However jobs are submitted, run, cancelled, reviewed or hit by faults,  *)
(* the queue with its workers is the abstract one: at-most-once in memory, *)
(* at-least-once with ARQ.                                                 *)
THEOREM QueueRefinement == Spec => QSpec
<1>1. Init => Q!Init
  BY DEF Init, Q!Init, TaskState, Held
<1>2. QED
  BY <1>1, OwnedInductive, QueueStep, PTL DEF Spec, QSpec, Q!Spec
=============================================================================
