-------------------------- MODULE FolderWatcher_proofs --------------------------
(***************************************************************************)
(* Proofs about FolderWatcher for every number of workers, jobs, documents *)
(* and faults, every set of pipelines and either queue.                    *)
(***************************************************************************)
EXTENDS FolderWatcher, FiniteSetTheorems, TLAPS

-----------------------------------------------------------------------------
(* The invariant                                                           *)

Images   == Doc \cup {Upload}
Results  == {<<d>> : d \in Images} \cup {None}
Contexts == [result : Results \cup {Empty}, confidence : {0, None}, abort : BOOLEAN]

Runs == [job : Job \cup {None},
         at : {"idle", "load", "select", "direct", "step", "save", "raised"},
         config : Configs \cup {<<>>}, next : Nat, context : Contexts, image : Images \cup {None}]

Loops == [at : {"listen", "files", "enqueue", "move", "down", "dead"},
          files : SUBSET Change, file : Name \cup {None}, job : Job \cup {None}]

(* A job's result is of its own document; a watched job has no fields and  *)
(* comes to nothing.                                                       *)
JobGood(job) ==
    /\ job.result \in {<<job.doc>>, None}
    /\ job.file # None =>
        /\ ~job.inline /\ job.result = None
        /\ job.status \notin {"completed", "pending_review"}
    /\ job.file = None => job.doc = Upload
    /\ job.aborted /\ job.status = "completed" => Threshold <= 0

(* What a worker has read is what it will save; no provider of a pipeline  *)
(* reports a confidence.                                                   *)
RunGood(js, r) ==
    /\ r.at # "idle" => r.job # None
    /\ r.job # None => js[r.job] # None
    /\ r.at = "load" => r.context.result = None
    /\ r.at \in {"select", "direct", "step", "save"} => r.image = js[r.job].doc /\ js[r.job].inline
    /\ r.at = "select" => js[r.job].pipeline # None
    /\ r.at = "step" => r.config \in Configs /\ r.next \in 1..Len(r.config)
    /\ r.context.result \in {None, Empty, <<r.image>>}

EngineInv ==
    /\ pipelines \in [Pipeline -> Configs \cup {None}]
    /\ jobs \in [Job -> JobRow \cup {None}]
    /\ queue \subseteq {j \in Job : jobs[j] # None}
    /\ run \in [Worker -> Runs]
    /\ \A j \in Job : jobs[j] # None => JobGood(jobs[j])
    /\ \A w \in Worker : RunGood(jobs, run[w])

(* The file in hand exists and has the job in hand, and is the one that    *)
(* the job was made of unless another was dropped on it.                   *)
InHand ==
    loop.at \in {"enqueue", "move"} =>
        /\ loop.file \in Name /\ watchDir[loop.file] # None
        /\ loop.job \in WatchedJobs
        /\ jobs[loop.job].doc = watchDir[loop.file] \/ watchDir[loop.file] \in shared

(* Without faults a file that is still in the directory has no job yet,    *)
(* but for the one in hand.                                                *)
JobsAreAhead ==
    \A j \in WatchedJobs, n \in Name :
        watchDir[n] = jobs[j].doc =>
            \/ faults > 0 \/ watchDir[n] \in shared
            \/ loop.at \in {"enqueue", "move"} /\ loop.file = n

(* Documents are numbered as they are dropped, each is one file.           *)
Numbered ==
    /\ \E k \in Nat : dropped = 1..k
    /\ \A n \in Name : watchDir[n] # None => watchDir[n] \in dropped
    /\ \A n, m \in Name : watchDir[n] # None /\ watchDir[n] = watchDir[m] => n = m

WatcherInv ==
    /\ watchDir \in [Name -> Doc \cup {None}] /\ processed \in [Name -> Doc \cup {None}]
    /\ changes \subseteq Change /\ loop \in Loops
    /\ dropped \subseteq Doc /\ faults \in Nat
    /\ Numbered /\ InHand /\ JobsAreAhead /\ OneJobPerDrop

Inv == EngineInv /\ WatcherInv

LEMMA InvImplies == Inv => TypeOK /\ OneJobPerDrop /\ AbortedIsReviewed /\ WatchedJobsFail
<1> SUFFICES ASSUME Inv PROVE TypeOK /\ OneJobPerDrop /\ AbortedIsReviewed /\ WatchedJobsFail
  OBVIOUS
<1>1. TypeOK
  <2>1. \A w \in Worker : run[w].job # None => jobs[run[w].job] # None
    BY DEF Inv, EngineInv, RunGood
  <2>2. loop.files \subseteq Change
    BY DEF Inv, WatcherInv, Loops
  <2>3. loop.at \in {"enqueue", "move"} => loop.job # None /\ watchDir[loop.file] # None
    BY WatcherAssumption DEF Inv, WatcherInv, InHand, WatchedJobs
  <2> QED BY <2>1, <2>2, <2>3 DEF Inv, EngineInv, WatcherInv, TypeOK
<1>2. AbortedIsReviewed
  BY DEF Inv, EngineInv, JobGood, AbortedIsReviewed
<1>3. WatchedJobsFail
  BY DEF Inv, EngineInv, JobGood, JobRow, Statuses, WatchedJobs, WatchedJobsFail
<1> QED BY <1>1, <1>2, <1>3 DEF Inv, WatcherInv

LEMMA InitInv == Init => Inv
<1> SUFFICES ASSUME Init PROVE Inv
  OBVIOUS
<1>1. EngineInv
  <2>1. Idle \in Runs /\ RunGood(jobs, Idle)
    BY DEF Idle, NoContext, Runs, Contexts, Results, RunGood
  <2> QED BY <2>1 DEF Init, EngineInit, EngineInv
<1>2. WatcherInv
  <2>1. Numbered
    <3>1. dropped = 1..0
      BY DEF Init
    <3> QED BY <3>1 DEF Init, Numbered
  <2>2. InHand /\ JobsAreAhead /\ OneJobPerDrop
    BY DEF Init, EngineInit, Listening, InHand, JobsAreAhead, OneJobPerDrop, WatchedJobs
  <2> QED BY <2>1, <2>2, WatcherAssumption DEF Init, WatcherInv, Loops, Listening
<1> QED BY <1>1, <1>2 DEF Inv

-----------------------------------------------------------------------------
(* Jobs and workers                                                        *)

(* Jobs are not forgotten, and keep what they were made of.                *)
Keeps(j) ==
    jobs[j] # None =>
        /\ jobs'[j] # None
        /\ jobs'[j].file = jobs[j].file /\ jobs'[j].doc = jobs[j].doc
        /\ jobs'[j].inline = jobs[j].inline /\ jobs'[j].pipeline = jobs[j].pipeline

KeepsJobs == \A j \in Job : Keeps(j)

(* No job is new.                                                          *)
NoNewJob == \A j \in Job : jobs'[j] # None => jobs[j] # None

LEMMA OneRun ==
    ASSUME EngineInv, NEW w \in Worker, NEW r \in Runs, RunGood(jobs, r),
           run' = [run EXCEPT ![w] = r], jobs' = jobs, pipelines' = pipelines, queue' = queue
    PROVE  EngineInv'
<1>1. ASSUME NEW v \in Worker PROVE RunGood(jobs, run[v])'
  <2>1. run'[v] \in Runs /\ RunGood(jobs', run'[v])
    BY DEF EngineInv
  <2> QED BY <2>1 DEF RunGood
<1> QED BY <1>1 DEF EngineInv, JobGood

(* A worker writes the row of its job.                                     *)
LEMMA OneUpdate ==
    ASSUME EngineInv, NEW w \in Worker, NEW r \in Runs, NEW j \in Job, jobs[j] # None,
           NEW row \in JobRow, JobGood(row),
           row.file = jobs[j].file, row.doc = jobs[j].doc,
           row.inline = jobs[j].inline, row.pipeline = jobs[j].pipeline,
           jobs' = [jobs EXCEPT ![j] = row], run' = [run EXCEPT ![w] = r],
           pipelines' = pipelines, queue' \subseteq queue,
           RunGood(jobs', r)
    PROVE  EngineInv' /\ KeepsJobs /\ NoNewJob
<1>1. KeepsJobs /\ NoNewJob
  BY WatcherAssumption DEF EngineInv, KeepsJobs, Keeps, NoNewJob
<1>2. ASSUME NEW v \in Worker PROVE RunGood(jobs, run[v])'
  <2>1. CASE v = w
    <3>1. run'[v] = r
      BY <2>1 DEF EngineInv
    <3> QED BY <3>1 DEF RunGood
  <2>2. CASE v # w
    <3>1. run'[v] = run[v] /\ run[v] \in Runs /\ RunGood(jobs, run[v])
      BY <2>2 DEF EngineInv
    <3>2. RunGood(jobs, run[v])'
      <4> DEFINE x == run[v]
      <4>1. x \in Runs /\ RunGood(jobs, x)
        BY <3>1
      <4>2. run'[v] = x
        BY <3>1
      <4> HIDE DEF x
      <4> QED BY <4>1, <4>2, <1>1 DEF KeepsJobs, Keeps, RunGood, Runs
    <3> QED BY <3>2
  <2> QED BY <2>1, <2>2
<1>3. jobs' \in [Job -> JobRow \cup {None}] /\ run' \in [Worker -> Runs]
  BY DEF EngineInv
<1>4. ASSUME NEW i \in Job, jobs'[i] # None PROVE JobGood(jobs[i])'
  BY <1>4 DEF EngineInv, JobGood
<1>5. queue' \subseteq {i \in Job : jobs'[i] # None}
  BY <1>1 DEF EngineInv, KeepsJobs, Keeps
<1> QED BY <1>1, <1>2, <1>3, <1>4, <1>5 DEF EngineInv

(* A new job.                                                              *)
LEMMA OneJob ==
    ASSUME EngineInv, NEW j \in Job, jobs[j] = None,
           NEW row \in JobRow, JobGood(row),
           jobs' = [jobs EXCEPT ![j] = row], run' = run,
           pipelines' = pipelines, queue' \subseteq queue \cup {j}
    PROVE  EngineInv' /\ KeepsJobs
<1>1. KeepsJobs
  BY DEF EngineInv, KeepsJobs, Keeps
<1>2. ASSUME NEW v \in Worker PROVE RunGood(jobs, run[v])'
  <2> DEFINE x == run[v]
  <2>1. x \in Runs /\ RunGood(jobs, x) /\ run'[v] = x
    BY DEF EngineInv
  <2> HIDE DEF x
  <2> QED BY <2>1, <1>1 DEF KeepsJobs, Keeps, RunGood, Runs
<1>3. jobs' \in [Job -> JobRow \cup {None}] /\ run' \in [Worker -> Runs]
  BY DEF EngineInv
<1>4. ASSUME NEW i \in Job, jobs'[i] # None PROVE JobGood(jobs[i])'
  BY <1>4 DEF EngineInv, JobGood
<1>5. queue' \subseteq {i \in Job : jobs'[i] # None}
  BY <1>1, WatcherAssumption DEF EngineInv, KeepsJobs, Keeps
<1> QED BY <1>1, <1>2, <1>3, <1>4, <1>5 DEF EngineInv

LEMMA IdleIsGood == Idle \in Runs /\ RunGood(jobs, Idle) /\ RunGood(jobs', Idle)
  BY DEF Idle, NoContext, Runs, Contexts, Results, RunGood

-----------------------------------------------------------------------------
(* Steps of a worker                                                       *)

Kept == EngineInv' /\ KeepsJobs /\ NoNewJob

LEMMA OneRunKept ==
    ASSUME EngineInv, NEW w \in Worker, NEW r \in Runs, RunGood(jobs, r),
           run' = [run EXCEPT ![w] = r], jobs' = jobs, pipelines' = pipelines, queue' = queue
    PROVE  Kept
  BY OneRun DEF Kept, KeepsJobs, Keeps, NoNewJob

LEMMA TakeKept == ASSUME EngineInv, NEW w \in Worker, Take(w) PROVE Kept
<1>1. PICK j \in queue :
        /\ queue' = queue \ {j}
        /\ jobs' = [jobs EXCEPT ![j].status = "processing"]
        /\ run' = [run EXCEPT ![w] = [Idle EXCEPT !.job = j, !.at = "load"]]
        /\ pipelines' = pipelines
  BY DEF Take
<1> DEFINE row == [jobs[j] EXCEPT !.status = "processing"]
           r   == [Idle EXCEPT !.job = j, !.at = "load"]
<1>2. j \in Job /\ jobs[j] # None /\ jobs[j] \in JobRow /\ JobGood(jobs[j])
  BY DEF EngineInv
<1>3. /\ row \in JobRow /\ JobGood(row)
      /\ row.file = jobs[j].file /\ row.doc = jobs[j].doc
      /\ row.inline = jobs[j].inline /\ row.pipeline = jobs[j].pipeline
  BY <1>2 DEF JobRow, JobGood, Statuses
<1>4. jobs' = [jobs EXCEPT ![j] = row] /\ run' = [run EXCEPT ![w] = r]
  BY <1>1, <1>2 DEF EngineInv
<1>5. r \in Runs /\ r.at = "load" /\ r.job = j /\ r.context = NoContext
  BY <1>2, IdleIsGood DEF Idle, Runs, NoContext, Contexts, Results
<1> HIDE DEF row, r
<1>6. RunGood(jobs', r)
  <2>1. j # None /\ jobs'[j] # None
    BY <1>2, <1>3, <1>4, WatcherAssumption DEF EngineInv
  <2> QED BY <1>5, <2>1 DEF RunGood, NoContext
<1> QED BY <1>1, <1>2, <1>3, <1>4, <1>5, <1>6, OneUpdate DEF Kept

LEMMA LoadKept ==
    ASSUME EngineInv, watchDir \in [Name -> Doc \cup {None}],
           NEW w \in Worker, run[w].job # None, Load(w, Image(jobs[run[w].job]))
    PROVE  Kept
<1> DEFINE j     == run[w].job
           job   == jobs[j]
           image == Image(job)
           at    == IF image = None \/ ~job.inline THEN "raised"
                    ELSE IF job.pipeline = None THEN "direct" ELSE "select"
           r     == [run[w] EXCEPT !.image = image, !.at = at]
<1>1. /\ run' = [run EXCEPT ![w] = r]
      /\ pipelines' = pipelines /\ jobs' = jobs /\ queue' = queue
  BY DEF Load, EngineInv
<1>2. /\ run[w] \in Runs /\ RunGood(jobs, run[w]) /\ run[w].at = "load"
      /\ j \in Job /\ job # None /\ job \in JobRow /\ JobGood(job)
  BY DEF EngineInv, Load, Runs, RunGood
<1>3. image \in Images \cup {None}
  BY <1>2 DEF Image, Images, JobRow
<1>4. at \in {"raised", "direct", "select"} /\ (at # "raised" => image = job.doc /\ job.inline)
  BY <1>2 DEF Image, JobGood, JobRow
<1>5. at = "select" => job.pipeline # None
  OBVIOUS
<1> HIDE DEF image, at
<1>6. r \in Runs
  BY <1>2, <1>3, <1>4 DEF Runs
<1>7. RunGood(jobs, r)
  BY <1>2, <1>3, <1>4, <1>5 DEF RunGood, Runs
<1> HIDE DEF r
<1> QED BY <1>1, <1>6, <1>7, OneRunKept

LEMMA Lengths ==
    ASSUME NEW config \in Configs
    PROVE  Len(config) \in Nat /\ (config # <<>> => 1 \in 1..Len(config))
<1>1. config \in Seq(Step)
  BY EngineAssumption
<1> QED BY <1>1

(* What a step makes of the context.                                       *)
LEMMA OutcomesGood ==
    ASSUME NEW w \in Worker, NEW step, run[w] \in Runs, RunGood(jobs, run[w]),
           run[w].image \in Images,
           NEW context \in Outcomes(w, step, run[w].context)
    PROVE  /\ context \in Contexts
           /\ context.result \in {None, Empty, <<run[w].image>>}
<1> DEFINE old == run[w].context
<1>1. old \in Contexts /\ old.result \in {None, Empty, <<run[w].image>>}
  BY DEF Runs, RunGood
<1>2. CASE context = old
  BY <1>1, <1>2
<1>3. CASE context = Extract(w, old)
  BY <1>1, <1>3 DEF Extract, Contexts, Results
<1>4. CASE context = Validate(step, old)
  BY <1>1, <1>4 DEF Validate, Contexts
<1>5. CASE context = Export(old)
  BY <1>1, <1>5 DEF Export, Contexts
<1>6. context = old \/ context = Extract(w, old) \/ context = Validate(step, old) \/ context = Export(old)
  BY DEF Outcomes
<1> QED BY <1>2, <1>3, <1>4, <1>5, <1>6

LEMMA SelectKept == ASSUME EngineInv, NEW w \in Worker, SelectPipeline(w) PROVE Kept
<1> DEFINE config == pipelines[jobs[run[w].job].pipeline]
           r == IF config = None THEN [run[w] EXCEPT !.at = "direct"]
                ELSE [run[w] EXCEPT !.at = IF config = <<>> THEN "save" ELSE "step",
                                    !.config = config, !.next = 1]
<1>1. /\ run' = [run EXCEPT ![w] = r]
      /\ pipelines' = pipelines /\ jobs' = jobs /\ queue' = queue
  BY DEF SelectPipeline, EngineInv
<1>2. /\ run[w] \in Runs /\ RunGood(jobs, run[w]) /\ run[w].at = "select"
      /\ run[w].job \in Job /\ jobs[run[w].job] \in JobRow
  BY DEF EngineInv, SelectPipeline, Runs, RunGood
<1>3. config \in Configs \cup {None}
  <2>1. jobs[run[w].job].pipeline \in Pipeline
    BY <1>2 DEF RunGood, JobRow
  <2> QED BY <2>1 DEF EngineInv
<1>4. config # None => config \in Configs /\ (config # <<>> => 1 \in 1..Len(config))
  BY <1>3, EngineAssumption, Lengths
<1> HIDE DEF config
<1>5. r \in Runs
  BY <1>2, <1>3, <1>4 DEF Runs
<1>6. RunGood(jobs, r)
  BY <1>2, <1>4 DEF RunGood, Runs
<1> HIDE DEF r
<1> QED BY <1>1, <1>5, <1>6, OneRunKept

LEMMA RunStepKept == ASSUME EngineInv, NEW w \in Worker, RunStep(w) PROVE Kept
<1> DEFINE old  == run[w]
           step == old.config[old.next]
<1>1. /\ old \in Runs /\ RunGood(jobs, old) /\ old.at = "step"
      /\ old.job # None /\ old.image = jobs[old.job].doc /\ jobs[old.job].inline
      /\ old.config \in Configs /\ old.next \in 1..Len(old.config)
      /\ old.job \in Job /\ jobs[old.job] \in JobRow
  BY DEF EngineInv, RunStep, Runs, RunGood
<1>2. PICK context \in Outcomes(w, step, old.context) :
        LET at == IF context.abort \/ old.next = Len(old.config) THEN "save" ELSE "step" IN
        run' = [run EXCEPT ![w].context = context, ![w].next = old.next + 1, ![w].at = at]
  BY DEF RunStep
<1> DEFINE at == IF context.abort \/ old.next = Len(old.config) THEN "save" ELSE "step"
           r  == [old EXCEPT !.context = context, !.next = old.next + 1, !.at = at]
<1>3. run' = [run EXCEPT ![w] = r] /\ pipelines' = pipelines /\ jobs' = jobs /\ queue' = queue
  BY <1>2 DEF RunStep, EngineInv
<1>4. /\ context \in Contexts
      /\ context.result \in {None, Empty, <<old.image>>}
  <2>1. old.image \in Images
    BY <1>1 DEF JobRow, Images
  <2> QED BY <1>1, <1>2, <2>1, OutcomesGood
<1>5. at = "save" \/ (at = "step" /\ old.next + 1 \in 1..Len(old.config))
  <2>1. Len(old.config) \in Nat
    BY <1>1, Lengths
  <2> QED BY <1>1, <2>1
<1> HIDE DEF at
<1>6. r \in Runs
  <2>1. old.next + 1 \in Nat
    BY <1>1 DEF Runs
  <2> QED BY <1>1, <1>4, <1>5, <2>1 DEF Runs
<1>7. RunGood(jobs, r)
  BY <1>1, <1>4, <1>5 DEF RunGood, Runs
<1> HIDE DEF r
<1> QED BY <1>3, <1>6, <1>7, OneRunKept

(* An exception, or the start of the next step: only the position changes. *)
LEMMA RaiseKept == ASSUME EngineInv, NEW w \in Worker, RaiseStep(w) \/ RaiseDirect(w) PROVE Kept
<1> DEFINE r == [run[w] EXCEPT !.at = "raised"]
<1>1. run' = [run EXCEPT ![w] = r] /\ pipelines' = pipelines /\ jobs' = jobs /\ queue' = queue
  BY DEF RaiseStep, RaiseDirect, Go, EngineInv
<1>2. run[w] \in Runs /\ RunGood(jobs, run[w]) /\ run[w].job # None
  BY DEF EngineInv, RunGood, RaiseStep, RaiseDirect
<1>3. r \in Runs /\ RunGood(jobs, r)
  BY <1>2 DEF Runs, RunGood
<1> HIDE DEF r
<1> QED BY <1>1, <1>3, OneRunKept

LEMMA SavedKept ==
    ASSUME EngineInv, NEW w \in Worker, run[w].at \in {"direct", "save"},
           NEW status \in Statuses, NEW result \in {<<run[w].image>>, None},
           NEW confidence \in (0..100) \cup {None}, NEW aborted \in BOOLEAN,
           aborted /\ status = "completed" => Threshold <= 0,
           Saved(w, status, result, confidence, aborted)
    PROVE  Kept
<1> DEFINE j   == run[w].job
           row == [jobs[j] EXCEPT !.status = status, !.result = result,
                                  !.confidence = confidence, !.aborted = aborted]
<1>1. /\ j \in Job /\ jobs[j] # None /\ jobs[j] \in JobRow /\ JobGood(jobs[j])
      /\ run[w].image = jobs[j].doc /\ jobs[j].inline
  BY DEF EngineInv, Runs, RunGood
<1>2. /\ jobs' = [jobs EXCEPT ![j] = row] /\ run' = [run EXCEPT ![w] = Idle]
      /\ pipelines' = pipelines /\ queue' = queue
  BY <1>1 DEF Saved, EngineInv
<1>3. row \in JobRow
  <2>1. result \in {<<d>> : d \in Doc \cup {Upload}} \cup {None}
    BY <1>1 DEF JobRow
  <2> QED BY <1>1, <2>1 DEF JobRow
<1>4. /\ JobGood(row) /\ row.file = jobs[j].file /\ row.doc = jobs[j].doc
      /\ row.inline = jobs[j].inline /\ row.pipeline = jobs[j].pipeline
  BY <1>1 DEF JobGood, JobRow
<1> HIDE DEF row, j
<1> QED BY <1>1, <1>2, <1>3, <1>4, IdleIsGood, OneUpdate DEF Kept

LEMMA SavePipelineKept == ASSUME EngineInv, NEW w \in Worker, SavePipeline(w) PROVE Kept
<1> DEFINE context == run[w].context
           status  == FinalStatus(OrZero(context.confidence))
           result  == IF context.result = Empty THEN None ELSE context.result
<1>1. /\ context \in Contexts /\ context.result \in {None, Empty, <<run[w].image>>}
  BY DEF EngineInv, Runs, RunGood
<1>2. status \in Statuses /\ (status = "completed" => Threshold <= 0)
  <2>1. context.confidence \in {0, None}
    BY <1>1 DEF Contexts
  <2>2. OrZero(context.confidence) = 0
    BY <2>1 DEF OrZero
  <2>3. status = IF 0 < Threshold THEN "pending_review" ELSE "completed"
    BY <2>2 DEF FinalStatus
  <2> QED BY <2>3, EngineAssumption DEF Statuses
<1>3. result \in {<<run[w].image>>, None}
  BY <1>1
<1>4. context.confidence \in (0..100) \cup {None} /\ context.abort \in BOOLEAN
  BY <1>1 DEF Contexts
<1>5. run[w].at = "save" /\ Saved(w, status, result, context.confidence, context.abort)
  BY DEF SavePipeline
<1>6. PICK st \in Statuses, res \in {<<run[w].image>>, None},
           conf \in (0..100) \cup {None}, ab \in BOOLEAN :
        /\ ab /\ st = "completed" => Threshold <= 0
        /\ Saved(w, st, res, conf, ab)
  <2> HIDE DEF status, result, context
  <2> QED BY <1>2, <1>3, <1>4, <1>5
<1>7. run[w].at \in {"direct", "save"}
  BY <1>5
<1> HIDE DEF status, result, context
<1> QED BY <1>6, <1>7, SavedKept

LEMMA DirectKept == ASSUME EngineInv, NEW w \in Worker, Direct(w) PROVE Kept
<1>1. PICK complete \in BOOLEAN :
        Saved(w, FinalStatus(Score(complete)), <<run[w].image>>, Score(complete), FALSE)
  BY DEF Direct
<1>2. /\ Score(complete) \in (0..100) \cup {None}
      /\ FinalStatus(Score(complete)) \in Statuses
      /\ run[w].at \in {"direct", "save"}
  BY DEF Score, FinalStatus, Statuses, Direct
<1> QED BY <1>1, <1>2, SavedKept

LEMMA FailKept == ASSUME EngineInv, NEW w \in Worker, Fail(w) PROVE Kept
<1> DEFINE j   == run[w].job
           row == [jobs[j] EXCEPT !.status = "failed"]
<1>1. j \in Job /\ jobs[j] # None /\ jobs[j] \in JobRow /\ JobGood(jobs[j])
  BY DEF EngineInv, Runs, RunGood, Fail
<1>2. /\ jobs' = [jobs EXCEPT ![j] = row] /\ run' = [run EXCEPT ![w] = Idle]
      /\ pipelines' = pipelines /\ queue' = queue
  BY <1>1 DEF Fail, EngineInv
<1>3. /\ row \in JobRow /\ JobGood(row)
      /\ row.file = jobs[j].file /\ row.doc = jobs[j].doc
      /\ row.inline = jobs[j].inline /\ row.pipeline = jobs[j].pipeline
  BY <1>1 DEF JobGood, JobRow, Statuses
<1> HIDE DEF row, j
<1> QED BY <1>1, <1>2, <1>3, IdleIsGood, OneUpdate DEF Kept

(* Nothing a worker does reaches the directory, and no job loses its file. *)
LEMMA WorkKept ==
    ASSUME Inv, NEW w \in Worker, Work(w)
    PROVE  Kept /\ UNCHANGED watcherVars
<1>1. EngineInv /\ watchDir \in [Name -> Doc \cup {None}]
  BY DEF Inv, WatcherInv
<1>2. CASE Take(w) /\ UNCHANGED watcherVars
  BY <1>1, <1>2, TakeKept
<1>3. CASE run[w].job # None /\ Load(w, Image(jobs[run[w].job])) /\ UNCHANGED watcherVars
  BY <1>1, <1>3, LoadKept
<1>4. CASE Process(w) /\ UNCHANGED watcherVars
  BY <1>1, <1>4, SelectKept, RunStepKept, RaiseKept, SavePipelineKept, DirectKept, FailKept DEF Process
<1> QED BY <1>2, <1>3, <1>4 DEF Work

-----------------------------------------------------------------------------
(* The watcher and the directory                                           *)

SameWatched ==
    /\ WatchedJobs' = WatchedJobs
    /\ \A j \in WatchedJobs : jobs'[j].doc = jobs[j].doc

LEMMA KeptSame == ASSUME KeepsJobs, NoNewJob PROVE SameWatched
  BY DEF KeepsJobs, Keeps, NoNewJob, SameWatched, WatchedJobs

LEMMA SameFiles ==
    ASSUME WatcherInv, SameWatched, UNCHANGED <<watchDir, dropped>>
    PROVE  Numbered'
  BY DEF WatcherInv, Numbered

LEMMA ChangeKept ==
    ASSUME NEW n \in Name, NEW old
    PROVE  Put("watch", n, old) \in Change /\ Put("processed", n, old) \in Change
  BY DEF Put, Change

(* Steps of others.                                                        *)
LEMMA OthersKept ==
    ASSUME WatcherInv, SameWatched, UNCHANGED watcherVars
    PROVE  WatcherInv'
<1>1. Numbered'
  BY SameFiles DEF watcherVars
<1>2. InHand'
  BY DEF WatcherInv, InHand, SameWatched, watcherVars
<1>3. JobsAreAhead'
  BY DEF WatcherInv, JobsAreAhead, SameWatched, watcherVars
<1>4. OneJobPerDrop'
  BY DEF WatcherInv, OneJobPerDrop, SameWatched, watcherVars
<1> QED BY <1>1, <1>2, <1>3, <1>4 DEF WatcherInv, watcherVars

(* Steps of the loop that have no file in hand before and after, but for   *)
(* the faults that let go of one.                                          *)
LEMMA LoopKept ==
    ASSUME WatcherInv, SameWatched,
           UNCHANGED <<watchDir, processed, dropped, shared>>,
           changes' \subseteq Change, loop' \in Loops, loop'.at \notin {"enqueue", "move"},
           faults' \in Nat,
           \/ faults' = faults /\ loop.at \notin {"enqueue", "move"}
           \/ faults' = faults + 1
    PROVE  WatcherInv'
<1>1. Numbered'
  BY SameFiles
<1>2. InHand'
  BY DEF InHand
<1>3. faults \in Nat /\ (faults' > 0 \/ faults' = faults)
  BY DEF WatcherInv
<1>4. JobsAreAhead'
  BY <1>3 DEF WatcherInv, JobsAreAhead, SameWatched
<1>5. OneJobPerDrop'
  BY <1>3 DEF WatcherInv, OneJobPerDrop, SameWatched
<1> QED BY <1>1, <1>2, <1>4, <1>5 DEF WatcherInv

LEMMA DropKept == ASSUME WatcherInv, NEW n \in Name, Drop(n) PROVE WatcherInv'
<1>1. PICK d \in Doc :
        /\ d = Cardinality(dropped) + 1 /\ dropped' = dropped \cup {d}
        /\ watchDir' = [watchDir EXCEPT ![n] = d]
        /\ changes' = Seen({Put("watch", n, watchDir[n])})
        /\ shared' = IF watchDir[n] = None THEN shared ELSE shared \cup {d, watchDir[n]}
        /\ UNCHANGED <<engineVars, processed, loop, broker, faults>>
  BY DEF Drop
<1>2. PICK k \in Nat : dropped = 1..k
  BY DEF WatcherInv, Numbered
<1>3. d = k + 1 /\ d \notin dropped /\ dropped' = 1..(k + 1)
  <2>1. Cardinality(1..k) = k
    BY <1>2, FS_Interval
  <2> QED BY <1>1, <1>2, <2>1
<1>4. d # None /\ watchDir' \in [Name -> Doc \cup {None}] /\ dropped' \subseteq Doc
  BY <1>1, <1>3, WatcherAssumption DEF WatcherInv
<1>5. Numbered'
  <2>1. \E i \in Nat : dropped' = 1..i
    BY <1>3
  <2>2. ASSUME NEW m \in Name, watchDir'[m] # None PROVE watchDir'[m] \in dropped'
    BY <1>1, <2>2 DEF WatcherInv, Numbered
  <2>3. ASSUME NEW m \in Name, NEW l \in Name, watchDir'[m] # None, watchDir'[m] = watchDir'[l]
        PROVE  m = l
    BY <1>1, <1>3, <2>3 DEF WatcherInv, Numbered
  <2> QED BY <2>1, <2>2, <2>3 DEF Numbered
<1>6. SameWatched /\ shared \subseteq shared'
  BY <1>1 DEF SameWatched, WatchedJobs, engineVars
<1>7. \A j \in WatchedJobs : jobs[j].doc \in dropped /\ jobs[j].doc # d
  BY <1>3 DEF WatcherInv, OneJobPerDrop
<1>8. InHand'
  BY <1>1, <1>4, <1>6 DEF WatcherInv, InHand, SameWatched
<1>9. JobsAreAhead'
  BY <1>1, <1>6, <1>7 DEF WatcherInv, JobsAreAhead, SameWatched
<1>10. OneJobPerDrop'
  BY <1>1, <1>6, <1>7 DEF WatcherInv, OneJobPerDrop, SameWatched
<1>11. changes' \subseteq Change
  BY <1>1, ChangeKept DEF Seen, WatcherInv
<1> QED BY <1>1, <1>4, <1>5, <1>8, <1>9, <1>10, <1>11 DEF WatcherInv

LEMMA EngineSame == ASSUME UNCHANGED jobs PROVE SameWatched
  BY DEF SameWatched, WatchedJobs

LEMMA LoopStepsKept ==
    ASSUME WatcherInv, Yield \/ Skip \/ EndBatch \/ LoopDies \/ Restart \/ Crash
    PROVE  WatcherInv'
<1>1. SameWatched
  BY EngineSame DEF Yield, Skip, EndBatch, LoopDies, Restart, Crash, engineVars
<1>2. UNCHANGED <<watchDir, processed, dropped, shared>>
  BY DEF Yield, Skip, EndBatch, LoopDies, Restart, Crash
<1>3. changes' \subseteq Change
  BY DEF Yield, Skip, EndBatch, LoopDies, Restart, Crash, WatcherInv
<1>4. loop' \in Loops /\ loop'.at \notin {"enqueue", "move"}
  <2>1. Listening \in Loops /\ Stopped("dead") \in Loops /\ Stopped("down") \in Loops
    BY DEF Listening, Stopped, Loops
  <2>2. Listening.at = "listen" /\ Stopped("dead").at = "dead" /\ Stopped("down").at = "down"
    BY DEF Listening, Stopped
  <2>3. loop \in Loops /\ changes \subseteq Change
    BY DEF WatcherInv
  <2>4. CASE Yield
    BY <2>3, <2>4 DEF Yield, Loops
  <2>5. CASE Skip
    BY <2>3, <2>5 DEF Skip, Loops
  <2>6. CASE EndBatch \/ LoopDies \/ Restart \/ Crash
    BY <2>1, <2>2, <2>6 DEF EndBatch, LoopDies, Restart, Crash
  <2> QED BY <2>4, <2>5, <2>6
<1>5. /\ faults' \in Nat
      /\ \/ faults' = faults /\ loop.at \notin {"enqueue", "move"}
         \/ faults' = faults + 1
  BY DEF Yield, Skip, EndBatch, LoopDies, Restart, Crash, WatcherInv
<1> QED BY <1>1, <1>2, <1>3, <1>4, <1>5, LoopKept

(* rename: the file goes with its document, or nothing but a fault.        *)
LEMMA MoveKept ==
    ASSUME WatcherInv, loop.at \in {"enqueue", "move"}, Move(loop.file), loop' = NextFile,
           jobs' = jobs, UNCHANGED <<dropped, shared>>
    PROVE  WatcherInv'
<1> DEFINE n == loop.file
<1>1. /\ n \in Name /\ watchDir[n] # None /\ loop.job \in WatchedJobs
      /\ jobs[loop.job].doc = watchDir[n] \/ watchDir[n] \in shared
  BY DEF WatcherInv, InHand
<1>2. SameWatched
  BY EngineSame
<1>3. loop' \in Loops /\ loop'.at \notin {"enqueue", "move"}
  <2>1. loop \in Loops
    BY DEF WatcherInv
  <2> QED BY <2>1 DEF NextFile, Loops
<1>4. CASE /\ faults' = faults + 1
           /\ UNCHANGED <<watchDir, processed, changes>>
  BY <1>2, <1>3, <1>4, LoopKept DEF WatcherInv
<1>5. CASE /\ watchDir' = [watchDir EXCEPT ![n] = None]
           /\ processed' = [processed EXCEPT ![n] = watchDir[n]]
           /\ changes' = changes \cup {[dir |-> "watch", name |-> n, type |-> "deleted"],
                                       Put("processed", n, processed[n])}
           /\ faults' = faults
  <2>1. changes' \subseteq Change
    <3>1. [dir |-> "watch", name |-> n, type |-> "deleted"] \in Change
      BY <1>1 DEF Change
    <3> QED BY <1>1, <1>5, <3>1, ChangeKept DEF WatcherInv
  <2>2. /\ watchDir' \in [Name -> Doc \cup {None}]
        /\ processed' \in [Name -> Doc \cup {None}]
    BY <1>1, <1>5 DEF WatcherInv
  <2>3. \A m \in Name : watchDir'[m] = IF m = n THEN None ELSE watchDir[m]
    BY <1>5 DEF WatcherInv
  <2>4. Numbered'
    BY <2>3 DEF WatcherInv, Numbered
  <2>5. InHand'
    BY <1>3 DEF InHand
  <2>6. JobsAreAhead'
    <3>1. ASSUME NEW j \in WatchedJobs, NEW m \in Name, watchDir'[m] = jobs[j].doc
          PROVE  faults > 0 \/ (watchDir[m] \in shared /\ watchDir'[m] = watchDir[m])
      <4>1. jobs[j].doc \in dropped /\ jobs[j].doc # None
        BY WatcherAssumption DEF WatcherInv, OneJobPerDrop, Numbered
      <4>2. m # n /\ watchDir[m] = jobs[j].doc /\ watchDir'[m] = watchDir[m]
        BY <2>3, <3>1, <4>1
      <4> QED BY <4>2 DEF WatcherInv, JobsAreAhead
    <3> QED BY <1>2, <1>5, <3>1 DEF JobsAreAhead, SameWatched
  <2>7. OneJobPerDrop'
    <3>1. \A j \in WatchedJobs' :
            /\ jobs'[j].doc \in dropped'
            /\ \A i \in WatchedJobs' \ {j} :
                jobs'[i].doc = jobs'[j].doc => faults' > 0 \/ jobs'[j].doc \in shared'
      BY <1>2, <1>5 DEF WatcherInv, OneJobPerDrop, SameWatched
    <3>2. ASSUME NEW m \in Name, processed'[m] # None, processed'[m] \notin shared'
          PROVE  \E j \in WatchedJobs' : jobs'[j].doc = processed'[m]
      <4>1. CASE m = n
        <5>1. processed'[m] = watchDir[n]
          BY <1>1, <1>5, <4>1 DEF WatcherInv
        <5> QED BY <1>1, <1>2, <3>2, <5>1 DEF SameWatched
      <4>2. CASE m # n
        <5>1. processed'[m] = processed[m]
          BY <1>5, <4>2 DEF WatcherInv
        <5> QED BY <1>2, <3>2, <5>1 DEF WatcherInv, OneJobPerDrop, SameWatched
      <4> QED BY <4>1, <4>2
    <3> QED BY <3>1, <3>2 DEF OneJobPerDrop
  <2> QED BY <1>3, <1>5, <2>1, <2>2, <2>4, <2>5, <2>6, <2>7 DEF WatcherInv
<1> QED BY <1>4, <1>5 DEF Move

LEMMA EnqueueRedisKept == ASSUME WatcherInv, EnqueueRedis PROVE WatcherInv'
<1>1. SameWatched /\ UNCHANGED <<watchDir, processed, changes, dropped, shared, faults>>
  BY EngineSame DEF EnqueueRedis
<1>2. loop' \in Loops /\ loop'.at = "move" /\ loop'.file = loop.file /\ loop'.job = loop.job
  BY DEF EnqueueRedis, WatcherInv, Loops
<1>3. Numbered'
  BY <1>1, SameFiles
<1>4. loop.at = "enqueue"
  BY DEF EnqueueRedis
<1>5. InHand'
  BY <1>1, <1>2, <1>4 DEF WatcherInv, InHand, SameWatched
<1>6. JobsAreAhead'
  BY <1>1, <1>2, <1>4 DEF WatcherInv, JobsAreAhead, SameWatched
<1>7. OneJobPerDrop'
  BY <1>1 DEF WatcherInv, OneJobPerDrop, SameWatched
<1> QED BY <1>1, <1>2, <1>3, <1>5, <1>6, <1>7 DEF WatcherInv

LEMMA CreateJobKept == ASSUME Inv, CreateJob PROVE Inv'
<1>1. PICK c \in loop.files, j \in Job :
        /\ watchDir[c.name] # None /\ Free(j)
        /\ jobs' = [jobs EXCEPT ![j] = NewJob(c.name, watchDir[c.name], FALSE, WatchPipeline)]
        /\ loop' = [loop EXCEPT !.at = "enqueue", !.files = @ \ {c}, !.file = c.name, !.job = j]
  BY DEF CreateJob
<1> DEFINE n   == c.name
           row == NewJob(n, watchDir[n], FALSE, WatchPipeline)
<1>2. /\ UNCHANGED <<pipelines, queue, run, watchDir, processed, changes, dropped, shared, faults>>
      /\ loop.at = "files" /\ jobs[j] = None
  BY <1>1 DEF CreateJob, Free
<1>3. EngineInv /\ WatcherInv /\ loop \in Loops
  BY DEF Inv, WatcherInv
<1>4. n \in Name /\ n # None /\ watchDir[n] \in Doc /\ watchDir[n] # None
  BY <1>1, <1>3, WatcherAssumption DEF Loops, Change, WatcherInv
<1>5. row \in JobRow /\ JobGood(row) /\ row.file = n /\ row.doc = watchDir[n]
  BY <1>4, WatcherAssumption DEF NewJob, JobRow, Statuses, JobGood
<1>6. jobs' = [jobs EXCEPT ![j] = row]
  BY <1>1
<1> HIDE DEF row
<1>7. EngineInv' /\ KeepsJobs
  BY <1>2, <1>3, <1>5, <1>6, OneJob
<1>8. /\ WatchedJobs' = WatchedJobs \cup {j} /\ j \notin WatchedJobs
      /\ jobs'[j].doc = watchDir[n]
      /\ \A i \in WatchedJobs : jobs'[i].doc = jobs[i].doc
  BY <1>2, <1>3, <1>4, <1>5, <1>6, WatcherAssumption DEF EngineInv, WatchedJobs
<1>9. loop' \in Loops /\ loop'.at = "enqueue" /\ loop'.file = n /\ loop'.job = j
  BY <1>1, <1>3, <1>4 DEF Loops
<1>10. Numbered'
  BY <1>2, <1>3 DEF WatcherInv, Numbered
<1>11. InHand'
  BY <1>2, <1>4, <1>8, <1>9 DEF InHand
<1>12. JobsAreAhead'
  <2> SUFFICES ASSUME NEW i \in WatchedJobs \cup {j}, NEW m \in Name, watchDir[m] = jobs'[i].doc
               PROVE  faults > 0 \/ watchDir[m] \in shared \/ m = n
    BY <1>2, <1>8, <1>9 DEF JobsAreAhead
  <2>1. CASE i = j
    BY <1>3, <1>4, <1>8, <2>1 DEF WatcherInv, Numbered
  <2>2. CASE i \in WatchedJobs
    BY <1>2, <1>3, <1>8, <2>2 DEF WatcherInv, JobsAreAhead
  <2> QED BY <2>1, <2>2
<1>13. OneJobPerDrop'
  <2>1. watchDir[n] \in dropped
    BY <1>1, <1>3, <1>4 DEF WatcherInv, Numbered
  <2>2. ASSUME NEW i \in WatchedJobs, jobs[i].doc = watchDir[n]
        PROVE  faults > 0 \/ watchDir[n] \in shared
    BY <1>2, <1>3, <1>4, <2>2 DEF WatcherInv, JobsAreAhead
  <2> QED BY <1>2, <1>3, <1>8, <2>1, <2>2 DEF WatcherInv, OneJobPerDrop
<1> QED BY <1>2, <1>3, <1>7, <1>9, <1>10, <1>11, <1>12, <1>13 DEF Inv, WatcherInv

-----------------------------------------------------------------------------
(* Every step                                                              *)

LEMMA SubmitKept ==
    ASSUME Inv, NEW j \in Job, NEW p \in Pipeline \cup {None}, Submit(j, p)
    PROVE  Inv'
<1> DEFINE row == NewJob(None, Upload, TRUE, p)
<1>1. /\ jobs' = [jobs EXCEPT ![j] = row] /\ jobs[j] = None
      /\ run' = run /\ pipelines' = pipelines /\ queue' = queue \cup {j}
      /\ UNCHANGED watcherVars
  BY DEF Submit, FreeAbove
<1>2. row \in JobRow /\ JobGood(row) /\ row.file = None
  BY DEF NewJob, JobRow, Statuses, JobGood
<1> HIDE DEF row
<1>3. EngineInv' /\ KeepsJobs
  BY <1>1, <1>2, OneJob DEF Inv
<1>4. SameWatched
  BY <1>1, <1>2 DEF Inv, EngineInv, SameWatched, WatchedJobs
<1> QED BY <1>1, <1>3, <1>4, OthersKept DEF Inv

LEMMA PipelinesKept ==
    ASSUME Inv, NEW p \in Pipeline, CreatePipeline(p) \/ UpdatePipeline(p), UNCHANGED watcherVars
    PROVE  Inv'
<1>1. /\ pipelines' \in [Pipeline -> Configs \cup {None}]
      /\ jobs' = jobs /\ queue' = queue /\ run' = run
  BY DEF Inv, EngineInv, CreatePipeline, UpdatePipeline
<1>2. EngineInv'
  <2>1. \A w \in Worker : RunGood(jobs, run[w])'
    BY <1>1 DEF Inv, EngineInv, RunGood
  <2> QED BY <1>1, <2>1 DEF Inv, EngineInv, JobGood
<1> QED BY <1>1, <1>2, EngineSame, OthersKept DEF Inv

(* The loop, a crash and a restart touch the workers and the queue only as *)
(* a whole.                                                                *)
LEMMA EngineKept ==
    ASSUME Inv, UNCHANGED <<pipelines, jobs>>,
           queue' \subseteq {j \in Job : jobs[j] # None},
           run' = run \/ run' = [w \in Worker |-> Idle]
    PROVE  EngineInv'
<1>1. run' \in [Worker -> Runs]
  BY IdleIsGood DEF Inv, EngineInv
<1>2. ASSUME NEW w \in Worker PROVE RunGood(jobs, run[w])'
  <2>1. CASE run' = run
    BY <2>1 DEF Inv, EngineInv, RunGood
  <2>2. CASE run' = [v \in Worker |-> Idle]
    BY <2>2, IdleIsGood
  <2> QED BY <2>1, <2>2
<1> QED BY <1>1, <1>2 DEF Inv, EngineInv, JobGood

LEMMA WatchKept == ASSUME Inv, Watch PROVE Inv'
<1>1. CASE CreateJob
  BY <1>1, CreateJobKept
<1>2. CASE Yield \/ Skip \/ EndBatch
  <2>1. UNCHANGED engineVars
    BY <1>2 DEF Yield, Skip, EndBatch
  <2> QED BY <1>2, <2>1, EngineKept, LoopStepsKept DEF Inv, EngineInv, engineVars
<1>3. CASE EnqueueMemory \/ EnqueueRedis \/ MoveFile
  <2>1. loop.at \in {"enqueue", "move"} /\ loop.job \in Job /\ jobs[loop.job] # None
    BY <1>3 DEF EnqueueMemory, EnqueueRedis, MoveFile, Inv, WatcherInv, InHand, WatchedJobs
  <2>2. /\ UNCHANGED <<pipelines, jobs>> /\ run' = run
        /\ queue' \subseteq {j \in Job : jobs[j] # None}
    BY <1>3, <2>1 DEF EnqueueMemory, EnqueueRedis, MoveFile, engineVars, Inv, EngineInv
  <2>3. EngineInv'
    BY <2>2, EngineKept
  <2>4. WatcherInv'
    <3>1. CASE EnqueueRedis
      BY <3>1, EnqueueRedisKept DEF Inv
    <3>2. CASE EnqueueMemory \/ MoveFile
      BY <2>1, <2>2, <3>2, MoveKept DEF Inv, EnqueueMemory, MoveFile
    <3> QED BY <1>3, <3>1, <3>2
  <2> QED BY <2>3, <2>4 DEF Inv
<1> QED BY <1>1, <1>2, <1>3 DEF Watch

LEMMA FaultsKept == ASSUME Inv, LoopDies \/ Crash \/ Restart PROVE Inv'
<1>1. /\ UNCHANGED <<pipelines, jobs>>
      /\ queue' \subseteq {j \in Job : jobs[j] # None}
      /\ run' = run \/ run' = [w \in Worker |-> Idle]
  BY DEF LoopDies, Crash, Restart, engineVars, Inv, EngineInv
<1>2. EngineInv'
  BY <1>1, EngineKept
<1>3. WatcherInv'
  BY LoopStepsKept DEF Inv
<1> QED BY <1>2, <1>3 DEF Inv

LEMMA StutterKept == ASSUME Inv, UNCHANGED vars PROVE Inv'
<1>1. UNCHANGED <<pipelines, jobs, queue, run>> /\ UNCHANGED watcherVars
  BY DEF vars, engineVars
<1>2. queue' \subseteq {j \in Job : jobs[j] # None}
  BY <1>1 DEF Inv, EngineInv
<1> QED BY <1>1, <1>2, EngineKept, EngineSame, OthersKept DEF Inv

LEMMA NextInv == Inv /\ [Next]_vars => Inv'
<1> SUFFICES ASSUME Inv, [Next]_vars PROVE Inv'
  OBVIOUS
<1>1. ASSUME NEW w \in Worker, Work(w) PROVE Inv'
  <2>1. Kept /\ UNCHANGED watcherVars
    BY <1>1, WorkKept
  <2> QED BY <2>1, KeptSame, OthersKept DEF Kept, Inv
<1>2. CASE Clients
  BY <1>2, SubmitKept, PipelinesKept DEF Clients
<1>3. ASSUME NEW n \in Name, Drop(n) PROVE Inv'
  <2>1. UNCHANGED <<pipelines, jobs, queue, run>>
    BY <1>3 DEF Drop, engineVars
  <2>2. queue' \subseteq {j \in Job : jobs[j] # None}
    BY <2>1 DEF Inv, EngineInv
  <2> QED BY <1>3, <2>1, <2>2, EngineKept, DropKept DEF Inv
<1>4. CASE Watch
  BY <1>4, WatchKept
<1>5. CASE LoopDies \/ Crash \/ Restart
  BY <1>5, FaultsKept
<1>6. CASE UNCHANGED vars
  BY <1>6, StutterKept
<1> QED BY <1>1, <1>2, <1>3, <1>4, <1>5, <1>6 DEF Next

LEMMA AlwaysInv == Spec => []Inv
  BY InitInv, NextInv, PTL DEF Spec

-----------------------------------------------------------------------------
(* Types: of the rows, of the worker and of the watcher's loop.            *)
THEOREM TypeCorrect == Spec => []TypeOK
<1>1. Inv => TypeOK
  BY InvImplies
<1> QED BY AlwaysInv, <1>1, PTL

(* Jobs and files belong together, for every number of documents, names    *)
(* and faults: _process_batch makes no second job of a drop and puts no    *)
(* file away without one.                                                  *)
THEOREM DropsGetOneJob == Spec => []OneJobPerDrop
<1>1. Inv => OneJobPerDrop
  BY InvImplies
<1> QED BY AlwaysInv, <1>1, PTL

(* Whatever the configs are and whenever clients change them, the result   *)
(* of a run that a validate step cut short is not saved as completed, for  *)
(* every threshold that is more than zero.                                 *)
THEOREM AbortedAreReviewed == Spec => []AbortedIsReviewed
<1>1. Inv => AbortedIsReviewed
  BY InvImplies
<1> QED BY AlwaysInv, <1>1, PTL

(* The finding of system-architecture.md:243 for every instance: without   *)
(* inline fields _load_schema raises, and no watched file is extracted.    *)
THEOREM NoWatchedFileExtracted == Spec => []WatchedJobsFail
<1>1. Inv => WatchedJobsFail
  BY InvImplies
<1> QED BY AlwaysInv, <1>1, PTL
=============================================================================
