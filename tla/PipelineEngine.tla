---------------------------- MODULE PipelineEngine ----------------------------
(***************************************************************************)
(* What a worker does with a job between taking it and saving it: loading  *)
(* its file and its fields, the pipeline it names (engine/..., with the    *)
(* rows that routers/pipelines.py writes) or the direct route, and the     *)
(* status that the confidence decides.  ExtractionWorker has the queue,    *)
(* the tries and the counters around this, and policies and reviews.       *)
(*                                                                         *)
(* A result lists the document it was extracted from.  Confidences are in  *)
(* hundredths, and any setting may be their threshold.  Every provider of pipelines/ answers confidence 0.0 and    *)
(* leaves the score to the scorer, which only the direct route calls.      *)
(***************************************************************************)
EXTENDS Integers, Sequences, FiniteSets

CONSTANTS
    Job,
    Worker,
    Pipeline,     \* the ids a job can name
    Configs,      \* the lists of steps that clients write
    Threshold,    \* settings.review_confidence_threshold
    MayFail,      \* whether providers ever raise
    None

StepTypes == {"preprocess", "extract", "validate", "export"}
Step      == [type : STRING, min : Nat]
ASSUME EngineAssumption ==
    /\ Configs \subseteq Seq(Step)
    /\ Threshold \in Int
    /\ MayFail \in BOOLEAN

VARIABLES
    pipelines,   \* the config of each row, None where there is none
    jobs,        \* the rows
    queue,       \* the jobs to run
    run          \* each worker: its job and how far it is

engineVars == <<pipelines, jobs, queue, run>>

Empty     == <<>>
NoContext == [result |-> None, confidence |-> None, abort |-> FALSE]

(* score: 0.7 if the required fields have values, and 0.15 for the         *)
(* confidences of fields, which no provider reports.  _determine_final_    *)
(* status for a job without a policy or a schema to review.                *)
Score(complete)       == IF complete THEN 85 ELSE 50
OrZero(confidence)    == IF confidence = None THEN 0 ELSE confidence
FinalStatus(conf)     == IF conf < Threshold THEN "pending_review" ELSE "completed"

Settled(j) == jobs[j] # None /\ jobs[j].status \in {"completed", "pending_review", "failed"}

(* create_job.  Inline fields are all that a worker can use.  aborted is   *)
(* history: whether the pipeline that gave the result was cut short.       *)
NewJob(file, doc, inline, pipeline) ==
    [file |-> file, doc |-> doc, inline |-> inline, pipeline |-> pipeline,
     status |-> "pending", result |-> None, confidence |-> None, aborted |-> FALSE]

Idle == [job |-> None, at |-> "idle", config |-> <<>>, next |-> 0, context |-> NoContext, image |-> None]
Go(w, at) == run' = [run EXCEPT ![w].at = at]

EngineInit ==
    /\ pipelines \in [Pipeline -> Configs \cup {None}]
    /\ jobs = [j \in Job |-> None] /\ queue = {}
    /\ run = [w \in Worker |-> Idle]

-----------------------------------------------------------------------------
(* routers/pipelines.py.  A config that parses is stored whatever its step *)
(* types are; a deactivated pipeline is only left out of the list.         *)
CreatePipeline(p) ==
    /\ pipelines[p] = None
    /\ \E c \in Configs : pipelines' = [pipelines EXCEPT ![p] = c]
    /\ UNCHANGED <<jobs, queue, run>>

UpdatePipeline(p) ==
    /\ pipelines[p] # None
    /\ \E c \in Configs : pipelines' = [pipelines EXCEPT ![p] = c]
    /\ UNCHANGED <<jobs, queue, run>>

-----------------------------------------------------------------------------
(* process_job                                                             *)

(* A job off the queue is marked; the row it was read as is what counts.   *)
Take(w) ==
    /\ run[w] = Idle
    /\ \E j \in queue :
        /\ queue' = queue \ {j}
        /\ jobs' = [jobs EXCEPT ![j].status = "processing"]
        /\ run' = [run EXCEPT ![w] = [Idle EXCEPT !.job = j, !.at = "load"]]
    /\ UNCHANGED pipelines

(* The bytes of its file, None if it is gone, and its inline fields.       *)
Load(w, image) ==
    LET job == jobs[run[w].job] IN
    /\ run[w].at = "load"
    /\ run' = [run EXCEPT ![w].image = image,
                          ![w].at = IF image = None \/ ~job.inline THEN "raised"
                                    ELSE IF job.pipeline = None THEN "direct" ELSE "select"]
    /\ UNCHANGED <<pipelines, jobs, queue>>

(* _execute_via_pipeline reads the row once; without one it is direct, and *)
(* a config may have no steps.                                             *)
SelectPipeline(w) ==
    LET config == pipelines[jobs[run[w].job].pipeline] IN
    /\ run[w].at = "select"
    /\ run' = IF config = None THEN [run EXCEPT ![w].at = "direct"]
              ELSE [run EXCEPT ![w].at = IF config = <<>> THEN "save" ELSE "step",
                               ![w].config = config, ![w].next = 1]
    /\ UNCHANGED <<pipelines, jobs, queue>>

(* The steps, each a function of the context; only extract waits for       *)
(* another service, and may raise.                                         *)
Validate(step, context) ==
    [context EXCEPT !.abort = @ \/ (context.result # None /\ OrZero(context.confidence) < step.min)]

Export(context) == IF context.result = None THEN [context EXCEPT !.result = Empty] ELSE context

Extract(w, context) == [context EXCEPT !.result = <<run[w].image>>, !.confidence = 0]

Outcomes(w, step, context) ==
    CASE step.type = "preprocess" -> {context}
      [] step.type = "extract"    -> {Extract(w, context)}
      [] step.type = "validate"   -> {Validate(step, context)}
      [] step.type = "export"     -> {Export(context)}
      [] OTHER                    -> {}

(* execute_pipeline, one step: an abort ends it.                           *)
RunStep(w) ==
    LET r == run[w] IN
    /\ r.at = "step"
    /\ \E context \in Outcomes(w, r.config[r.next], r.context) :
        run' = [run EXCEPT ![w].context = context, ![w].next = r.next + 1,
                           ![w].at = IF context.abort \/ r.next = Len(r.config) THEN "save" ELSE "step"]
    /\ UNCHANGED <<pipelines, jobs, queue>>

(* Fault: an unknown type does not raise.                                  *)
RaiseStepKnown(w) ==
    /\ MayFail /\ run[w].at = "step" /\ run[w].config[run[w].next].type = "extract"
    /\ Go(w, "raised")
    /\ UNCHANGED <<pipelines, jobs, queue>>

(* A type that get_step_class does not know, or a provider's exception.    *)
RaiseStep(w) ==
    LET step == run[w].config[run[w].next] IN
    /\ run[w].at = "step"
    /\ \/ step.type \notin StepTypes
       \/ MayFail /\ step.type = "extract"
    /\ Go(w, "raised")
    /\ UNCHANGED <<pipelines, jobs, queue>>

Saved(w, status, result, confidence, aborted) ==
    /\ jobs' = [jobs EXCEPT ![run[w].job].status = status,
                            ![run[w].job].result = result,
                            ![run[w].job].confidence = confidence,
                            ![run[w].job].aborted = aborted]
    /\ run' = [run EXCEPT ![w] = Idle]
    /\ UNCHANGED <<pipelines, queue>>

(* Fault: the result is scored as on the direct route.                     *)
SavePipelineScored(w) ==
    LET context == run[w].context IN
    /\ run[w].at = "save"
    /\ \E complete \in BOOLEAN :
        LET conf == IF context.result \in {Empty, None} THEN 0 ELSE Score(complete) IN
        Saved(w, FinalStatus(conf), IF context.result = Empty THEN None ELSE context.result,
              conf, context.abort)

(* _save_pipeline_result, of an aborted run as of a whole one; "[]" is     *)
(* saved as no result.                                                     *)
SavePipeline(w) ==
    LET context == run[w].context IN
    /\ run[w].at = "save"
    /\ Saved(w, FinalStatus(OrZero(context.confidence)),
             IF context.result = Empty THEN None ELSE context.result,
             context.confidence, context.abort)

(* route and score.                                                        *)
Direct(w) ==
    /\ run[w].at = "direct"
    /\ \E complete \in BOOLEAN :
        Saved(w, FinalStatus(Score(complete)), <<run[w].image>>, Score(complete), FALSE)

RaiseDirect(w) ==
    /\ MayFail /\ run[w].at = "direct"
    /\ Go(w, "raised")
    /\ UNCHANGED <<pipelines, jobs, queue>>

(* The except clause.                                                      *)
Fail(w) ==
    /\ run[w].at = "raised"
    /\ jobs' = [jobs EXCEPT ![run[w].job].status = "failed"]
    /\ run' = [run EXCEPT ![w] = Idle]
    /\ UNCHANGED <<pipelines, queue>>
=============================================================================
