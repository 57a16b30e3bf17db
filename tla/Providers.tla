------------------------------- MODULE Providers -------------------------------
(***************************************************************************)
(* The extraction calls of one process: services/router-service.py and the *)
(* providers of pipelines/.  A worker has one call under way at a time.    *)
(*                                                                         *)
(* The process has one LocalProvider for all calls, which remembers the    *)
(* backend it found first until the process ends.  A cloud provider and    *)
(* its rate limiter are made anew for each call, so that the limiter, with *)
(* more tokens than a call has tries, never holds anything up.             *)
(*                                                                         *)
(* External: the servers of the backends, the cloud's API and the package  *)
(* paddleocr.  A backend that is up answers is_available with True and is  *)
(* asked once per await; OCR itself does not wait for anything.            *)
(***************************************************************************)
EXTENDS Naturals, Sequences, FiniteSets

CONSTANTS
    Call,        \* the workers
    Preferred,   \* settings.vlm_backend
    MaxRetries,  \* max_retries of retry_with_backoff
    None

(* _backends, in the order of the dict.                                    *)
Listed  == <<"ollama", "vllm", "llamacpp">>
Backend == {Listed[i] : i \in DOMAIN Listed}

ASSUME ProviderAssumption ==
    /\ Preferred \in Backend
    /\ MaxRetries \in Nat \ {0}
    /\ None \notin Backend \cup {"paddleocr"}

VARIABLES
    installed,  \* paddleocr can be imported
    up,         \* the backends whose servers answer
    active,     \* _active_backend
    call,       \* each worker's call
    everDown    \* history: the backends that were down since the process began

vars == <<installed, up, active, call, everDown>>

(* at: the await a call stands at, or how it ended.  name is its backend,  *)
(* next the one it asks next, tries and answers are those of the cloud.    *)
(* quiet is history of a local call: a backend was up when it began, none  *)
(* went down since, none that was up failed it and OCR did not raise.      *)
Idle == [at |-> "idle", local |-> FALSE, name |-> None, next |-> 1,
         tries |-> 0, answers |-> 0, quiet |-> TRUE]

Ended    == {"done", "failed"}
Underway == {c \in Call : call[c].at \notin {"idle"} \cup Ended}

Go(c, at)         == call' = [call EXCEPT ![c].at = at]
Ask(c, at, i)     == [call EXCEPT ![c].at = at, ![c].next = i]
Use(c, at, name)  == [call EXCEPT ![c].at = at, ![c].name = name, ![c].next = 1]

(* A backend that is up disappoints the call: an error, or no JSON.  Or    *)
(* OCR does.                                                               *)
Disappoint(c, at) == [call EXCEPT ![c].at = at, ![c].next = 1, ![c].quiet = FALSE]

Init ==
    /\ installed \in BOOLEAN
    /\ up \in SUBSET Backend
    /\ active = None
    /\ call = [c \in Call |-> Idle]
    /\ everDown = Backend \ up

-----------------------------------------------------------------------------
(* _detect_backend: what is remembered is used without another look at it. *)
Entry == CASE active = None        -> "probe"
           [] active \in Backend   -> "generate"
           [] active = "paddleocr" -> "scan"

(* route, and an extract up to its first await.  "auto" is the cloud.  The *)
(* mode is the job's, or that of the pipeline's step.                      *)
Route(c, mode) ==
    /\ call[c].at = "idle"
    /\ call' = [call EXCEPT ![c] =
                   IF mode = "local_only"
                   THEN [Idle EXCEPT !.local = TRUE, !.at = Entry, !.name = active, !.quiet = up # {}]
                   ELSE [Idle EXCEPT !.at = "post"]]
    /\ UNCHANGED <<installed, up, active, everDown>>

(* The worker takes what came back.                                        *)
Return(c) ==
    /\ call[c].at \in Ended
    /\ call' = [call EXCEPT ![c] = Idle]
    /\ UNCHANGED <<installed, up, active, everDown>>

-----------------------------------------------------------------------------
(* LocalProvider                                                           *)

(* is_available, which also says no when it gets no answer.                *)
Available(b) == b \in up

(* health_check asks the preferred backend and then the others.            *)
Order ==
    LET k == CHOOSE i \in DOMAIN Listed : Listed[i] = Preferred IN
    [i \in DOMAIN Listed |-> IF i = 1 THEN Preferred ELSE IF i <= k THEN Listed[i - 1] ELSE Listed[i]]

(* Fault: the preferred backend is not asked first.                        *)
ProbeListed(c) ==
    LET i == call[c].next  b == Listed[i] IN
    /\ call[c].at = "probe"
    /\ IF Available(b) THEN active' = b /\ call' = Use(c, "generate", b)
       ELSE IF i < Len(Listed) THEN call' = Ask(c, "probe", i + 1) /\ UNCHANGED active
       ELSE active' = "paddleocr" /\ call' = Use(c, "scan", "paddleocr")
    /\ UNCHANGED <<installed, up, everDown>>

(* One is_available of health_check.  _get_paddleocr never raises, so that *)
(* without a backend PaddleOCR is taken even if it is not installed.  A    *)
(* call that asks at the same time may have decided otherwise by then.     *)
Probe(c) ==
    LET i == call[c].next  b == Order[i] IN
    /\ call[c].at = "probe"
    /\ IF Available(b) THEN active' = b /\ call' = Use(c, "generate", b)
       ELSE IF i < Len(Listed) THEN call' = Ask(c, "probe", i + 1) /\ UNCHANGED active
       ELSE active' = "paddleocr" /\ call' = Use(c, "scan", "paddleocr")
    /\ UNCHANGED <<installed, up, everDown>>

(* What becomes of a request for text: JSON from a backend that is up, an  *)
(* exception from one that is not, and from either one nothing of use.     *)
Reply(c, good, bad) ==
    IF call[c].name \in up THEN Go(c, good) \/ call' = Disappoint(c, bad)
                            ELSE call' = Ask(c, bad, 1)

(* Fault: only the answer is guarded, not the request.                     *)
GenerateUnguarded(c) ==
    /\ call[c].at = "generate"
    /\ IF call[c].name \in up THEN Reply(c, "done", "scan") ELSE Go(c, "failed")
    /\ UNCHANGED <<installed, up, active, everDown>>

(* _extract_with_vlm: any exception leads to PaddleOCR.                    *)
Generate(c) ==
    /\ call[c].at = "generate"
    /\ Reply(c, "done", "scan")
    /\ UNCHANGED <<installed, up, active, everDown>>

(* OCR: what it finds on the page, for b to read; or nothing, which is an  *)
(* empty result; or what PaddleOCR raises, of a PDF say; or an ImportError. *)
Ocr(c, b) ==
    IF installed THEN call' = Use(c, "text", b) \/ Go(c, "done") \/ call' = Disappoint(c, "failed")
    ELSE Go(c, "failed")

(* Fault: one backend too many is asked.                                   *)
ScanBeyond(c) ==
    LET i == call[c].next IN
    /\ call[c].at = "scan"
    /\ IF Available(Listed[i]) THEN Ocr(c, Listed[i])
       ELSE IF i <= Len(Listed) THEN call' = Ask(c, "scan", i + 1) ELSE Go(c, "failed")
    /\ UNCHANGED <<installed, up, active, everDown>>

(* _extract_with_paddleocr looks for a backend that is up, from the first. *)
Scan(c) ==
    LET i == call[c].next IN
    /\ call[c].at = "scan"
    /\ IF Available(Listed[i]) THEN Ocr(c, Listed[i])
       ELSE IF i < Len(Listed) THEN call' = Ask(c, "scan", i + 1) ELSE Go(c, "failed")
    /\ UNCHANGED <<installed, up, active, everDown>>

(* generate_text.  An answer without JSON is an empty result, one with     *)
(* broken JSON raises.                                                     *)
GenerateText(c) ==
    /\ call[c].at = "text"
    /\ Reply(c, "done", "failed")
    /\ UNCHANGED <<installed, up, active, everDown>>

-----------------------------------------------------------------------------
(* GeminiProvider and MistralProvider                                      *)

(* An answer, paid for, which may not parse.                               *)
Answered(c) == \E at \in Ended : call' = [call EXCEPT ![c].at = at, ![c].answers = @ + 1]

Limited(c) == call' = [call EXCEPT ![c].tries = @ + 1, ![c].at = "wait"]

(* Fault: an answer that cannot be parsed is tried again.                  *)
PostParsing(c) ==
    /\ call[c].at = "post"
    /\ \/ Go(c, "failed") \/ Answered(c) \/ Limited(c)
       \/ call' = [call EXCEPT ![c].tries = @ + 1, ![c].answers = @ + 1, ![c].at = "wait"]
    /\ UNCHANGED <<installed, up, active, everDown>>

(* Fault: the tries are not counted.                                       *)
PostUncounted(c) ==
    /\ call[c].at = "post"
    /\ Go(c, "failed") \/ Answered(c) \/ Go(c, "wait")
    /\ UNCHANGED <<installed, up, active, everDown>>

(* The request ends with an error of the connection or of the API, whose   *)
(* exceptions are none of those that are tried again, an answer, or 429.   *)
Post(c) ==
    /\ call[c].at = "post"
    /\ Go(c, "failed") \/ Answered(c) \/ Limited(c)
    /\ UNCHANGED <<installed, up, active, everDown>>

(* retry_with_backoff sleeps after every 429, also after the last.         *)
Wait(c) ==
    /\ call[c].at = "wait"
    /\ Go(c, IF call[c].tries < MaxRetries THEN "post" ELSE "failed")
    /\ UNCHANGED <<installed, up, active, everDown>>

-----------------------------------------------------------------------------
(* The world                                                               *)

ComeUp(b) ==
    /\ b \notin up /\ up' = up \cup {b}
    /\ UNCHANGED <<installed, active, call, everDown>>

GoDown(b) ==
    /\ b \in up /\ up' = up \ {b}
    /\ everDown' = everDown \cup {b}
    /\ call' = [c \in Call |-> IF c \in Underway /\ call[c].local
                               THEN [call[c] EXCEPT !.quiet = FALSE] ELSE call[c]]
    /\ UNCHANGED <<installed, active>>

(* The process ends and begins again.                                      *)
Restart ==
    /\ active' = None
    /\ call' = [c \in Call |-> Idle]
    /\ everDown' = Backend \ up
    /\ UNCHANGED <<installed, up>>

Step(c) ==
    \/ Probe(c) \/ Generate(c) \/ Scan(c) \/ GenerateText(c)
    \/ Post(c) \/ Wait(c)

Next ==
    \/ \E c \in Call :
          \/ \E mode \in {"local_only", "cloud", "auto"} : Route(c, mode)
          \/ Step(c) \/ Return(c)
    \/ \E b \in Backend : ComeUp(b) \/ GoDown(b)
    \/ Restart

Spec == Init /\ [][Next]_vars

(* Every request has a timeout and every sleep ends.                       *)
FairSpec == Spec /\ \A c \in Call : WF_vars(Step(c))

-----------------------------------------------------------------------------
(* Properties                                                              *)

(* Types; a call has a backend where it needs one.                         *)
TypeOK ==
    /\ installed \in BOOLEAN
    /\ up \subseteq Backend /\ everDown \subseteq Backend
    /\ active \in Backend \cup {"paddleocr", None}
    /\ \A c \in Call :
        /\ call[c].at \in {"idle", "probe", "generate", "scan", "text", "post", "wait"} \cup Ended
        /\ call[c].at \in {"generate", "text"} => call[c].name \in Backend
        /\ call[c].at \in {"probe", "scan"} => call[c].next \in DOMAIN Listed
        /\ call[c].tries \in 0..MaxRetries
        /\ call[c].quiet \in BOOLEAN

(* Whatever the provider remembers, and whatever another call has made it  *)
(* remember meanwhile: a local call does not fail while a backend is up,   *)
(* none goes down or fails it, and PaddleOCR is installed and reads the    *)
(* document.  That a remembered backend is down is no reason.              *)
FallbackServes ==
    \A c \in Call : call[c].at = "failed" /\ call[c].local => ~call[c].quiet \/ ~installed

(* The remembered choice had a reason: another backend than the preferred  *)
(* one is remembered only if the preferred one was down since the process  *)
(* began, and PaddleOCR only if all were, be it one after the other.       *)
ChoiceHadReason ==
    /\ active \in Backend \ {Preferred} => Preferred \in everDown
    /\ active = "paddleocr" => everDown = Backend

(* No call is paid for twice: the cloud answers it once at most, so what   *)
(* is tried again within the call was not served.                          *)
PaidOnce == \A c \in Call : call[c].answers <= 1

(* Every call comes to an end, though backends come and go meanwhile.      *)
CallsEnd == \A c \in Call : c \in Underway ~> c \notin Underway
=============================================================================
