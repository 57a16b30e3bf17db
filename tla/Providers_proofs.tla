---------------------------- MODULE Providers_proofs ----------------------------
(***************************************************************************)
(* Proofs about Providers for every number of calls and of tries, and      *)
(* every preferred backend.                                                *)
(***************************************************************************)
EXTENDS Providers, TLAPS

-----------------------------------------------------------------------------
(* The two orders in which backends are asked.                             *)

LEMMA Backends ==
    /\ Backend = {Listed[1], Listed[2], Listed[3]}
    /\ Backend = {"ollama", "vllm", "llamacpp"}
    /\ DOMAIN Listed = 1..3 /\ Len(Listed) = 3
  BY DEF Backend, Listed

(* health_check asks the preferred backend first and all of them.          *)
LEMMA Orders ==
    /\ Order[1] = Preferred
    /\ Backend = {Order[1], Order[2], Order[3]}
    /\ \A i \in 1..3 : Order[i] \in Backend
<1> DEFINE k == CHOOSE i \in DOMAIN Listed : Listed[i] = Preferred
<1>1. k \in 1..3 /\ Listed[k] = Preferred
  BY Backends, ProviderAssumption DEF Backend
<1>2. /\ Order[1] = Preferred
      /\ Order[2] = IF 2 <= k THEN Listed[1] ELSE Listed[2]
      /\ Order[3] = IF 3 <= k THEN Listed[2] ELSE Listed[3]
  BY <1>1, Backends DEF Order
<1>3. Listed[1] = "ollama" /\ Listed[2] = "vllm" /\ Listed[3] = "llamacpp"
  BY DEF Listed
<1> HIDE DEF k
<1>4. CASE k = 1  BY <1>1, <1>2, <1>3, <1>4, Backends
<1>5. CASE k = 2  BY <1>1, <1>2, <1>3, <1>5, Backends
<1>6. CASE k = 3  BY <1>1, <1>2, <1>3, <1>6, Backends
<1> QED BY <1>1, <1>4, <1>5, <1>6

LEMMA SomeListed == ASSUME up \subseteq Backend PROVE up # {} => \E j \in 1..3 : 1 <= j /\ Listed[j] \in up
<1>1. ASSUME NEW b \in up PROVE \E j \in 1..3 : 1 <= j /\ Listed[j] \in up
  <2>1. b = Listed[1] \/ b = Listed[2] \/ b = Listed[3]
    BY Backends
  <2> QED BY <2>1
<1> QED BY <1>1

-----------------------------------------------------------------------------
(* The invariant                                                           *)

Awaits == {"probe", "generate", "scan", "text", "post", "wait"}

CallType ==
    [at : {"idle"} \cup Awaits \cup Ended, local : BOOLEAN, name : Backend \cup {"paddleocr", None},
     next : 1..3, tries : 0..MaxRetries, answers : 0..1, quiet : BOOLEAN]

(* A call of its kind: a local one asks backends, one of the cloud posts   *)
(* while it has tries left and no answer yet.                              *)
Apart(r) ==
    /\ r.at \in {"generate", "text"} => r.name \in Backend
    /\ r.at \in {"probe", "generate", "scan", "text"} => r.local
    /\ r.at \in {"post", "wait"} => ~r.local /\ r.answers = 0
    /\ r.at = "post" => r.tries < MaxRetries
    /\ r.at = "wait" => r.tries > 0

(* What health_check has asked so far was down at some time.               *)
Asked(r) == r.at = "probe" => \A i \in 1..3 : i < r.next => Order[i] \in everDown

(* A backend that was up when a quiet call began is still ahead of it.     *)
Ahead(r) ==
    r.local /\ r.quiet =>
        /\ r.at \in {"probe", "generate", "scan"} => up # {}
        /\ r.at = "scan" => \E i \in 1..3 : r.next <= i /\ Listed[i] \in up
        /\ r.at = "text" => r.name \in up
        /\ r.at = "failed" => ~installed

Good(r) == r \in CallType /\ Apart(r) /\ Asked(r) /\ Ahead(r)

World ==
    /\ installed \in BOOLEAN /\ up \subseteq Backend /\ everDown \subseteq Backend
    /\ Backend \ up \subseteq everDown
    /\ active \in Backend \cup {"paddleocr", None}

CallInv ==
    /\ World
    /\ ChoiceHadReason
    /\ call \in [Call -> CallType]
    /\ \A c \in Call : Good(call[c])

LEMMA InvImplies == CallInv => TypeOK /\ ChoiceHadReason /\ FallbackServes /\ PaidOnce
  BY Backends DEF CallInv, World, Good, CallType, Apart, Ahead, Awaits, Ended, TypeOK, FallbackServes, PaidOnce

LEMMA InitInv == Init => CallInv
  BY ProviderAssumption, Backends
  DEF Init, Idle, CallInv, World, ChoiceHadReason, Good, CallType, Apart, Asked, Ahead, Awaits, Ended

-----------------------------------------------------------------------------
(* Steps of one call                                                       *)

(* What a step of c leaves alone, and what it has to show for its call.    *)
LEMMA OneCall ==
    ASSUME NEW c \in Call, CallInv, NEW r,
           call' = [call EXCEPT ![c] = r],
           UNCHANGED <<installed, up, everDown>>,
           active' \in Backend \cup {"paddleocr", None},
           ChoiceHadReason',
           r \in CallType, Apart(r), Asked(r), Ahead(r)
    PROVE  CallInv'
<1>1. World'
  BY DEF CallInv, World
<1>2. call' \in [Call -> CallType]
  BY DEF CallInv
<1>3. ASSUME NEW d \in Call PROVE Good(call[d])'
  <2>1. CASE d = c
    BY <2>1, <1>2 DEF CallInv, Good, Apart, Asked, Ahead, CallType
  <2>2. CASE d # c
    <3>1. call'[d] = call[d]
      BY <2>2 DEF CallInv
    <3> QED BY <3>1 DEF CallInv, Good, Apart, Asked, Ahead, CallType
  <2> QED BY <2>1, <2>2
<1> QED BY <1>1, <1>2, <1>3 DEF CallInv

LEMMA RouteInv == ASSUME CallInv, NEW c \in Call, NEW mode, Route(c, mode) PROVE CallInv'
<1> DEFINE r == call'[c]
<1>1. /\ call' = [call EXCEPT ![c] = r] /\ UNCHANGED <<installed, up, active, everDown>>
      /\ ChoiceHadReason'
  BY DEF Route, CallInv, ChoiceHadReason
<1>2. CASE mode = "local_only"
  <2>1. r = [at |-> Entry, local |-> TRUE, name |-> active, next |-> 1,
             tries |-> 0, answers |-> 0, quiet |-> up # {}]
    BY <1>2 DEF Route, CallInv, Idle
  <2> HIDE DEF r
  <2>2. /\ Entry \in {"probe", "generate", "scan"}
        /\ Entry = "generate" => active \in Backend
    BY ProviderAssumption, Backends DEF Entry, CallInv, World
  <2>3. r \in CallType
    BY <2>1, <2>2, ProviderAssumption DEF CallInv, World, CallType, Awaits, Ended
  <2>4. Apart(r)
    BY <2>1, <2>2 DEF Apart
  <2>5. Asked(r)
    BY <2>1 DEF Asked
  <2>6. Ahead(r)
    BY <2>1, <2>2, SomeListed DEF Ahead, CallInv, World
  <2> QED BY <1>1, <2>3, <2>4, <2>5, <2>6, OneCall DEF CallInv, World
<1>3. CASE mode # "local_only"
  <2>1. r = [at |-> "post", local |-> FALSE, name |-> None, next |-> 1,
             tries |-> 0, answers |-> 0, quiet |-> TRUE]
    BY <1>3 DEF Route, CallInv, Idle
  <2> HIDE DEF r
  <2>2. r \in CallType
    BY <2>1, ProviderAssumption DEF CallType, Awaits, Ended
  <2>3. Apart(r) /\ Asked(r) /\ Ahead(r)
    BY <2>1, ProviderAssumption DEF Apart, Asked, Ahead
  <2> QED BY <1>1, <2>2, <2>3, OneCall DEF CallInv, World
<1> QED BY <1>2, <1>3

LEMMA ReturnInv == ASSUME CallInv, NEW c \in Call, Return(c) PROVE CallInv'
<1>1. Idle \in CallType /\ Apart(Idle) /\ Asked(Idle) /\ Ahead(Idle)
  BY ProviderAssumption DEF Idle, CallType, Apart, Asked, Ahead, Awaits, Ended
<1>2. ChoiceHadReason'
  BY DEF Return, CallInv, ChoiceHadReason
<1> QED BY <1>1, <1>2, OneCall DEF Return, CallInv, World

LEMMA ProbeInv == ASSUME CallInv, NEW c \in Call, Probe(c) PROVE CallInv'
<1> DEFINE r == call'[c]
           o == call[c]
           i == call[c].next
<1>0. /\ o \in CallType /\ Apart(o) /\ Asked(o) /\ Ahead(o) /\ o.at = "probe" /\ i \in 1..3
      /\ UNCHANGED <<installed, up, everDown>> /\ up \subseteq Backend
  BY DEF Probe, CallInv, CallType, Good, World
<1>1. CASE Order[i] \in up
  <2>1. /\ active' = Order[i] /\ call' = [call EXCEPT ![c].at = "generate", ![c].name = Order[i], ![c].next = 1]
    BY <1>1 DEF Probe, Available, Use
  <2>2. call' = [call EXCEPT ![c] = r]
    BY <2>1 DEF CallInv
  <2>3. r = [at |-> "generate", local |-> o.local, name |-> Order[i], next |-> 1,
             tries |-> o.tries, answers |-> o.answers, quiet |-> o.quiet]
    BY <1>0, <2>1 DEF CallInv, CallType
  <2> HIDE DEF r, o, i
  <2>4. r \in CallType
    BY <1>0, <2>3, Orders DEF CallType, Awaits, Ended
  <2>5. Apart(r) /\ Asked(r)
    BY <1>0, <2>3, Orders DEF Apart, Asked
  <2>6. Ahead(r)
    BY <1>0, <2>3 DEF Ahead
  <2>7. ChoiceHadReason'
    <3>1. i = 1 \/ Order[1] \in everDown
      BY <1>0 DEF Asked, o, i
    <3> QED BY <1>0, <2>1, <3>1, Orders, Backends DEF ChoiceHadReason
  <2> QED BY <1>0, <2>1, <2>2, <2>4, <2>5, <2>6, <2>7, Orders, OneCall
<1>2. CASE Order[i] \notin up /\ i < 3
  <2>1. call' = [call EXCEPT ![c].at = "probe", ![c].next = i + 1] /\ UNCHANGED active
    BY <1>2, Backends DEF Probe, Available, Ask
  <2>2. call' = [call EXCEPT ![c] = r]
    BY <2>1 DEF CallInv
  <2>3. r = [at |-> "probe", local |-> o.local, name |-> o.name, next |-> i + 1,
             tries |-> o.tries, answers |-> o.answers, quiet |-> o.quiet]
    BY <1>0, <2>1 DEF CallInv, CallType
  <2>4. Order[i] \in everDown
    BY <1>0, <1>2, Orders DEF CallInv, World
  <2>5. \A n \in 1..3 : n < i => Order[n] \in everDown
    BY <1>0 DEF Asked
  <2> HIDE DEF r, i
  <2>6. r \in CallType
    BY <1>0, <1>2, <2>3 DEF CallType, Awaits, Ended
  <2> HIDE DEF o
  <2>7. Apart(r) /\ Ahead(r)
    BY <1>0, <2>3 DEF Apart, Ahead
  <2>8. Asked(r)
    BY <1>0, <2>3, <2>4, <2>5 DEF Asked
  <2>9. ChoiceHadReason'
    BY <1>0, <2>1 DEF CallInv, ChoiceHadReason
  <2> QED BY <1>0, <2>1, <2>2, <2>6, <2>7, <2>8, <2>9, OneCall DEF CallInv, World
<1>3. CASE Order[i] \notin up /\ i = 3
  <2>1. active' = "paddleocr" /\ call' = [call EXCEPT ![c].at = "scan", ![c].name = "paddleocr", ![c].next = 1]
    BY <1>3, Backends DEF Probe, Available, Use
  <2>2. call' = [call EXCEPT ![c] = r]
    BY <2>1 DEF CallInv
  <2>3. r = [at |-> "scan", local |-> o.local, name |-> "paddleocr", next |-> 1,
             tries |-> o.tries, answers |-> o.answers, quiet |-> o.quiet]
    BY <1>0, <2>1 DEF CallInv, CallType
  <2>4. everDown = Backend
    BY <1>0, <1>3, Orders DEF CallInv, World, Asked
  <2> HIDE DEF r, o, i
  <2>5. r \in CallType
    BY <1>0, <2>3 DEF CallType, Awaits, Ended
  <2>6. Apart(r) /\ Asked(r)
    BY <1>0, <2>3 DEF Apart, Asked
  <2>7. Ahead(r)
    BY <1>0, <2>3, SomeListed DEF Ahead
  <2>8. ChoiceHadReason'
    BY <1>0, <2>1, <2>4, Backends DEF ChoiceHadReason
  <2> QED BY <1>0, <2>1, <2>2, <2>5, <2>6, <2>7, <2>8, OneCall
<1> QED BY <1>0, <1>1, <1>2, <1>3

(* The same for the steps that remember nothing.                           *)
LEMMA OneMove ==
    ASSUME NEW c \in Call, CallInv, NEW r,
           call' = [call EXCEPT ![c] = r],
           UNCHANGED <<installed, up, active, everDown>>,
           r \in CallType, Apart(r), Asked(r), Ahead(r)
    PROVE  CallInv'
<1>1. ChoiceHadReason' /\ active' \in Backend \cup {"paddleocr", None}
  BY DEF CallInv, World, ChoiceHadReason
<1> QED BY <1>1, OneCall

(* A call that only changes its place, from o to r.                        *)
LEMMA GoRecord ==
    ASSUME CallInv, NEW c \in Call, NEW at, at \in {"idle"} \cup Awaits \cup Ended, Go(c, at),
           UNCHANGED <<installed, up, active, everDown>>,
           at \notin {"probe", "scan"},
           at \in {"generate", "text"} => call[c].local /\ call[c].name \in Backend,
           at \in {"post", "wait"} => ~call[c].local /\ call[c].answers = 0,
           at = "post" => call[c].tries < MaxRetries,
           at = "wait" => call[c].tries > 0,
           call[c].local /\ call[c].quiet =>
              /\ at = "generate" => up # {}
              /\ at = "text" => call[c].name \in up
              /\ at = "failed" => ~installed
    PROVE  CallInv'
<1> DEFINE r == call'[c]
           o == call[c]
<1>0. o \in CallType
  BY DEF CallInv
<1>1. call' = [call EXCEPT ![c] = r]
  BY DEF Go, CallInv
<1>2. r = [at |-> at, local |-> o.local, name |-> o.name, next |-> o.next,
           tries |-> o.tries, answers |-> o.answers, quiet |-> o.quiet]
  BY <1>0 DEF Go, CallInv, CallType
<1> HIDE DEF r
<1>3. r \in CallType
  BY <1>0, <1>2 DEF CallType
<1>4. Apart(r) /\ Asked(r) /\ Ahead(r)
  BY <1>2 DEF Apart, Asked, Ahead
<1> QED BY <1>1, <1>3, <1>4, OneMove

LEMMA OcrInv ==
    ASSUME CallInv, NEW c \in Call, call[c].at = "scan", NEW b \in up, Ocr(c, b),
           UNCHANGED <<installed, up, active, everDown>>
    PROVE  CallInv'
<1>0. call[c] \in CallType /\ Apart(call[c]) /\ Ahead(call[c]) /\ b \in Backend /\ up \subseteq Backend
  BY DEF CallInv, Good, World
<1>1. CASE installed /\ call' = Use(c, "text", b)
  <2> DEFINE r == call'[c]
             o == call[c]
  <2>1. call' = [call EXCEPT ![c] = r]
    BY <1>1 DEF Use, CallInv
  <2>2. r = [at |-> "text", local |-> o.local, name |-> b, next |-> 1,
             tries |-> o.tries, answers |-> o.answers, quiet |-> o.quiet]
    BY <1>0, <1>1 DEF Use, CallInv, CallType
  <2> HIDE DEF r
  <2>3. r \in CallType
    BY <1>0, <2>2 DEF CallType, Awaits
  <2>4. Apart(r) /\ Asked(r) /\ Ahead(r)
    BY <1>0, <2>2 DEF Apart, Asked, Ahead
  <2> QED BY <2>1, <2>3, <2>4, OneMove
<1>2. CASE Go(c, "done")
  BY <1>2, GoRecord DEF Ended
<1>3. CASE ~installed /\ Go(c, "failed")
  BY <1>3, GoRecord DEF Ended
<1>4. CASE call' = Disappoint(c, "failed")
  <2> DEFINE r == call'[c]
             o == call[c]
  <2>1. call' = [call EXCEPT ![c] = r]
    BY <1>4 DEF Disappoint, CallInv
  <2>2. r = [at |-> "failed", local |-> o.local, name |-> o.name, next |-> 1,
             tries |-> o.tries, answers |-> o.answers, quiet |-> FALSE]
    BY <1>0, <1>4 DEF Disappoint, CallInv, CallType
  <2> HIDE DEF r
  <2>3. r \in CallType
    BY <1>0, <2>2 DEF CallType, Ended
  <2>4. Apart(r) /\ Asked(r) /\ Ahead(r)
    BY <1>0, <2>2 DEF Apart, Asked, Ahead
  <2> QED BY <2>1, <2>3, <2>4, OneMove
<1> QED BY <1>1, <1>2, <1>3, <1>4 DEF Ocr

LEMMA ScanInv == ASSUME CallInv, NEW c \in Call, Scan(c) PROVE CallInv'
<1> DEFINE r == call'[c]
           o == call[c]
           i == call[c].next
<1>0. /\ o \in CallType /\ Apart(o) /\ Ahead(o) /\ o.at = "scan" /\ i \in 1..3
      /\ UNCHANGED <<installed, up, active, everDown>>
  BY DEF Scan, CallInv, CallType, Good
<1>1. CASE Listed[i] \in up
  BY <1>0, <1>1, OcrInv DEF Scan, Available
<1>2. CASE Listed[i] \notin up /\ i < 3
  <2>1. call' = [call EXCEPT ![c].at = "scan", ![c].next = i + 1]
    BY <1>2, Backends DEF Scan, Available, Ask
  <2>2. call' = [call EXCEPT ![c] = r]
    BY <2>1 DEF CallInv
  <2>3. r = [at |-> "scan", local |-> o.local, name |-> o.name, next |-> i + 1,
             tries |-> o.tries, answers |-> o.answers, quiet |-> o.quiet]
    BY <1>0, <2>1 DEF CallInv, CallType
  <2>4. o.local /\ o.quiet => \E n \in 1..3 : i + 1 <= n /\ Listed[n] \in up
    <3>1. ASSUME NEW n \in 1..3, i <= n, Listed[n] \in up PROVE i + 1 <= n
      BY <1>0, <1>2, <3>1
    <3> QED BY <1>0, <3>1 DEF Ahead
  <2>5. o.local /\ o.quiet => up # {}
    BY <2>4
  <2> HIDE DEF r, i
  <2>6. r \in CallType
    BY <1>0, <1>2, <2>3 DEF CallType, Awaits
  <2>7. Apart(r) /\ Asked(r)
    BY <1>0, <2>3 DEF Apart, Asked
  <2>8. Ahead(r)
    BY <2>3, <2>4, <2>5 DEF Ahead
  <2> QED BY <1>0, <2>2, <2>6, <2>7, <2>8, OneMove
<1>3. CASE Listed[i] \notin up /\ i = 3
  <2>1. Go(c, "failed")
    BY <1>3, Backends DEF Scan, Available
  <2>2. ~(o.local /\ o.quiet)
    BY <1>0, <1>3 DEF Ahead
  <2> QED BY <1>0, <2>1, <2>2, GoRecord DEF Ended
<1> QED BY <1>0, <1>1, <1>2, <1>3

(* A request for text that was of no use, for either of the two reasons.   *)
LEMMA ReplyInv ==
    ASSUME CallInv, NEW c \in Call, NEW bad, call[c].at \in {"generate", "text"},
           bad = "scan" \/ (bad = "failed" /\ call[c].at = "text"),
           bad = "scan" => call[c].at = "generate",
           Reply(c, "done", bad),
           UNCHANGED <<installed, up, active, everDown>>
    PROVE  CallInv'
<1> DEFINE r == call'[c]
           o == call[c]
<1>0. o \in CallType /\ Apart(o) /\ Ahead(o) /\ o.local /\ up \subseteq Backend
  BY DEF CallInv, Good, World, Apart
<1>1. CASE o.name \in up /\ Go(c, "done")
  BY <1>1, GoRecord DEF Ended
<1>2. CASE o.name \in up /\ call' = Disappoint(c, bad)
  <2>1. call' = [call EXCEPT ![c] = r]
    BY <1>2 DEF Disappoint, CallInv
  <2>2. r = [at |-> bad, local |-> o.local, name |-> o.name, next |-> 1,
             tries |-> o.tries, answers |-> o.answers, quiet |-> FALSE]
    BY <1>0, <1>2 DEF Disappoint, CallInv, CallType
  <2> HIDE DEF r, o
  <2>3. r \in CallType
    BY <1>0, <2>2 DEF CallType, Awaits, Ended
  <2>4. Apart(r) /\ Asked(r) /\ Ahead(r)
    BY <1>0, <2>2 DEF Apart, Asked, Ahead
  <2> QED BY <2>1, <2>3, <2>4, OneMove
<1>3. CASE o.name \notin up /\ call' = Ask(c, bad, 1)
  <2>1. call' = [call EXCEPT ![c] = r]
    BY <1>3 DEF Ask, CallInv
  <2>2. r = [at |-> bad, local |-> o.local, name |-> o.name, next |-> 1,
             tries |-> o.tries, answers |-> o.answers, quiet |-> o.quiet]
    BY <1>0, <1>3 DEF Ask, CallInv, CallType
  <2>3. o.quiet => bad = "scan" /\ up # {}
    BY <1>0, <1>3 DEF Ahead
  <2> HIDE DEF r, o
  <2>4. r \in CallType
    BY <1>0, <2>2 DEF CallType, Awaits, Ended
  <2>5. Apart(r) /\ Asked(r)
    BY <1>0, <2>2 DEF Apart, Asked
  <2>6. Ahead(r)
    BY <1>0, <2>2, <2>3, SomeListed DEF Ahead
  <2> QED BY <2>1, <2>4, <2>5, <2>6, OneMove
<1> QED BY <1>1, <1>2, <1>3 DEF Reply

LEMMA GenerateInv == ASSUME CallInv, NEW c \in Call, Generate(c) PROVE CallInv'
  BY ReplyInv DEF Generate

LEMMA GenerateTextInv == ASSUME CallInv, NEW c \in Call, GenerateText(c) PROVE CallInv'
  BY ReplyInv DEF GenerateText

LEMMA PostInv == ASSUME CallInv, NEW c \in Call, Post(c) PROVE CallInv'
<1> DEFINE r == call'[c]
           o == call[c]
<1>0. /\ o \in CallType /\ ~o.local /\ o.answers = 0 /\ o.tries < MaxRetries
      /\ UNCHANGED <<installed, up, active, everDown>>
  BY DEF Post, CallInv, Good, Apart
<1>1. CASE Go(c, "failed")
  BY <1>0, <1>1, GoRecord DEF Ended
<1>2. CASE Answered(c)
  <2>1. PICK at \in Ended : call' = [call EXCEPT ![c].at = at, ![c].answers = @ + 1]
    BY <1>2 DEF Answered
  <2>2. call' = [call EXCEPT ![c] = r]
    BY <2>1 DEF CallInv
  <2>3. r = [at |-> at, local |-> FALSE, name |-> o.name, next |-> o.next,
             tries |-> o.tries, answers |-> 1, quiet |-> o.quiet]
    BY <1>0, <2>1 DEF CallInv, CallType
  <2> HIDE DEF r
  <2>4. r \in CallType
    BY <1>0, <2>3 DEF CallType
  <2>5. Apart(r) /\ Asked(r) /\ Ahead(r)
    BY <2>3 DEF Apart, Asked, Ahead, Ended
  <2> QED BY <1>0, <2>2, <2>4, <2>5, OneMove
<1>3. CASE Limited(c)
  <2>1. call' = [call EXCEPT ![c] = r]
    BY <1>3 DEF Limited, CallInv
  <2>2. r = [at |-> "wait", local |-> FALSE, name |-> o.name, next |-> o.next,
             tries |-> o.tries + 1, answers |-> 0, quiet |-> o.quiet]
    BY <1>0, <1>3 DEF Limited, CallInv, CallType
  <2>3. o.tries + 1 \in 0..MaxRetries /\ o.tries + 1 > 0
    BY <1>0, ProviderAssumption DEF CallType
  <2> HIDE DEF r
  <2>4. r \in CallType
    BY <1>0, <2>2, <2>3 DEF CallType, Awaits
  <2>5. Apart(r) /\ Asked(r) /\ Ahead(r)
    BY <2>2, <2>3 DEF Apart, Asked, Ahead
  <2> QED BY <1>0, <2>1, <2>4, <2>5, OneMove
<1> QED BY <1>1, <1>2, <1>3 DEF Post

LEMMA WaitInv == ASSUME CallInv, NEW c \in Call, Wait(c) PROVE CallInv'
<1>0. /\ call[c] \in CallType /\ Apart(call[c]) /\ ~call[c].local /\ call[c].answers = 0
      /\ UNCHANGED <<installed, up, active, everDown>>
  BY DEF Wait, CallInv, Good, Apart
<1>1. CASE call[c].tries < MaxRetries /\ Go(c, "post")
  BY <1>0, <1>1, GoRecord DEF Awaits
<1>2. CASE Go(c, "failed")
  BY <1>0, <1>2, GoRecord DEF Ended
<1> QED BY <1>1, <1>2 DEF Wait

-----------------------------------------------------------------------------
(* Steps of the world                                                      *)

LEMMA ComeUpInv == ASSUME CallInv, NEW b \in Backend, ComeUp(b) PROVE CallInv'
<1>1. World' /\ ChoiceHadReason'
  BY DEF ComeUp, CallInv, World, ChoiceHadReason
<1>2. ASSUME NEW d \in Call PROVE Good(call[d])'
  <2>1. Good(call[d]) /\ call'[d] = call[d] /\ up \subseteq up' /\ UNCHANGED <<installed, everDown>>
    BY DEF ComeUp, CallInv
  <2>2. (call[d] \in CallType /\ Apart(call[d]) /\ Asked(call[d]))'
    BY <2>1 DEF Good, Apart, Asked, CallType
  <2>3. Ahead(call[d])'
    BY <2>1 DEF Good, Ahead
  <2> QED BY <2>2, <2>3 DEF Good
<1> QED BY <1>1, <1>2 DEF CallInv, ComeUp, CallType

LEMMA GoDownInv == ASSUME CallInv, NEW b \in Backend, GoDown(b) PROVE CallInv'
<1>1. World' /\ ChoiceHadReason'
  BY DEF GoDown, CallInv, World, ChoiceHadReason
<1>2. /\ UNCHANGED installed /\ everDown \subseteq everDown'
      /\ call' = [c \in Call |-> IF c \in Underway /\ call[c].local
                                 THEN [call[c] EXCEPT !.quiet = FALSE] ELSE call[c]]
  BY DEF GoDown
<1>3. ASSUME NEW d \in Call PROVE call'[d] \in CallType /\ Good(call[d])'
  <2> DEFINE o == call[d]
  <2>0. o \in CallType /\ Apart(o) /\ Asked(o) /\ Ahead(o)
    BY DEF CallInv, Good
  <2>1. CASE d \in Underway /\ o.local
    <3>1. call'[d] = [at |-> o.at, local |-> o.local, name |-> o.name, next |-> o.next,
                      tries |-> o.tries, answers |-> o.answers, quiet |-> FALSE]
      BY <1>2, <2>0, <2>1 DEF CallType
    <3> HIDE DEF o
    <3>2. call'[d] \in CallType
      BY <2>0, <3>1 DEF CallType
    <3>3. Apart(call[d])' /\ Asked(call[d])' /\ Ahead(call[d])'
      BY <1>2, <2>0, <3>1 DEF Apart, Asked, Ahead
    <3> QED BY <3>2, <3>3 DEF Good, CallType
  <2>2. CASE ~(d \in Underway /\ o.local)
    <3>1. call'[d] = o
      BY <1>2, <2>2
    <3>2. ~o.local \/ o.at \in {"idle"} \cup Ended
      BY <2>2 DEF Underway
    <3> HIDE DEF o
    <3>3. Apart(call[d])' /\ Asked(call[d])' /\ Ahead(call[d])'
      BY <1>2, <2>0, <3>1, <3>2 DEF Apart, Asked, Ahead, Ended
    <3> QED BY <2>0, <3>1, <3>3 DEF Good, CallType
  <2> QED BY <2>1, <2>2
<1> QED BY <1>1, <1>2, <1>3 DEF CallInv, CallType

LEMMA RestartInv == ASSUME CallInv, Restart PROVE CallInv'
  BY ProviderAssumption, Backends
  DEF Restart, Idle, CallInv, World, ChoiceHadReason, Good, CallType, Apart, Asked, Ahead, Awaits, Ended

-----------------------------------------------------------------------------
(* Theorems                                                                *)

LEMMA NextInv == ASSUME CallInv, [Next]_vars PROVE CallInv'
<1>1. CASE UNCHANGED vars
  BY <1>1 DEF vars, CallInv, World, ChoiceHadReason, Good, Apart, Asked, Ahead, CallType
<1>2. CASE Restart
  BY <1>2, RestartInv
<1>3. ASSUME NEW b \in Backend, ComeUp(b) \/ GoDown(b) PROVE CallInv'
  BY <1>3, ComeUpInv, GoDownInv
<1>4. ASSUME NEW c \in Call, Return(c) \/ \E mode \in {"local_only", "cloud", "auto"} : Route(c, mode)
      PROVE  CallInv'
  BY <1>4, ReturnInv, RouteInv
<1>5. ASSUME NEW c \in Call, Step(c) PROVE CallInv'
  BY <1>5, ProbeInv, GenerateInv, ScanInv, GenerateTextInv, PostInv, WaitInv DEF Step
<1> QED BY <1>1, <1>2, <1>3, <1>4, <1>5 DEF Next

LEMMA AlwaysInv == Spec => []CallInv
<1>1. CallInv /\ [Next]_vars => CallInv'
  BY NextInv
<1> QED BY InitInv, <1>1, PTL DEF Spec

(* Types: of router-service.py, local-provider.py and retry_with_backoff.  *)
THEOREM TypeCorrect == Spec => []TypeOK
<1>1. CallInv => TypeOK
  BY InvImplies
<1> QED BY AlwaysInv, <1>1, PTL

(* What local-provider.py remembers had a reason, with any number of calls *)
(* that ask the backends at the same time.                                 *)
THEOREM ChoicesHadReasons == Spec => []ChoiceHadReason
<1>1. CallInv => ChoiceHadReason
  BY InvImplies
<1> QED BY AlwaysInv, <1>1, PTL

(* A local call fails only for a reason: _extract_with_vlm and             *)
(* _extract_with_paddleocr find the backend that was up all the time,      *)
(* unless an answer of it was unusable or PaddleOCR is missing or raises.  *)
THEOREM FallbacksServe == Spec => []FallbackServes
<1>1. CallInv => FallbackServes
  BY InvImplies
<1> QED BY AlwaysInv, <1>1, PTL

(* retry_with_backoff of cloud-utils.py never pays twice.                  *)
THEOREM NothingPaidTwice == Spec => []PaidOnce
<1>1. CallInv => PaidOnce
  BY InvImplies
<1> QED BY AlwaysInv, <1>1, PTL
=============================================================================
