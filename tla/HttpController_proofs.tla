------------------------ MODULE HttpController_proofs ------------------------
(***************************************************************************)
(* Proofs about HttpController, for any set of submits.                    *)
(*                                                                         *)
(* The argument: pendingBody always belongs to a submit that has not       *)
(* posted yet, and a body that was taken is gone from it (Taken, for every *)
(* caller). When calls neither preempt nor share a batch of frames, at     *)
(* most one submit is between its checks and its request, and all of its   *)
(* fields still hold then (Exclusive). What is buffered and collected is   *)
(* then the open request's own text or a stranger's (OwnText), and the     *)
(* controller implements SerialAgent.                                      *)
(***************************************************************************)
EXTENDS HttpController, TLAPS

(* Callers that never set interruptIfBusy, calls that come one per chunk.  *)
Orderly == TRUE \notin Preempts /\ ~Batched

Taken ==
  /\ pendingBody # None => pc[pendingBody] = "preparing"
  /\ \A s \in Submits :
       /\ sent[s] # None => pc[sent[s]] \notin {"new", "interrupting"}
       /\ sent[s] # None /\ s \notin plain => sent[s] # pendingBody
       /\ s \in plain => sent[s] = s
       /\ pc[s] \in {"new", "interrupting", "preparing"} =>
            sent[s] = None /\ request[s] = "none"
  /\ BodyIsTakenOnce

Exclusive ==
  /\ \A s \in Submits : pc[s] # "interrupting"
  /\ \A s \in Submits : pc[s] = "preparing" =>
       /\ ~exited /\ activeAbort = None /\ pendingBody = s
       /\ \A t \in Submits : pc[t] = "preparing" => t = s
  /\ \A s \in Submits : request[s] = "open" => activeAbort = s
  /\ activeAbort # None => request[activeAbort] = "open"
  /\ exited => \A s \in Submits : request[s] = "open" => s \in aborted
  /\ ExitedIsTerminal

-----------------------------------------------------------------------------
(* What OllamaParser.feed returns, and that it invents no text.            *)
LEMMA OllamaFeedType ==
  ASSUME NEW line, NEW turns, NEW from \in turns,
         NEW st \in {"idle", "busy", "exited"}, NEW buf \in SUBSET turns
  PROVE  LET r == Feed("ollama", line, from, st, buf)
         IN  /\ r.status \in {"idle", "busy", "exited"}
             /\ r.scratch \in SUBSET turns
             /\ r.message \in SUBSET turns
BY DEF Feed, OllamaFeed, Parsed

LEMMA TypeInit == Init => TypeOK
BY HttpAssumption DEF Init, TypeOK

LEMMA TypeStep == TypeOK /\ [Next]_vars => TypeOK'
<1> SUFFICES ASSUME TypeOK, [Next]_vars PROVE TypeOK'
  OBVIOUS
<1> USE HttpAssumption DEF TypeOK, vars, controllerVars, callVars, requestVars
<1>0. Submits \subseteq Turns /\ Neighbours \subseteq Turns /\ Turns' = Turns
  BY DEF Turns
<1>1. CASE UNCHANGED vars
  BY <1>1 DEF vars, controllerVars, callVars, requestVars
<1>2. CASE Interrupt
  BY <1>2 DEF Interrupt, controllerVars, callVars
<1>3. CASE Kill
  BY <1>3 DEF Kill, callVars
<1>4. ASSUME NEW s \in Submits, Call(s) PROVE TypeOK'
  <2>1. CASE SubmitRefused(s)
    BY <2>1 DEF SubmitRefused, controllerVars, requestVars
  <2>2. CASE SubmitIdle(s) \/ SubmitResume(s)
    BY <2>2 DEF SubmitIdle, SubmitResume, Prepare, requestVars
  <2>3. CASE SubmitPreempt(s)
    BY <2>3 DEF SubmitPreempt, controllerVars
  <2>4. CASE Post(s)
    BY <2>4 DEF Post, TakeBody
  <2> QED BY <1>4, <2>1, <2>2, <2>3, <2>4 DEF Call
<1>5. ASSUME NEW s \in Submits, Callback(s) PROVE TypeOK'
  <2>1. ASSUME NEW line \in {"text", "end"}, Line(s, line) PROVE TypeOK'
    <3> DEFINE r == Feed("ollama", line, s, status, scratch)
    <3>1. /\ r.status \in {"idle", "busy", "exited"}
          /\ r.scratch \in SUBSET Turns
          /\ r.message \in SUBSET Turns
      <4>1. s \in Turns /\ scratch \in SUBSET Turns
        BY <1>0
      <4> QED BY <4>1, OllamaFeedType
    <3>2. status' = r.status /\ scratch' = r.scratch /\ collected' = Deliver(r.message)
      BY <2>1 DEF Line
    <3> HIDE DEF r
    <3>3. Deliver(r.message) \in [Submits -> SUBSET Turns]
      BY <3>1 DEF Deliver
    <3> QED BY <2>1, <3>1, <3>2, <3>3 DEF Line
  <2>2. CASE Done(s)
    <3>1. scratch' \in SUBSET Turns
      BY <1>0, <2>2, OllamaFeedType DEF Done
    <3> QED BY <2>2, <3>1 DEF Done, Settle, AfterFinally
  <2>3. CASE Fail(s)
    BY <2>3 DEF Fail, Settle, AfterFinally
  <2>4. CASE Timeout(s)
    BY <2>4 DEF Timeout, controllerVars, callVars
  <2> QED BY <1>5, <2>1, <2>2, <2>3, <2>4 DEF Callback
<1>6. ASSUME NEW n \in Neighbours, NEW line \in {"text", "end"}, Neighbour(n, line)
      PROVE  TypeOK'
  <2>1. scratch' \in SUBSET Turns
    BY <1>0, <1>6, OllamaFeedType DEF Neighbour
  <2> QED BY <1>6, <2>1 DEF Neighbour
<1> QED BY <1>1, <1>2, <1>3, <1>4, <1>5, <1>6 DEF Next

(* The controller's fields keep their types, for every caller and timing.  *)
THEOREM HttpTypeCorrect == Spec => []TypeOK
BY TypeInit, TypeStep, PTL DEF Spec

-----------------------------------------------------------------------------
LEMMA TakenStep == TypeOK /\ Taken /\ [Next]_vars => Taken'
<1> SUFFICES ASSUME TypeOK, Taken, [Next]_vars PROVE Taken'
  OBVIOUS
<1> USE HttpAssumption DEF TypeOK, Taken, BodyIsTakenOnce, vars, controllerVars, callVars, requestVars
<1>1. CASE UNCHANGED vars
  BY <1>1 DEF vars, controllerVars, callVars, requestVars
<1>2. CASE Interrupt
  BY <1>2 DEF Interrupt, controllerVars, callVars
<1>3. CASE Kill
  BY <1>3 DEF Kill, callVars
<1>4. ASSUME NEW s \in Submits, Call(s) PROVE Taken'
  <2>1. CASE SubmitRefused(s)
    BY <2>1 DEF SubmitRefused, controllerVars, requestVars
  <2>2. CASE SubmitIdle(s) \/ SubmitResume(s)
    BY <2>2 DEF SubmitIdle, SubmitResume, Prepare, requestVars
  <2>3. CASE SubmitPreempt(s)
    BY <2>3 DEF SubmitPreempt, controllerVars
  <2>4. CASE Post(s)
    BY <2>4 DEF Post, TakeBody
  <2> QED BY <1>4, <2>1, <2>2, <2>3, <2>4 DEF Call
<1>5. ASSUME NEW s \in Submits, Callback(s) PROVE Taken'
  <2>1. ASSUME NEW line \in {"text", "end"}, Line(s, line) PROVE Taken'
    BY <2>1 DEF Line
  <2>2. ASSUME NEW outcome \in {"replied", "rejected"}, Settle(s, outcome),
               request[s] = "open"
        PROVE  Taken'
    BY <2>2 DEF Settle
  <2>3. CASE Timeout(s)
    BY <2>3 DEF Timeout, controllerVars, callVars
  <2> QED BY <1>5, <2>1, <2>2, <2>3 DEF Callback, Done, Fail
<1>6. ASSUME NEW n \in Neighbours, NEW line \in {"text", "end"}, Neighbour(n, line)
      PROVE  Taken'
  BY <1>6 DEF Neighbour
<1> QED BY <1>1, <1>2, <1>3, <1>4, <1>5, <1>6 DEF Next

(* Whatever the callers do, preemption and batches included: a body the    *)
(* driver built is posted once at most, although all submits share one     *)
(* pendingBody; a prompt is posted again only as its own submit's default. *)
THEOREM HttpBodyIsTakenOnce == Spec => []BodyIsTakenOnce
<1>1. Init => Taken
  BY HttpAssumption DEF Init, Taken, BodyIsTakenOnce
<1>2. Taken => BodyIsTakenOnce
  BY DEF Taken
<1> QED BY <1>1, <1>2, TypeInit, TypeStep, TakenStep, PTL DEF Spec

-----------------------------------------------------------------------------
IInv == TypeOK /\ Taken /\ Exclusive

LEMMA ExclusiveInit == Init => IInv
<1> SUFFICES ASSUME Init PROVE IInv
  OBVIOUS
<1>1. Taken /\ Exclusive
  BY HttpAssumption
  DEF Init, Taken, BodyIsTakenOnce, Exclusive, ExitedIsTerminal
<1> QED BY <1>1, TypeInit DEF IInv

LEMMA ExclusiveStep == Orderly => (IInv /\ [Next]_vars => IInv')
<1> SUFFICES ASSUME Orderly, IInv, [Next]_vars PROVE Exclusive'
  BY TypeStep, TakenStep DEF IInv
<1> USE HttpAssumption
    DEF IInv, TypeOK, Taken, Exclusive, ExitedIsTerminal, Orderly, Arrives, Quiescent,
        vars, controllerVars, callVars, requestVars
<1>1. CASE UNCHANGED vars
  BY <1>1 DEF vars, controllerVars, callVars, requestVars
<1>2. CASE Interrupt
  BY <1>2 DEF Interrupt, controllerVars, callVars
<1>3. CASE Kill
  BY <1>3 DEF Kill, callVars
<1>4. ASSUME NEW s \in Submits, Call(s) PROVE Exclusive'
  <2>1. CASE SubmitRefused(s)
    BY <2>1 DEF SubmitRefused, controllerVars, requestVars
  <2>2. CASE SubmitIdle(s)
    BY <2>2 DEF SubmitIdle, Prepare, requestVars
  <2>3. CASE Post(s)
    BY <2>3 DEF Post, TakeBody
  <2> QED BY <1>4, <2>1, <2>2, <2>3 DEF Call, SubmitPreempt, SubmitResume
<1>5. ASSUME NEW s \in Submits, Callback(s) PROVE Exclusive'
  <2>1. ASSUME NEW line \in {"text", "end"}, Line(s, line) PROVE Exclusive'
    <3>1. ~exited
      BY <2>1 DEF Line
    <3> QED BY <2>1, <3>1 DEF Line
  <2>2. ASSUME NEW outcome \in {"replied", "rejected"}, Settle(s, outcome),
               request[s] = "open"
        PROVE  Exclusive'
    BY <2>2 DEF Settle, AfterFinally
  <2>3. CASE Timeout(s)
    BY <2>3 DEF Timeout, controllerVars, callVars
  <2> QED BY <1>5, <2>1, <2>2, <2>3 DEF Callback, Done, Fail
<1>6. ASSUME NEW n \in Neighbours, NEW line \in {"text", "end"}, Neighbour(n, line)
      PROVE  Exclusive'
  BY <1>6 DEF Neighbour
<1> QED BY <1>1, <1>2, <1>3, <1>4, <1>5, <1>6 DEF Next

(* Calls that neither preempt nor share a batch of frames: the agent has   *)
(* one request under way at most.                                          *)
THEOREM HttpOneRequestAtATime ==
  ASSUME Orderly
  PROVE  Spec => []OneRequestAtATime
<1>1. IInv => OneRequestAtATime
  BY DEF IInv, Exclusive, OneRequestAtATime
<1>2. IInv /\ [Next]_vars => IInv'
  BY ExclusiveStep
<1> QED BY <1>1, <1>2, ExclusiveInit, PTL DEF Spec

(* ... and interrupt and kill would abort it.                              *)
THEOREM HttpRequestIsReachable ==
  ASSUME Orderly
  PROVE  Spec => []RequestIsReachable
<1>1. IInv => RequestIsReachable
  BY DEF IInv, Exclusive, RequestIsReachable
<1>2. IInv /\ [Next]_vars => IInv'
  BY ExclusiveStep
<1> QED BY <1>1, <1>2, ExclusiveInit, PTL DEF Spec

(* ... and a killed agent never reports another status than exited.        *)
THEOREM HttpExitedIsTerminal ==
  ASSUME Orderly
  PROVE  Spec => []ExitedIsTerminal
<1>1. IInv => ExitedIsTerminal
  BY DEF IInv, Exclusive
<1>2. IInv /\ [Next]_vars => IInv'
  BY ExclusiveStep
<1> QED BY <1>1, <1>2, ExclusiveInit, PTL DEF Spec

-----------------------------------------------------------------------------
(* What is left in the parser's buffer is text of requests that have not   *)
(* had their final line (the open one, or one that was cut) and of other   *)
(* agents.                                                                 *)
Residue ==
  /\ \A s \in Submits : pc[s] = "waiting" => request[s] = "open"
  /\ \A x \in scratch \ Neighbours : phase[x] = "streaming" /\ request[x] # "none"
  /\ \A s \in Submits : \A t \in collected[s] \ ({s} \cup Neighbours) :
       request[t] = "closed" /\ phase[t] = "streaming"

LEMMA ResidueStep == Orderly => (IInv /\ Residue /\ [Next]_vars => Residue')
<1> SUFFICES ASSUME Orderly, IInv, Residue, [Next]_vars PROVE Residue'
  OBVIOUS
<1> USE HttpAssumption DEF IInv, TypeOK, Residue, Turns, vars, controllerVars, callVars, requestVars
<1>1. CASE UNCHANGED vars
  BY <1>1 DEF vars, controllerVars, callVars, requestVars
<1>2. CASE Interrupt \/ Kill
  BY <1>2 DEF Interrupt, Kill, controllerVars, callVars
<1>3. ASSUME NEW s \in Submits, Call(s) PROVE Residue'
  <2>1. CASE SubmitRefused(s)
    BY <2>1 DEF SubmitRefused, controllerVars, requestVars
  <2>2. CASE SubmitIdle(s)
    BY <2>2 DEF SubmitIdle, Prepare, requestVars
  <2>3. CASE Post(s)
    <3>1. request[s] = "none"
      BY <2>3 DEF Post, Taken
    <3> QED BY <2>3, <3>1 DEF Post, TakeBody
  <2> QED BY <1>3, <2>1, <2>2, <2>3 DEF Call, SubmitPreempt, SubmitResume, Exclusive, Orderly
<1>4. ASSUME NEW s \in Submits, Callback(s) PROVE Residue'
  <2>1. ASSUME NEW line \in {"text", "end"}, Line(s, line) PROVE Residue'
    <3> DEFINE r == Feed("ollama", line, s, status, scratch)
    <3>1. /\ request[s] = "open" /\ phase[s] = "streaming"
          /\ scratch' = r.scratch /\ collected' = Deliver(r.message)
          /\ pc' = pc /\ request' = request
          /\ phase' = IF line = "end" THEN [phase EXCEPT ![s] = "ended"] ELSE phase
      BY <2>1 DEF Line
    <3>2. \A t \in Submits : request[t] = "open" => t = s
      BY <3>1 DEF Exclusive
    <3>3. CASE line = "text"
      <4>1. r.scratch = scratch \cup {s} /\ r.message = {}
        BY <3>3 DEF Feed, OllamaFeed, Parsed
      <4> HIDE DEF r
      <4>2. collected' = collected
        BY <3>1, <4>1 DEF Deliver
      <4> QED BY <3>1, <3>3, <4>1, <4>2
    <3>4. CASE line = "end"
      <4>1. r.scratch = {} /\ r.message = scratch
        BY <3>4 DEF Feed, OllamaFeed, Parsed
      <4> HIDE DEF r
      <4>2. /\ \A t \in Submits \ {s} : collected'[t] = collected[t]
            /\ collected'[s] \in {scratch, collected[s]}
        BY <3>1, <3>2, <4>1 DEF Deliver, Listening
      <4>3. \A t \in scratch \ ({s} \cup Neighbours) : request[t] = "closed" /\ phase[t] = "streaming"
        BY <3>2
      <4>4. \A t \in Submits : request[t] = "closed" => phase'[t] = phase[t]
        BY <3>1
      <4>5. \A u \in Submits : \A t \in collected'[u] \ ({u} \cup Neighbours) :
              request[t] = "closed" /\ phase[t] = "streaming"
        <5> TAKE u \in Submits
        <5>1. CASE u = s
          BY <4>2, <4>3, <5>1
        <5>2. CASE u # s
          BY <4>2, <5>2
        <5> QED BY <5>1, <5>2
      <4>6. \A u \in Submits : collected'[u] \subseteq Turns
        <5> TAKE u \in Submits
        <5>1. CASE u = s
          BY <4>2, <5>1
        <5>2. CASE u # s
          BY <4>2, <5>2
        <5> QED BY <5>1, <5>2
      <4> QED BY <3>1, <4>1, <4>4, <4>5, <4>6
    <3> QED BY <3>3, <3>4
  <2>2. ASSUME NEW outcome \in {"replied", "rejected"}, Settle(s, outcome),
               request[s] = "open", scratch' = scratch
        PROVE  Residue'
    BY <2>2 DEF Settle
  <2>3. CASE Done(s)
    <3>1. scratch' = scratch
      BY <2>3 DEF Done, Feed, OllamaFeed, Parsed
    <3> QED BY <2>2, <2>3, <3>1 DEF Done
  <2>4. CASE Fail(s)
    BY <2>2, <2>4 DEF Fail
  <2>5. CASE Timeout(s)
    BY <2>5 DEF Timeout, controllerVars, callVars
  <2> QED BY <1>4, <2>1, <2>3, <2>4, <2>5 DEF Callback
<1>5. ASSUME NEW n \in Neighbours, NEW line \in {"text", "end"}, Neighbour(n, line)
      PROVE  Residue'
  <2>1. scratch' \subseteq scratch \cup Neighbours
    BY <1>5 DEF Neighbour, Feed, OllamaFeed, Parsed
  <2> QED BY <1>5, <2>1 DEF Neighbour
<1> QED BY <1>1, <1>2, <1>3, <1>4, <1>5 DEF Next

(* ... and the text of another turn of the agent in an answer is always    *)
(* that of a request which was cut short before its final line, whatever   *)
(* the other agents of the driver put into the buffer or take out of it.   *)
THEOREM HttpForeignTextIsFromCut ==
  ASSUME Orderly
  PROVE  Spec => []ForeignTextIsFromCut
<1>1. Init => Residue
  BY DEF Init, Residue
<1>2. Residue => ForeignTextIsFromCut
  BY DEF Residue, ForeignTextIsFromCut
<1>3. IInv /\ [Next]_vars => IInv'
  BY ExclusiveStep
<1>4. IInv /\ Residue /\ [Next]_vars => Residue'
  BY ResidueStep
<1> QED BY <1>1, <1>2, <1>3, <1>4, ExclusiveInit, PTL DEF Spec

-----------------------------------------------------------------------------
(* What a submit has collected is its own text or a stranger's. While      *)
(* nothing but kill() cuts a request short, the buffer holds no other text *)
(* of the agent than the open request's.                                   *)
OwnText ==
  /\ \A s \in Submits : request[s] = "open" <=> pc[s] = "waiting"
  /\ Cuts \/ (aborted # {} => exited)
  /\ exited \/ \A x \in scratch : x \in Strangers \/ request[x] = "open"
  /\ \A s \in Submits : collected[s] \subseteq {s} \cup Strangers

LEMMA OwnTextStep ==
  ASSUME Orderly
  PROVE  IInv /\ Residue /\ OwnText /\ [Next]_vars => OwnText'
<1> SUFFICES ASSUME IInv, Residue, OwnText, [Next]_vars PROVE OwnText'
  OBVIOUS
<1> USE HttpAssumption DEF IInv, TypeOK, OwnText, vars, controllerVars, callVars, requestVars
<1>0. Strangers' = Strangers
  BY DEF Strangers
<1>1. CASE UNCHANGED vars
  BY <1>0, <1>1
<1>2. CASE Interrupt \/ Kill
  BY <1>0, <1>2 DEF Interrupt, Kill
<1>3. ASSUME NEW s \in Submits, Call(s) PROVE OwnText'
  <2>1. CASE SubmitRefused(s)
    BY <1>0, <2>1 DEF SubmitRefused
  <2>2. CASE SubmitIdle(s)
    BY <1>0, <2>2 DEF SubmitIdle, Prepare
  <2>3. CASE Post(s)
    BY <1>0, <2>3 DEF Post
  <2> QED BY <1>3, <2>1, <2>2, <2>3 DEF Call, SubmitPreempt, SubmitResume, Exclusive, Orderly
<1>4. ASSUME NEW s \in Submits, Callback(s) PROVE OwnText'
  <2>1. ASSUME NEW line \in {"text", "end"}, Line(s, line) PROVE OwnText'
    <3> DEFINE r == Feed("ollama", line, s, status, scratch)
    <3>1. /\ request[s] = "open" /\ s \notin aborted
          /\ scratch' = r.scratch /\ collected' = Deliver(r.message)
          /\ pc' = pc /\ request' = request /\ aborted' = aborted /\ exited' = exited
      BY <2>1 DEF Line
    <3>2. /\ ~exited /\ scratch \in SUBSET ({s} \cup Strangers)
          /\ \A t \in Submits : Listening(t) => t = s
      <4>1. Neighbours \subseteq Strangers
        BY DEF Strangers
      <4> QED BY <3>1, <4>1 DEF Exclusive, Listening, Turns
    <3>3. r.scratch \subseteq {s} \cup Strangers /\ r.message \subseteq {s} \cup Strangers
      BY <3>2 DEF Feed, OllamaFeed, Parsed
    <3> HIDE DEF r
    <3>4. \A t \in Submits : collected'[t] \subseteq {t} \cup Strangers
      BY <3>1, <3>2, <3>3 DEF Deliver
    <3>5. \A x \in scratch' : x \in Strangers \/ request'[x] = "open"
      BY <3>1, <3>3
    <3> QED BY <1>0, <3>1, <3>4, <3>5
  <2>2. CASE Done(s)
    <3>1. scratch' = scratch
      BY <2>2 DEF Done, Feed, OllamaFeed, Parsed
    <3>2. request[s] = "open" /\ s \notin aborted /\ Settle(s, "replied")
      BY <2>2 DEF Done
    <3>3. s \in scratch => s \in Strangers
      BY <2>2 DEF Done, Residue, Strangers
    <3> QED BY <1>0, <3>1, <3>2, <3>3 DEF Settle
  <2>3. CASE Fail(s)
    <3>1. /\ scratch' = scratch /\ Settle(s, "rejected") /\ request[s] = "open"
          /\ exited \/ s \in Strangers
      BY <2>3 DEF Fail, Strangers
    <3> QED BY <1>0, <3>1 DEF Settle
  <2>4. CASE Timeout(s)
    BY <1>0, <2>4 DEF Timeout
  <2> QED BY <1>4, <2>1, <2>2, <2>3, <2>4 DEF Callback
<1>5. ASSUME NEW n \in Neighbours, NEW line \in {"text", "end"}, Neighbour(n, line)
      PROVE  OwnText'
  <2>1. scratch' \subseteq scratch \cup Strangers
    BY <1>5 DEF Neighbour, Feed, OllamaFeed, Parsed, Strangers
  <2> QED BY <1>0, <1>5, <2>1 DEF Neighbour
<1> QED BY <1>1, <1>2, <1>3, <1>4, <1>5 DEF Next

LEMMA SerialInit == Init => Serial!Init
BY DEF Init, Serial!Init, SerialTurn, SerialOutcome, SerialAnswer

(* When one submit moves, its outcome is what becomes of the outcomes.     *)
LEMMA OutcomeMoves ==
  ASSUME TypeOK, NEW s \in Submits, NEW to, pc' = [pc EXCEPT ![s] = to]
  PROVE  LET outcome == [t \in Submits |-> SerialOutcome(t)]
         IN  /\ pc[s] = "new" => outcome[s] = "asked"
             /\ pc[s] = "waiting" => outcome[s] = "running"
             /\ to = "preparing" => outcome' = [outcome EXCEPT ![s] = "running"]
             /\ to = "replied" => outcome' = [outcome EXCEPT ![s] = "answered"]
             /\ to = "rejected" => outcome' = [outcome EXCEPT ![s] = "failed"]
<1> USE DEF TypeOK
<1>1. \A t \in Submits \ {s} : SerialOutcome(t)' = SerialOutcome(t)
  BY DEF SerialOutcome
<1>2. /\ to = "preparing" => SerialOutcome(s)' = "running"
      /\ to = "replied" => SerialOutcome(s)' = "answered"
      /\ to = "rejected" => SerialOutcome(s)' = "failed"
  BY DEF SerialOutcome
<1>3. /\ pc[s] = "new" => SerialOutcome(s) = "asked"
      /\ pc[s] = "waiting" => SerialOutcome(s) = "running"
  BY DEF SerialOutcome
<1> QED BY <1>1, <1>2, <1>3

LEMMA SerialStep ==
  ASSUME Orderly
  PROVE  IInv /\ OwnText /\ IInv' /\ [Next]_vars => [Serial!Next]_(Serial!serialVars)
<1> SUFFICES ASSUME IInv, OwnText, IInv', [Next]_vars
             PROVE  Serial!Next \/ UNCHANGED Serial!serialVars
  OBVIOUS
<1> USE HttpAssumption DEF IInv, TypeOK, vars, controllerVars, callVars, requestVars
<1> DEFINE outcome == [s \in Submits |-> SerialOutcome(s)]
           answer == [s \in Submits |-> SerialAnswer(s)]
<1>1. ASSUME SerialTurn' = SerialTurn, pc' = pc, exited' = exited,
             \A s \in Submits : pc[s] = "replied" => collected'[s] = collected[s]
      PROVE  UNCHANGED Serial!serialVars
  BY <1>1 DEF Serial!serialVars, SerialOutcome, SerialAnswer
<1>2. CASE UNCHANGED vars
  BY <1>1, <1>2 DEF vars, controllerVars, callVars, requestVars, SerialTurn
<1>3. CASE Interrupt
  BY <1>1, <1>3 DEF Interrupt, controllerVars, callVars, SerialTurn
<1>4. CASE Kill
  <2>1. Serial!Stop
    BY <1>4 DEF Kill, Serial!Stop, callVars, SerialTurn, SerialOutcome, SerialAnswer
  <2> QED BY <2>1 DEF Serial!Next
<1>5. ASSUME NEW s \in Submits, Call(s)
      PROVE  Serial!Next \/ UNCHANGED Serial!serialVars
  <2>1. CASE SubmitRefused(s)
    <3>1. /\ pc[s] = "new" /\ pc' = [pc EXCEPT ![s] = "rejected"]
          /\ pendingBody' = pendingBody /\ activeAbort' = activeAbort /\ exited' = exited
          /\ collected' = collected
      BY <2>1 DEF SubmitRefused, controllerVars
    <3>2. outcome[s] = "asked" /\ outcome' = [outcome EXCEPT ![s] = "failed"]
      BY <3>1, OutcomeMoves
    <3>3. answer' = answer /\ SerialTurn' = SerialTurn
      BY <3>1 DEF SerialAnswer, SerialTurn
    <3>4. Serial!Refuse(s)
      BY <3>1, <3>2, <3>3 DEF Serial!Refuse, Serial!Becomes
    <3> QED BY <3>4 DEF Serial!Next
  <2>2. CASE SubmitIdle(s)
    <3>1. /\ pc[s] = "new" /\ pc' = [pc EXCEPT ![s] = "preparing"]
          /\ pendingBody' = s /\ activeAbort = None /\ ~exited /\ exited' = exited
          /\ collected' = collected
      BY <2>2 DEF SubmitIdle, Prepare
    <3>2. pendingBody = None
      BY <2>2 DEF SubmitIdle, Arrives, Quiescent, Orderly, Taken
    <3>3. outcome[s] = "asked" /\ outcome' = [outcome EXCEPT ![s] = "running"]
      BY <3>1, OutcomeMoves
    <3>4. answer' = answer /\ SerialTurn = None /\ SerialTurn' = s
      BY <3>1, <3>2 DEF SerialAnswer, SerialTurn
    <3>5. Serial!Accept(s)
      BY <3>1, <3>3, <3>4 DEF Serial!Accept, Serial!Becomes
    <3> QED BY <3>5 DEF Serial!Next
  <2>3. CASE Post(s)
    <3>1. /\ pc[s] = "preparing" /\ pc' = [pc EXCEPT ![s] = "waiting"]
          /\ pendingBody' = None /\ activeAbort' = s /\ exited' = exited
          /\ collected' = collected
      BY <2>3 DEF Post
    <3>2. pendingBody = s
      BY <3>1 DEF Exclusive
    <3>3. outcome' = outcome /\ answer' = answer
      BY <3>1 DEF SerialOutcome, SerialAnswer
    <3>4. SerialTurn' = SerialTurn
      BY <3>1, <3>2 DEF SerialTurn
    <3> QED BY <3>1, <3>3, <3>4 DEF Serial!serialVars
  <2> QED BY <1>5, <2>1, <2>2, <2>3 DEF Call, SubmitPreempt, SubmitResume, Exclusive, Orderly
<1>6. ASSUME NEW s \in Submits, Callback(s)
      PROVE  Serial!Next \/ UNCHANGED Serial!serialVars
  <2>1. ASSUME NEW line \in {"text", "end"}, Line(s, line)
        PROVE  UNCHANGED Serial!serialVars
    <3>1. /\ pc' = pc /\ exited' = exited /\ pendingBody' = pendingBody
          /\ activeAbort' = activeAbort
          /\ \E message : collected' = Deliver(message)
      BY <2>1 DEF Line
    <3>2. \A t \in Submits : pc[t] = "replied" => collected'[t] = collected[t]
      BY <3>1 DEF Deliver, Listening
    <3> QED BY <1>1, <3>1, <3>2 DEF SerialTurn
  <2>2. ASSUME NEW end \in {"replied", "rejected"}, Settle(s, end), request[s] = "open"
        PROVE  /\ SerialTurn = s /\ SerialTurn' = None
               /\ exited' = exited
               /\ outcome[s] = "running"
               /\ outcome' = [outcome EXCEPT ![s] = IF end = "replied" THEN "answered" ELSE "failed"]
               /\ answer' = IF end = "replied" THEN [answer EXCEPT ![s] = collected[s]] ELSE answer
               /\ answer[s] = {}
    <3>1. /\ pc[s] = "waiting" /\ pc' = [pc EXCEPT ![s] = end]
          /\ pendingBody' = pendingBody /\ activeAbort' = None /\ exited' = exited
          /\ collected' = collected /\ activeAbort = s
      BY <2>2 DEF Settle, OwnText, Exclusive
    <3>2. pendingBody = None
      BY <3>1 DEF Taken, Exclusive
    <3>3. SerialTurn = s /\ SerialTurn' = None
      BY <3>1, <3>2 DEF SerialTurn
    <3>4. /\ outcome[s] = "running"
          /\ outcome' = [outcome EXCEPT ![s] = IF end = "replied" THEN "answered" ELSE "failed"]
      BY <3>1, OutcomeMoves
    <3>5. /\ answer' = IF end = "replied" THEN [answer EXCEPT ![s] = collected[s]] ELSE answer
          /\ answer[s] = {}
      <4>1. CASE end = "replied"
        <5>1. \A t \in Submits : SerialAnswer(t)' = IF t = s THEN collected[s] ELSE SerialAnswer(t)
          BY <3>1, <4>1 DEF SerialAnswer
        <5>2. SerialAnswer(s) = {}
          BY <3>1 DEF SerialAnswer
        <5> QED BY <4>1, <5>1, <5>2
      <4>2. CASE end = "rejected"
        <5>1. \A t \in Submits : SerialAnswer(t)' = SerialAnswer(t)
          BY <3>1, <4>2 DEF SerialAnswer
        <5>2. SerialAnswer(s) = {}
          BY <3>1 DEF SerialAnswer
        <5> QED BY <4>2, <5>1, <5>2
      <4> QED BY <4>1, <4>2
    <3> QED BY <3>1, <3>3, <3>4, <3>5
  <2>3. CASE Done(s)
    <3>1. request[s] = "open" /\ Settle(s, "replied")
      BY <2>3 DEF Done
    <3>2. collected[s] \in SUBSET ({s} \cup Strangers)
      BY DEF OwnText
    <3>3. answer' = [answer EXCEPT ![s] = collected[s]]
      BY <2>2, <3>1
    <3>4. Serial!Succeed(s)
      BY <2>2, <3>1, <3>2, <3>3 DEF Serial!Succeed, Serial!Becomes
    <3> QED BY <3>4 DEF Serial!Next
  <2>4. CASE Fail(s)
    <3>1. request[s] = "open" /\ Settle(s, "rejected")
      BY <2>4 DEF Fail
    <3>2. Serial!Fail(s)
      BY <2>2, <3>1 DEF Serial!Fail, Serial!Becomes
    <3> QED BY <3>2 DEF Serial!Next
  <2>5. CASE Timeout(s)
    BY <1>1, <2>5 DEF Timeout, controllerVars, callVars, SerialTurn
  <2> QED BY <1>6, <2>1, <2>3, <2>4, <2>5 DEF Callback
<1>7. ASSUME NEW n \in Neighbours, NEW line \in {"text", "end"}, Neighbour(n, line)
      PROVE  UNCHANGED Serial!serialVars
  BY <1>1, <1>7 DEF Neighbour, SerialTurn
<1> QED BY <1>2, <1>3, <1>4, <1>5, <1>6, <1>7 DEF Next

(* When calls neither preempt nor share a batch, the controller is a       *)
(* SerialAgent: one turn at a time, each answered without text of the      *)
(* agent's other turns, none accepted after kill(). The strangers are the  *)
(* other agents of the driver and, if requests may break off, those.       *)
THEOREM HttpImplementsSerialAgent ==
  ASSUME Orderly
  PROVE  Spec => ImplementsSerialAgent
<1>1. Init => Residue /\ OwnText
  BY DEF Init, Residue, OwnText
<1>2. IInv /\ [Next]_vars => IInv'
  BY ExclusiveStep
<1>3. IInv /\ Residue /\ [Next]_vars => Residue'
  BY ResidueStep
<1>4. IInv /\ Residue /\ OwnText /\ [Next]_vars => OwnText'
  BY OwnTextStep
<1>5. IInv /\ OwnText /\ IInv' /\ [Next]_vars => [Serial!Next]_(Serial!serialVars)
  BY SerialStep
<1> QED BY <1>1, <1>2, <1>3, <1>4, <1>5, ExclusiveInit, SerialInit, PTL
   DEF Spec, ImplementsSerialAgent, Serial!Spec
=============================================================================
