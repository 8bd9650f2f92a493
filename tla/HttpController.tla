--------------------------- MODULE HttpController ---------------------------
(***************************************************************************)
(* ServerHttpAgentController: an agent whose every submit is one streamed  *)
(* HTTP request (src/agents/server-http-controller.ts), with the ollama    *)
(* driver's control and parser.                                            *)
(*                                                                         *)
(* A submit is cut at "await this.interrupt()", at "await control.submit"  *)
(* and at "await performRequest()". The first two only queue a promise     *)
(* continuation: no timer or socket callback runs before it, but another   *)
(* call that arrived in the same batch of WebSocket frames may (Batched).  *)
(* A submit, its prompt and its request share one id.                      *)
(*                                                                         *)
(* The parser, and the buffer it collects an answer in, is one object for  *)
(* all agents of the driver: what it does with the others' lines is a step *)
(* too.                                                                    *)
(***************************************************************************)
EXTENDS DriverParsers

CONSTANTS
  Submits,    \* the submit calls the agent ever receives
  Neighbours, \* the turns of the driver's other agents
  None,       \* "undefined"
  Preempts,   \* the values of opts.interruptIfBusy the callers use
  Batched,    \* may a call arrive while another one's continuation is queued?
  Cuts        \* may a request fail, be interrupted or outlive its timeout?

ASSUME HttpAssumption ==
  /\ None \notin Submits \cup Neighbours
  /\ Submits \cap Neighbours = {}
  /\ Preempts \subseteq BOOLEAN
  /\ Batched \in BOOLEAN
  /\ Cuts \in BOOLEAN

VARIABLES
  \* the controller's fields
  status,       \* _state.status
  exited,       \* _exited
  activeAbort,  \* the request interrupt() and kill() abort, or None
  pendingBody,  \* whose prompt is in the body control.submit wrote, or None
  scratch,      \* the messageBuf of the driver's OllamaParser
  \* one submit call each
  pc,
  collected,    \* the last element of its "messages" array, {} if empty
  sent,         \* whose prompt its request carried, None before it
  plain,        \* the submits that sent the default body
  \* one request each
  request,      \* "none", "open" while fetch or the reader is pending, "closed"
  aborted,      \* the requests whose signal was aborted
  phase         \* how far the server is in its response

controllerVars == <<status, exited, activeAbort, pendingBody, scratch>>
callVars       == <<pc, collected, sent, plain>>
requestVars    == <<request, aborted, phase>>
vars           == <<controllerVars, callVars, requestVars>>

Turns == Submits \cup Neighbours

TypeOK ==
  /\ status \in {"idle", "busy", "exited"}
  /\ exited \in BOOLEAN
  /\ activeAbort \in Submits \cup {None}
  /\ pendingBody \in Submits \cup {None}
  /\ scratch \subseteq Turns
  /\ pc \in [Submits -> {"new", "interrupting", "preparing", "waiting", "replied", "rejected"}]
  /\ collected \in [Submits -> SUBSET Turns]
  /\ sent \in [Submits -> Submits \cup {None}]
  /\ plain \subseteq Submits
  /\ request \in [Submits -> {"none", "open", "closed"}]
  /\ aborted \subseteq Submits
  /\ phase \in [Submits -> {"streaming", "ended"}]

Init ==
  /\ status = "idle" /\ exited = FALSE
  /\ activeAbort = None /\ pendingBody = None /\ scratch = {}
  /\ pc = [s \in Submits |-> "new"]
  /\ collected = [s \in Submits |-> {}]
  /\ sent = [s \in Submits |-> None] /\ plain = {}
  /\ request = [s \in Submits |-> "none"]
  /\ aborted = {}
  /\ phase = [s \in Submits |-> "streaming"]

-----------------------------------------------------------------------------
Quiescent == \A s \in Submits : pc[s] \notin {"interrupting", "preparing"}
Arrives == Batched \/ Quiescent

Listening(s) == pc[s] = "waiting"

Deliver(message) ==
  [s \in Submits |-> IF Listening(s) /\ message # {} THEN message ELSE collected[s]]

\* Faulty variant, for the mutation runs: the status is forced to idle
\* whatever it was.
AfterReset(st) == "idle"

AfterFinally(st) == IF st = "busy" THEN "idle" ELSE st

-----------------------------------------------------------------------------
(* Calls                                                                   *)

(* pendingBody = undefined; control.submit writes the body; await.         *)
Prepare(s) ==
  /\ pendingBody' = s
  /\ pc' = [pc EXCEPT ![s] = "preparing"]

SubmitRefused(s) ==
  /\ Arrives /\ pc[s] = "new"
  /\ exited \/ (activeAbort # None /\ FALSE \in Preempts)
  /\ pc' = [pc EXCEPT ![s] = "rejected"]
  /\ UNCHANGED <<controllerVars, collected, sent, plain, requestVars>>

SubmitIdle(s) ==
  /\ Arrives /\ pc[s] = "new"
  /\ ~exited /\ activeAbort = None
  /\ Prepare(s)
  /\ UNCHANGED <<status, exited, activeAbort, scratch, collected, sent, plain, requestVars>>

SubmitPreempt(s) ==
  /\ Arrives /\ pc[s] = "new"
  /\ ~exited /\ activeAbort # None /\ TRUE \in Preempts
  /\ aborted' = aborted \cup {activeAbort}
  /\ pc' = [pc EXCEPT ![s] = "interrupting"]
  /\ UNCHANGED <<controllerVars, collected, sent, plain, request, phase>>

SubmitResume(s) ==
  /\ pc[s] = "interrupting"
  /\ Prepare(s)
  /\ UNCHANGED <<status, exited, activeAbort, scratch, collected, sent, plain, requestVars>>

(* body = this.pendingBody ?? JSON.stringify({ prompt }): whoever wrote it  *)
(* last, or the submit's own prompt without a model.                       *)
TakeBody(s) ==
  IF pendingBody # None
    THEN sent' = [sent EXCEPT ![s] = pendingBody] /\ UNCHANGED plain
    ELSE sent' = [sent EXCEPT ![s] = s] /\ plain' = plain \cup {s}

\* Faulty variant: the request is not recorded.
PostUntracked(s) ==
  /\ pc[s] = "preparing"
  /\ pc' = [pc EXCEPT ![s] = "waiting"]
  /\ TakeBody(s)
  /\ pendingBody' = None
  /\ status' = "busy"
  /\ request' = [request EXCEPT ![s] = "open"]
  /\ UNCHANGED <<exited, activeAbort, scratch, collected, aborted, phase>>

\* Faulty variant: the body is taken and left in place.
PostKeepsBody(s) ==
  /\ pc[s] = "preparing"
  /\ pc' = [pc EXCEPT ![s] = "waiting"]
  /\ TakeBody(s)
  /\ status' = "busy"
  /\ activeAbort' = s
  /\ request' = [request EXCEPT ![s] = "open"]
  /\ UNCHANGED <<exited, pendingBody, scratch, collected, aborted, phase>>

(* After control.submit: take the body, go busy, POST. Nothing is checked  *)
(* again.                                                                  *)
Post(s) ==
  /\ pc[s] = "preparing"
  /\ pc' = [pc EXCEPT ![s] = "waiting"]
  /\ TakeBody(s)
  /\ pendingBody' = None
  /\ status' = "busy"
  /\ activeAbort' = s
  /\ request' = [request EXCEPT ![s] = "open"]
  /\ UNCHANGED <<exited, scratch, collected, aborted, phase>>

Interrupt ==
  /\ Cuts /\ Arrives
  /\ ~exited /\ activeAbort # None
  /\ aborted' = aborted \cup {activeAbort}
  /\ UNCHANGED <<controllerVars, callVars, request, phase>>

\* Faulty variant: the handle is dropped with the abort, not at its end.
KillAndForget ==
  /\ Arrives /\ ~exited
  /\ exited' = TRUE
  /\ status' = "exited"
  /\ aborted' = aborted \cup ({activeAbort} \ {None})
  /\ activeAbort' = None
  /\ UNCHANGED <<pendingBody, scratch, callVars, request, phase>>

Kill ==
  /\ Arrives /\ ~exited
  /\ exited' = TRUE
  /\ status' = "exited"
  /\ aborted' = aborted \cup ({activeAbort} \ {None})
  /\ UNCHANGED <<activeAbort, pendingBody, scratch, callVars, request, phase>>

-----------------------------------------------------------------------------
(* Callbacks of the request and of the timer                               *)

(* One NDJSON line of the response. An aborted body delivers no more.      *)
Line(s, line) ==
  /\ Quiescent /\ request[s] = "open" /\ s \notin aborted
  /\ phase[s] = "streaming"
  /\ phase' = IF line = "end" THEN [phase EXCEPT ![s] = "ended"] ELSE phase
  /\ LET r == Feed("ollama", line, s, status, scratch)
     IN  /\ status' = r.status
         /\ scratch' = r.scratch
         /\ collected' = Deliver(r.message)
  /\ UNCHANGED <<exited, activeAbort, pendingBody, pc, sent, plain, request, aborted>>

(* feedChunk of another agent of the driver, in its turn n: its line goes  *)
(* through the same parser, and takes what is buffered if it is final.     *)
Neighbour(n, line) ==
  /\ Quiescent
  /\ scratch' = Feed("ollama", line, n, "busy", scratch).scratch
  /\ UNCHANGED <<status, exited, activeAbort, pendingBody, callVars, requestVars>>

(* performRequest's finally, then submit's.                                *)
Settle(s, outcome) ==
  /\ request' = [request EXCEPT ![s] = "closed"]
  /\ activeAbort' = None
  /\ pc' = [pc EXCEPT ![s] = outcome]
  /\ status' = AfterFinally(status)
  /\ UNCHANGED <<exited, pendingBody, collected, sent, plain, aborted, phase>>

(* The end of the stream, which a server may also close without the final  *)
(* line; the empty feed flushes nothing in OllamaParser.                   *)
Done(s) ==
  /\ Quiescent /\ request[s] = "open" /\ s \notin aborted
  /\ phase[s] = "ended" \/ Cuts
  /\ scratch' = Feed("ollama", "flush", s, status, scratch).scratch
  /\ Settle(s, "replied")

(* fetch or reader.read rejects: aborted, HTTP error or broken connection. *)
Fail(s) ==
  /\ request[s] = "open"
  /\ s \in aborted \/ (Cuts /\ Quiescent)
  /\ Settle(s, "rejected")
  /\ UNCHANGED scratch

\* Faulty variant: the timer is armed only after the request has ended.
TimeoutLate(s) ==
  /\ Cuts /\ request[s] = "closed" /\ s \notin aborted
  /\ aborted' = aborted \cup {s}
  /\ UNCHANGED <<controllerVars, callVars, request, phase>>

Timeout(s) ==
  /\ Cuts /\ Quiescent /\ request[s] = "open" /\ s \notin aborted
  /\ aborted' = aborted \cup {s}
  /\ UNCHANGED <<controllerVars, callVars, request, phase>>

-----------------------------------------------------------------------------
Call(s) ==
  SubmitRefused(s) \/ SubmitIdle(s) \/ SubmitPreempt(s) \/ SubmitResume(s) \/ Post(s)

Callback(s) ==
  \/ \E line \in {"text", "end"} : Line(s, line)
  \/ Done(s) \/ Fail(s) \/ Timeout(s)

Next ==
  \/ Interrupt \/ Kill
  \/ \E s \in Submits : Call(s) \/ Callback(s)
  \/ \E n \in Neighbours, line \in {"text", "end"} : Neighbour(n, line)

Spec == Init /\ [][Next]_vars

(* Queued continuations run, timers fire and an aborted fetch rejects; a   *)
(* server need never answer.                                               *)
Fairness ==
  \A s \in Submits :
    /\ WF_vars(SubmitResume(s)) /\ WF_vars(Post(s))
    /\ WF_vars(Timeout(s)) /\ WF_vars(s \in aborted /\ Fail(s))

FairSpec == Spec /\ Fairness

-----------------------------------------------------------------------------
(* Properties                                                              *)

(* "server-http runs one request at a time".                               *)
OneRequestAtATime ==
  \A s, t \in Submits : request[s] = "open" /\ request[t] = "open" => s = t

(* An open request that was not aborted is the one interrupt() and kill()  *)
(* would abort.                                                            *)
RequestIsReachable ==
  \A s \in Submits : request[s] = "open" /\ s \notin aborted => activeAbort = s

(* However the submits that share pendingBody interleave, a body the       *)
(* driver built is posted once at most. A prompt that goes out twice does  *)
(* so the second time as the default body of its own submit, whose body    *)
(* another one has taken.                                                  *)
BodyIsTakenOnce ==
  \A s, t \in Submits :
    s # t /\ sent[s] = sent[t] /\ sent[s] # None => s \in plain \/ t \in plain

(* The text of another of the agent's turns in an answer is always that of *)
(* a request which was cut short, by its timer, an interrupt or the        *)
(* server, before its final line: a turn that ended well leaves nothing    *)
(* behind. What other agents leave in the buffer is not counted.           *)
ForeignTextIsFromCut ==
  \A s \in Submits : pc[s] = "replied" =>
    \A t \in collected[s] \ ({s} \cup Neighbours) :
      request[t] = "closed" /\ phase[t] = "streaming"

(* Exited is terminal: a killed agent never reports another status.        *)
ExitedIsTerminal == exited => status = "exited"

(* Every submit settles, even when the server hangs.                       *)
SubmitSettles ==
  \A s \in Submits :
    pc[s] \in {"interrupting", "preparing", "waiting"} ~> pc[s] \in {"replied", "rejected"}

-----------------------------------------------------------------------------
(* The controller as the abstract agent sees it: the turn is the submit    *)
(* between its checks and its request, or the request under way.           *)
SerialTurn == IF pendingBody # None THEN pendingBody ELSE activeAbort

SerialOutcome(s) ==
  CASE pc[s] \in {"new", "interrupting"}   -> "asked"
    [] pc[s] \in {"preparing", "waiting"}  -> "running"
    [] pc[s] = "replied"                   -> "answered"
    [] pc[s] = "rejected"                  -> "failed"

SerialAnswer(s) == IF pc[s] = "replied" THEN collected[s] ELSE {}

(* Whose text may get into another's answer: that of other agents, and     *)
(* that of requests which are cut short.                                   *)
Strangers == Neighbours \cup (IF Cuts THEN Submits ELSE {})

Serial == INSTANCE SerialAgent WITH
  turn    <- SerialTurn,
  outcome <- [s \in Submits |-> SerialOutcome(s)],
  answer  <- [s \in Submits |-> SerialAnswer(s)],
  stopped <- exited

(* One turn at a time, own answers but for the strangers', nothing         *)
(* accepted once killed: the controller implements the abstract agent when *)
(* no caller preempts and calls come one at a time.                        *)
ImplementsSerialAgent == Serial!Spec
=============================================================================
