--------------------------- MODULE ExecController ---------------------------
(***************************************************************************)
(* ExecAgentController: an agent whose every submit runs one child process *)
(* to completion (src/agents/exec-controller.ts).                          *)
(*                                                                         *)
(* Every callback of the Node process is one step: the promise steps of    *)
(* one call run without a callback in between (Quiescent), so a submit is  *)
(* cut only at "await this.interrupt()" and at "await this.runChild()".    *)
(* A submit and the child it spawns share one id.                          *)
(*                                                                         *)
(* The parser, and the buffer it collects an answer in, is one object for  *)
(* all agents of a driver: the others' lines and flushes are steps too.    *)
(***************************************************************************)
EXTENDS DriverParsers

CONSTANTS
  Submits,      \* the submit calls the agent ever receives
  Neighbours,   \* the turns of the driver's other agents
  None,         \* "activeChild === undefined"
  Preempts,     \* the values of opts.interruptIfBusy the callers use
  Output,       \* "text" (stdout is the answer) or the driver's jsonl parser
  LateOutput,   \* may stdout data arrive after the child's 'exit' event?
  Deadlines     \* may a child outlive its submit's timeoutMs?

ASSUME ExecAssumption ==
  /\ None \notin Submits \cup Neighbours
  /\ Submits \cap Neighbours = {}
  /\ Preempts \subseteq BOOLEAN
  /\ Output \in {"text", "codex", "gemini"}
  /\ LateOutput \in BOOLEAN
  /\ Deadlines \in BOOLEAN

VARIABLES
  \* the controller's fields
  status,       \* _state.status
  exited,       \* _exited
  activeChild,  \* the child interrupt() and kill() can reach, or None
  scratch,      \* the buffer of the driver's parser
  published,    \* this agent's turns whose text is in the _transcript of
                \* some agent of the driver
  \* one submit call each
  pc,           \* where the call is
  collected,    \* the last element of its "messages" array, {} if empty
  \* one operating-system process each
  child,        \* its life as the daemon is told of it
  signalled,    \* the children SIGTERM was sent to
  phase,        \* how far the command line tool is in its output
  said,         \* the children that wrote an answer before their 'exit'
  late          \* ... and after it

parserVars     == <<scratch, published>>
controllerVars == <<status, exited, activeChild, parserVars>>
callVars       == <<pc, collected>>
processVars    == <<child, signalled, phase, said, late>>
vars           == <<controllerVars, callVars, processVars>>

Turns == Submits \cup Neighbours

TypeOK ==
  /\ status \in {"idle", "busy", "exited"}
  /\ exited \in BOOLEAN
  /\ activeChild \in Submits \cup {None}
  /\ scratch \subseteq Turns /\ published \subseteq Submits
  /\ pc \in [Submits -> {"new", "interrupting", "waiting", "replied", "rejected"}]
  /\ collected \in [Submits -> SUBSET Turns]
  /\ child \in [Submits -> {"none", "running", "exited"}]
  /\ signalled \subseteq Submits
  /\ phase \in [Submits -> {"silent", "begun", "ended"}]
  /\ said \subseteq Submits /\ late \subseteq Submits

Init ==
  /\ status = "idle" /\ exited = FALSE /\ activeChild = None /\ scratch = {} /\ published = {}
  /\ pc = [s \in Submits |-> "new"]
  /\ collected = [s \in Submits |-> {}]
  /\ child = [s \in Submits |-> "none"]
  /\ signalled = {}
  /\ phase = [s \in Submits |-> "silent"]
  /\ said = {} /\ late = {}

-----------------------------------------------------------------------------
(* Helpers                                                                 *)

(* No continuation of an await is queued: only then does Node run the next *)
(* callback of a timer, a pipe or a process.                               *)
Quiescent == \A s \in Submits : pc[s] # "interrupting"

Listening(s) == pc[s] = "waiting"

(* emit("message"): every submit whose collector is registered takes it.   *)
Deliver(message) ==
  [s \in Submits |-> IF Listening(s) /\ message # {} THEN message ELSE collected[s]]

(* What a feed leaves in the parser, and the message it gives out.         *)
Publish(result) ==
  /\ scratch' = result.scratch
  /\ published' = published \cup (result.message \cap Submits)
  /\ collected' = Deliver(result.message)

\* Faulty variant, for the mutation runs: a failed child settles nothing.
SettledOnSuccess(s, outcome) == IF outcome = "rejected" THEN pc ELSE [pc EXCEPT ![s] = outcome]

(* The finally of submit and the return or throw after it.                 *)
Settled(s, outcome) == [pc EXCEPT ![s] = outcome]
AfterFinally(st) == IF st = "busy" THEN "idle" ELSE st

\* Faulty variant: the parser is not flushed.
AtExitUnread(c) == Parsed(status, scratch, {})

(* What the last feeds of an 'exit' handler leave.                         *)
AtExit(c) ==
  IF Output = "text"
    THEN Parsed(status, scratch, IF c \in said THEN {c} ELSE {})
    ELSE Feed(Output, "flush", c, status, scratch)

-----------------------------------------------------------------------------
(* Calls: agents.submit, agents.interrupt, agents.kill                     *)

\* Faulty variant: the spawned child is not recorded.
StartUntracked(s) ==
  /\ pc' = [pc EXCEPT ![s] = "waiting"]
  /\ status' = "busy"
  /\ child' = [child EXCEPT ![s] = "running"]
  /\ UNCHANGED activeChild

Start(s) ==
  /\ pc' = [pc EXCEPT ![s] = "waiting"]
  /\ status' = "busy"
  /\ child' = [child EXCEPT ![s] = "running"]
  /\ activeChild' = s

(* An exited agent, or a busy one without interruptIfBusy, throws.         *)
SubmitRefused(s) ==
  /\ pc[s] = "new"
  /\ exited \/ (activeChild # None /\ FALSE \in Preempts)
  /\ pc' = [pc EXCEPT ![s] = "rejected"]
  /\ UNCHANGED <<controllerVars, collected, processVars>>

SubmitIdle(s) ==
  /\ pc[s] = "new"
  /\ ~exited /\ activeChild = None
  /\ Start(s)
  /\ UNCHANGED <<exited, parserVars, collected, signalled, phase, said, late>>

(* interruptIfBusy: SIGTERM to the running child, then an await.           *)
SubmitPreempt(s) ==
  /\ pc[s] = "new"
  /\ ~exited /\ activeChild # None /\ TRUE \in Preempts
  /\ signalled' = signalled \cup {activeChild}
  /\ pc' = [pc EXCEPT ![s] = "interrupting"]
  /\ UNCHANGED <<controllerVars, collected, child, phase, said, late>>

(* ... after which nothing is checked again.                               *)
SubmitResume(s) ==
  /\ pc[s] = "interrupting"
  /\ Start(s)
  /\ UNCHANGED <<exited, parserVars, collected, signalled, phase, said, late>>

Interrupt ==
  /\ ~exited /\ activeChild # None
  /\ signalled' = signalled \cup {activeChild}
  /\ UNCHANGED <<controllerVars, callVars, child, phase, said, late>>

Kill ==
  /\ ~exited
  /\ exited' = TRUE
  /\ status' = "exited"
  /\ signalled' = signalled \cup ({activeChild} \ {None})
  /\ UNCHANGED <<activeChild, parserVars, callVars, child, phase, said, late>>

-----------------------------------------------------------------------------
(* Callbacks of the child process and of the timer                         *)

CanWrite(c) == child[c] = "running" \/ (LateOutput /\ child[c] = "exited")

(* A tool writes one begin line, any number of answers, one end line.      *)
Writes(c, line) ==
  /\ Quiescent /\ CanWrite(c)
  /\ \/ /\ line = "begin" /\ phase[c] = "silent"
        /\ phase' = [phase EXCEPT ![c] = "begun"]
        /\ UNCHANGED <<said, late>>
     \/ /\ line = "text" /\ phase[c] = "begun"
        /\ IF child[c] = "running"
             THEN said' = said \cup {c} /\ UNCHANGED late
             ELSE late' = late \cup {c} /\ UNCHANGED said
        /\ UNCHANGED phase
     \/ /\ line = "end" /\ phase[c] = "begun"
        /\ phase' = [phase EXCEPT ![c] = "ended"]
        /\ UNCHANGED <<said, late>>

(* stdout 'data': text is only accumulated, a jsonl line goes through      *)
(* feedChunk.                                                              *)
Stdout(c, line) ==
  /\ Writes(c, line)
  /\ IF Output = "text"
       THEN UNCHANGED <<status, parserVars, collected>>
       ELSE LET r == Feed(Output, line, c, status, scratch)
            IN  /\ status' = r.status
                /\ Publish(r)
  /\ UNCHANGED <<exited, activeChild, pc, child, signalled>>

(* feedChunk of another agent of the driver, in its turn n: its line goes  *)
(* through the same parser, and what that gives out is its message.        *)
Neighbour(n, line) ==
  /\ Quiescent /\ Output # "text"
  /\ LET r == Feed(Output, line, n, "busy", scratch)
     IN  /\ scratch' = r.scratch
         /\ published' = published \cup (r.message \cap Submits)
  /\ UNCHANGED <<status, exited, activeChild, callVars, processVars>>

(* 'exit': runChild resolves (code 0 or SIGTERM) or rejects, unless the    *)
(* timer already settled it.                                               *)
Exit(c, ok) ==
  /\ Quiescent /\ child[c] = "running"
  /\ child' = [child EXCEPT ![c] = "exited"]
  /\ activeChild' = None
  /\ LET r == AtExit(c)
     IN  /\ Publish(r)
         /\ IF Listening(c)
              THEN /\ pc' = Settled(c, IF ok THEN "replied" ELSE "rejected")
                   /\ status' = AfterFinally(r.status)
              ELSE /\ pc' = pc
                   /\ status' = r.status
  /\ UNCHANGED <<exited, signalled, phase, said, late>>

\* Faulty variant: 'error' forgets "activeChild = undefined".
SpawnErrorKeepsChild(c) ==
  /\ Quiescent /\ child[c] = "running" /\ phase[c] = "silent" /\ Listening(c)
  /\ child' = [child EXCEPT ![c] = "exited"]
  /\ phase' = [phase EXCEPT ![c] = "ended"]
  /\ pc' = Settled(c, "rejected")
  /\ status' = AfterFinally(status)
  /\ UNCHANGED <<exited, activeChild, parserVars, collected, signalled, said, late>>

(* 'error': the command could not be started.                              *)
SpawnError(c) ==
  /\ Quiescent /\ child[c] = "running" /\ phase[c] = "silent" /\ Listening(c)
  /\ child' = [child EXCEPT ![c] = "exited"]
  /\ phase' = [phase EXCEPT ![c] = "ended"]
  /\ activeChild' = None
  /\ pc' = Settled(c, "rejected")
  /\ status' = AfterFinally(status)
  /\ UNCHANGED <<exited, parserVars, collected, signalled, said, late>>

\* Faulty variant: the timer also forgets the child it gave up on.
TimeoutForgets(s) ==
  /\ Deadlines /\ Quiescent /\ Listening(s)
  /\ pc' = Settled(s, "rejected")
  /\ signalled' = signalled \cup {s}
  /\ status' = AfterFinally(status)
  /\ activeChild' = None
  /\ UNCHANGED <<exited, parserVars, collected, child, phase, said, late>>

(* The timer of runChild: reject, then SIGTERM; activeChild stays set.     *)
Timeout(s) ==
  /\ Deadlines /\ Quiescent /\ Listening(s)
  /\ pc' = Settled(s, "rejected")
  /\ signalled' = signalled \cup {s}
  /\ status' = AfterFinally(status)
  /\ UNCHANGED <<exited, activeChild, parserVars, collected, child, phase, said, late>>

-----------------------------------------------------------------------------
Call(s) == SubmitRefused(s) \/ SubmitIdle(s) \/ SubmitPreempt(s) \/ SubmitResume(s)

Callback(s) ==
  \/ \E line \in {"begin", "text", "end"} : Stdout(s, line)
  \/ \E ok \in BOOLEAN : Exit(s, ok)
  \/ SpawnError(s)
  \/ Timeout(s)

Next ==
  \/ Interrupt \/ Kill
  \/ \E s \in Submits : Call(s) \/ Callback(s)
  \/ \E n \in Neighbours, line \in {"text", "end", "flush"} : Neighbour(n, line)

Spec == Init /\ [][Next]_vars

(* The event loop runs queued continuations and due timers, and a process  *)
(* that received SIGTERM goes away; nothing else is promised: no caller    *)
(* must call and no tool must answer.                                      *)
Fairness ==
  \A s \in Submits :
    /\ WF_vars(SubmitResume(s))
    /\ WF_vars(Timeout(s))
    /\ WF_vars(s \in signalled /\ \E ok \in BOOLEAN : Exit(s, ok))

FairSpec == Spec /\ Fairness

-----------------------------------------------------------------------------
(* Properties                                                              *)

(* "The currently-running child, if any. One at a time.": no two children  *)
(* of the agent run at once.                                               *)
OneChildAtATime ==
  \A c, d \in Submits : child[c] = "running" /\ child[d] = "running" => c = d

(* A child that runs without having been told to stop is the one           *)
(* interrupt() and kill() would signal: no child escapes the operator.     *)
ChildIsReachable ==
  \A c \in Submits : child[c] = "running" /\ c \notin signalled => activeChild = c

(* activeChild never names a process that is gone, so interrupt() and      *)
(* kill() never signal a recycled process id.                              *)
NoSignalToTheDead == activeChild # None => child[activeChild] = "running"

(* A submit that still waits has a running child, whose 'exit' will settle *)
(* it: runChild is never left with nothing to resolve it.                  *)
WaiterHasChild == \A s \in Submits : Listening(s) => child[s] = "running"

(* Whose text may get into another's answer: that of other agents whose    *)
(* text passes through the same buffer, and what the agent's own children  *)
(* say after their 'exit'.                                                 *)
Strangers ==
  (IF Output = "gemini" THEN Neighbours ELSE {})
    \cup (IF LateOutput /\ Output # "text" THEN Submits ELSE {})

(* The answer a submit returns holds no text of the agent's other turns,   *)
(* the strangers' excepted, although the buffer outlives the turns.        *)
AnswerIsOwn ==
  \A s \in Submits : pc[s] = "replied" => collected[s] \subseteq {s} \cup Strangers

(* No text is dropped, whoever preempts, gives up or shares the parser.    *)
(* What a child wrote before its 'exit' has been published when it is      *)
(* gone, by its agent or by one that took it out of the common buffer;     *)
(* what it wrote later was published too or is in the buffer.              *)
TextIsKept ==
  /\ \A c \in said : child[c] = "running" \/ c \in published
  /\ Output # "text" => late \subseteq published \cup scratch

(* Every submit that got past its checks settles, even when its child      *)
(* hangs: the timer of runChild does not depend on the child.              *)
SubmitSettles ==
  \A s \in Submits :
    pc[s] \in {"interrupting", "waiting"} ~> pc[s] \in {"replied", "rejected"}

-----------------------------------------------------------------------------
(* The controller as the abstract agent sees it: the turn is the child     *)
(* that occupies activeChild, an answer exists once submit has returned.   *)
SerialOutcome(s) ==
  CASE pc[s] \in {"new", "interrupting"} -> "asked"
    [] pc[s] = "waiting"  -> "running"
    [] pc[s] = "replied"  -> "answered"
    [] pc[s] = "rejected" -> "failed"

SerialAnswer(s) == IF pc[s] = "replied" THEN collected[s] ELSE {}

Serial == INSTANCE SerialAgent WITH
  turn    <- activeChild,
  outcome <- [s \in Submits |-> SerialOutcome(s)],
  answer  <- [s \in Submits |-> SerialAnswer(s)],
  stopped <- exited

(* One turn at a time, own answers but for the strangers', nothing         *)
(* accepted once killed: the controller implements the abstract agent when *)
(* no caller preempts.                                                     *)
ImplementsSerialAgent == Serial!Spec
=============================================================================
