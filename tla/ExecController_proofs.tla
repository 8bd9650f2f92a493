------------------------ MODULE ExecController_proofs ------------------------
(***************************************************************************)
(* Proofs about ExecController, for any set of submits.                    *)
(*                                                                         *)
(* The argument: a waiting submit always has a running child and           *)
(* activeChild never outlives its process (Attached, for every caller).    *)
(* When no caller preempts, no submit is ever cut at the await of          *)
(* interrupt(), so activeChild is exactly the running child (Tracked);     *)
(* and as a child's exit flushes the parser, the buffer only ever holds    *)
(* text of that child and of strangers (Owned). That no text is dropped    *)
(* (Kept) needs nothing of the callers.                                    *)
(***************************************************************************)
EXTENDS ExecController, TLAPS

(* The case of callers that never set interruptIfBusy.                     *)
Polite == TRUE \notin Preempts

Attached == NoSignalToTheDead /\ WaiterHasChild

Tracked ==
  /\ Quiescent
  /\ \A c \in Submits : child[c] = "running" => activeChild = c

Owned ==
  /\ \A x \in scratch : x \in Strangers \/ (activeChild = x /\ phase[x] # "silent")
  /\ Output # "gemini" => scratch = {}
  /\ \A s \in Submits : collected[s] \subseteq {s} \cup Strangers

IInv == TypeOK /\ Attached /\ Tracked

-----------------------------------------------------------------------------
(* What a feed returns, and that it invents no text: scratch buffer and    *)
(* message stay within the turns the parser was given.                     *)
Results(turns) ==
  [status: {"idle", "busy", "exited"}, scratch: SUBSET turns, message: SUBSET turns]

LEMMA FeedType ==
  ASSUME NEW parser \in {"codex", "gemini"}, NEW line, NEW turns, NEW from \in turns,
         NEW st \in {"idle", "busy", "exited"}, NEW buf \in SUBSET turns
  PROVE  Feed(parser, line, from, st, buf) \in Results(turns)
<1>1. CASE parser = "codex"
  BY <1>1 DEF Feed, CodexFeed, Parsed, Results
<1>2. CASE parser = "gemini"
  BY <1>2 DEF Feed, GeminiFeed, Parsed, Results
<1> QED BY <1>1, <1>2

LEMMA AtExitType ==
  ASSUME TypeOK, NEW c \in Submits
  PROVE  AtExit(c) \in Results(Turns)
<1>1. CASE Output = "text"
  BY <1>1 DEF AtExit, Parsed, Results, TypeOK, Turns
<1>2. CASE Output # "text"
  <2>1. /\ Output \in {"codex", "gemini"}
        /\ scratch \in SUBSET Turns /\ c \in Turns
        /\ status \in {"idle", "busy", "exited"}
    BY <1>2, ExecAssumption DEF TypeOK, Turns
  <2>2. Feed(Output, "flush", c, status, scratch) \in Results(Turns)
    BY <2>1, FeedType
  <2> QED BY <1>2, <2>2 DEF AtExit
<1> QED BY <1>1, <1>2

(* The status and the fields keep their types: Spec => []TypeOK, for every *)
(* caller, output format and timing.                                       *)
LEMMA TypeInit == Init => TypeOK
BY ExecAssumption DEF Init, TypeOK

LEMMA TypeStep == TypeOK /\ [Next]_vars => TypeOK'
<1> SUFFICES ASSUME TypeOK, [Next]_vars PROVE TypeOK'
  OBVIOUS
<1> USE ExecAssumption DEF TypeOK, vars, controllerVars, parserVars, callVars, processVars
<1>1. CASE UNCHANGED vars
  BY <1>1
<1>2. CASE Interrupt
  BY <1>2 DEF Interrupt
<1>3. CASE Kill
  BY <1>3 DEF Kill
<1>4. ASSUME NEW s \in Submits, Call(s) PROVE TypeOK'
  <2>1. CASE SubmitRefused(s)
    BY <2>1 DEF SubmitRefused
  <2>2. CASE SubmitIdle(s)
    BY <2>2 DEF SubmitIdle, Start
  <2>3. CASE SubmitPreempt(s)
    BY <2>3 DEF SubmitPreempt
  <2>4. CASE SubmitResume(s)
    BY <2>4 DEF SubmitResume, Start
  <2> QED BY <1>4, <2>1, <2>2, <2>3, <2>4 DEF Call
<1>5. ASSUME NEW s \in Submits, Callback(s) PROVE TypeOK'
  <2>1. ASSUME NEW line \in {"begin", "text", "end"}, Stdout(s, line) PROVE TypeOK'
    <3>1. CASE Output = "text"
      BY <2>1, <3>1 DEF Stdout, Writes
    <3>2. CASE Output # "text"
      <4> DEFINE r == Feed(Output, line, s, status, scratch)
      <4>1. r \in Results(Turns)
        <5>1. Output \in {"codex", "gemini"} /\ scratch \in SUBSET Turns /\ s \in Turns
          BY <3>2 DEF Turns
        <5> QED BY <5>1, FeedType
      <4>2. Deliver(r.message) \in [Submits -> SUBSET Turns]
        BY <4>1 DEF Deliver, Results
      <4>3. /\ status' = r.status /\ scratch' = r.scratch
            /\ collected' = Deliver(r.message) /\ published' \subseteq Submits
        BY <2>1, <3>2 DEF Stdout, Publish
      <4> HIDE DEF r
      <4> QED BY <2>1, <4>1, <4>2, <4>3 DEF Stdout, Writes, Results
    <3> QED BY <3>1, <3>2
  <2>2. ASSUME NEW ok \in BOOLEAN, Exit(s, ok) PROVE TypeOK'
    <3> DEFINE r == AtExit(s)
    <3>1. r \in Results(Turns)
      BY AtExitType
    <3>2. Deliver(r.message) \in [Submits -> SUBSET Turns]
      BY <3>1 DEF Deliver, Results
    <3>3. /\ scratch' = r.scratch
          /\ collected' = Deliver(r.message)
          /\ published' \subseteq Submits
          /\ status' \in {r.status, AfterFinally(r.status)}
          /\ pc' \in {pc, Settled(s, "replied"), Settled(s, "rejected")}
      BY <2>2 DEF Exit, Publish
    <3> HIDE DEF r
    <3> QED BY <2>2, <3>1, <3>2, <3>3 DEF Exit, AfterFinally, Settled, Results
  <2>3. CASE SpawnError(s)
    BY <2>3 DEF SpawnError, Settled, AfterFinally
  <2>4. CASE Timeout(s)
    BY <2>4 DEF Timeout, Settled, AfterFinally
  <2> QED BY <1>5, <2>1, <2>2, <2>3, <2>4 DEF Callback
<1>6. ASSUME NEW n \in Neighbours, NEW line \in {"text", "end", "flush"}, Neighbour(n, line)
      PROVE  TypeOK'
  <2> DEFINE r == Feed(Output, line, n, "busy", scratch)
  <2>1. Output \in {"codex", "gemini"} /\ scratch \in SUBSET Turns /\ n \in Turns
    BY <1>6 DEF Neighbour, Turns
  <2>2. r \in Results(Turns)
    BY <2>1, FeedType
  <2>3. scratch' = r.scratch /\ published' \subseteq Submits
    BY <1>6 DEF Neighbour
  <2> HIDE DEF r
  <2> QED BY <1>6, <2>2, <2>3 DEF Neighbour, Results
<1> QED BY <1>1, <1>2, <1>3, <1>4, <1>5, <1>6 DEF Next

(* The controller's fields keep their types, for every caller, output      *)
(* format and timing (ExecAgentController as a whole).                     *)
THEOREM ExecTypeCorrect == Spec => []TypeOK
BY TypeInit, TypeStep, PTL DEF Spec

-----------------------------------------------------------------------------
LEMMA AttachedStep == TypeOK /\ Attached /\ [Next]_vars => Attached'
<1> SUFFICES ASSUME TypeOK, Attached, [Next]_vars PROVE Attached'
  OBVIOUS
<1> USE ExecAssumption DEF TypeOK, Attached, NoSignalToTheDead, WaiterHasChild, Listening,
                       vars, controllerVars, parserVars, callVars, processVars
<1>1. CASE UNCHANGED vars
  BY <1>1
<1>2. CASE Interrupt
  BY <1>2 DEF Interrupt
<1>3. CASE Kill
  BY <1>3 DEF Kill
<1>4. ASSUME NEW s \in Submits, Call(s) PROVE Attached'
  <2>1. CASE SubmitRefused(s)
    BY <2>1 DEF SubmitRefused
  <2>2. CASE SubmitIdle(s)
    BY <2>2 DEF SubmitIdle, Start
  <2>3. CASE SubmitPreempt(s)
    BY <2>3 DEF SubmitPreempt
  <2>4. CASE SubmitResume(s)
    BY <2>4 DEF SubmitResume, Start
  <2> QED BY <1>4, <2>1, <2>2, <2>3, <2>4 DEF Call
<1>5. ASSUME NEW s \in Submits, Callback(s) PROVE Attached'
  <2>1. ASSUME NEW line \in {"begin", "text", "end"}, Stdout(s, line) PROVE Attached'
    BY <2>1 DEF Stdout
  <2>2. ASSUME NEW ok \in BOOLEAN, Exit(s, ok) PROVE Attached'
    <3>1. /\ activeChild' = None
          /\ child' = [child EXCEPT ![s] = "exited"]
          /\ pc[s] # "waiting" => pc' = pc
          /\ pc[s] = "waiting" => pc' \in {Settled(s, "replied"), Settled(s, "rejected")}
      BY <2>2 DEF Exit
    <3> QED BY <3>1 DEF Settled
  <2>3. CASE SpawnError(s)
    BY <2>3 DEF SpawnError, Settled
  <2>4. CASE Timeout(s)
    BY <2>4 DEF Timeout, Settled
  <2> QED BY <1>5, <2>1, <2>2, <2>3, <2>4 DEF Callback
<1>6. ASSUME NEW n \in Neighbours, NEW line \in {"text", "end", "flush"}, Neighbour(n, line)
      PROVE  Attached'
  BY <1>6 DEF Neighbour
<1> QED BY <1>1, <1>2, <1>3, <1>4, <1>5, <1>6 DEF Next

(* Whatever the callers do, preemption included: activeChild never names a *)
(* process that is gone (interrupt and kill never signal a recycled pid).  *)
THEOREM ExecNoSignalToTheDead == Spec => []NoSignalToTheDead
<1>1. Init => Attached
  BY ExecAssumption DEF Init, Attached, NoSignalToTheDead, WaiterHasChild, Listening
<1>2. Attached => NoSignalToTheDead
  BY DEF Attached
<1> QED BY <1>1, <1>2, TypeInit, TypeStep, AttachedStep, PTL DEF Spec

(* Whatever the callers do, a submit that waits has a running child: the   *)
(* promise of runChild always has something left to settle it.             *)
THEOREM ExecWaiterHasChild == Spec => []WaiterHasChild
<1>1. Init => Attached
  BY ExecAssumption DEF Init, Attached, NoSignalToTheDead, WaiterHasChild, Listening
<1>2. Attached => WaiterHasChild
  BY DEF Attached
<1> QED BY <1>1, <1>2, TypeInit, TypeStep, AttachedStep, PTL DEF Spec

-----------------------------------------------------------------------------
(* The invariant of polite callers.                                        *)
LEMMA TrackedInit == Init => IInv
<1> SUFFICES ASSUME Init PROVE IInv
  OBVIOUS
<1>1. Attached /\ Tracked
  BY ExecAssumption
  DEF Init, Attached, NoSignalToTheDead, WaiterHasChild, Listening, Tracked, Quiescent
<1> QED BY <1>1, TypeInit DEF IInv

LEMMA TrackedStep ==
  ASSUME Polite
  PROVE  IInv /\ [Next]_vars => IInv'
<1> SUFFICES ASSUME IInv, [Next]_vars PROVE Tracked'
  BY TypeStep, AttachedStep DEF IInv
<1> USE ExecAssumption DEF IInv, TypeOK, Attached, NoSignalToTheDead, Tracked, Quiescent,
                       vars, controllerVars, parserVars, callVars, processVars
<1>1. CASE UNCHANGED vars
  BY <1>1
<1>2. CASE Interrupt
  BY <1>2 DEF Interrupt
<1>3. CASE Kill
  BY <1>3 DEF Kill
<1>4. ASSUME NEW s \in Submits, Call(s) PROVE Tracked'
  <2>1. CASE SubmitRefused(s)
    BY <2>1 DEF SubmitRefused
  <2>2. CASE SubmitIdle(s)
    BY <2>2 DEF SubmitIdle, Start
  <2>3. CASE SubmitPreempt(s)
    BY <2>3 DEF SubmitPreempt, Polite
  <2>4. CASE SubmitResume(s)
    BY <2>4 DEF SubmitResume
  <2> QED BY <1>4, <2>1, <2>2, <2>3, <2>4 DEF Call
<1>5. ASSUME NEW s \in Submits, Callback(s) PROVE Tracked'
  <2>1. ASSUME NEW line \in {"begin", "text", "end"}, Stdout(s, line) PROVE Tracked'
    BY <2>1 DEF Stdout
  <2>2. ASSUME NEW ok \in BOOLEAN, Exit(s, ok) PROVE Tracked'
    <3>1. /\ child' = [child EXCEPT ![s] = "exited"]
          /\ child[s] = "running"
          /\ pc' \in {pc, Settled(s, "replied"), Settled(s, "rejected")}
      BY <2>2 DEF Exit
    <3> QED BY <3>1 DEF Settled
  <2>3. CASE SpawnError(s)
    BY <2>3 DEF SpawnError, Settled
  <2>4. CASE Timeout(s)
    BY <2>4 DEF Timeout, Settled
  <2> QED BY <1>5, <2>1, <2>2, <2>3, <2>4 DEF Callback
<1>6. ASSUME NEW n \in Neighbours, NEW line \in {"text", "end", "flush"}, Neighbour(n, line)
      PROVE  Tracked'
  BY <1>6 DEF Neighbour
<1> QED BY <1>1, <1>2, <1>3, <1>4, <1>5, <1>6 DEF Next

(* "One at a time": when no caller preempts, no two children of an agent   *)
(* ever run at once.                                                       *)
THEOREM ExecOneChildAtATime ==
  ASSUME Polite
  PROVE  Spec => []OneChildAtATime
<1>1. IInv => OneChildAtATime
  BY DEF IInv, Tracked, OneChildAtATime
<1> QED BY <1>1, TrackedInit, TrackedStep, PTL DEF Spec

(* When no caller preempts, a running child is always within reach of      *)
(* interrupt() and kill().                                                 *)
THEOREM ExecChildIsReachable ==
  ASSUME Polite
  PROVE  Spec => []ChildIsReachable
<1>1. IInv => ChildIsReachable
  BY DEF IInv, Tracked, ChildIsReachable
<1> QED BY <1>1, TrackedInit, TrackedStep, PTL DEF Spec

-----------------------------------------------------------------------------
(* Answers. A message delivered while child c is the agent's only child    *)
(* reaches at most c's own submit; a stranger's may reach any.             *)
LEMMA DeliverOwn ==
  ASSUME IInv, NEW c \in Submits, child[c] = "running" \/ c \in Strangers,
         NEW message \in SUBSET ({c} \cup Strangers),
         \A s \in Submits : collected[s] \subseteq {s} \cup Strangers
  PROVE  \A s \in Submits : Deliver(message)[s] \subseteq {s} \cup Strangers
BY DEF Deliver, IInv, TypeOK, Attached, WaiterHasChild, Tracked, Listening

LEMMA OwnedStep ==
  ASSUME Polite
  PROVE  IInv /\ Owned /\ [Next]_vars => Owned'
<1> SUFFICES ASSUME IInv, Owned, [Next]_vars PROVE Owned'
  OBVIOUS
<1> USE ExecAssumption DEF IInv, TypeOK, Owned, vars, controllerVars, parserVars, callVars, processVars
<1>0. Strangers' = Strangers
  BY DEF Strangers
<1>1. CASE UNCHANGED vars
  BY <1>0, <1>1
<1>2. CASE Interrupt
  BY <1>0, <1>2 DEF Interrupt
<1>3. CASE Kill
  BY <1>0, <1>3 DEF Kill
<1>4. ASSUME NEW s \in Submits, Call(s) PROVE Owned'
  <2>1. CASE SubmitRefused(s)
    BY <1>0, <2>1 DEF SubmitRefused
  <2>2. CASE SubmitIdle(s)
    BY <1>0, <2>2 DEF SubmitIdle, Start, Turns
  <2>3. CASE SubmitPreempt(s)
    BY <2>3 DEF SubmitPreempt, Polite
  <2>4. CASE SubmitResume(s)
    BY <2>4 DEF SubmitResume, Tracked, Quiescent
  <2> QED BY <1>4, <2>1, <2>2, <2>3, <2>4 DEF Call
<1>5. ASSUME NEW c \in Submits, Callback(c) PROVE Owned'
  <2>1. ASSUME NEW line \in {"begin", "text", "end"}, Stdout(c, line) PROVE Owned'
    <3>1. CASE Output = "text"
      BY <1>0, <2>1, <3>1 DEF Stdout, Writes
    <3>2. CASE Output # "text"
      <4> DEFINE r == Feed(Output, line, c, status, scratch)
      <4>1. c \in Strangers \/ (child[c] = "running" /\ activeChild = c)
        BY <2>1, <3>2 DEF Stdout, Writes, CanWrite, Tracked, Strangers
      <4>2. /\ scratch' = r.scratch
            /\ collected' = Deliver(r.message)
            /\ activeChild' = activeChild
            /\ phase'[c] # "silent"
            /\ \A x \in Submits : phase[x] # "silent" => phase'[x] # "silent"
        BY <2>1, <3>2 DEF Stdout, Writes, Publish
      <4>3. scratch \in SUBSET ({c} \cup Strangers) /\ Output \in {"codex", "gemini"}
        <5>1. CASE Output = "gemini"
          <6>1. CASE c \in Strangers
            <7>1. Turns \subseteq Strangers
              BY <5>1, <6>1 DEF Turns, Strangers
            <7> QED BY <5>1, <7>1
          <6> QED BY <4>1, <5>1, <6>1
        <5> QED BY <3>2, <5>1
      <4>4. r \in Results({c} \cup Strangers)
        BY <4>3, FeedType
      <4>5. r.scratch \subseteq {c} \cup Strangers /\ r.message \in SUBSET ({c} \cup Strangers)
        BY <4>4 DEF Results
      <4>6. Output # "gemini" => r.scratch = {}
        BY <4>3 DEF Feed, CodexFeed, Parsed
      <4>7. \A s \in Submits : Deliver(r.message)[s] \subseteq {s} \cup Strangers
        BY <4>1, <4>5, DeliverOwn
      <4> HIDE DEF r
      <4> QED BY <4>1, <4>2, <4>5, <4>6, <4>7, <1>0
    <3> QED BY <3>1, <3>2
  <2>2. ASSUME NEW ok \in BOOLEAN, Exit(c, ok) PROVE Owned'
    <3> DEFINE r == AtExit(c)
    <3>1. child[c] = "running" /\ activeChild = c
      BY <2>2 DEF Exit, Tracked
    <3>2. scratch' = r.scratch /\ collected' = Deliver(r.message)
      BY <2>2 DEF Exit, Publish
    <3>3. r.scratch = {} /\ r.message \in SUBSET ({c} \cup Strangers)
      <4>1. scratch \subseteq {c} \cup Strangers
        BY <3>1
      <4>2. CASE Output = "text"
        BY <4>2, <4>1 DEF AtExit, Parsed
      <4>3. CASE Output = "codex"
        BY <4>3, <4>1 DEF AtExit, Feed, CodexFeed, Parsed
      <4>4. CASE Output = "gemini"
        BY <4>4, <4>1 DEF AtExit, Feed, GeminiFeed, Parsed
      <4> QED BY <4>2, <4>3, <4>4
    <3>4. \A s \in Submits : Deliver(r.message)[s] \subseteq {s} \cup Strangers
      BY <3>1, <3>3, DeliverOwn
    <3> HIDE DEF r
    <3> QED BY <1>0, <3>2, <3>3, <3>4
  <2>3. CASE SpawnError(c)
    BY <1>0, <2>3 DEF SpawnError, Tracked
  <2>4. CASE Timeout(c)
    BY <1>0, <2>4 DEF Timeout
  <2> QED BY <1>5, <2>1, <2>2, <2>3, <2>4 DEF Callback
<1>6. ASSUME NEW n \in Neighbours, NEW line \in {"text", "end", "flush"}, Neighbour(n, line)
      PROVE  Owned'
  <2> DEFINE r == Feed(Output, line, n, "busy", scratch)
  <2>1. Output \in {"codex", "gemini"} /\ scratch \in SUBSET (scratch \cup {n})
    BY <1>6 DEF Neighbour
  <2>2. r \in Results(scratch \cup {n})
    BY <2>1, FeedType
  <2>3. Output # "gemini" => r.scratch = {}
    BY <2>1 DEF Feed, CodexFeed, Parsed
  <2>4. Output = "gemini" => n \in Strangers
    BY DEF Strangers
  <2>5. r.scratch \subseteq scratch \cup {n}
    BY <2>2 DEF Results
  <2>6. UNCHANGED <<activeChild, phase, collected>> /\ scratch' = r.scratch
    BY <1>6 DEF Neighbour
  <2> HIDE DEF r
  <2> QED BY <1>0, <2>3, <2>4, <2>5, <2>6
<1> QED BY <1>1, <1>2, <1>3, <1>4, <1>5, <1>6 DEF Next

LEMMA OwnedInit == Init => Owned
BY ExecAssumption DEF Init, Owned

(* When no caller preempts, a submit returns no text of the agent's other  *)
(* turns, although the parser's buffer outlives them; the exceptions are   *)
(* the strangers (other gemini agents of the daemon, output after 'exit'), *)
(* of which there are none for codex, and for plain text.                  *)
THEOREM ExecAnswerIsOwn ==
  ASSUME Polite
  PROVE  Spec => []AnswerIsOwn
<1>1. Owned => AnswerIsOwn
  BY DEF Owned, AnswerIsOwn
<1> QED BY <1>1, TrackedInit, TrackedStep, OwnedInit, OwnedStep, PTL DEF Spec

-----------------------------------------------------------------------------
(* Refinement. A child runs only for a submit that waits for it or whose   *)
(* timer has given it up.                                                  *)
Accounted == \A c \in Submits : child[c] = "running" => pc[c] \in {"waiting", "rejected"}

LEMMA AccountedStep ==
  ASSUME Polite
  PROVE  IInv /\ Accounted /\ [Next]_vars => Accounted'
<1> SUFFICES ASSUME IInv, Accounted, [Next]_vars PROVE Accounted'
  OBVIOUS
<1> USE ExecAssumption DEF IInv, TypeOK, Accounted,
                       vars, controllerVars, parserVars, callVars, processVars
<1>1. CASE UNCHANGED vars
  BY <1>1
<1>2. CASE Interrupt \/ Kill
  BY <1>2 DEF Interrupt, Kill
<1>3. ASSUME NEW s \in Submits, Call(s) PROVE Accounted'
  BY <1>3 DEF Call, SubmitRefused, SubmitIdle, SubmitPreempt, SubmitResume, Start,
              Tracked, Quiescent, Polite, processVars
<1>4. ASSUME NEW c \in Submits, Callback(c) PROVE Accounted'
  <2>1. ASSUME NEW line \in {"begin", "text", "end"}, Stdout(c, line) PROVE Accounted'
    BY <2>1 DEF Stdout
  <2>2. ASSUME NEW ok \in BOOLEAN, Exit(c, ok) PROVE Accounted'
    <3>1. /\ child' = [child EXCEPT ![c] = "exited"]
          /\ pc' \in {pc, Settled(c, "replied"), Settled(c, "rejected")}
      BY <2>2 DEF Exit
    <3> QED BY <3>1 DEF Settled
  <2>3. CASE SpawnError(c)
    BY <2>3 DEF SpawnError, Settled
  <2>4. CASE Timeout(c)
    BY <2>4 DEF Timeout, Settled
  <2> QED BY <1>4, <2>1, <2>2, <2>3, <2>4 DEF Callback
<1>5. ASSUME NEW n \in Neighbours, NEW line \in {"text", "end", "flush"}, Neighbour(n, line)
      PROVE  Accounted'
  BY <1>5 DEF Neighbour
<1> QED BY <1>1, <1>2, <1>3, <1>4, <1>5 DEF Next

LEMMA SerialInit == Init => Serial!Init
BY ExecAssumption DEF Init, Serial!Init, SerialOutcome, SerialAnswer

LEMMA SerialStep ==
  ASSUME Polite, IInv, Owned, Owned', Accounted, [Next]_vars
  PROVE  [Serial!Next]_(Serial!serialVars)
<1> DEFINE outcome == [s \in Submits |-> SerialOutcome(s)]
           answer  == [s \in Submits |-> SerialAnswer(s)]
<1> USE ExecAssumption DEF IInv, TypeOK, SerialOutcome, SerialAnswer, Serial!serialVars,
                       vars, controllerVars, parserVars, callVars, processVars
<1>1. CASE UNCHANGED vars
  BY <1>1
<1>2. CASE Interrupt
  BY <1>2 DEF Interrupt
<1>3. CASE Kill
  BY <1>3 DEF Kill, callVars, Serial!Next, Serial!Stop
<1>4. ASSUME NEW s \in Submits, Call(s) PROVE Serial!Next
  <2>1. CASE SubmitRefused(s)
    <3>1. Serial!Refuse(s)
      BY <2>1 DEF SubmitRefused, controllerVars, Serial!Refuse, Serial!Becomes
    <3> QED BY <3>1 DEF Serial!Next
  <2>2. CASE SubmitIdle(s)
    <3>1. Serial!Accept(s)
      BY <2>2 DEF SubmitIdle, Start, Serial!Accept, Serial!Becomes
    <3> QED BY <3>1 DEF Serial!Next
  <2>3. CASE SubmitPreempt(s)
    BY <2>3 DEF SubmitPreempt, Polite
  <2>4. CASE SubmitResume(s)
    BY <2>4 DEF SubmitResume, Tracked, Quiescent
  <2> QED BY <1>4, <2>1, <2>2, <2>3, <2>4 DEF Call
<1>5. ASSUME NEW c \in Submits, Callback(c) PROVE [Serial!Next]_(Serial!serialVars)
  <2>1. ASSUME NEW line \in {"begin", "text", "end"}, Stdout(c, line)
        PROVE  UNCHANGED Serial!serialVars
    <3>1. \A s \in Submits : pc[s] = "replied" => collected'[s] = collected[s]
      <4>1. CASE Output = "text"
        BY <2>1, <4>1 DEF Stdout
      <4>2. CASE Output # "text"
        BY <2>1, <4>2 DEF Stdout, Publish, Deliver, Listening
      <4> QED BY <4>1, <4>2
    <3> QED BY <2>1, <3>1 DEF Stdout
  <2>2. ASSUME NEW ok \in BOOLEAN, Exit(c, ok) PROVE Serial!Next
    <3>1. /\ child[c] = "running" /\ activeChild = c
          /\ activeChild' = None /\ exited' = exited
          /\ \A s \in Submits : pc[s] = "replied" => collected'[s] = collected[s]
      BY <2>2 DEF Exit, Publish, Tracked, Deliver, Listening
    <3>2. CASE ~Listening(c)
      <4>1. pc' = pc /\ pc[c] = "rejected"
        BY <2>2, <3>1, <3>2 DEF Exit, Accounted, Listening
      <4>2. Serial!Release
        BY <3>1, <4>1 DEF Serial!Release
      <4> QED BY <4>2 DEF Serial!Next
    <3>3. CASE Listening(c) /\ ok
      <4>1. pc[c] = "waiting" /\ pc' = [pc EXCEPT ![c] = "replied"]
        BY <2>2, <3>3 DEF Exit, Listening, Settled
      <4>2. collected'[c] \in SUBSET ({c} \cup Strangers)
        BY DEF Owned, Strangers
      <4>3. answer' = [answer EXCEPT ![c] = collected'[c]]
        BY <3>1, <4>1
      <4>4. Serial!Succeed(c)
        BY <3>1, <4>1, <4>2, <4>3 DEF Serial!Succeed, Serial!Becomes
      <4> QED BY <4>4 DEF Serial!Next
    <3>4. CASE Listening(c) /\ ~ok
      <4>1. pc[c] = "waiting" /\ pc' = [pc EXCEPT ![c] = "rejected"]
        BY <2>2, <3>4 DEF Exit, Listening, Settled
      <4>2. Serial!Fail(c)
        BY <3>1, <4>1 DEF Serial!Fail, Serial!Becomes
      <4> QED BY <4>2 DEF Serial!Next
    <3> QED BY <3>2, <3>3, <3>4
  <2>3. CASE SpawnError(c)
    <3>1. Serial!Fail(c)
      BY <2>3 DEF SpawnError, Settled, Listening, Tracked, Serial!Fail, Serial!Becomes
    <3> QED BY <3>1 DEF Serial!Next
  <2>4. CASE Timeout(c)
    <3>1. activeChild = c
      BY <2>4 DEF Timeout, Attached, WaiterHasChild, Tracked
    <3>2. Serial!Fail(c)
      BY <2>4, <3>1 DEF Timeout, Settled, Listening, Serial!Fail, Serial!Becomes
    <3> QED BY <3>2 DEF Serial!Next
  <2> QED BY <1>5, <2>1, <2>2, <2>3, <2>4 DEF Callback
<1>6. ASSUME NEW n \in Neighbours, NEW line \in {"text", "end", "flush"}, Neighbour(n, line)
      PROVE  UNCHANGED Serial!serialVars
  BY <1>6 DEF Neighbour
<1> QED BY <1>1, <1>2, <1>3, <1>4, <1>5, <1>6 DEF Next

(* When no caller preempts, the controller is a SerialAgent, whatever the  *)
(* other agents of the driver do to the common parser: one turn at a time, *)
(* each answered without text of the agent's other turns (but for the      *)
(* strangers'), none accepted after kill().                                *)
THEOREM ExecImplementsSerialAgent ==
  ASSUME Polite
  PROVE  Spec => ImplementsSerialAgent
<1>1. Init => Accounted
  BY DEF Init, Accounted
<1>2. IInv /\ Owned /\ Owned' /\ Accounted /\ [Next]_vars => [Serial!Next]_(Serial!serialVars)
  BY SerialStep
<1> QED
  BY <1>1, <1>2, TrackedInit, TrackedStep, OwnedInit, OwnedStep, AccountedStep, SerialInit, PTL
  DEF Spec, ImplementsSerialAgent, Serial!Spec

-----------------------------------------------------------------------------
(* No loss. What a running child wrote is in the accumulated text, in the  *)
(* buffer or published; nothing here depends on the callers.               *)
Kept ==
  /\ \A c \in said : phase[c] # "silent"
  /\ Output # "gemini" => scratch = {}
  /\ Output # "text" => said \subseteq published \cup scratch
  /\ TextIsKept

(* A feed drops nothing, neither its line nor what was buffered, and a     *)
(* flush empties the buffer.                                               *)
LEMMA FeedKeeps ==
  ASSUME NEW parser \in {"codex", "gemini"}, NEW line \in Lines, NEW turns, NEW from \in turns,
         NEW st \in {"idle", "busy", "exited"}, NEW buf \in SUBSET turns,
         parser # "gemini" => buf = {}
  PROVE  LET r == Feed(parser, line, from, st, buf)
         IN  /\ buf \subseteq r.scratch \cup r.message
             /\ line = "text" => from \in r.scratch \cup r.message
             /\ line = "flush" => r.scratch = {}
             /\ parser # "gemini" => r.scratch = {}
<1>1. CASE parser = "codex"
  BY <1>1 DEF Feed, CodexFeed, Parsed, Lines
<1>2. CASE parser = "gemini"
  BY <1>2 DEF Feed, GeminiFeed, Parsed, Lines
<1> QED BY <1>1, <1>2

LEMMA KeptStep == TypeOK /\ Kept /\ [Next]_vars => Kept'
<1> SUFFICES ASSUME TypeOK, Kept, [Next]_vars PROVE Kept'
  OBVIOUS
<1> USE ExecAssumption DEF TypeOK, Kept, TextIsKept,
                       vars, controllerVars, parserVars, callVars, processVars
<1>1. CASE UNCHANGED vars
  BY <1>1
<1>2. CASE Interrupt \/ Kill
  BY <1>2 DEF Interrupt, Kill
<1>3. ASSUME NEW s \in Submits, Call(s) PROVE Kept'
  BY <1>3 DEF Call, SubmitRefused, SubmitIdle, SubmitPreempt, SubmitResume, Start
<1>4. ASSUME NEW c \in Submits, Callback(c) PROVE Kept'
  <2>1. ASSUME NEW line \in {"begin", "text", "end"}, Stdout(c, line) PROVE Kept'
    <3>1. /\ child' = child
          /\ phase'[c] # "silent"
          /\ \A x \in Submits : phase[x] # "silent" => phase'[x] # "silent"
          /\ \/ said' = said /\ late' = late /\ line # "text"
             \/ said' = said \cup {c} /\ late' = late /\ child[c] = "running" /\ line = "text"
             \/ said' = said /\ late' = late \cup {c} /\ line = "text"
      BY <2>1 DEF Stdout, Writes
    <3>2. CASE Output = "text"
      <4>1. UNCHANGED <<scratch, published>>
        BY <2>1, <3>2 DEF Stdout
      <4> QED BY <3>1, <3>2, <4>1
    <3>3. CASE Output # "text"
      <4> DEFINE r == Feed(Output, line, c, status, scratch)
      <4>1. scratch' = r.scratch /\ published' = published \cup (r.message \cap Submits)
        BY <2>1, <3>3 DEF Stdout, Publish
      <4>2. /\ Output \in {"codex", "gemini"} /\ line \in Lines
            /\ scratch \in SUBSET Turns /\ c \in Turns
        BY <3>3 DEF Turns, Lines
      <4>3. /\ scratch \subseteq r.scratch \cup r.message
            /\ line = "text" => c \in r.scratch \cup r.message
            /\ Output # "gemini" => r.scratch = {}
        BY <4>2, FeedKeeps
      <4> HIDE DEF r
      <4> QED BY <3>1, <3>3, <4>1, <4>3
    <3> QED BY <3>2, <3>3
  <2>2. ASSUME NEW ok \in BOOLEAN, Exit(c, ok) PROVE Kept'
    <3> DEFINE r == AtExit(c)
    <3>1. /\ scratch' = r.scratch /\ published' = published \cup (r.message \cap Submits)
          /\ child' = [child EXCEPT ![c] = "exited"]
          /\ UNCHANGED <<phase, said, late>>
      BY <2>2 DEF Exit, Publish
    <3>2. CASE Output = "text"
      <4>1. r.scratch = scratch /\ (c \in said => c \in r.message)
        BY <3>2 DEF AtExit, Parsed
      <4> HIDE DEF r
      <4> QED BY <3>1, <3>2, <4>1
    <3>3. CASE Output # "text"
      <4>1. /\ Output \in {"codex", "gemini"} /\ "flush" \in Lines
            /\ scratch \in SUBSET Turns /\ c \in Turns
        BY <3>3 DEF Turns, Lines
      <4>2. scratch \subseteq r.message /\ r.scratch = {}
        <5> DEFINE f == Feed(Output, "flush", c, status, scratch)
        <5>1. scratch \subseteq f.scratch \cup f.message /\ f.scratch = {}
          BY <4>1, FeedKeeps
        <5>2. r = f
          BY <3>3 DEF AtExit
        <5> HIDE DEF f, r
        <5> QED BY <5>1, <5>2
      <4> HIDE DEF r
      <4> QED BY <3>1, <3>3, <4>2
    <3> QED BY <3>2, <3>3
  <2>3. CASE SpawnError(c)
    BY <2>3 DEF SpawnError
  <2>4. CASE Timeout(c)
    BY <2>4 DEF Timeout
  <2> QED BY <1>4, <2>1, <2>2, <2>3, <2>4 DEF Callback
<1>5. ASSUME NEW n \in Neighbours, NEW line \in {"text", "end", "flush"}, Neighbour(n, line)
      PROVE  Kept'
  <2> DEFINE r == Feed(Output, line, n, "busy", scratch)
  <2>1. /\ Output \in {"codex", "gemini"} /\ line \in Lines
        /\ scratch \in SUBSET Turns /\ n \in Turns
    BY <1>5 DEF Neighbour, Turns, Lines
  <2>2. scratch \subseteq r.scratch \cup r.message /\ (Output # "gemini" => r.scratch = {})
    BY <2>1, FeedKeeps
  <2>3. /\ UNCHANGED <<child, phase, said, late>>
        /\ scratch' = r.scratch /\ published' = published \cup (r.message \cap Submits)
    BY <1>5 DEF Neighbour
  <2> HIDE DEF r
  <2> QED BY <2>1, <2>2, <2>3
<1> QED BY <1>1, <1>2, <1>3, <1>4, <1>5 DEF Next

(* Whatever the callers do, however late output comes and whoever shares   *)
(* the parser: no text is dropped. What a child wrote before its 'exit' is *)
(* published when it is gone, by its agent or by another of the driver;    *)
(* what came later is published or buffered.                               *)
THEOREM ExecTextIsKept == Spec => []TextIsKept
<1>1. Init => Kept
  BY DEF Init, Kept, TextIsKept
<1>2. Kept => TextIsKept
  BY DEF Kept
<1> QED BY <1>1, <1>2, TypeInit, TypeStep, KeptStep, PTL DEF Spec
=============================================================================
