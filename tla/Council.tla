------------------------------ MODULE Council ------------------------------
(***************************************************************************)
(* One call of council.review (src/plugins/builtin/council/index.ts) on    *)
(* top of the agent manager: the panel is split by what its drivers can    *)
(* read for themselves, the source is cut into chunks for the others, a    *)
(* task per reviewer and chunk spawns an agent, asks it, kills it and      *)
(* frees its id, and when the last task is done the chair does the same.   *)
(*                                                                         *)
(* A task and the spawn call it makes share one name, <<reviewer, chunk>>: *)
(* chunk 0 is the whole file, <<0, 0>> the chair. Clients may kill the     *)
(* council's agents meanwhile.                                             *)
(***************************************************************************)
EXTENDS Chunker, FiniteSets

CONSTANTS
  Reviews,        \* the calls considered; review is the one made
  MaxChunkBytes,
  MaxTotalBytes,
  MaxReviewers,   \* bound: the size of a panel
  MaxChunks,      \* bound: the chunks of a source
  None

Runtimes == {"exec", "server-http", "server-ws"}
Chair    == <<0, 0>>
Tasks    == {Chair} \cup ((1..MaxReviewers) \X (0..MaxChunks))

ASSUME CouncilAssumption ==
  /\ None \notin Tasks
  /\ MaxChunkBytes \in Nat /\ MaxReviewers \in Nat /\ MaxChunks \in Nat \ {0}
  /\ \A r \in Reviews :
       LET parts == ChunkByLines(r.source, MaxChunkBytes)
       IN /\ DOMAIN r.panel \subseteq 1..MaxReviewers
          /\ r.runtimes \subseteq Runtimes \cup {"pty"}
          /\ r.source \in Seq(Lines(Nat)) \ {<<>>}
          /\ \/ Size(r.source) > MaxTotalBytes
             \/ Len(parts) \in 1..MaxChunks /\ DOMAIN parts = 1..Len(parts)

VARIABLES
  review,    \* the parameters, the source and the drivers' probes
  chunks,    \* what the source was cut into
  stage,     \* how far the handler has come
  phase,     \* how far each task has come
  agentOf,   \* the agent agents.get gave the task, None before
  result,    \* the task's result: findings or an error
  agents, runtimes, pc, id, mode, runtime, processes   \* the agent manager

councilVars == <<review, chunks, stage, phase, agentOf, result>>
managerVars == <<agents, runtimes, pc, id, mode, runtime, processes>>
vars        == <<councilVars, managerVars>>

Manager == INSTANCE AgentManager
             WITH Spawns <- Tasks, Ids <- Tasks, Modes <- Runtimes

-----------------------------------------------------------------------------
(* Modes: the driver's in its order, what its probe found, what the        *)
(* council asks for and what the registry then picks                       *)

DriverModes(driver) ==
  CASE driver = "claude" -> <<"pty", "exec">>
    [] driver = "ollama" -> <<"server-http">>
    [] driver \in {"codex", "gemini"} -> <<"exec">>
    [] OTHER -> <<>>

SupportedModes(driver) ==
  IF driver = "claude" /\ ~review.claudePrints THEN {"pty"}
  ELSE {DriverModes(driver)[k] : k \in DOMAIN DriverModes(driver)}

DefaultModeFor(driver) == IF driver = "ollama" THEN "server-http" ELSE "exec"

RequestedMode(spec) ==
  IF spec.mode # None THEN spec.mode ELSE DefaultModeFor(spec.driver)

ResolveCouncilMode(spec) ==
  IF spec.mode = None /\ spec.driver = "claude" /\ spec.ptyOnly
  THEN "pty" ELSE RequestedMode(spec)

(* The preferred mode if it is viable, else the driver's first viable one. *)
ChooseMode(driver, preferred) ==
  LET viable == SelectSeq(DriverModes(driver),
                  LAMBDA m : m \in SupportedModes(driver) \cap runtimes)
  IN IF preferred \in {viable[k] : k \in DOMAIN viable} THEN preferred
     ELSE IF viable = <<>> THEN None ELSE Head(viable)

SupportsTools(driver, m) ==
  \/ m = "pty" /\ driver = "claude"
  \/ m = "exec" /\ driver \in {"codex", "gemini", "claude"}

-----------------------------------------------------------------------------
(* The plan of a review: who reads what                                    *)

ToolCapable ==
  {i \in DOMAIN review.panel :
     /\ ~review.forceInline /\ review.mode = "file"
     /\ SupportsTools(review.panel[i].driver, RequestedMode(review.panel[i]))}

Inline == DOMAIN review.panel \ ToolCapable

(* Only a reviewer without tools makes the council cut the source.         *)
Cut ==
  IF Inline # {} THEN ChunkByLines(review.source, MaxChunkBytes)
  ELSE <<Chunk(Numbers(review.source), 1)>>

\* Faulty variant: the first chunk's tasks only.
TasksForFirst(parts) ==
  (ToolCapable \X {0}) \cup (Inline \X {1})

(* N chunks times M reviewers that cannot read the file themselves.        *)
TasksFor(parts) ==
  (ToolCapable \X {0}) \cup (Inline \X DOMAIN parts)

ReviewTasks == TasksFor(chunks)

\* Faulty variant: the chunk is not part of the name.
NamePerReviewer(t) == <<t[1], 0>>

(* The id a task asks for: council-<review>[-c<chunk>]-reviewer-<i>-...    *)
Name(t) == IF Len(chunks) > 1 THEN t ELSE <<t[1], 0>>

SpecOf(t) == IF t = Chair THEN review.chair ELSE review.panel[t[1]]
Mode(t)  == ChooseMode(SpecOf(t).driver, ResolveCouncilMode(SpecOf(t)))

-----------------------------------------------------------------------------
Phases == {"idle", "spawning", "warming", "submitting", "killing", "done"}

TypeOK ==
  /\ review \in Reviews
  /\ chunks \in {<<>>, Cut}
  /\ stage \in {"called", "reviewing", "chairing", "returned", "refused"}
  /\ phase \in [Tasks -> Phases]
  /\ agentOf \in [Tasks -> Tasks \cup {None}]
  /\ result \in [Tasks -> {"none", "findings", "error"}]
  /\ Manager!ManagerTypeOK

Init ==
  /\ review \in Reviews
  /\ chunks = <<>>
  /\ stage = "called"
  /\ phase = [t \in Tasks |-> "idle"]
  /\ agentOf = [t \in Tasks |-> None]
  /\ result = [t \in Tasks |-> "none"]
  /\ Manager!NoAgents /\ runtimes = review.runtimes

-----------------------------------------------------------------------------
(* The manager's side: the probe, the id, the factory                      *)

Known(t) == DriverModes(SpecOf(t).driver) # <<>>

\* The synchronous part of ctx.agents.spawn, for all tasks of S.
CallSpawn(S) ==
  /\ phase' = [t \in Tasks |-> IF t \in S THEN "spawning" ELSE phase[t]]
  /\ pc' = [t \in Tasks |-> IF t \notin S THEN pc[t]
                            ELSE IF Known(t) THEN "probing" ELSE "failed"]
  /\ UNCHANGED <<agents, runtimes, id, mode, runtime, processes>>

ManagerStep(t) ==
  /\ phase[t] # "idle"
  /\ \/ Manager!SpawnUnavailable(t)
     \/ agents[Name(t)] # None /\ Manager!SpawnInUse(t)
     \/ Manager!SpawnBuild(t, Name(t), Mode(t))
     \/ Manager!SpawnRegister(t)
     \/ Manager!SpawnAborted(t)
     \/ Manager!ProcessEnds(t)
  /\ UNCHANGED councilVars

ClientKill(i) == Manager!Kill(i) /\ UNCHANGED councilVars

-----------------------------------------------------------------------------
(* The handler                                                             *)

Large(bytes) == Size(review.source) > bytes

(* resolveTargetPath: no such file, none that can be read, too large, or   *)
(* larger than a chunk when it must not be cut.                            *)
FileRefused ==
  \/ ~review.readable
  \/ Large(MaxTotalBytes)
  \/ review.noChunk /\ Large(MaxChunkBytes)

(* fetchDiff: a bad ref, a git error, no changes, too large.               *)
DiffRefused ==
  \/ ~review.readable
  \/ \A l \in DOMAIN review.source : review.source[l].blank
  \/ Large(MaxTotalBytes)

Unacceptable ==
  IF review.mode = "file" THEN FileRefused
  ELSE DiffRefused \/ (review.noChunk /\ Large(MaxChunkBytes))

(* Nothing is spawned for a target that is refused.                        *)
Refuse ==
  /\ stage = "called" /\ Unacceptable
  /\ stage' = "refused"
  /\ UNCHANGED <<review, chunks, phase, agentOf, result, managerVars>>

(* Every task is called before the first of them resumes.                  *)
Convene ==
  /\ stage = "called" /\ ~Unacceptable
  /\ stage' = "reviewing"
  /\ chunks' = Cut
  /\ CallSpawn(TasksFor(Cut))
  /\ UNCHANGED <<review, agentOf, result>>

Succeeded == {t \in ReviewTasks : result[t] = "findings"}

\* Faulty variant: the results are awaited and the reviewers' clean-up is not.
ReviewersDoneEarly ==
  /\ stage = "reviewing"
  /\ \A t \in ReviewTasks : result[t] # "none"
  /\ IF Succeeded = {} \/ review.noChair
     THEN stage' = "returned" /\ UNCHANGED <<phase, managerVars>>
     ELSE stage' = "chairing" /\ CallSpawn({Chair})
  /\ UNCHANGED <<review, chunks, agentOf, result>>

(* Promise.all over the tasks: their clean-up is part of them.             *)
ReviewersDone ==
  /\ stage = "reviewing"
  /\ \A t \in ReviewTasks : phase[t] = "done"
  /\ IF Succeeded = {} \/ review.noChair
     THEN stage' = "returned" /\ UNCHANGED <<phase, managerVars>>
     ELSE stage' = "chairing" /\ CallSpawn({Chair})
  /\ UNCHANGED <<review, chunks, agentOf, result>>

ChairDone ==
  /\ stage = "chairing" /\ phase[Chair] = "done"
  /\ stage' = "returned"
  /\ UNCHANGED <<review, chunks, phase, agentOf, result, managerVars>>

-----------------------------------------------------------------------------
(* runOneReviewer and runChair                                             *)

SpawnFailed(t) ==
  /\ phase[t] = "spawning" /\ pc[t] = "failed"
  /\ phase' = [phase EXCEPT ![t] = "done"]
  /\ result' = [result EXCEPT ![t] = "error"]
  /\ UNCHANGED <<review, chunks, stage, agentOf, managerVars>>

(* agent.submit as far as its first await: refused by an exited agent; an  *)
(* exec agent has started its child.                                       *)
Submit(t, agent) ==
  \/ /\ runtime[agent] = "exited"
     /\ phase' = [phase EXCEPT ![t] = "killing"]
     /\ result' = [result EXCEPT ![t] = "error"]
     /\ UNCHANGED managerVars
  \/ /\ runtime[agent] # "exited"
     /\ phase' = [phase EXCEPT ![t] = "submitting"]
     /\ UNCHANGED result
     /\ IF mode[agent] = "exec" THEN Manager!ChildStarts(agent) ELSE UNCHANGED managerVars

(* Look the agent up by the id it got; one on a terminal warms up first.   *)
Spawned(t) ==
  /\ phase[t] = "spawning" /\ pc[t] = "done"
  /\ agentOf' = [agentOf EXCEPT ![t] = agents[id[t]]]
  /\ IF agents[id[t]] = None
     THEN /\ phase' = [phase EXCEPT ![t] = "done"]
          /\ result' = [result EXCEPT ![t] = "error"]
          /\ UNCHANGED managerVars
     ELSE IF Mode(t) = "pty"
     THEN phase' = [phase EXCEPT ![t] = "warming"] /\ UNCHANGED <<result, managerVars>>
     ELSE Submit(t, agents[id[t]])
  /\ UNCHANGED <<review, chunks, stage>>

WarmedUp(t) ==
  /\ phase[t] = "warming"
  /\ Submit(t, agentOf[t])
  /\ UNCHANGED <<review, chunks, stage, agentOf>>

\* Faulty variant: only an agent that was asked in vain is killed.
FinallyUnsignalled(t) ==
  /\ phase' = [phase EXCEPT ![t] = "killing"]
  /\ Manager!KillRuntimes(IF result'[t] = "error" THEN {agentOf[t]} ELSE {})
  /\ UNCHANGED <<review, chunks, stage, agentOf, agents, runtimes, pc, id, mode>>

\* "finally": call kill, which finds the agent exited or tells its program.
Finally(t) ==
  /\ phase' = [phase EXCEPT ![t] = "killing"]
  /\ Manager!KillRuntimes({agentOf[t]})
  /\ UNCHANGED <<review, chunks, stage, agentOf, agents, runtimes, pc, id, mode>>

(* An answer holds, fenced, on a line of its own or somewhere, a JSON array*)
(* or what looks like one. The first place that parses gives the findings. *)
Texts == [{"fence", "line", "anywhere"} -> {"array", "broken", "none"}]

(* "Parse failure is a REVIEW FAILURE, not a clean review."                *)
ExtractFindings(text) ==
  IF "array" \in {text[p] : p \in DOMAIN text} THEN "findings" ELSE "error"

(* The agent answers, an exec agent at the end of its child, which a kill  *)
(* may have caused; whatever the chair says is the synthesis.              *)
Answered(t) ==
  /\ phase[t] = "submitting"
  /\ IF mode[agentOf[t]] = "exec" THEN processes[agentOf[t]] = {}
     ELSE runtime[agentOf[t]] # "exited"
  /\ \E text \in Texts :
       result' = [result EXCEPT ![t] = IF t = Chair THEN "findings"
                                       ELSE ExtractFindings(text)]
  /\ Finally(t)

(* It exits, or the submit fails or times out.                             *)
SubmitFailed(t) ==
  /\ phase[t] = "submitting"
  /\ result' = [result EXCEPT ![t] = "error"]
  /\ Finally(t)

\* Faulty variant: the end of the agent is not awaited, and remove throws.
KilledNoWait(t) ==
  /\ phase[t] = "killing"
  /\ phase' = [phase EXCEPT ![t] = "done"]
  /\ IF runtime[agentOf[t]] = "exited" THEN Manager!Remove(id[t])
     ELSE UNCHANGED managerVars
  /\ UNCHANGED <<review, chunks, stage, agentOf, result>>
(* kill has returned: free the id.                                         *)
Killed(t) ==
  /\ phase[t] = "killing" /\ runtime[agentOf[t]] = "exited"
  /\ phase' = [phase EXCEPT ![t] = "done"]
  /\ IF agents[id[t]] = None THEN UNCHANGED managerVars ELSE Manager!Remove(id[t])
  /\ UNCHANGED <<review, chunks, stage, agentOf, result>>

TaskStep(t) ==
  \/ SpawnFailed(t) \/ Spawned(t) \/ WarmedUp(t)
  \/ Answered(t) \/ SubmitFailed(t) \/ Killed(t)

Next ==
  \/ Refuse \/ Convene \/ ReviewersDone \/ ChairDone
  \/ \E t \in Tasks : TaskStep(t) \/ ManagerStep(t) \/ ClientKill(t)

Spec == Init /\ [][Next]_vars

(* Promises settle: a spawn's probe and factory, a submit by its timer; a  *)
(* signalled process goes away. Nobody has to answer or to kill.           *)
Fairness ==
  /\ WF_vars(Refuse \/ Convene \/ ReviewersDone \/ ChairDone)
  /\ \A t \in Tasks :
       /\ WF_vars(TaskStep(t))
       /\ WF_vars(pc[t] \in {"probing", "building"} /\ ManagerStep(t))
       /\ WF_vars(runtime[t] = "dying" /\ ManagerStep(t))

FairSpec == Spec /\ Fairness

-----------------------------------------------------------------------------
(* Properties                                                              *)

(* "other chunks are being reviewed separately": every reviewer that is    *)
(* sent chunks is sent, with all its tasks together, the whole source,     *)
(* under the line numbers it really has.                                   *)
AllOfTheSourceIsSeen ==
  stage # "called" /\ stage # "refused" =>
    \A i \in DOMAIN review.panel :
      LET mine == {t \in Tasks : t[1] = i /\ phase[t] # "idle"}
      IN mine = {<<i, 0>>}
         \/ /\ Partition(review.source, chunks)
            /\ Overshoot(review.source, chunks, MaxChunkBytes)
            /\ mine = {i} \X DOMAIN chunks

(* "concurrent ... calls don't spawn agents with colliding names": a task  *)
(* asks, and kills, only the agent it spawned itself.                      *)
AgentIsOwn == \A t \in Tasks : agentOf[t] \in {t, None}

(* An agent of the council's that kill has returned for, or that never came*)
(* to life: its flag is set, its program on a terminal has ended, its exec *)
(* child has ended or has been told to.                                    *)
Released(t) ==
  /\ runtime[t] \in {"none", "exited"}
  /\ "running" \notin processes[t]
  /\ mode[t] = "pty" => processes[t] = {}

(* When the call returns every one of its agents is released and none of   *)
(* its ids is taken: a reviewer or chair cleans up however it ended.       *)
NothingLeftBehind ==
  stage = "returned" => \A t \in Tasks : agents[t] = None /\ Released(t)

(* The chair sums up the finished reviews: it is not even spawned before   *)
(* the last reviewer is released, nor when nobody has succeeded.           *)
ChairComesLast ==
  pc[Chair] # "new" =>
    /\ Succeeded # {} /\ ~review.noChair
    /\ \A t \in ReviewTasks : result[t] # "none" /\ Released(t)

(* A call of council.review is answered.                                   *)
ReviewEnds == stage = "called" ~> stage \in {"returned", "refused"}
=============================================================================
