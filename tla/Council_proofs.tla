---------------------------- MODULE Council_proofs ----------------------------
(***************************************************************************)
(* Proofs about a council's review, for any panel, any number of chunks,   *)
(* any answers and any clients that kill its agents meanwhile.             *)
(*                                                                         *)
(* The argument: no two tasks of a review ask for the same id (Distinct),  *)
(* so the registry's entry under a task's id is the task's own agent from  *)
(* its registration until the task frees the id (Tasked). A task is done   *)
(* only when kill has returned for its agent, and the stages of the review *)
(* follow the tasks (Staged).                                              *)
(*                                                                         *)
(* What chunkByLines returns is proved for every source and every limit,   *)
(* by induction on the lines its loop has read (Scanned); the induction    *)
(* itself is the least-number principle of the natural numbers.            *)
(***************************************************************************)
EXTENDS Council, SequenceTheorems, WellFoundedInduction, TLAPS

(* The tasks a review may have.                                            *)
Panel == ReviewTasks \cup {Chair}

(* Where a task is in its own code, in the manager's and in its agent's    *)
(* life.                                                                   *)
Tasked(t) ==
  /\ phase[t] = "idle" <=> pc[t] = "new"
  /\ phase[t] # "idle" => t \in Panel
  /\ pc[t] \in {"building", "done"} => id[t] = Name(t)
  /\ phase[t] \in {"warming", "submitting", "killing"}
       => pc[t] = "done" /\ agentOf[t] = t
  /\ phase[t] \in {"killing", "done"} => result[t] # "none"
  /\ phase[t] = "done" => pc[t] \in {"failed", "done"}
  /\ agentOf[t] \in {t, None}
  /\ pc[t] \in {"new", "probing", "failed"} => runtime[t] \in {"none", "exited"}
  /\ "running" \in processes[t] => runtime[t] \in {"starting", "live"}
  /\ runtime[t] \in {"none", "exited"} /\ mode[t] = "pty" => processes[t] = {}
  /\ pc[t] = "building" => runtime[t] \in {"starting", "exited"}
  /\ pc[t] = "done" => runtime[t] \in {"live", "dying", "exited"}
  /\ pc[t] = "done" /\ phase[t] # "done" => agents[Name(t)] = t
  /\ phase[t] = "done" => runtime[t] \in {"none", "exited"}

(* The registry has what was registered, until its task is done.           *)
Entries ==
  \A i \in Tasks : agents[i] # None =>
    pc[agents[i]] = "done" /\ id[agents[i]] = i /\ phase[agents[i]] # "done"

Staged ==
  /\ stage \in {"called", "refused"} => \A t \in Tasks : phase[t] = "idle"
  /\ stage = "reviewing" => phase[Chair] = "idle"
  /\ stage \in {"chairing", "returned"} => \A t \in ReviewTasks : phase[t] = "done"
  /\ stage = "returned" => phase[Chair] \in {"idle", "done"}
  /\ phase[Chair] # "idle" => Succeeded # {} /\ ~review.noChair

(* A source is cut into a sequence that fits the names of the tasks.       *)
WellCut(parts) == Len(parts) \in 0..MaxChunks /\ DOMAIN parts = 1..Len(parts)

IInv ==
  /\ TypeOK /\ WellCut(chunks)
  /\ \A t \in Tasks : Tasked(t)
  /\ Entries /\ Staged

-----------------------------------------------------------------------------
(* The plan of a review                                                    *)

LEMMA PlanIsFixed ==
  ASSUME review' = review
  PROVE  /\ Cut' = Cut
         /\ TasksFor(Cut)' = TasksFor(Cut)
         /\ chunks' = chunks =>
              /\ ReviewTasks' = ReviewTasks
              /\ \A t \in Tasks : Name(t)' = Name(t)
<1>1. ToolCapable' = ToolCapable /\ Inline' = Inline
  BY DEF ToolCapable, Inline, RequestedMode
<1>2. Cut' = Cut
  BY <1>1 DEF Cut
<1> QED BY <1>1, <1>2 DEF TasksFor, ReviewTasks, Name

LEMMA CutIsWell ==
  ASSUME review \in Reviews, ~Unacceptable
  PROVE  WellCut(Cut)
<1>1. ~(Size(review.source) > MaxTotalBytes)
  BY DEF Unacceptable, FileRefused, DiffRefused, Large
<1>2. WellCut(ChunkByLines(review.source, MaxChunkBytes))
  BY <1>1, CouncilAssumption DEF WellCut
<1>3. ASSUME NEW chunk PROVE WellCut(<<chunk>>)
  BY CouncilAssumption DEF WellCut
<1> QED BY <1>2, <1>3 DEF Cut

LEMMA PlanIsNamed ==
  ASSUME review \in Reviews, NEW parts, WellCut(parts)
  PROVE  TasksFor(parts) \subseteq Tasks \ {Chair}
<1>1. /\ ToolCapable \subseteq 1..MaxReviewers /\ Inline \subseteq 1..MaxReviewers
      /\ DOMAIN parts \subseteq 0..MaxChunks
  BY CouncilAssumption DEF ToolCapable, Inline, WellCut
<1>2. Chair \notin (1..MaxReviewers) \X (0..MaxChunks)
  BY DEF Chair
<1>3. 0 \in 0..MaxChunks
  BY CouncilAssumption
<1>4. TasksFor(parts) \subseteq (1..MaxReviewers) \X (0..MaxChunks)
  BY <1>1, <1>3 DEF TasksFor
<1> QED BY <1>2, <1>4 DEF Tasks

LEMMA NameIsId ==
  ASSUME NEW t \in Tasks
  PROVE  Name(t) \in Tasks
BY CouncilAssumption DEF Name, Tasks, Chair

(* Distinct: two tasks of a review ask for different ids.                  *)
LEMMA Distinct ==
  ASSUME review \in Reviews, WellCut(chunks),
         NEW s \in Panel, NEW t \in Panel, Name(s) = Name(t)
  PROVE  s = t
<1>1. CASE Len(chunks) > 1
  BY <1>1 DEF Name
<1>2. CASE ~(Len(chunks) > 1)
  <2>1. DOMAIN chunks \subseteq {1}
    BY <1>2, CouncilAssumption DEF WellCut
  <2>2. s[1] = t[1]
    BY <1>2 DEF Name
  <2>3. ASSUME NEW u \in ReviewTasks
        PROVE  \/ u = <<u[1], 0>> /\ u[1] \in ToolCapable
               \/ u = <<u[1], 1>> /\ u[1] \in Inline
    BY <2>1 DEF ReviewTasks, TasksFor
  <2>4. ToolCapable \cap Inline = {} /\ 0 \notin ToolCapable /\ 0 \notin Inline
    BY CouncilAssumption DEF ToolCapable, Inline
  <2>5. Chair = <<0, 0>> /\ Chair[1] = 0
    BY DEF Chair
  <2> QED BY <2>2, <2>3, <2>4, <2>5 DEF Panel
<1> QED BY <1>1, <1>2

-----------------------------------------------------------------------------
(* What a step of one task leaves alone                                    *)

(* Only t, its agent and its id's entry are concerned.                     *)
Alone(t) ==
  /\ UNCHANGED <<review, chunks>>
  /\ \A u \in Tasks \ {t} :
       /\ phase'[u] = phase[u] /\ agentOf'[u] = agentOf[u] /\ result'[u] = result[u]
       /\ pc'[u] = pc[u] /\ id'[u] = id[u] /\ runtime'[u] = runtime[u]
       /\ mode'[u] = mode[u] /\ processes'[u] = processes[u]
  /\ \A i \in Tasks : i # Name(t) => agents'[i] = agents[i]

LEMMA OthersKept ==
  ASSUME IInv, NEW t \in Tasks, phase[t] # "idle", Alone(t),
         NEW u \in Tasks, u # t
  PROVE  Tasked(u)'
<1>1. ReviewTasks' = ReviewTasks /\ Name(u)' = Name(u) /\ Panel' = Panel
  BY PlanIsFixed DEF Alone, Panel
<1>2. Tasked(u) /\ Tasked(t)
  BY DEF IInv
<1>3. /\ phase'[u] = phase[u] /\ agentOf'[u] = agentOf[u] /\ result'[u] = result[u]
      /\ pc'[u] = pc[u] /\ id'[u] = id[u] /\ runtime'[u] = runtime[u]
      /\ mode'[u] = mode[u] /\ processes'[u] = processes[u]
  BY DEF Alone
<1>4. phase[u] # "idle" => agents'[Name(u)] = agents[Name(u)]
  <2> SUFFICES ASSUME phase[u] # "idle" PROVE Name(u) # Name(t)
    BY NameIsId DEF Alone
  <2> QED BY <1>2, Distinct DEF IInv, TypeOK, Tasked
<1> QED BY <1>1, <1>2, <1>3, <1>4 DEF Tasked

(* A task takes part in the review only while the review is on.            *)
LEMMA StageKept ==
  ASSUME IInv, NEW t \in Tasks, phase[t] \notin {"idle", "done"}, phase'[t] # "idle",
         Alone(t), stage' = stage
  PROVE  Staged'
<1>1. ReviewTasks' = ReviewTasks /\ review' = review
  BY PlanIsFixed DEF Alone
<1>2. t \in Panel /\ Chair \notin ReviewTasks /\ ReviewTasks \subseteq Tasks /\ Chair \in Tasks
  BY PlanIsNamed DEF IInv, TypeOK, Tasked, ReviewTasks, Tasks
<1>3. \A u \in Tasks \ {t} : phase'[u] = phase[u] /\ result'[u] = result[u]
  BY DEF Alone
<1>4. CASE stage = "reviewing"
  <2>1. phase[Chair] = "idle" /\ t # Chair
    BY <1>4 DEF IInv, Staged
  <2> QED BY <1>2, <1>3, <1>4, <2>1 DEF Staged
<1>5. CASE stage = "chairing"
  <2>1. t = Chair
    BY <1>2, <1>5 DEF IInv, Staged, Panel
  <2>2. \A u \in ReviewTasks : phase'[u] = phase[u] /\ result'[u] = result[u]
    BY <1>2, <1>3, <2>1
  <2>3. Succeeded' = Succeeded
    BY <1>1, <2>2 DEF Succeeded
  <2>4. Succeeded # {} /\ ~review.noChair
    BY <2>1 DEF IInv, Staged
  <2> QED BY <1>1, <1>5, <2>2, <2>3, <2>4 DEF IInv, Staged
<1>6. stage \in {"reviewing", "chairing"}
  BY <1>2 DEF IInv, TypeOK, Staged, Panel
<1> QED BY <1>4, <1>5, <1>6

(* Steps of the manager change nothing of the council's.                   *)
LEMMA CouncilKept ==
  ASSUME IInv, UNCHANGED councilVars, Manager!ManagerTypeOK'
  PROVE  /\ TypeOK' /\ WellCut(chunks)' /\ Staged'
         /\ \A u \in Tasks : Name(u)' = Name(u)
         /\ Panel' = Panel
<1>1. /\ Cut' = Cut /\ ReviewTasks' = ReviewTasks
      /\ \A u \in Tasks : Name(u)' = Name(u)
  BY PlanIsFixed DEF councilVars
<1>2. TypeOK'
  BY <1>1 DEF IInv, TypeOK, councilVars
<1>3. Staged'
  BY <1>1 DEF IInv, Staged, Succeeded, councilVars
<1>4. Panel' = Panel
  BY <1>1 DEF Panel
<1> QED BY <1>1, <1>2, <1>3, <1>4 DEF IInv, WellCut, councilVars

-----------------------------------------------------------------------------
(* The manager's steps and the clients' kills                              *)

LEMMA ToldTyped ==
  ASSUME NEW p \in SUBSET Manager!Kinds
  PROVE  /\ Manager!Told(p) \in SUBSET Manager!Kinds /\ "running" \notin Manager!Told(p)
         /\ Manager!Lost(p) \in SUBSET Manager!Kinds /\ "running" \notin Manager!Lost(p)
         /\ p = {} => Manager!Told(p) = {} /\ Manager!Lost(p) = {}
BY DEF Manager!Told, Manager!Lost, Manager!Kinds

LEMMA StartedTyped == \A m : Manager!Started(m) \subseteq SUBSET Manager!Kinds
BY DEF Manager!Started, Manager!Kinds

(* The end of one agent's program.                                         *)
LEMMA EndsEffect ==
  ASSUME Manager!ManagerTypeOK, NEW t \in Tasks, Manager!ProcessEnds(t)
  PROVE  /\ Manager!ManagerTypeOK' /\ UNCHANGED <<agents, runtimes, pc, id, mode>>
         /\ \A u \in Tasks \ {t} : runtime'[u] = runtime[u] /\ processes'[u] = processes[u]
         /\ "running" \notin processes'[t]
         /\ mode[t] = "pty" => processes'[t] = {}
         /\ \/ runtime'[t] = runtime[t]
            \/ runtime[t] \in {"starting", "live", "dying"} /\ runtime'[t] = "exited"
<1> USE DEF Manager!ManagerTypeOK, Manager!callVars
<1>1. PICK k \in processes[t] :
        IF mode[t] \in Manager!Lasting THEN processes' = [processes EXCEPT ![t] = {}]
        ELSE \E rest \in {processes[t], processes[t] \ {k}} :
               processes' = [processes EXCEPT ![t] = Manager!Lost(rest)]
  BY DEF Manager!ProcessEnds
<1>2. PICK p \in SUBSET Manager!Kinds :
        /\ processes' = [processes EXCEPT ![t] = p]
        /\ "running" \notin p /\ (mode[t] = "pty" => p = {})
  <2>1. CASE mode[t] \in Manager!Lasting
    BY <1>1, <2>1
  <2>2. CASE mode[t] \notin Manager!Lasting
    <3>1. PICK rest \in {processes[t], processes[t] \ {k}} :
            processes' = [processes EXCEPT ![t] = Manager!Lost(rest)]
      BY <1>1, <2>2
    <3>2. Manager!Lost(rest) \in SUBSET Manager!Kinds /\ "running" \notin Manager!Lost(rest)
      BY <3>1, ToldTyped
    <3>3. mode[t] # "pty"
      BY <2>2 DEF Manager!Lasting
    <3> QED BY <3>1, <3>2, <3>3
  <2> QED BY <2>1, <2>2
<1>3. processes' \in [Tasks -> SUBSET Manager!Kinds]
  BY <1>2
<1>4. /\ UNCHANGED <<agents, runtimes, pc, id, mode>>
      /\ runtime' = [runtime EXCEPT ![t] =
                       IF mode[t] \in Manager!Lasting /\ Manager!NotExited(t) THEN "exited" ELSE @]
  BY DEF Manager!ProcessEnds
<1> QED BY <1>2, <1>3, <1>4 DEF Manager!NotExited

(* A call of kill on one agent.                                            *)
LEMMA KillEffect ==
  ASSUME Manager!ManagerTypeOK, NEW t \in Tasks, Tasked(t), Manager!KillRuntimes({t}),
         UNCHANGED <<agents, runtimes, pc, id, mode>>
  PROVE  /\ Manager!ManagerTypeOK'
         /\ \A u \in Tasks \ {t} : runtime'[u] = runtime[u] /\ processes'[u] = processes[u]
         /\ "running" \notin processes'[t]
         /\ runtime'[t] = "exited" /\ mode[t] = "pty" => processes'[t] = {}
         /\ \/ runtime'[t] = runtime[t]
            \/ runtime[t] = "live" /\ runtime'[t] \in {"dying", "exited"}
<1> USE DEF Manager!ManagerTypeOK
<1>0. \A u \in Tasks : processes[u] \in SUBSET Manager!Kinds
  OBVIOUS
<1>1. \A u \in Tasks : /\ Manager!Told(processes[u]) \in SUBSET Manager!Kinds
                       /\ "running" \notin Manager!Told(processes[u])
                       /\ processes[u] = {} => Manager!Told(processes[u]) = {}
  BY <1>0, ToldTyped
<1>2. runtime' \in [Tasks -> {"none", "starting", "live", "dying", "exited"}]
  BY DEF Manager!KillRuntimes
<1>3. processes' \in [Tasks -> SUBSET Manager!Kinds]
  BY <1>1 DEF Manager!KillRuntimes
<1>4. \A u \in Tasks \ {t} : runtime'[u] = runtime[u] /\ processes'[u] = processes[u]
  BY DEF Manager!KillRuntimes
<1>5. processes'[t] = IF runtime[t] # "exited" THEN Manager!Told(processes[t]) ELSE processes[t]
  BY DEF Manager!KillRuntimes
<1>6. /\ runtime[t] # "live" => runtime'[t] = runtime[t]
      /\ runtime[t] = "live" => runtime'[t] \in {"dying", "exited"}
      /\ runtime[t] = "live" /\ mode[t] = "pty" => runtime'[t] = "dying"
  BY DEF Manager!KillRuntimes, Manager!Lasting
<1>7. "running" \notin processes'[t]
  BY <1>1, <1>5 DEF Tasked
<1>8. runtime'[t] = "exited" /\ mode[t] = "pty" => processes'[t] = {}
  BY <1>5, <1>6 DEF Tasked
<1> QED BY <1>2, <1>3, <1>4, <1>6, <1>7, <1>8

(* The synchronous part of a submit.                                       *)
LEMMA SubmitEffect ==
  ASSUME TypeOK, NEW t \in Tasks, Tasked(t), runtime[t] \in {"live", "dying", "exited"},
         Submit(t, t)
  PROVE  /\ Manager!ManagerTypeOK' /\ UNCHANGED <<agents, runtimes, pc, id, mode, runtime>>
         /\ \A u \in Tasks \ {t} : processes'[u] = processes[u]
         /\ processes'[t] = processes[t] \/ (runtime[t] = "live" /\ mode[t] # "pty")
         /\ \/ phase' = [phase EXCEPT ![t] = "killing"] /\ result' = [result EXCEPT ![t] = "error"]
            \/ phase' = [phase EXCEPT ![t] = "submitting"] /\ result' = result
<1> USE DEF TypeOK, Manager!ManagerTypeOK, Manager!callVars
<1>1. CASE UNCHANGED managerVars
  BY <1>1 DEF Submit, managerVars
<1>2. CASE Manager!ChildStarts(t) /\ runtime[t] # "exited"
  <2>1. /\ processes' = [processes EXCEPT ![t] = Manager!Told(@) \cup {"running"}]
        /\ UNCHANGED <<agents, runtimes, pc, id, mode, runtime>>
        /\ mode[t] = "exec" /\ runtime[t] = "live"
    BY <1>2 DEF Manager!ChildStarts
  <2>2. Manager!Told(processes[t]) \cup {"running"} \in SUBSET Manager!Kinds
    BY ToldTyped DEF Manager!Kinds
  <2>3. Manager!ManagerTypeOK'
    BY <2>1, <2>2
  <2>4. phase' = [phase EXCEPT ![t] = "submitting"] /\ result' = result
    BY <1>2 DEF Submit
  <2> QED BY <2>1, <2>3, <2>4
<1> QED BY <1>1, <1>2 DEF Submit

LEMMA ManagerStepKeeps ==
  ASSUME IInv, NEW t \in Tasks, ManagerStep(t)
  PROVE  IInv'
<1>1. /\ phase[t] # "idle" /\ UNCHANGED councilVars
      /\ Manager!ManagerTypeOK /\ Tasked(t) /\ Entries
      /\ None \notin Tasks
  BY CouncilAssumption DEF ManagerStep, IInv, TypeOK
<1>2. CASE Manager!SpawnUnavailable(t)
  <2>1. Manager!ManagerTypeOK'
    BY <1>2, <1>1, NameIsId
       DEF Manager!SpawnUnavailable, Manager!agentVars, Manager!ManagerTypeOK, Manager!Fails
  <2>2. Alone(t)
    BY <1>2, <1>1
       DEF Manager!SpawnUnavailable, Manager!agentVars, Manager!ManagerTypeOK,
           Manager!Fails, Alone, councilVars
  <2>3. Tasked(t)'
    BY <1>2, <1>1, <2>1, CouncilKept
       DEF Manager!SpawnUnavailable, Manager!agentVars, Manager!ManagerTypeOK,
           Manager!Fails, Tasked, councilVars
  <2>4. Entries'
    BY <1>2, <1>1
       DEF Manager!SpawnUnavailable, Manager!agentVars, Manager!ManagerTypeOK,
           Manager!Fails, Tasked, Entries, councilVars
  <2> QED BY <2>1, <2>2, <2>3, <2>4, CouncilKept, OthersKept, <1>1 DEF IInv
<1>3. CASE Manager!SpawnInUse(t)
  <2>1. Manager!ManagerTypeOK'
    BY <1>3, <1>1, NameIsId
       DEF Manager!SpawnInUse, Manager!agentVars, Manager!ManagerTypeOK, Manager!Fails
  <2>2. Alone(t)
    BY <1>3, <1>1
       DEF Manager!SpawnInUse, Manager!agentVars, Manager!ManagerTypeOK, Manager!Fails,
           Alone, councilVars
  <2>3. Tasked(t)'
    BY <1>3, <1>1, <2>1, CouncilKept
       DEF Manager!SpawnInUse, Manager!agentVars, Manager!ManagerTypeOK, Manager!Fails,
           Tasked, councilVars
  <2>4. Entries'
    BY <1>3, <1>1
       DEF Manager!SpawnInUse, Manager!agentVars, Manager!ManagerTypeOK, Manager!Fails,
           Tasked, Entries, councilVars
  <2> QED BY <2>1, <2>2, <2>3, <2>4, CouncilKept, OthersKept, <1>1 DEF IInv
<1>4. CASE Manager!SpawnBuild(t, Name(t), Mode(t))
  <2>1. Manager!ManagerTypeOK'
    <3>1. PICK p \in Manager!Started(Mode(t)) : processes' = [processes EXCEPT ![t] = p]
      BY <1>4 DEF Manager!SpawnBuild
    <3>2. p \in SUBSET Manager!Kinds
      BY StartedTyped
    <3>3. processes' \in [Tasks -> SUBSET Manager!Kinds]
      BY <1>1, <3>1, <3>2 DEF Manager!ManagerTypeOK
    <3>4. Mode(t) \in Manager!All
      BY <1>1, <1>4 DEF Manager!SpawnBuild, Manager!ManagerTypeOK
    <3> QED BY <1>4, <1>1, <3>3, <3>4, NameIsId DEF Manager!SpawnBuild, Manager!ManagerTypeOK
  <2>2. Alone(t)
    BY <1>4, <1>1
       DEF Manager!SpawnBuild, Manager!ManagerTypeOK, Alone, councilVars
  <2>3. Tasked(t)'
    BY <1>4, <1>1, <2>1, CouncilKept
       DEF Manager!SpawnBuild, Manager!ManagerTypeOK, Tasked, councilVars
  <2>4. Entries'
    BY <1>4, <1>1
       DEF Manager!SpawnBuild, Manager!ManagerTypeOK, Tasked, Entries,
           councilVars
  <2> QED BY <2>1, <2>2, <2>3, <2>4, CouncilKept, OthersKept, <1>1 DEF IInv
<1>5. CASE Manager!SpawnRegister(t)
  <2>1. Manager!ManagerTypeOK'
    BY <1>5, <1>1, NameIsId DEF Manager!SpawnRegister, Manager!ManagerTypeOK
  <2>2. Alone(t)
    BY <1>5, <1>1
       DEF Manager!SpawnRegister, Manager!ManagerTypeOK, Tasked, Alone,
           councilVars
  <2>3. Tasked(t)'
    BY <1>5, <1>1, <2>1, CouncilKept
       DEF Manager!SpawnRegister, Manager!ManagerTypeOK, Tasked,
           councilVars
  <2>4. Entries'
    BY <1>5, <1>1
       DEF Manager!SpawnRegister, Manager!ManagerTypeOK, Tasked, Entries,
           councilVars
  <2> QED BY <2>1, <2>2, <2>3, <2>4, CouncilKept, OthersKept, <1>1 DEF IInv
<1>6. CASE Manager!SpawnAborted(t)
  <2>0. /\ Manager!Lost(processes[t]) \in SUBSET Manager!Kinds
        /\ "running" \notin Manager!Lost(processes[t])
    BY <1>1, ToldTyped DEF Manager!ManagerTypeOK
  <2>1. Manager!ManagerTypeOK'
    BY <1>6, <1>1, <2>0, NameIsId
       DEF Manager!SpawnAborted, Manager!ManagerTypeOK, Manager!Fails
  <2>2. Alone(t)
    BY <1>6, <1>1
       DEF Manager!SpawnAborted, Manager!ManagerTypeOK, Manager!Fails,
           Alone, councilVars
  <2>3. Tasked(t)'
    BY <1>6, <1>1, <2>0, <2>1, CouncilKept
       DEF Manager!SpawnAborted, Manager!ManagerTypeOK, Manager!Fails,
           Tasked, councilVars
  <2>4. Entries'
    BY <1>6, <1>1
       DEF Manager!SpawnAborted, Manager!ManagerTypeOK, Manager!Fails,
           Tasked, Entries, councilVars
  <2> QED BY <2>1, <2>2, <2>3, <2>4, CouncilKept, OthersKept, <1>1 DEF IInv
<1>7. CASE Manager!ProcessEnds(t)
  <2>1. Manager!ManagerTypeOK'
    BY <1>7, <1>1, EndsEffect
  <2>2. Alone(t)
    BY <1>7, <1>1, EndsEffect DEF Alone, councilVars
  <2>3. Tasked(t)'
    BY <1>7, <1>1, <2>1, EndsEffect, CouncilKept DEF Tasked, councilVars
  <2>4. Entries'
    BY <1>7, <1>1, EndsEffect DEF Entries, councilVars
  <2> QED BY <2>1, <2>2, <2>3, <2>4, CouncilKept, OthersKept, <1>1 DEF IInv
<1> QED BY <1>2, <1>3, <1>4, <1>5, <1>6, <1>7 DEF ManagerStep

LEMMA ClientKillKeeps ==
  ASSUME IInv, NEW i \in Tasks, ClientKill(i)
  PROVE  IInv'
<1>0. PICK t \in Tasks : t = agents[i]
  BY DEF ClientKill, Manager!Kill, IInv, TypeOK, Manager!ManagerTypeOK
<1>1. /\ UNCHANGED councilVars /\ UNCHANGED <<agents, runtimes, pc, id, mode>>
      /\ agents[i] = t /\ t # None /\ runtime[t] = "live"
      /\ Manager!KillRuntimes({t})
  BY <1>0 DEF ClientKill, Manager!Kill, Manager!callVars
<1>2. /\ Manager!ManagerTypeOK /\ Tasked(t) /\ Entries
      /\ pc[t] = "done" /\ phase[t] \notin {"idle", "done"}
  BY <1>1 DEF IInv, TypeOK, Entries, Tasked
<1>3. Manager!ManagerTypeOK'
  BY <1>1, <1>2, KillEffect
<1>4. Alone(t)
  BY <1>1, <1>2, KillEffect DEF Alone, councilVars
<1>5. Tasked(t)'
  BY <1>1, <1>2, <1>3, KillEffect, CouncilKept DEF Tasked, councilVars
<1>6. Entries'
  BY <1>1, <1>2 DEF Entries, councilVars
<1> QED BY <1>1, <1>2, <1>3, <1>4, <1>5, <1>6, CouncilKept, OthersKept DEF IInv

-----------------------------------------------------------------------------
(* The tasks' and the handler's steps                                      *)

LEMMA PlanKept ==
  ASSUME IInv, UNCHANGED <<review, chunks>>
  PROVE  /\ WellCut(chunks)' /\ Panel' = Panel
         /\ \A u \in Tasks : Name(u)' = Name(u)
<1>1. ReviewTasks' = ReviewTasks /\ \A u \in Tasks : Name(u)' = Name(u)
  BY PlanIsFixed
<1>2. Panel' = Panel
  BY <1>1 DEF Panel
<1> QED BY <1>1, <1>2 DEF IInv, WellCut

(* agent.submit is called, on the agent the task has spawned.              *)
LEMMA SubmitKeeps ==
  ASSUME IInv, NEW t \in Tasks, phase[t] \in {"spawning", "warming"}, pc[t] = "done",
         agentOf' = [agentOf EXCEPT ![t] = t], Submit(t, t),
         UNCHANGED <<review, chunks, stage>>
  PROVE  IInv'
<1>1. TypeOK /\ Tasked(t) /\ Entries /\ runtime[t] \in {"live", "dying", "exited"}
  BY DEF IInv, Tasked
<1>2. /\ Manager!ManagerTypeOK' /\ UNCHANGED <<agents, runtimes, pc, id, mode, runtime>>
      /\ \A u \in Tasks \ {t} : processes'[u] = processes[u]
      /\ processes'[t] = processes[t] \/ (runtime[t] = "live" /\ mode[t] # "pty")
      /\ \/ phase' = [phase EXCEPT ![t] = "killing"] /\ result' = [result EXCEPT ![t] = "error"]
         \/ phase' = [phase EXCEPT ![t] = "submitting"] /\ result' = result
  BY <1>1, SubmitEffect
<1>3. TypeOK'
  BY <1>1, <1>2, PlanIsFixed DEF TypeOK, Phases
<1>4. Alone(t)
  BY <1>1, <1>2 DEF Alone, TypeOK
<1>5. phase'[t] \in {"killing", "submitting"} /\ agentOf'[t] = t
  BY <1>1, <1>2 DEF TypeOK
<1>6. phase'[t] = "killing" => result'[t] # "none"
  BY <1>1, <1>2 DEF TypeOK
<1>7. Tasked(t)'
  BY <1>1, <1>2, <1>5, <1>6, PlanKept DEF Tasked
<1>8. Entries'
  BY <1>1, <1>2, <1>4, <1>5 DEF Entries, Alone, TypeOK, Manager!ManagerTypeOK
<1> QED BY <1>3, <1>4, <1>5, <1>7, <1>8, PlanKept, StageKept, OthersKept DEF IInv

(* "finally": the agent is killed, whatever became of its answer.          *)
LEMMA FinallyKeeps ==
  ASSUME IInv, NEW t \in Tasks, phase[t] = "submitting", Finally(t),
         NEW r \in {"findings", "error"}, result' = [result EXCEPT ![t] = r]
  PROVE  IInv'
<1>1. /\ TypeOK /\ Tasked(t) /\ Entries /\ Manager!ManagerTypeOK
      /\ agentOf[t] = t /\ pc[t] = "done"
  BY DEF IInv, TypeOK, Tasked
<1>2. /\ Manager!KillRuntimes({t})
      /\ UNCHANGED <<agents, runtimes, pc, id, mode>>
      /\ UNCHANGED <<review, chunks, stage, agentOf>>
      /\ phase' = [phase EXCEPT ![t] = "killing"]
  BY <1>1 DEF Finally
<1>3. /\ Manager!ManagerTypeOK'
      /\ \A u \in Tasks \ {t} : runtime'[u] = runtime[u] /\ processes'[u] = processes[u]
      /\ "running" \notin processes'[t]
      /\ runtime'[t] = "exited" /\ mode[t] = "pty" => processes'[t] = {}
      /\ \/ runtime'[t] = runtime[t]
         \/ runtime[t] = "live" /\ runtime'[t] \in {"dying", "exited"}
  BY <1>1, <1>2, KillEffect
<1>4. TypeOK'
  BY <1>1, <1>2, <1>3, PlanIsFixed DEF TypeOK, Phases
<1>5. Alone(t)
  BY <1>1, <1>2, <1>3 DEF Alone, TypeOK
<1>6. phase'[t] = "killing" /\ result'[t] = r
  BY <1>1, <1>2 DEF TypeOK
<1>7. Tasked(t)'
  BY <1>1, <1>2, <1>3, <1>6, PlanKept DEF Tasked
<1>8. Entries'
  BY <1>1, <1>2, <1>5, <1>6 DEF Entries, Alone, TypeOK, Manager!ManagerTypeOK
<1> QED BY <1>2, <1>4, <1>5, <1>6, <1>7, <1>8, PlanKept, StageKept, OthersKept DEF IInv

LEMMA TaskStepKeeps ==
  ASSUME IInv, NEW t \in Tasks, TaskStep(t)
  PROVE  IInv'
<1>1. /\ TypeOK /\ Tasked(t) /\ Entries /\ Name(t) \in Tasks
      /\ None \notin Tasks
  BY CouncilAssumption, NameIsId DEF IInv
<1>2. CASE SpawnFailed(t)
  <2>1. TypeOK' /\ UNCHANGED <<review, chunks>>
    BY <1>2, <1>1, PlanIsFixed
       DEF SpawnFailed, TypeOK, Phases, Manager!ManagerTypeOK, managerVars
  <2>2. Alone(t) /\ stage' = stage
    BY <1>2, <1>1
       DEF SpawnFailed, Alone, TypeOK, Manager!ManagerTypeOK, managerVars
  <2>3. Tasked(t)' /\ phase[t] \notin {"idle", "done"} /\ phase'[t] # "idle"
    BY <1>2, <1>1, <2>1, PlanKept
       DEF SpawnFailed, Tasked, TypeOK, Manager!ManagerTypeOK, managerVars
  <2>4. Entries'
    BY <1>2, <1>1
       DEF SpawnFailed, Entries, TypeOK, Manager!ManagerTypeOK, managerVars
  <2> QED BY <2>1, <2>2, <2>3, <2>4, PlanKept, StageKept, OthersKept DEF IInv
<1>3. CASE Spawned(t)
  <2>1. /\ agents[id[t]] = t /\ t # None /\ phase[t] = "spawning" /\ pc[t] = "done"
        /\ UNCHANGED <<review, chunks, stage>>
        /\ agentOf' = [agentOf EXCEPT ![t] = t]
    BY <1>1, <1>3 DEF Spawned, Tasked
  <2>2. CASE Mode(t) # "pty"
    BY <1>3, <2>1, <2>2, SubmitKeeps DEF Spawned
  <2>3. CASE Mode(t) = "pty"
    <3>1. phase' = [phase EXCEPT ![t] = "warming"] /\ UNCHANGED <<result, managerVars>>
      BY <1>3, <2>1, <2>3 DEF Spawned
    <3>2. TypeOK'
      BY <1>1, <2>1, <3>1, PlanIsFixed
         DEF TypeOK, Phases, Manager!ManagerTypeOK, managerVars
    <3>3. Alone(t)
      BY <1>1, <2>1, <3>1 DEF Alone, TypeOK, managerVars
    <3>4. Tasked(t)' /\ phase'[t] # "idle"
      BY <1>1, <2>1, <3>1, PlanKept DEF Tasked, TypeOK, managerVars
    <3>5. Entries'
      BY <1>1, <2>1, <3>1 DEF Entries, TypeOK, Manager!ManagerTypeOK, managerVars
    <3> QED BY <2>1, <3>2, <3>3, <3>4, <3>5, PlanKept, StageKept, OthersKept DEF IInv
  <2> QED BY <2>2, <2>3
<1>4. CASE WarmedUp(t)
  <2>1. /\ agentOf[t] = t /\ phase[t] = "warming" /\ pc[t] = "done"
        /\ UNCHANGED <<review, chunks, stage>> /\ Submit(t, t)
    BY <1>1, <1>4 DEF WarmedUp, Tasked
  <2>2. agentOf' = [agentOf EXCEPT ![t] = t]
    BY <1>1, <1>4, <2>1 DEF WarmedUp, TypeOK
  <2> QED BY <2>1, <2>2, SubmitKeeps
<1>5. CASE Answered(t)
  <2>1. PICK r \in {"findings", "error"} : result' = [result EXCEPT ![t] = r]
    BY <1>5 DEF Answered, ExtractFindings
  <2> QED BY <1>5, <2>1, FinallyKeeps DEF Answered
<1>6. CASE SubmitFailed(t)
  BY <1>6, FinallyKeeps DEF SubmitFailed
<1>7. CASE Killed(t)
  <2>1. /\ agentOf[t] = t /\ phase[t] = "killing" /\ pc[t] = "done"
        /\ id[t] = Name(t) /\ agents[id[t]] = t /\ t # None /\ runtime[t] = "exited"
        /\ phase' = [phase EXCEPT ![t] = "done"]
        /\ UNCHANGED <<review, chunks, stage, agentOf, result>>
    BY <1>1, <1>7 DEF Killed, Tasked
  <2>2. /\ agents' = [agents EXCEPT ![Name(t)] = None]
        /\ UNCHANGED <<runtimes, pc, id, mode, runtime, processes>>
    BY <1>7, <2>1 DEF Killed, Manager!Remove, Manager!callVars, Manager!agentVars
  <2>3. TypeOK'
    BY <1>1, <2>1, <2>2, PlanIsFixed DEF TypeOK, Phases, Manager!ManagerTypeOK
  <2>4. Alone(t)
    BY <1>1, <2>1, <2>2 DEF Alone, TypeOK, Manager!ManagerTypeOK
  <2>5. Tasked(t)' /\ phase'[t] # "idle"
    BY <1>1, <2>1, <2>2, PlanKept DEF Tasked, TypeOK
  <2>6. Entries'
    BY <1>1, <2>1, <2>2 DEF Entries, TypeOK, Manager!ManagerTypeOK
  <2> QED BY <2>1, <2>3, <2>4, <2>5, <2>6, PlanKept, StageKept, OthersKept DEF IInv
<1> QED BY <1>2, <1>3, <1>4, <1>5, <1>6, <1>7 DEF TaskStep

LEMMA HandlerKeeps ==
  ASSUME IInv, Refuse \/ Convene \/ ReviewersDone \/ ChairDone
  PROVE  IInv'
<1>1. /\ TypeOK /\ Manager!ManagerTypeOK /\ \A t \in Tasks : Tasked(t)
      /\ Entries /\ None \notin Tasks
      /\ Chair \in Tasks /\ Chair \in Panel
  BY CouncilAssumption DEF IInv, TypeOK, Tasks, Panel
<1>2. Chair \notin ReviewTasks /\ ReviewTasks \subseteq Tasks
  BY PlanIsNamed DEF IInv, TypeOK, ReviewTasks
<1>3. CASE Refuse \/ ChairDone
  <2>1. /\ UNCHANGED <<review, chunks, phase, agentOf, result, managerVars>>
        /\ stage' \in {"refused", "returned"}
    BY <1>3 DEF Refuse, ChairDone
  <2>2. TypeOK'
    BY <1>1, <2>1, PlanIsFixed DEF TypeOK, Manager!ManagerTypeOK, managerVars
  <2>3. \A t \in Tasks : Tasked(t)'
    BY <1>1, <2>1, PlanKept DEF Tasked, managerVars
  <2>4. ReviewTasks' = ReviewTasks
    BY <2>1, PlanIsFixed
  <2>5. Staged'
    BY <1>3, <2>1, <2>4
       DEF Refuse, ChairDone, IInv, Staged, Succeeded, managerVars
  <2> QED BY <1>1, <2>1, <2>2, <2>3, <2>5, PlanKept DEF IInv, Entries, managerVars
<1>4. CASE Convene
  <2>1. chunks' = Cut /\ Cut' = Cut
    BY <1>4, PlanIsFixed DEF Convene
  <2>2. WellCut(chunks)'
    BY <1>4, <2>1, CutIsWell DEF Convene, IInv, TypeOK, WellCut
  <2>3. ReviewTasks' = TasksFor(Cut)
    BY <1>4, <2>1, PlanIsFixed DEF Convene, ReviewTasks, TasksFor, ToolCapable,
       Inline, RequestedMode
  <2>4. Chair \notin TasksFor(Cut) /\ TasksFor(Cut) \subseteq Tasks
    BY <1>4, CutIsWell, PlanIsNamed DEF Convene, IInv, TypeOK
  <2>5. TypeOK'
    BY <1>1, <1>4, <2>1
       DEF Convene, CallSpawn, TypeOK, Phases, Manager!ManagerTypeOK
  <2>6. \A t \in Tasks : phase[t] = "idle" /\ pc[t] = "new"
    BY <1>1, <1>4 DEF Convene, IInv, Staged, Tasked
  <2>7. \A t \in Tasks : Tasked(t)'
    BY <1>1, <1>4, <2>3, <2>4, <2>6 DEF Convene, CallSpawn, Tasked, Panel
  <2>8. Entries'
    BY <1>1, <1>4, <2>6 DEF Convene, CallSpawn, Entries, Manager!ManagerTypeOK
  <2>9. Staged'
    BY <1>1, <1>4, <2>4, <2>6 DEF Convene, CallSpawn, Staged
  <2> QED BY <2>2, <2>5, <2>7, <2>8, <2>9 DEF IInv
<1>5. CASE ReviewersDone /\ stage' = "returned"
  <2>1. /\ UNCHANGED <<review, chunks, phase, agentOf, result, managerVars>>
        /\ stage = "reviewing" /\ \A t \in ReviewTasks : phase[t] = "done"
    BY <1>5 DEF ReviewersDone
  <2>2. TypeOK'
    BY <1>1, <1>5, <2>1, PlanIsFixed
       DEF TypeOK, Manager!ManagerTypeOK, managerVars
  <2>3. \A t \in Tasks : Tasked(t)'
    BY <1>1, <2>1, PlanKept DEF Tasked, managerVars
  <2>4. ReviewTasks' = ReviewTasks
    BY <2>1, PlanIsFixed
  <2>5. Staged'
    BY <1>5, <2>1, <2>4 DEF IInv, Staged, Succeeded, managerVars
  <2> QED BY <1>1, <2>1, <2>2, <2>3, <2>5, PlanKept DEF IInv, Entries, managerVars
<1>6. CASE ReviewersDone /\ stage' # "returned"
  <2>1. /\ UNCHANGED <<review, chunks, agentOf, result>> /\ CallSpawn({Chair})
        /\ stage = "reviewing" /\ \A t \in ReviewTasks : phase[t] = "done"
        /\ stage' = "chairing" /\ Succeeded # {} /\ ~review.noChair
    BY <1>6 DEF ReviewersDone
  <2>2. phase[Chair] = "idle" /\ pc[Chair] = "new"
    BY <1>1, <2>1 DEF IInv, Staged, Tasked
  <2>3. TypeOK'
    BY <1>1, <2>1, PlanIsFixed
       DEF CallSpawn, TypeOK, Phases, Manager!ManagerTypeOK
  <2>4. \A t \in Tasks : Tasked(t)'
    BY <1>1, <2>1, <2>2, PlanKept DEF CallSpawn, Tasked
  <2>5. Entries'
    BY <1>1, <2>1, <2>2 DEF CallSpawn, Entries, Manager!ManagerTypeOK
  <2>6. ReviewTasks' = ReviewTasks
    BY <2>1, PlanIsFixed
  <2>7. Staged'
    BY <1>1, <1>2, <2>1, <2>6 DEF CallSpawn, Staged, Succeeded
  <2> QED BY <2>1, <2>3, <2>4, <2>5, <2>7, PlanKept DEF IInv
<1> QED BY <1>3, <1>4, <1>5, <1>6

-----------------------------------------------------------------------------
(* The invariant                                                           *)

LEMMA InitHolds == Init => IInv
<1> SUFFICES ASSUME Init PROVE IInv
  OBVIOUS
<1>1. TypeOK
  <2>1. runtimes \subseteq Manager!All
    BY CouncilAssumption DEF Init, Manager!All
  <2>2. Manager!ManagerTypeOK
    BY <2>1 DEF Init, Manager!NoAgents, Manager!ManagerTypeOK
  <2> QED BY <2>2 DEF Init, TypeOK, Phases
<1>2. WellCut(chunks)
  BY CouncilAssumption DEF Init, WellCut
<1>3. \A t \in Tasks : Tasked(t)
  BY DEF Init, Tasked, Manager!NoAgents
<1>4. Entries /\ Staged
  BY DEF Init, Entries, Staged, Tasks, Manager!NoAgents
<1> QED BY <1>1, <1>2, <1>3, <1>4 DEF IInv

LEMMA StepKeeps == IInv /\ [Next]_vars => IInv'
<1> SUFFICES ASSUME IInv, [Next]_vars PROVE IInv'
  OBVIOUS
<1>1. CASE UNCHANGED vars
  <2>1. UNCHANGED councilVars /\ UNCHANGED managerVars
    BY <1>1 DEF vars
  <2>2. Manager!ManagerTypeOK'
    BY <2>1 DEF IInv, TypeOK, Manager!ManagerTypeOK, managerVars
  <2>3. (\A t \in Tasks : Tasked(t)') /\ Entries'
    BY <2>1, <2>2, CouncilKept DEF IInv, Tasked, Entries, councilVars, managerVars
  <2> QED BY <2>1, <2>2, <2>3, CouncilKept DEF IInv
<1>2. CASE Next
  BY <1>2, HandlerKeeps, TaskStepKeeps, ManagerStepKeeps, ClientKillKeeps DEF Next
<1> QED BY <1>1, <1>2

LEMMA Invariance == Spec => []IInv
BY InitHolds, StepKeeps, PTL DEF Spec

(* Once the council is convened, every reviewer's tasks are called.        *)
Called ==
  stage \notin {"called", "refused"} =>
    chunks = Cut /\ \A t \in ReviewTasks : phase[t] # "idle"

LEMMA CalledKept ==
  ASSUME IInv, Called, [Next]_vars
  PROVE  Called'
<1>1. CASE Refuse
  BY <1>1 DEF Refuse, Called
<1>2. CASE Convene
  <2>1. chunks' = Cut /\ Cut' = Cut /\ TasksFor(Cut)' = TasksFor(Cut)
    BY <1>2, PlanIsFixed DEF Convene
  <2>2. ReviewTasks' = TasksFor(Cut)
    BY <1>2, <2>1, PlanIsFixed DEF Convene, ReviewTasks, TasksFor, ToolCapable,
       Inline, RequestedMode
  <2>3. TasksFor(Cut) \subseteq Tasks
    BY <1>2, CutIsWell, PlanIsNamed DEF Convene, IInv, TypeOK
  <2>4. \A t \in TasksFor(Cut) : phase'[t] = "spawning"
    BY <1>2, <2>3 DEF Convene, CallSpawn
  <2> QED BY <2>1, <2>2, <2>4 DEF Called
<1>3. ASSUME UNCHANGED <<review, chunks>>, stage' # stage => stage \notin {"called", "refused"},
             \A t \in Tasks : phase[t] # "idle" => phase'[t] # "idle"
      PROVE  Called'
  <2>1. Cut' = Cut /\ ReviewTasks' = ReviewTasks
    BY <1>3, PlanIsFixed
  <2>2. ReviewTasks \subseteq Tasks
    BY PlanIsNamed DEF IInv, TypeOK, ReviewTasks
  <2> QED BY <1>3, <2>1, <2>2 DEF Called
<1>4. CASE ReviewersDone \/ ChairDone
  <2>1. UNCHANGED <<review, chunks>> /\ stage \notin {"called", "refused"}
    BY <1>4 DEF ReviewersDone, ChairDone
  <2>2. \A t \in Tasks : phase[t] # "idle" => phase'[t] # "idle"
    BY <1>4 DEF ReviewersDone, ChairDone, CallSpawn
  <2> QED BY <1>3, <2>1, <2>2
<1>5. ASSUME NEW t \in Tasks, TaskStep(t)
      PROVE  Called'
  <2>1. UNCHANGED <<review, chunks, stage>>
    BY <1>5 DEF TaskStep, SpawnFailed, Spawned, WarmedUp, Answered, SubmitFailed, Finally, Killed
  <2>2. \A u \in Tasks : phase[u] # "idle" => phase'[u] # "idle"
    BY <1>5 DEF TaskStep, SpawnFailed, Spawned, WarmedUp, Submit, Answered, SubmitFailed,
                Finally, Killed, IInv, TypeOK
  <2> QED BY <1>3, <2>1, <2>2
<1>6. CASE UNCHANGED councilVars
  BY <1>3, <1>6 DEF councilVars
<1>7. (\E t \in Tasks : ManagerStep(t) \/ ClientKill(t)) \/ UNCHANGED vars
        => UNCHANGED councilVars
  BY DEF ManagerStep, ClientKill, vars
<1> QED BY <1>1, <1>2, <1>4, <1>5, <1>6, <1>7 DEF Next

LEMMA AllCalled == Spec => []Called
<1>1. Init => Called
  BY DEF Init, Called
<1> QED BY <1>1, CalledKept, Invariance, PTL DEF Spec

-----------------------------------------------------------------------------
(* Induction, on sets.                                                     *)
LEMMA Least ==
  ASSUME NEW T \in SUBSET Nat, T # {}
  PROVE  \E x \in T : \A y \in T : x <= y
<1> DEFINE Below == OpToRel(<, Nat)
<1>1. IsWellFoundedOn(Below, Nat)
  BY NatLessThanWellFounded
<1>2. \A x, y \in Nat : y < x => <<y, x>> \in Below
  BY DEF OpToRel
<1>3. \E x \in T : \A y \in T : <<y, x>> \notin Below
  <2> HIDE DEF Below
  <2> QED BY <1>1, WFMin
<1>4. PICK x \in T : \A y \in T : <<y, x>> \notin Below
  BY <1>3
<1>5. \A y \in T : ~(y < x)
  <2> HIDE DEF Below
  <2> QED BY <1>2, <1>4
<1> QED BY <1>5

LEMMA Induction ==
  ASSUME NEW N \in Nat, NEW T \in SUBSET Nat, 0 \in T,
         \A n \in T : n < N => n + 1 \in T
  PROVE  0..N \subseteq T
<1> DEFINE M == (0..N) \ T
<1> SUFFICES ASSUME M # {} PROVE FALSE
  OBVIOUS
<1>1. PICK x \in M : \A y \in M : x <= y
  <2>1. M \in SUBSET Nat
    OBVIOUS
  <2> HIDE DEF M
  <2> QED BY <2>1, Least
<1>2. x # 0 /\ x - 1 \in 0..N /\ x - 1 < N
  BY <1>1
<1>3. x - 1 \in T
  BY <1>1, <1>2
<1> QED BY <1>1, <1>2, <1>3

-----------------------------------------------------------------------------
(* Bytes                                                                   *)

LEMMA SumsDef ==
  ASSUME NEW source, NEW lines, Len(lines) \in Nat
  PROVE  /\ DOMAIN Sums(source, lines) = 0..Len(lines)
         /\ Sums(source, lines)[0] = 0
         /\ \A n \in 1..Len(lines) :
              Sums(source, lines)[n] = Sums(source, lines)[n - 1] + source[lines[n]].len + 1
<1> DEFINE Add(f, n) == IF n = 0 THEN 0 ELSE f[n - 1] + source[lines[n]].len + 1
           Sol(f, m) == f = [n \in 0..m |-> Add(f, n)]
           T == {m \in Nat : \E f : Sol(f, m)}
<1>1. 0 \in T
  <2>1. Sol([n \in 0..0 |-> 0], 0)
    OBVIOUS
  <2> QED BY <2>1
<1>2. ASSUME NEW m \in T PROVE m + 1 \in T
  <2>1. PICK f : Sol(f, m)
    OBVIOUS
  <2> DEFINE g == [n \in 0..(m + 1) |-> IF n = m + 1 THEN f[m] + source[lines[m + 1]].len + 1
                                        ELSE f[n]]
  <2>2. ASSUME NEW n \in 0..(m + 1) PROVE g[n] = Add(g, n)
    <3>1. CASE n = m + 1
      BY <3>1
    <3>2. CASE n # m + 1
      BY <2>1, <3>2
    <3> QED BY <3>1, <3>2
  <2>3. Sol(g, m + 1)
    BY <2>2
  <2> HIDE DEF Sol, g
  <2> QED BY <2>3
<1>3. \E f : Sol(f, Len(lines))
  <2> HIDE DEF T
  <2>1. T \subseteq Nat /\ Len(lines) \in 0..Len(lines)
    BY DEF T
  <2>2. Len(lines) \in T
    BY <1>1, <1>2, <2>1, Induction
  <2> QED BY <2>2 DEF T
<1>4. Sums(source, lines) = CHOOSE f : Sol(f, Len(lines))
  BY DEF Sums
<1>5. Sol(Sums(source, lines), Len(lines))
  <2> HIDE DEF Sol
  <2> QED BY <1>3, <1>4
<1> QED BY <1>5

LEMMA LineBytes ==
  ASSUME NEW source \in Seq(Lines(Nat)), NEW lines \in Seq(1..Len(source)),
         NEW n \in 1..Len(lines)
  PROVE  source[lines[n]].len \in Nat
<1>1. lines[n] \in 1..Len(source)
  OBVIOUS
<1>2. source[lines[n]] \in Lines(Nat)
  BY <1>1
<1> QED BY <1>2 DEF Lines

LEMMA SumsType ==
  ASSUME NEW source \in Seq(Lines(Nat)), NEW lines \in Seq(1..Len(source))
  PROVE  /\ \A n \in 0..Len(lines) : Sums(source, lines)[n] \in Nat
         /\ \A n \in 1..Len(lines) : Sums(source, lines)[n - 1] <= Sums(source, lines)[n]
<1> DEFINE S == Sums(source, lines)
           T == {n \in Nat : n <= Len(lines) => S[n] \in Nat}
<1>0. Len(lines) \in Nat
  OBVIOUS
<1>1. S[0] = 0 /\ \A n \in 1..Len(lines) : S[n] = S[n - 1] + source[lines[n]].len + 1
  BY <1>0, SumsDef
<1> HIDE DEF S
<1>3. 0 \in T
  BY <1>1
<1>4. ASSUME NEW n \in T, n < Len(lines) PROVE n + 1 \in T
  <2>1. n + 1 \in 1..Len(lines) /\ (n + 1) - 1 = n
    BY <1>0, <1>4
  <2>2. S[n + 1] = S[n] + source[lines[n + 1]].len + 1
    BY <1>1, <2>1
  <2>3. source[lines[n + 1]].len \in Nat
    BY <2>1, LineBytes
  <2> QED BY <1>4, <2>2, <2>3
<1>5. 0..Len(lines) \subseteq T
  <2>1. T \in SUBSET Nat
    BY DEF T
  <2> HIDE DEF T
  <2> QED BY <1>0, <1>3, <1>4, <2>1, Induction
<1>6. \A n \in 0..Len(lines) : S[n] \in Nat
  BY <1>0, <1>5
<1>7. ASSUME NEW n \in 1..Len(lines) PROVE S[n - 1] <= S[n]
  <2>1. S[n] = S[n - 1] + source[lines[n]].len + 1
    BY <1>1
  <2>2. source[lines[n]].len \in Nat
    BY LineBytes
  <2>3. S[n - 1] \in Nat
    BY <1>6
  <2> QED BY <2>1, <2>2, <2>3
<1> QED BY <1>6, <1>7 DEF S

(* Lines that are some of the others, one after the other, have the bytes  *)
(* that those have.                                                        *)
LEMMA SumsShift ==
  ASSUME NEW source \in Seq(Lines(Nat)),
         NEW lines \in Seq(1..Len(source)), NEW others \in Seq(1..Len(source)),
         NEW k \in Nat, NEW m \in Nat, NEW last \in Nat,
         last = k + m, last <= Len(lines), m <= Len(others),
         \A j \in 1..m : others[j] = lines[k + j]
  PROVE  Sums(source, others)[m] = Sums(source, lines)[last] - Sums(source, lines)[k]
<1> DEFINE S == Sums(source, lines)
           R == Sums(source, others)
           T == {n \in Nat : n <= m => R[n] = S[k + n] - S[k]}
<1>0. Len(lines) \in Nat /\ Len(others) \in Nat
  OBVIOUS
<1>1. /\ \A n \in 1..Len(lines) : S[n] = S[n - 1] + source[lines[n]].len + 1
      /\ R[0] = 0
      /\ \A n \in 1..Len(others) : R[n] = R[n - 1] + source[others[n]].len + 1
  BY <1>0, SumsDef
<1>2. /\ \A n \in 0..Len(lines) : S[n] \in Nat
      /\ \A n \in 0..Len(others) : R[n] \in Nat
  BY SumsType
<1> HIDE DEF S, R
<1>4. 0 \in T
  <2>1. k + 0 = k /\ S[k] \in Nat
    BY <1>0, <1>2
  <2> QED BY <1>1, <2>1
<1>5. ASSUME NEW n \in T, n < m PROVE n + 1 \in T
  <2> DEFINE i == k + n + 1
  <2>1. /\ n + 1 \in 1..Len(others) /\ i \in 1..Len(lines)
        /\ k + (n + 1) = i /\ (n + 1) - 1 = n /\ i - 1 = k + n
        /\ n \in 0..Len(others) /\ k + n \in 0..Len(lines) /\ k \in 0..Len(lines)
        /\ n + 1 \in 1..m
    BY <1>0, <1>5
  <2>2. R[n] = S[k + n] - S[k]
    BY <1>5
  <2>3. R[n + 1] = R[n] + source[others[n + 1]].len + 1
    BY <1>1, <2>1
  <2>4. S[i] = S[k + n] + source[lines[i]].len + 1
    BY <1>1, <2>1
  <2>5. others[n + 1] = lines[i]
    BY <2>1
  <2>6. source[lines[i]].len \in Nat
    BY <2>1, LineBytes
  <2>7. S[k + n] \in Nat /\ S[k] \in Nat
    BY <1>2, <2>1
  <2>8. R[n + 1] = S[i] - S[k]
    <3>1. R[n + 1] = S[k + n] - S[k] + source[lines[i]].len + 1
      BY <2>2, <2>3, <2>5
    <3> HIDE DEF i, T
    <3> QED BY <2>4, <2>6, <2>7, <3>1
  <2>9. S[k + (n + 1)] = S[i]
    BY <2>1
  <2> HIDE DEF i
  <2> QED BY <2>8, <2>9
<1>6. 0..m \subseteq T
  <2>1. T \in SUBSET Nat
    BY DEF T
  <2> HIDE DEF T
  <2> QED BY <1>4, <1>5, <2>1, Induction
<1> QED BY <1>6 DEF S, R

LEMMA Slice ==
  ASSUME NEW S, NEW s \in Seq(S), NEW k \in Nat \ {0}, NEW n \in Nat, k <= n + 1, n <= Len(s)
  PROVE  /\ SubSeq(s, k, n) \in Seq(S)
         /\ Len(SubSeq(s, k, n)) = n - k + 1
         /\ \A j \in 1..(n - k + 1) : SubSeq(s, k, n)[j] = s[k + j - 1]
<1>1. \A i \in k..n : s[i] \in S
  OBVIOUS
<1>2. k \in Int /\ n \in Int
  OBVIOUS
<1>3. /\ SubSeq(s, k, n) \in Seq(S)
      /\ Len(SubSeq(s, k, n)) = IF k <= n THEN n - k + 1 ELSE 0
      /\ \A i \in 1..(n - k + 1) : SubSeq(s, k, n)[i] = s[k + i - 1]
  BY <1>1, <1>2, SubSeqProperties
<1>4. Len(SubSeq(s, k, n)) = n - k + 1
  BY <1>3
<1> QED BY <1>3, <1>4

LEMMA Appended ==
  ASSUME NEW S, NEW s \in Seq(S), NEW e \in S
  PROVE  /\ Append(s, e) \in Seq(S) /\ Len(Append(s, e)) = Len(s) + 1
         /\ Append(s, e) # <<>> /\ Append(s, e)[Len(s) + 1] = e
         /\ \A j \in 1..Len(s) : Append(s, e)[j] = s[j]
<1>1. Len(s) \in Nat /\ Len(Append(s, e)) = Len(s) + 1
  OBVIOUS
<1> QED BY <1>1

LEMMA SumsMonotone ==
  ASSUME NEW source \in Seq(Lines(Nat)), NEW lines \in Seq(1..Len(source)),
         NEW k \in Nat, NEW n \in Nat, k <= n, n <= Len(lines)
  PROVE  Sums(source, lines)[k] <= Sums(source, lines)[n]
<1> DEFINE S == Sums(source, lines)
           T == {i \in Nat : k <= i /\ i <= Len(lines) => S[k] <= S[i]}
<1>0. Len(lines) \in Nat
  OBVIOUS
<1>1. /\ \A i \in 0..Len(lines) : S[i] \in Nat
      /\ \A i \in 1..Len(lines) : S[i - 1] <= S[i]
  BY SumsType
<1> HIDE DEF S
<1>2. S[k] \in Nat
  BY <1>0, <1>1
<1>3. 0 \in T
  BY <1>2
<1>4. ASSUME NEW i \in T, i < Len(lines) PROVE i + 1 \in T
  <2>1. /\ i + 1 \in 1..Len(lines) /\ (i + 1) - 1 = i
        /\ i \in 0..Len(lines) /\ i + 1 \in 0..Len(lines)
    BY <1>0, <1>4
  <2>2. S[i] \in Nat /\ S[i + 1] \in Nat /\ S[i] <= S[i + 1]
    BY <1>1, <2>1
  <2>3. CASE k = i + 1
    BY <2>2, <2>3
  <2>4. CASE ~(k <= i + 1)
    BY <2>4
  <2>5. CASE k <= i
    <3>1. S[k] <= S[i]
      BY <1>4, <2>5
    <3> QED BY <1>2, <2>2, <3>1
  <2> QED BY <2>3, <2>4, <2>5
<1>5. 0..Len(lines) \subseteq T
  <2>1. T \in SUBSET Nat
    BY DEF T
  <2> HIDE DEF T
  <2> QED BY <1>0, <1>3, <1>4, <2>1, Induction
<1> QED BY <1>0, <1>5 DEF S

-----------------------------------------------------------------------------
(* The loop                                                                *)

Steps(source, maxBytes, f, l) ==
  IF l = 0
  THEN [chunks |-> <<>>, current |-> <<>>, startLine |-> 1, lastBlank |-> -1]
  ELSE Push(source,
            IF Full(source, maxBytes, f[l - 1], l) THEN Flush(f[l - 1], l) ELSE f[l - 1],
            l)

LEMMA ScanDef ==
  ASSUME NEW source, NEW maxBytes, Len(source) \in Nat
  PROVE  \A l \in 0..Len(source) :
           Scan(source, maxBytes)[l] = Steps(source, maxBytes, Scan(source, maxBytes), l)
<1> DEFINE Add(f, l) == Steps(source, maxBytes, f, l)
           Sol(f, m) == f = [l \in 0..m |-> Add(f, l)]
           T == {m \in Nat : \E f : Sol(f, m)}
<1>0. ASSUME NEW f, NEW g, NEW l \in Nat, l # 0 => f[l - 1] = g[l - 1]
      PROVE  Add(f, l) = Add(g, l)
  BY <1>0 DEF Steps
<1>1. Scan(source, maxBytes) = CHOOSE f : Sol(f, Len(source))
  BY DEF Scan, Steps
<1> HIDE DEF Add
<1>2. 0 \in T
  <2> DEFINE g == [l \in 0..0 |-> Add(<<>>, 0)]
  <2>1. \A l \in 0..0 : Add(g, l) = Add(<<>>, 0)
    BY <1>0
  <2>2. Sol(g, 0)
    BY <2>1
  <2> QED BY <2>2
<1>3. ASSUME NEW m \in T PROVE m + 1 \in T
  <2>1. PICK f : Sol(f, m)
    OBVIOUS
  <2> DEFINE g == [l \in 0..(m + 1) |-> IF l = m + 1 THEN Add(f, m + 1) ELSE f[l]]
  <2>2. ASSUME NEW l \in 0..(m + 1) PROVE g[l] = Add(g, l)
    <3>1. l # 0 => l - 1 \in 0..(m + 1) /\ l - 1 # m + 1
      OBVIOUS
    <3>2. l # 0 => g[l - 1] = f[l - 1]
      BY <3>1
    <3> HIDE DEF g
    <3>3. Add(f, l) = Add(g, l)
      BY <1>0, <3>2
    <3> USE DEF g
    <3>4. CASE l = m + 1
      BY <3>3, <3>4
    <3>5. CASE l # m + 1
      <4>1. l \in 0..m
        BY <3>5
      <4>2. f[l] = Add(f, l)
        BY <2>1, <4>1
      <4>3. g[l] = f[l]
        BY <3>5
      <4> HIDE DEF g
      <4> QED BY <3>3, <4>2, <4>3
    <3> QED BY <3>4, <3>5
  <2>3. g = [l \in 0..(m + 1) |-> Add(g, l)]
    <3>1. g = [l \in 0..(m + 1) |-> g[l]]
      OBVIOUS
    <3> HIDE DEF g
    <3> QED BY <2>2, <3>1
  <2> HIDE DEF g
  <2>4. Sol(g, m + 1)
    BY <2>3
  <2> HIDE DEF Sol
  <2> QED BY <2>4
<1>4. \E f : Sol(f, Len(source))
  <2> HIDE DEF T
  <2>1. T \in SUBSET Nat /\ Len(source) \in 0..Len(source)
    BY DEF T
  <2>2. Len(source) \in T
    BY <1>2, <1>3, <2>1, Induction
  <2> QED BY <2>2 DEF T
<1>5. Sol(Scan(source, maxBytes), Len(source))
  <2> HIDE DEF Sol
  <2> QED BY <1>1, <1>4
<1> QED BY <1>5 DEF Add

-----------------------------------------------------------------------------
(* What the loop keeps: its chunks are the lines before the one under      *)
(* construction, and all but the last line of a chunk fit.                 *)

Chunks(source) ==
  [text : Seq(1..Len(source)), startLine : Nat \ {0}, endLine : Nat]

Whole(source, maxBytes, text, first) ==
  /\ text \in Seq(1..Len(source)) /\ first \in Nat \ {0}
  /\ \A j \in 1..Len(text) : text[j] = first + j - 1
  /\ text # <<>> => Sums(source, text)[Len(text) - 1] <= maxBytes

Made(source, maxBytes, made, upto) ==
  /\ made \in Seq(Chunks(source))
  /\ \A k \in 1..Len(made) :
       /\ Whole(source, maxBytes, made[k].text, made[k].startLine)
       /\ made[k].text # <<>>
       /\ made[k].endLine = made[k].startLine + Len(made[k].text) - 1
       /\ IF k = 1 THEN made[k].startLine = 1
          ELSE made[k].startLine = made[k - 1].endLine + 1
  /\ IF made = <<>> THEN upto = 0 ELSE made[Len(made)].endLine = upto

Going(source, maxBytes, st, l) ==
  /\ st \in [chunks : Seq(Chunks(source)), current : Seq(1..Len(source)),
             startLine : Nat \ {0}, lastBlank : Int]
  /\ Made(source, maxBytes, st.chunks, st.startLine - 1)
  /\ Whole(source, maxBytes, st.current, st.startLine)
  /\ st.startLine + Len(st.current) = l + 1
  /\ st.lastBlank \in {-1} \cup 1..Len(st.current)

Ready(source, maxBytes, st, l) ==
  /\ Going(source, maxBytes, st, l - 1)
  /\ Bytes(source, st.current) <= maxBytes
  /\ st.lastBlank = -1 \/ Bytes(source, st.current) + source[l].len + 1 <= maxBytes

Scanned(source, maxBytes, st, l) ==
  /\ Going(source, maxBytes, st, l)
  /\ st.lastBlank \in {-1, Len(st.current)} \/ Bytes(source, st.current) <= maxBytes
  /\ l > 0 => st.current # <<>>

LEMMA AppendMade ==
  ASSUME NEW source \in Seq(Lines(Nat)), NEW maxBytes \in Nat, NEW made, NEW text, NEW first,
         Made(source, maxBytes, made, first - 1), Whole(source, maxBytes, text, first),
         text # <<>>
  PROVE  /\ Append(made, Chunk(text, first)) \in Seq(Chunks(source))
         /\ Made(source, maxBytes, Append(made, Chunk(text, first)), first + Len(text) - 1)
<1> DEFINE c == Chunk(text, first)
           new == Append(made, c)
<1>1. /\ Len(text) \in Nat \ {0} /\ first \in Nat \ {0}
      /\ text \in Seq(1..Len(source)) /\ made \in Seq(Chunks(source)) /\ Len(made) \in Nat
  BY DEF Whole, Made
<1>2. /\ c.text = text /\ c.startLine = first /\ c.endLine = first + Len(text) - 1
      /\ c \in Chunks(source)
  BY <1>1 DEF Chunk, Chunks
<1> HIDE DEF c
<1>3. /\ new \in Seq(Chunks(source)) /\ Len(new) = Len(made) + 1 /\ new # <<>>
      /\ new[Len(made) + 1] = c
      /\ \A k \in 1..Len(made) : new[k] = made[k]
  BY <1>1, <1>2, Appended
<1> HIDE DEF new
<1>4. ASSUME NEW k \in 1..Len(new)
      PROVE  /\ Whole(source, maxBytes, new[k].text, new[k].startLine)
             /\ new[k].text # <<>>
             /\ new[k].endLine = new[k].startLine + Len(new[k].text) - 1
             /\ IF k = 1 THEN new[k].startLine = 1
                ELSE new[k].startLine = new[k - 1].endLine + 1
  <2>1. CASE k = Len(made) + 1
    <3>1. new[k] = c
      BY <1>3, <2>1
    <3>2. CASE k = 1
      <4>1. made = <<>> /\ first - 1 = 0
        BY <1>1, <2>1, <3>2 DEF Made
      <4> QED BY <1>1, <1>2, <3>1, <3>2, <4>1
    <3>3. CASE k # 1
      <4>1. made # <<>> /\ k - 1 = Len(made) /\ k - 1 \in 1..Len(made)
        BY <1>1, <2>1, <3>3
      <4>2. new[k - 1].endLine = first - 1
        BY <1>3, <4>1 DEF Made
      <4>3. new[k].startLine = new[k - 1].endLine + 1
        BY <1>1, <1>2, <3>1, <4>2
      <4> QED BY <1>2, <3>1, <3>3, <4>3
    <3> QED BY <3>2, <3>3
  <2>2. CASE k \in 1..Len(made)
    <3>1. k # 1 => k - 1 \in 1..Len(made)
      BY <1>1, <2>2
    <3>2. new[k] = made[k] /\ (k # 1 => new[k - 1] = made[k - 1])
      BY <1>3, <2>2, <3>1
    <3> QED BY <2>2, <3>2 DEF Made
  <2> QED BY <1>1, <1>3, <2>1, <2>2
<1>5. new[Len(new)].endLine = first + Len(text) - 1
  BY <1>2, <1>3
<1>6. Made(source, maxBytes, new, first + Len(text) - 1)
  BY <1>3, <1>4, <1>5 DEF Made
<1> QED BY <1>3, <1>6 DEF new, c

Parts(cur, cut, text, tail) ==
  text = SubSeq(cur, 1, cut) /\ tail = SubSeq(cur, cut + 1, Len(cur))

(* A sequence of lines that is whole can be cut in two.                    *)
LEMMA CutInTwo ==
  ASSUME NEW source \in Seq(Lines(Nat)), NEW maxBytes \in Nat,
         NEW cur \in Seq(1..Len(source)), NEW first \in Nat \ {0},
         Whole(source, maxBytes, cur, first),
         NEW n \in Nat, n = Len(cur), NEW cut \in 1..n,
         cut = n \/ Bytes(source, cur) <= maxBytes,
         NEW text, NEW tail, Parts(cur, cut, text, tail)
  PROVE  /\ Whole(source, maxBytes, text, first) /\ Len(text) = cut /\ text # <<>>
         /\ Whole(source, maxBytes, tail, first + cut) /\ Len(tail) = n - cut
         /\ Bytes(source, tail) <= maxBytes
<1>0. text = SubSeq(cur, 1, cut) /\ tail = SubSeq(cur, cut + 1, n)
  BY DEF Parts
<1>1. /\ n \in Nat \ {0} /\ cut \in Nat \ {0} /\ cut <= n /\ cur # <<>> /\ 0 \in Nat /\ 0 <= cut
      /\ n <= Len(cur) /\ cut <= Len(cur)
  OBVIOUS
<1>2. /\ text \in Seq(1..Len(source)) /\ Len(text) = cut
      /\ \A j \in 1..cut : text[j] = cur[0 + j]
  <2>1. 1 \in Nat \ {0} /\ 1 <= cut + 1 /\ cut - 1 + 1 = cut /\ \A j \in 1..cut : 1 + j - 1 = 0 + j
    BY <1>1
  <2>2. /\ text \in Seq(1..Len(source)) /\ Len(text) = cut - 1 + 1
        /\ \A j \in 1..(cut - 1 + 1) : text[j] = cur[1 + j - 1]
    BY <1>0, <1>1, <2>1, Slice
  <2> QED BY <2>1, <2>2
<1>3. /\ tail \in Seq(1..Len(source)) /\ Len(tail) = n - cut
      /\ \A j \in 1..(n - cut) : tail[j] = cur[cut + j]
  <2> DEFINE k == cut + 1
  <2>1. /\ k \in Nat \ {0} /\ k <= n + 1 /\ n - k + 1 = n - cut
        /\ \A j \in 1..(n - cut) : k + j - 1 = cut + j
    BY <1>1
  <2> HIDE DEF k
  <2>2. tail = SubSeq(cur, k, n)
    BY <1>0 DEF k
  <2>3. /\ tail \in Seq(1..Len(source)) /\ Len(tail) = n - k + 1
        /\ \A j \in 1..(n - k + 1) : tail[j] = cur[k + j - 1]
    <3>1. cur \in Seq(1..Len(source)) /\ k \in Nat \ {0} /\ n \in Nat /\ k <= n + 1 /\ n <= Len(cur)
      BY <1>1, <2>1
    <3>2. /\ SubSeq(cur, k, n) \in Seq(1..Len(source)) /\ Len(SubSeq(cur, k, n)) = n - k + 1
          /\ \A j \in 1..(n - k + 1) : SubSeq(cur, k, n)[j] = cur[k + j - 1]
      BY ONLY <3>1, Slice, SMTT(30)
    <3> QED BY ONLY <2>2, <3>2
  <2> QED BY <2>1, <2>3
<1>4. \A j \in 1..n : cur[j] = first + j - 1
  BY DEF Whole
<1>5. Sums(source, cur)[n - 1] <= maxBytes
  BY <1>1 DEF Whole
<1> DEFINE S == Sums(source, cur)
<1>6. \A i \in 0..n : S[i] \in Nat
  BY SumsType
<1>7. S[0] = 0
  BY <1>1, SumsDef
<1>8. Sums(source, text)[cut - 1] <= maxBytes
  <2>1. /\ cut - 1 \in Nat /\ n - 1 \in Nat /\ 0 + (cut - 1) = cut - 1
        /\ 0 + (cut - 1) <= Len(cur) /\ cut - 1 <= Len(text)
        /\ n - 1 <= Len(cur) /\ cut - 1 <= n - 1
        /\ cut - 1 \in 0..n /\ n - 1 \in 0..n
    BY <1>1, <1>2
  <2>2. \A j \in 1..(cut - 1) : j \in 1..cut
    BY <1>1
  <2>3. \A j \in 1..(cut - 1) : text[j] = cur[0 + j]
    BY <1>2, <2>2
  <2>4. Sums(source, text)[cut - 1] = Sums(source, cur)[cut - 1] - Sums(source, cur)[0]
    <3> DEFINE p == cut - 1
    <3> HIDE DEF p
    <3>1. p \in Nat /\ p <= Len(cur) /\ p <= Len(text) /\ p = 0 + p
      BY <2>1 DEF p
    <3>2. \A j \in 1..p : text[j] = cur[0 + j]
      BY <2>3 DEF p
    <3>3. Sums(source, text)[p] = Sums(source, cur)[p] - Sums(source, cur)[0]
      <4>1. text \in Seq(1..Len(source)) /\ 0 \in Nat
        BY <1>2
      <4> QED BY ONLY <3>1, <3>2, <4>1, SumsShift, source \in Seq(Lines(Nat)), cur \in Seq(1..Len(source))
    <3> QED BY <3>3 DEF p
  <2>5. S[cut - 1] <= S[n - 1]
    BY <2>1, SumsMonotone
  <2>6. S[cut - 1] \in Nat /\ S[n - 1] \in Nat
    BY <1>6, <2>1
  <2>7. Sums(source, text)[cut - 1] = S[cut - 1] - S[0]
    BY <2>1, <2>4
  <2> HIDE DEF S
  <2>8. S[n - 1] <= maxBytes
    BY <1>5 DEF S
  <2> QED BY <1>7, <2>5, <2>6, <2>7, <2>8
<1>9. Bytes(source, tail) <= maxBytes
  <2>1. /\ cut \in Nat /\ n - cut \in Nat /\ cut + (n - cut) = n
        /\ cut + (n - cut) <= Len(cur) /\ n - cut <= Len(tail)
        /\ n \in 0..n /\ cut \in 0..n
    BY <1>1, <1>3
  <2>2. Sums(source, tail)[n - cut] = Sums(source, cur)[n] - Sums(source, cur)[cut]
    <3> DEFINE p == n - cut
    <3> HIDE DEF p
    <3>1. p \in Nat /\ n \in Nat /\ n = cut + p /\ n <= Len(cur) /\ p <= Len(tail)
      BY <1>1, <2>1 DEF p
    <3>2. \A j \in 1..p : tail[j] = cur[cut + j]
      BY <1>3 DEF p
    <3>3. Sums(source, tail)[p] = Sums(source, cur)[n] - Sums(source, cur)[cut]
      <4>1. tail \in Seq(1..Len(source)) /\ cut \in Nat
        BY <1>1, <1>3
      <4> QED BY ONLY <3>1, <3>2, <4>1, SumsShift, source \in Seq(Lines(Nat)), cur \in Seq(1..Len(source))
    <3> QED BY <3>3 DEF p
  <2>3. Bytes(source, tail) = S[n] - S[cut] /\ S[n] \in Nat /\ S[cut] \in Nat
    BY <1>3, <1>6, <2>1, <2>2 DEF Bytes
  <2>4. cut = n \/ S[n] <= maxBytes
    BY DEF Bytes
  <2> HIDE DEF S
  <2> QED BY <2>3, <2>4
<1>10. Whole(source, maxBytes, text, first)
  <2>1. \A j \in 1..cut : j \in 1..n /\ 0 + j = j
    BY <1>1
  <2>2. \A j \in 1..Len(text) : text[j] = first + j - 1
    BY <1>2, <1>4, <2>1
  <2> QED BY <1>2, <1>8, <2>2 DEF Whole
<1>11. Whole(source, maxBytes, tail, first + cut)
  <2>1. \A j \in 1..(n - cut) : cut + j \in 1..n /\ first + (cut + j) - 1 = (first + cut) + j - 1
    BY <1>1
  <2>2. \A j \in 1..Len(tail) : tail[j] = (first + cut) + j - 1
    BY <1>3, <1>4, <2>1
  <2>3. ASSUME tail # <<>> PROVE Sums(source, tail)[Len(tail) - 1] <= maxBytes
    <3>1. Len(tail) \in 1..Len(tail) /\ Len(tail) \in 0..Len(tail) /\ Len(tail) - 1 \in 0..Len(tail)
      BY <1>3, <2>3
    <3>2. /\ Sums(source, tail)[Len(tail) - 1] \in Nat
          /\ Sums(source, tail)[Len(tail)] \in Nat
      BY <1>3, <3>1, SumsType
    <3>3. Sums(source, tail)[Len(tail) - 1] <= Sums(source, tail)[Len(tail)]
      BY <1>3, <3>1, SumsType
    <3> QED BY <1>9, <3>2, <3>3 DEF Bytes
  <2>4. first + cut \in Nat \ {0}
    BY <1>1
  <2> QED BY <1>3, <2>2, <2>3, <2>4 DEF Whole
<1>12. text # <<>>
  BY <1>1, <1>2
<1> QED BY <1>2, <1>3, <1>9, <1>10, <1>11, <1>12

LEMMA FlushedIsReady ==
  ASSUME NEW source \in Seq(Lines(Nat)), NEW maxBytes \in Nat, NEW l \in 1..Len(source),
         NEW made, NEW cur \in Seq(1..Len(source)), NEW n \in Nat, n = Len(cur),
         NEW first \in Nat \ {0}, first + n = l,
         Whole(source, maxBytes, cur, first), Made(source, maxBytes, made, first - 1),
         NEW cut \in 1..n, cut = n \/ Bytes(source, cur) <= maxBytes,
         NEW text, NEW tail, Parts(cur, cut, text, tail),
         NEW new, new = [chunks |-> Append(made, Chunk(text, first)), current |-> tail,
                         startLine |-> first + cut, lastBlank |-> -1]
  PROVE  Ready(source, maxBytes, new, l)
<1>1. /\ Whole(source, maxBytes, text, first) /\ Len(text) = cut /\ text # <<>>
      /\ Whole(source, maxBytes, tail, first + cut) /\ Len(tail) = n - cut
      /\ Bytes(source, tail) <= maxBytes
  BY CutInTwo
<1>2. /\ Append(made, Chunk(text, first)) \in Seq(Chunks(source))
      /\ Made(source, maxBytes, Append(made, Chunk(text, first)), first + cut - 1)
  BY <1>1, AppendMade
<1>3. tail \in Seq(1..Len(source)) /\ first + cut \in Nat \ {0}
  BY <1>1 DEF Whole
<1>4. (first + cut) + Len(tail) = (l - 1) + 1
  <2>1. cut \in Nat /\ Len(tail) = n - cut /\ first + n = l
    BY <1>1
  <2> QED BY ONLY <2>1, n \in Nat, first \in Nat \ {0}, l \in 1..Len(source)
<1>5. /\ new.chunks = Append(made, Chunk(text, first)) /\ new.current = tail
      /\ new.startLine = first + cut /\ new.lastBlank = -1
      /\ new \in [chunks : Seq(Chunks(source)), current : Seq(1..Len(source)),
                  startLine : Nat \ {0}, lastBlank : Int]
  BY <1>2, <1>3
<1>6. Going(source, maxBytes, new, l - 1)
  <2>1. Made(source, maxBytes, new.chunks, new.startLine - 1)
    BY <1>2, <1>5
  <2>2. Whole(source, maxBytes, new.current, new.startLine)
    BY <1>1, <1>5
  <2>3. new.startLine + Len(new.current) = (l - 1) + 1
    BY <1>4, <1>5
  <2>4. new.lastBlank \in {-1} \cup 1..Len(new.current)
    BY <1>5
  <2> QED BY <1>5, <2>1, <2>2, <2>3, <2>4, Zenon DEF Going
<1> QED BY <1>1, <1>5, <1>6 DEF Ready

LEMMA FlushIsReady ==
  ASSUME NEW source \in Seq(Lines(Nat)), NEW maxBytes \in Nat, NEW l \in 1..Len(source),
         NEW st, Scanned(source, maxBytes, st, l - 1), st.current # <<>>
  PROVE  Ready(source, maxBytes, Flush(st, l), l)
<1> DEFINE n == Len(st.current)
           cut == IF st.lastBlank > 0 THEN st.lastBlank ELSE Len(st.current)
           text == SubSeq(st.current, 1, cut)
           tail == SubSeq(st.current, cut + 1, n)
<1>1. /\ st.current \in Seq(1..Len(source)) /\ n \in Nat \ {0} /\ n = Len(st.current)
      /\ st.startLine \in Nat \ {0} /\ st.startLine + n = l
      /\ Whole(source, maxBytes, st.current, st.startLine)
      /\ Made(source, maxBytes, st.chunks, st.startLine - 1)
      /\ st.lastBlank \in {-1} \cup 1..n
      /\ st.lastBlank \in {-1, n} \/ Bytes(source, st.current) <= maxBytes
  BY DEF Scanned, Going
<1>2. cut \in 1..n /\ (cut = n \/ Bytes(source, st.current) <= maxBytes)
  BY <1>1
<1>3. (IF st.lastBlank > 0 THEN st.startLine + cut ELSE l) = st.startLine + cut
  BY <1>1
<1>4. Flush(st, l) = [chunks |-> Append(st.chunks, Chunk(text, st.startLine)), current |-> tail,
                      startLine |-> st.startLine + cut, lastBlank |-> -1]
  BY <1>3 DEF Flush
<1>5. Parts(st.current, cut, text, tail)
  BY DEF Parts
<1> HIDE DEF n, cut, text, tail
<1> QED BY <1>1, <1>2, <1>4, <1>5, FlushedIsReady

LEMMA PushIsScanned ==
  ASSUME NEW source \in Seq(Lines(Nat)), NEW maxBytes \in Nat, NEW l \in 1..Len(source),
         NEW st, Ready(source, maxBytes, st, l)
  PROVE  Scanned(source, maxBytes, Push(source, st, l), l)
<1> DEFINE cur == st.current
           n == Len(cur)
           more == Append(cur, l)
           new == Push(source, st, l)
<1>1. /\ cur \in Seq(1..Len(source)) /\ n \in Nat
      /\ st.startLine \in Nat \ {0} /\ st.startLine + n = l
      /\ \A j \in 1..n : cur[j] = st.startLine + j - 1
      /\ Bytes(source, cur) <= maxBytes
      /\ st.lastBlank \in {-1} \cup 1..n
      /\ st.lastBlank = -1 \/ Bytes(source, cur) + source[l].len + 1 <= maxBytes
  BY DEF Ready, Going, Whole
<1>2. /\ more \in Seq(1..Len(source)) /\ Len(more) = n + 1 /\ more[n + 1] = l
      /\ \A j \in 1..n : more[j] = cur[j]
      /\ more # <<>>
  <2>1. l \in 1..Len(source) /\ cur \in Seq(1..Len(source))
    BY <1>1
  <2> HIDE DEF cur
  <2>2. /\ Append(cur, l) \in Seq(1..Len(source)) /\ Len(Append(cur, l)) = Len(cur) + 1
        /\ Append(cur, l) # <<>> /\ Append(cur, l)[Len(cur) + 1] = l
        /\ \A j \in 1..Len(cur) : Append(cur, l)[j] = cur[j]
    BY ONLY <2>1, Appended
  <2> QED BY <2>2
<1>3. /\ new.chunks = st.chunks /\ new.current = more /\ new.startLine = st.startLine
      /\ new.lastBlank = IF source[l].blank THEN n + 1 ELSE st.lastBlank
      /\ new \in [chunks : Seq(Chunks(source)), current : Seq(1..Len(source)),
                  startLine : Nat \ {0}, lastBlank : Int]
  <2>1. new = [st EXCEPT !.current = more,
                         !.lastBlank = IF source[l].blank THEN n + 1 ELSE st.lastBlank]
    BY <1>2 DEF Push
  <2>2. /\ st \in [chunks : Seq(Chunks(source)), current : Seq(1..Len(source)),
                   startLine : Nat \ {0}, lastBlank : Int]
        /\ n + 1 \in Int /\ st.lastBlank \in Int
    BY <1>1 DEF Ready, Going
  <2> HIDE DEF more, new, n
  <2> QED BY <1>2, <2>1, <2>2
<1> HIDE DEF more, new, cur, n
<1>4. Sums(source, more)[n] = Bytes(source, cur)
  <2>1. /\ 0 \in Nat /\ n = 0 + n /\ n <= Len(more) /\ n <= Len(cur)
        /\ \A j \in 1..n : cur[j] = more[0 + j]
        /\ cur \in Seq(1..Len(source)) /\ more \in Seq(1..Len(source)) /\ n \in Nat
    BY <1>1, <1>2 DEF n
  <2>2. Sums(source, cur)[n] = Sums(source, more)[n] - Sums(source, more)[0]
    BY <2>1, SumsShift
  <2>3. n \in 0..Len(more) /\ Len(more) \in Nat
    BY <1>1, <1>2
  <2>4. Sums(source, more)[0] = 0
    BY <2>3, SumsDef
  <2>5. Sums(source, more)[n] \in Nat
    BY <1>2, <2>3, SumsType
  <2> QED BY <2>1, <2>2, <2>4, <2>5 DEF Bytes, n
<1>5. Bytes(source, more) = Bytes(source, cur) + source[l].len + 1
  <2>1. Len(more) \in Nat /\ n + 1 \in 1..Len(more) /\ (n + 1) - 1 = n
    BY <1>1, <1>2
  <2>2. Sums(source, more)[n + 1] = Sums(source, more)[(n + 1) - 1] + source[more[n + 1]].len + 1
    BY <2>1, SumsDef
  <2> QED BY <1>2, <1>4, <2>1, <2>2 DEF Bytes
<1>6. Whole(source, maxBytes, more, st.startLine)
  <2>1. ASSUME NEW j \in 1..Len(more) PROVE more[j] = st.startLine + j - 1
    <3>1. CASE j = n + 1
      BY <1>1, <1>2, <3>1
    <3>2. CASE j \in 1..n
      BY <1>1, <1>2, <3>2
    <3> QED BY <1>1, <1>2, <3>1, <3>2
  <2>2. Len(more) - 1 = n
    BY <1>1, <1>2
  <2> QED BY <1>1, <1>2, <1>4, <2>1, <2>2 DEF Whole
<1>7. new.startLine + Len(new.current) = l + 1
  BY <1>1, <1>2, <1>3
<1>8. /\ new.lastBlank \in {-1} \cup 1..Len(new.current)
      /\ new.lastBlank \in {-1, Len(new.current)} \/ Bytes(source, new.current) <= maxBytes
  BY <1>1, <1>2, <1>3, <1>5
<1>9. Going(source, maxBytes, new, l)
  <2>1. Made(source, maxBytes, new.chunks, new.startLine - 1)
    BY <1>3 DEF Ready, Going
  <2> QED BY <1>3, <1>6, <1>7, <1>8, <2>1 DEF Going
<1> QED BY <1>2, <1>3, <1>8, <1>9 DEF Scanned, new

LEMMA ScanIsScanned ==
  ASSUME NEW source \in Seq(Lines(Nat)), NEW maxBytes \in Nat
  PROVE  \A l \in 0..Len(source) : Scanned(source, maxBytes, Scan(source, maxBytes)[l], l)
<1> DEFINE f == Scan(source, maxBytes)
           T == {l \in Nat : l <= Len(source) => Scanned(source, maxBytes, f[l], l)}
<1>0. Len(source) \in Nat
  OBVIOUS
<1>1. \A l \in 0..Len(source) : f[l] = Steps(source, maxBytes, f, l)
  BY <1>0, ScanDef
<1> HIDE DEF f
<1>2. 0 \in T
  <2>1. f[0] = [chunks |-> <<>>, current |-> <<>>, startLine |-> 1, lastBlank |-> -1]
    BY <1>0, <1>1 DEF Steps
  <2>2. Made(source, maxBytes, <<>>, 0) /\ Whole(source, maxBytes, <<>>, 1)
    BY DEF Made, Whole
  <2>3. Going(source, maxBytes, f[0], 0)
    BY <2>1, <2>2 DEF Going
  <2>4. Scanned(source, maxBytes, f[0], 0)
    BY <2>1, <2>3 DEF Scanned
  <2> QED BY <2>4
<1>3. ASSUME NEW m \in T, m < Len(source) PROVE m + 1 \in T
  <2> DEFINE l == m + 1
  <2>1. l \in 1..Len(source) /\ l \in 0..Len(source) /\ l - 1 = m /\ l # 0 /\ l \in Nat
    BY <1>0, <1>3
  <2>2. Scanned(source, maxBytes, f[l - 1], l - 1)
    BY <1>0, <1>3, <2>1
  <2> HIDE DEF l
  <2>3. f[l] = Push(source, IF Full(source, maxBytes, f[l - 1], l) THEN Flush(f[l - 1], l)
                            ELSE f[l - 1], l)
    BY <1>1, <2>1 DEF Steps
  <2>4. CASE Full(source, maxBytes, f[l - 1], l)
    <3>1. Ready(source, maxBytes, Flush(f[l - 1], l), l)
      BY <2>1, <2>2, <2>4, FlushIsReady DEF Full
    <3> QED BY <2>1, <2>3, <2>4, <3>1, PushIsScanned DEF l
  <2>5. CASE ~Full(source, maxBytes, f[l - 1], l)
    <3> DEFINE cur == f[l - 1].current
    <3>1. /\ Bytes(source, cur) \in Nat /\ source[l].len \in Nat
          /\ cur = <<>> => Bytes(source, cur) = 0
      <4>1. cur \in Seq(1..Len(source)) /\ Len(cur) \in 0..Len(cur) /\ Len(cur) \in Nat
        BY <2>2 DEF Scanned, Going
      <4>2. source[l] \in Lines(Nat)
        BY <2>1
      <4>3. Bytes(source, cur) \in Nat
        BY <4>1, SumsType DEF Bytes
      <4>4. ASSUME cur = <<>> PROVE Bytes(source, cur) = 0
        <5>1. Len(cur) = 0
          BY <4>4
        <5>2. Sums(source, cur)[0] = 0
          BY <4>1, SumsDef
        <5> QED BY <5>1, <5>2 DEF Bytes
      <4> QED BY <4>2, <4>3, <4>4 DEF Lines
    <3>2. /\ Going(source, maxBytes, f[l - 1], l - 1)
          /\ f[l - 1].lastBlank \in {-1} \cup 1..Len(cur)
      BY <2>2 DEF Scanned, Going
    <3>3. cur = <<>> => f[l - 1].lastBlank = -1
      BY <3>2
    <3>4. cur = <<>> \/ ~(Bytes(source, cur) + source[l].len + 1 > maxBytes)
      BY <2>5 DEF Full
    <3>5. Ready(source, maxBytes, f[l - 1], l)
      BY <3>1, <3>2, <3>3, <3>4 DEF Ready
    <3> QED BY <2>1, <2>3, <2>5, <3>5, PushIsScanned DEF l
  <2> QED BY <2>4, <2>5
<1>4. 0..Len(source) \subseteq T
  <2>1. T \in SUBSET Nat
    BY DEF T
  <2> HIDE DEF T
  <2> QED BY <1>0, <1>2, <1>3, <2>1, Induction
<1> QED BY <1>0, <1>4 DEF f

LEMMA MadeIsPartition ==
  ASSUME NEW source \in Seq(Lines(Nat)) \ {<<>>}, NEW maxBytes \in Nat, NEW made,
         Made(source, maxBytes, made, Len(source))
  PROVE  Partition(source, made) /\ Overshoot(source, made, maxBytes)
<1>0. Len(source) \in Nat \ {0}
  OBVIOUS
<1>1. /\ made \in Seq(Chunks(source)) /\ made # <<>> /\ Len(made) \in Nat \ {0}
      /\ made[Len(made)].endLine = Len(source)
      /\ DOMAIN made = 1..Len(made)
  BY <1>0 DEF Made
<1>2. \A k \in 1..Len(made) :
        /\ Whole(source, maxBytes, made[k].text, made[k].startLine)
        /\ made[k].text # <<>>
        /\ made[k].endLine = made[k].startLine + Len(made[k].text) - 1
        /\ IF k = 1 THEN made[k].startLine = 1
           ELSE made[k].startLine = made[k - 1].endLine + 1
  BY DEF Made
<1>3. Partition(source, made)
  <2>1. made[1].startLine = 1
    BY <1>1, <1>2
  <2>2. ASSUME NEW k \in 1..Len(made)
        PROVE  /\ made[k].text # <<>>
               /\ made[k].endLine = made[k].startLine + Len(made[k].text) - 1
               /\ \A j \in 1..Len(made[k].text) : made[k].text[j] = made[k].startLine + j - 1
               /\ k > 1 => made[k].startLine = made[k - 1].endLine + 1
    BY <1>2 DEF Whole
  <2> QED BY <1>1, <2>1, <2>2 DEF Partition
<1>4. ASSUME NEW k \in DOMAIN made
      PROVE  Bytes(source, SubSeq(made[k].text, 1, Len(made[k].text) - 1)) <= maxBytes
  <2> DEFINE text == made[k].text
             m == Len(text) - 1
             init == SubSeq(text, 1, m)
  <2>1. /\ text \in Seq(1..Len(source)) /\ text # <<>> /\ Sums(source, text)[m] <= maxBytes
    BY <1>1, <1>2 DEF Whole
  <2>2. /\ m \in Nat /\ m <= Len(text) /\ Len(text) \in Nat /\ m \in 0..Len(text)
        /\ 0 \in Nat /\ 0 + m = m /\ 1 \in Nat \ {0} /\ 1 <= m + 1 /\ m - 1 + 1 = m
    BY <2>1
  <2> HIDE DEF text, m
  <2>3. /\ init \in Seq(1..Len(source)) /\ Len(init) = m - 1 + 1
        /\ \A j \in 1..(m - 1 + 1) : init[j] = text[1 + j - 1]
    BY <2>1, <2>2, Slice
  <2>4. /\ init \in Seq(1..Len(source)) /\ Len(init) = m
        /\ \A j \in 1..m : init[j] = text[0 + j]
    BY <2>2, <2>3
  <2> HIDE DEF init
  <2>5. Sums(source, init)[m] = Sums(source, text)[m] - Sums(source, text)[0]
    <3>1. /\ text \in Seq(1..Len(source)) /\ init \in Seq(1..Len(source)) /\ 0 \in Nat
          /\ m \in Nat /\ m = 0 + m /\ m <= Len(text) /\ m <= Len(init)
          /\ \A j \in 1..m : init[j] = text[0 + j]
      BY <2>1, <2>2, <2>4
    <3> QED BY <3>1, SumsShift
  <2>6. Sums(source, text)[0] = 0
    BY <2>2, SumsDef
  <2>7. Sums(source, text)[m] \in Nat
    BY <2>1, <2>2, SumsType
  <2>8. Bytes(source, init) = Sums(source, text)[m]
    BY <2>2, <2>4, <2>5, <2>6, <2>7 DEF Bytes
  <2> QED BY <2>1, <2>8 DEF init, m, text
<1> QED BY <1>3, <1>4 DEF Overshoot

LEMMA NumbersAre ==
  ASSUME NEW source \in Seq(Lines(Nat))
  PROVE  /\ Numbers(source) \in Seq(1..Len(source)) /\ Len(Numbers(source)) = Len(source)
         /\ \A j \in 1..Len(source) : Numbers(source)[j] = j
<1>1. Len(source) \in Nat
  OBVIOUS
<1> QED BY <1>1 DEF Numbers

-----------------------------------------------------------------------------
(* Theorems                                                                *)

(* The handler's, the tasks' and the manager's state keeps its types.      *)
THEOREM CouncilTypeCorrect == Spec => []TypeOK
<1>1. IInv => TypeOK
  BY DEF IInv
<1> QED BY <1>1, Invariance, PTL

(* "concurrent ... calls don't spawn agents with colliding names": the     *)
(* agent that a reviewer looks up under its id, asks and kills is the one  *)
(* it spawned.                                                             *)
THEOREM CouncilAgentIsOwn == Spec => []AgentIsOwn
<1>1. IInv => AgentIsOwn
  BY DEF IInv, AgentIsOwn, Tasked
<1> QED BY <1>1, Invariance, PTL

(* When council.review returns, kill has returned for every agent it       *)
(* spawned, each of their programs has ended or has been told to, and none *)
(* of their ids is taken.                                                  *)
THEOREM CouncilLeavesNothing == Spec => []NothingLeftBehind
<1>1. ASSUME IInv PROVE NothingLeftBehind
  <2> SUFFICES ASSUME stage = "returned", NEW t \in Tasks
               PROVE  agents[t] = None /\ Released(t)
    BY DEF NothingLeftBehind
  <2>1. \A u \in Tasks : phase[u] \in {"idle", "done"} /\ Tasked(u)
    BY <1>1 DEF IInv, Staged, Tasked, Panel
  <2>2. agents[t] = None
    BY <1>1, <2>1
       DEF IInv, TypeOK, Manager!ManagerTypeOK, Entries, Tasked
  <2>3. Released(t)
    BY <2>1 DEF Tasked, Released
  <2> QED BY <2>2, <2>3
<1> QED BY <1>1, Invariance, PTL

(* The chair is spawned only when kill has returned for every reviewer's   *)
(* agent and at least one review has succeeded.                            *)
THEOREM CouncilChairIsLast == Spec => []ChairComesLast
<1>1. ASSUME IInv PROVE ChairComesLast
  <2> SUFFICES ASSUME pc[Chair] # "new"
               PROVE  /\ Succeeded # {} /\ ~review.noChair
                      /\ \A t \in ReviewTasks :
                           result[t] # "none" /\ Released(t)
    BY DEF ChairComesLast
  <2>1. Chair \in Tasks /\ ReviewTasks \subseteq Tasks
    BY <1>1, PlanIsNamed DEF IInv, TypeOK, ReviewTasks, Tasks
  <2>2. phase[Chair] # "idle"
    BY <1>1, <2>1 DEF IInv, Tasked
  <2>3. \A t \in ReviewTasks : phase[t] = "done"
    BY <1>1, <2>1, <2>2 DEF IInv, TypeOK, Staged
  <2>4. \A t \in ReviewTasks : result[t] # "none" /\ Released(t)
    BY <1>1, <2>1, <2>3 DEF IInv, Tasked, Released
  <2> QED BY <1>1, <2>2, <2>4 DEF IInv, Staged
<1> QED BY <1>1, Invariance, PTL

(* chunkByLines: the chunks are the source, line by line and under the     *)
(* numbers its lines have, and each exceeds the limit by less than a line, *)
(* for every source and every limit.                                       *)
THEOREM ChunksAreTheSource ==
  ASSUME NEW source \in Seq(Lines(Nat)) \ {<<>>}, NEW maxBytes \in Nat
  PROVE  /\ Partition(source, ChunkByLines(source, maxBytes))
         /\ Overshoot(source, ChunkByLines(source, maxBytes), maxBytes)
<1> DEFINE n == Len(source)
           end == Scan(source, maxBytes)[n]
<1>0. source \in Seq(Lines(Nat)) /\ n \in Nat \ {0} /\ n \in 0..n
  OBVIOUS
<1>1. CASE Size(source) <= maxBytes
  <2> DEFINE all == Numbers(source)
  <2>1. /\ all \in Seq(1..n) /\ Len(all) = n /\ all # <<>>
        /\ \A j \in 1..n : all[j] = j
    BY <1>0, NumbersAre
  <2> HIDE DEF n
  <2>2. Sums(source, all)[n - 1] <= maxBytes
    <3>1. n \in 1..Len(all) /\ n \in 0..Len(all) /\ n - 1 \in 0..Len(all) /\ Len(all) \in Nat
      BY <1>0, <2>1
    <3>2. all \in Seq(1..Len(source))
      BY <2>1 DEF n
    <3>3. Sums(source, all)[n] = Sums(source, all)[n - 1] + source[all[n]].len + 1
      BY <3>1, SumsDef
    <3>4. Sums(source, all)[n - 1] \in Nat
      BY <1>0, <3>1, <3>2, SumsType
    <3>5. source[all[n]].len \in Nat
      BY <1>0, <3>1, <3>2, LineBytes
    <3>6. Size(source) = Sums(source, all)[n] - 1
      BY <2>1 DEF Size, Bytes
    <3> QED BY <1>1, <3>3, <3>4, <3>5, <3>6
  <2>3. Whole(source, maxBytes, all, 1)
    <3>1. \A j \in 1..Len(all) : all[j] = 1 + j - 1
      BY <1>0, <2>1
    <3> QED BY <2>1, <2>2, <3>1 DEF Whole, n
  <2>4. Made(source, maxBytes, <<>>, 1 - 1)
    BY DEF Made
  <2>5. Made(source, maxBytes, Append(<<>>, Chunk(all, 1)), 1 + Len(all) - 1)
    BY <1>0, <2>1, <2>3, <2>4, AppendMade
  <2>6. Append(<<>>, Chunk(all, 1)) = <<Chunk(all, 1)>> /\ 1 + Len(all) - 1 = Len(source)
    BY <1>0, <2>1 DEF n
  <2>7. ChunkByLines(source, maxBytes) = <<Chunk(all, 1)>>
    BY <1>1 DEF ChunkByLines
  <2> QED BY <2>5, <2>6, <2>7, MadeIsPartition
<1>2. CASE ~(Size(source) <= maxBytes)
  <2>1. Scanned(source, maxBytes, end, n)
    BY <1>0, ScanIsScanned
  <2>2. ChunkByLines(source, maxBytes) = Append(end.chunks, Chunk(end.current, end.startLine))
    BY <1>2 DEF ChunkByLines
  <2> HIDE DEF end
  <2>3. /\ Made(source, maxBytes, end.chunks, end.startLine - 1)
        /\ Whole(source, maxBytes, end.current, end.startLine) /\ end.current # <<>>
        /\ end.startLine + Len(end.current) - 1 = n
    BY <1>0, <2>1 DEF Scanned, Going
  <2>4. Made(source, maxBytes, ChunkByLines(source, maxBytes), Len(source))
    <3>1. Made(source, maxBytes, Append(end.chunks, Chunk(end.current, end.startLine)),
               end.startLine + Len(end.current) - 1)
      BY <1>0, <2>3, AppendMade
    <3> QED BY <2>2, <2>3, <3>1
  <2> QED BY <2>4, MadeIsPartition
<1> QED BY <1>1, <1>2

(* "other chunks are being reviewed separately": once the council has      *)
(* convened, each reviewer has been asked about the whole source, in one   *)
(* piece or as all of the chunks, which partition it and carry its line    *)
(* numbers.                                                                *)
THEOREM CouncilSeesTheSource == Spec => []AllOfTheSourceIsSeen
<1>1. ASSUME IInv, Called PROVE AllOfTheSourceIsSeen
  <2> SUFFICES ASSUME stage \notin {"called", "refused"}, NEW i \in DOMAIN review.panel
               PROVE  LET mine == {t \in Tasks : t[1] = i /\ phase[t] # "idle"}
                      IN mine = {<<i, 0>>}
                         \/ /\ Partition(review.source, chunks)
                            /\ Overshoot(review.source, chunks, MaxChunkBytes)
                            /\ mine = {i} \X DOMAIN chunks
    BY DEF AllOfTheSourceIsSeen
  <2> DEFINE mine == {t \in Tasks : t[1] = i /\ phase[t] # "idle"}
  <2>1. /\ chunks = Cut /\ \A t \in ReviewTasks : phase[t] # "idle"
        /\ ReviewTasks \subseteq Tasks /\ review \in Reviews
        /\ i \in 1..MaxReviewers
    BY <1>1, CouncilAssumption, PlanIsNamed DEF Called, IInv, TypeOK, ReviewTasks
  <2>2. \A t \in Tasks : t[1] = i /\ phase[t] # "idle" => t \in ReviewTasks
    BY <1>1, <2>1, CouncilAssumption DEF IInv, Tasked, Panel, Chair
  <2>3. mine = {t \in ReviewTasks : t[1] = i}
    BY <2>1, <2>2
  <2> HIDE DEF mine
  <2>4. CASE i \in ToolCapable
    <3>1. i \notin Inline
      BY <2>4 DEF Inline
    <3>2. mine = {<<i, 0>>}
      BY <2>3, <2>4, <3>1 DEF ReviewTasks, TasksFor
    <3> QED BY <3>2 DEF mine
  <2>5. CASE i \notin ToolCapable
    <3>1. i \in Inline
      BY <2>5 DEF Inline
    <3>2. mine = {i} \X DOMAIN chunks
      BY <2>3, <2>5, <3>1 DEF ReviewTasks, TasksFor
    <3>3. chunks = ChunkByLines(review.source, MaxChunkBytes)
      BY <2>1, <3>1 DEF Cut
    <3>4. review.source \in Seq(Lines(Nat)) \ {<<>>} /\ MaxChunkBytes \in Nat
      BY <2>1, CouncilAssumption
    <3>5. /\ Partition(review.source, chunks)
          /\ Overshoot(review.source, chunks, MaxChunkBytes)
      BY <3>3, <3>4, ChunksAreTheSource
    <3> QED BY <3>2, <3>5 DEF mine
  <2> QED BY <2>4, <2>5
<1> QED BY <1>1, Invariance, AllCalled, PTL
=============================================================================
