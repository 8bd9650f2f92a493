---------------------------- MODULE Engine_proofs ----------------------------
(***************************************************************************)
(* Proofs about AgentManager and Engine, for any number of spawn calls,    *)
(* ids and runtime modes, and for callers that race for an id or spawn     *)
(* during a teardown.                                                      *)
(*                                                                         *)
(* The argument: whoever awaits its factory for an id is the rival of all  *)
(* who do for the same id, also of one that has been registered meanwhile  *)
(* (Contested), so the entry of a living agent is taken only by a rival. A *)
(* controller whose flag is set has told every program it could reach      *)
(* (Programs). Once a teardown has begun, what still lives, was announced  *)
(* before and has kept its id is in the list of every killAll that was     *)
(* called, and a teardown gets past its killAll only when the flags of its *)
(* list are set (Draining).                                                *)
(***************************************************************************)
EXTENDS Engine, TLAPS

(* A spawn under way has an id, a living runtime has a finished spawn.     *)
Named ==
  \A s \in Spawns :
    /\ pc[s] \in {"building", "done"} => id[s] \in Ids
    /\ pc[s] = "building" => runtime[s] \in {"starting", "exited"}
    /\ pc[s] = "done" => runtime[s] \in {"live", "dying", "exited"}
    /\ pc[s] \in {"new", "probing", "failed"} => runtime[s] = "none"

(* An entry of the registry is a finished spawn of that id.                *)
Entries ==
  \A i \in Ids : agents[i] # None => pc[agents[i]] = "done" /\ id[agents[i]] = i

(* Who awaits a factory for an id that another one has or awaits is its    *)
(* rival.                                                                  *)
Contested ==
  \A s \in Spawns : pc[s] = "building" =>
    /\ agents[id[s]] # None => <<agents[id[s]], s>> \in rivals
    /\ \A t \in Spawns \ {s} : pc[t] = "building" /\ id[t] = id[s] => <<t, s>> \in rivals

Registry == TypeOK /\ Named /\ Entries /\ Contested /\ LiveIsRegistered

(* The flag is set only when the programs have been told.                  *)
Programs ==
  \A s \in Spawns :
    /\ runtime[s] \in {"dying", "exited"} => "running" \notin processes[s]
    /\ runtime[s] = "exited" /\ mode[s] = "pty" => processes[s] = {}

(* Announced too late, or not to be found any more.                        *)
Excused(s) == s \in late \/ (HasRival(s) /\ agents[id[s]] # s)

Begun(t) == teardown[t] # "none"
Past(t)  == teardown[t] \in {"destroying", "closing"}

(* Before the instance file there is no agent, and nothing stops.          *)
NoneYet == stage = "loading" => ~stopping /\ \A s \in Spawns : pc[s] = "new"

(* The list of a killAll has all it should; it is awaited.                 *)
Awaited(t) ==
  /\ Begun(t) =>
       /\ stopping
       /\ \A s \in Spawns :
            pc[s] = "done" /\ runtime[s] # "exited" => Excused(s) \/ s \in doomed[t]
  /\ \A s \in doomed[t] : pc[s] = "done"
  /\ Past(t) => doomed[t] = {}
  /\ destroyed[t] # {} => Past(t)

AllExited ==
  \A s \in Spawns : pc[s] = "done" => Excused(s) \/ runtime[s] = "exited"

Draining ==
  /\ NoneYet
  /\ \A t \in Teardowns : Awaited(t)
  /\ stage = "down" => AllExited

-----------------------------------------------------------------------------
LEMMA ToldTyped ==
  ASSUME NEW p \in SUBSET Kinds
  PROVE  /\ Told(p) \in SUBSET Kinds /\ "running" \notin Told(p)
         /\ Lost(p) \in SUBSET Kinds /\ "running" \notin Lost(p)
BY DEF Told, Lost, Kinds

LEMMA StartedTyped == \A m : Started(m) \subseteq SUBSET Kinds
BY DEF Started, Kinds

LEMMA TypeInit == Init => TypeOK
<1> SUFFICES ASSUME Init PROVE TypeOK
  OBVIOUS
<1>1. ManagerTypeOK
  BY ManagerAssumption DEF Init, ManagerInit, NoAgents, ManagerTypeOK, All
<1>2. \A t \in Teardowns : {} \in SUBSET Spawns /\ {} \in SUBSET Modes
  OBVIOUS
<1> QED BY <1>1, <1>2 DEF Init, TypeOK

LEMMA TypeProgress ==
  ASSUME ManagerTypeOK, NEW s \in Spawns, Progress(s)
  PROVE  ManagerTypeOK'
<1> USE DEF ManagerTypeOK, callVars, agentVars
<1>1. CASE SpawnUnavailable(s) \/ SpawnInUse(s)
  BY <1>1 DEF SpawnUnavailable, SpawnInUse, Fails
<1>2. ASSUME NEW i \in Ids, NEW m \in All, SpawnBuild(s, i, m) PROVE ManagerTypeOK'
  <2>1. PICK p \in Started(m) : processes' = [processes EXCEPT ![s] = p]
    BY <1>2 DEF SpawnBuild
  <2>2. p \in SUBSET Kinds
    BY StartedTyped
  <2>3. processes' \in [Spawns -> SUBSET Kinds]
    BY <2>1, <2>2
  <2> QED BY <1>2, <2>3 DEF SpawnBuild
<1>3. CASE SpawnRegister(s)
  BY <1>3 DEF SpawnRegister
<1>4. CASE SpawnAborted(s)
  <2>1. Lost(processes[s]) \in SUBSET Kinds
    BY ToldTyped
  <2> QED BY <1>4, <2>1 DEF SpawnAborted, Fails
<1>5. CASE ProcessEnds(s)
  <2>1. PICK k \in processes[s] :
          IF mode[s] \in Lasting THEN processes' = [processes EXCEPT ![s] = {}]
          ELSE \E rest \in {processes[s], processes[s] \ {k}} :
                 processes' = [processes EXCEPT ![s] = Lost(rest)]
    BY <1>5 DEF ProcessEnds
  <2>2. \A rest \in {processes[s], processes[s] \ {k}} : Lost(rest) \in SUBSET Kinds
    BY ToldTyped
  <2>3. processes' \in [Spawns -> SUBSET Kinds]
    BY <2>1, <2>2
  <2> QED BY <1>5, <2>3 DEF ProcessEnds
<1>6. CASE ConnectionClosed(s)
  <2>1. Lost(processes[s]) \in SUBSET Kinds
    BY ToldTyped
  <2> QED BY <1>6, <2>1 DEF ConnectionClosed
<1>7. CASE ChildTimesOut(s)
  <2>1. Told(processes[s]) \in SUBSET Kinds
    BY ToldTyped
  <2> QED BY <1>7, <2>1 DEF ChildTimesOut
<1> QED BY <1>1, <1>2, <1>3, <1>4, <1>5, <1>6, <1>7 DEF Progress

LEMMA TypeKill ==
  ASSUME ManagerTypeOK, NEW S, KillRuntimes(S)
  PROVE  /\ runtime' \in [Spawns -> {"none", "starting", "live", "dying", "exited"}]
         /\ processes' \in [Spawns -> SUBSET Kinds]
<1> USE DEF ManagerTypeOK, KillRuntimes
<1>1. \A s \in Spawns : Told(processes[s]) \in SUBSET Kinds
  BY ToldTyped
<1> QED BY <1>1

LEMMA TypeStep == TypeOK /\ [Next]_vars => TypeOK'
<1> SUFFICES ASSUME TypeOK, [Next]_vars PROVE TypeOK'
  OBVIOUS
<1> USE ManagerAssumption
  DEF TypeOK, ManagerTypeOK, engineVars, teardownVars, historyVars, callVars, agentVars
<1>1. CASE UNCHANGED vars
  BY <1>1 DEF vars, managerVars
<1>2. ASSUME NEW m \in Modes, LoadPlugin(m) PROVE TypeOK'
  BY <1>2 DEF LoadPlugin, RegisterRuntime, All
<1>3. CASE LoadFails \/ Publish
  BY <1>3 DEF LoadFails, Publish, managerVars
<1>4. CASE Serve
  <2>1. ASSUME NEW s \in Spawns, SpawnCall(s) PROVE TypeOK'
    BY <1>4, <2>1 DEF Serve, SpawnCall, Fails
  <2>2. ASSUME NEW s \in Spawns, ChildStarts(s) PROVE TypeOK'
    <3>1. Told(processes[s]) \cup {"running"} \in SUBSET Kinds
      BY ToldTyped DEF Kinds
    <3> QED BY <1>4, <2>2, <3>1 DEF Serve, ChildStarts
  <2>3. ASSUME NEW i \in Ids, Kill(i) PROVE TypeOK'
    BY <1>4, <2>3, TypeKill DEF Serve, Kill
  <2>4. ASSUME NEW i \in Ids, Remove(i) PROVE TypeOK'
    BY <1>4, <2>4 DEF Serve, Remove
  <2> QED BY <1>4, <2>1, <2>2, <2>3, <2>4 DEF Serve
<1>5. ASSUME NEW s \in Spawns, Run(s) PROVE TypeOK'
  <2>1. ManagerTypeOK'
    BY <1>5, TypeProgress DEF Run
  <2>2. rivals' \subseteq Spawns \X Spawns /\ late' \subseteq Spawns
    BY <1>5 DEF Run, InFlight
  <2> QED BY <1>5, <2>1, <2>2 DEF Run
<1>6. ASSUME NEW t \in Teardowns, Begin(t) PROVE TypeOK'
  <2>1. doomed' \in [Teardowns -> SUBSET Spawns]
    BY <1>6 DEF Begin, KillAll, Registered
  <2> QED BY <1>6, <2>1, TypeKill DEF Begin, KillAll
<1>7. ASSUME NEW t \in Teardowns, Teardown(t) PROVE TypeOK'
  <2>1. ASSUME NEW m \in Modes, DestroyPlugin(t, m) PROVE TypeOK'
    BY <2>1 DEF DestroyPlugin, UnregisterRuntime
  <2>2. CASE AgentsKilled(t) \/ CloseTransport(t) \/ EndProcess(t)
    BY <2>2 DEF AgentsKilled, CloseTransport, EndProcess, managerVars
  <2> QED BY <1>7, <2>1, <2>2 DEF Teardown
<1> QED BY <1>1, <1>2, <1>3, <1>4, <1>5, <1>6, <1>7 DEF Next, Signal, Stop, Teardowns

(* The registry, the calls, the programs and the engine's stage keep their *)
(* types, also when spawns race and arrive during a shutdown.              *)
THEOREM EngineTypeCorrect == Spec => []TypeOK
BY TypeInit, TypeStep, PTL DEF Spec
-----------------------------------------------------------------------------
(* A step that changes neither the registry nor a call's id, and at most   *)
(* lets runtimes go from alive to exited.                                  *)
Quiet ==
  /\ UNCHANGED <<agents, id, rivals>>
  /\ \A s \in Spawns :
       /\ pc'[s] = pc[s]
       /\ runtime'[s] \in {runtime[s], "dying", "exited"}
       /\ runtime'[s] # runtime[s] => pc[s] \in {"building", "done"}
       /\ runtime'[s] = "dying" => runtime[s] \in {"live", "dying"}

LEMMA RegistryQuiet ==
  ASSUME Registry, TypeOK', Quiet
  PROVE  Registry'
<1> USE DEF Registry, Quiet
<1>1. Named'
  BY DEF Named
<1>2. Entries'
  <2> SUFFICES ASSUME NEW i \in Ids, agents[i] # None
               PROVE  pc'[agents[i]] = "done" /\ id[agents[i]] = i
    BY DEF Entries
  <2> QED BY DEF Entries, TypeOK, ManagerTypeOK
<1>3. Contested'
  BY DEF Contested
<1>4. LiveIsRegistered'
  BY DEF LiveIsRegistered, HasRival, Alive, Named
<1> QED BY <1>1, <1>2, <1>3, <1>4

(* What kill does to a registered runtime is quiet.                        *)
LEMMA KillIsQuiet ==
  ASSUME Registry, NEW S \in SUBSET Registered, KillRuntimes(S), UNCHANGED <<agents, pc, id, rivals>>
  PROVE  Quiet
<1>1. ASSUME NEW s \in S PROVE pc[s] = "done"
  BY ManagerAssumption DEF Registry, Entries, Registered, TypeOK, ManagerTypeOK
<1> QED BY <1>1 DEF Quiet, KillRuntimes, Registry, TypeOK, ManagerTypeOK

(* Calls that have no agent yet may come, fail or be refused.              *)
LEMMA RegistryCall ==
  ASSUME Registry, TypeOK', NEW s \in Spawns, pc[s] \in {"new", "probing"},
         NEW p \in {"probing", "failed"}, pc' = [pc EXCEPT ![s] = p],
         UNCHANGED <<agents, id, rivals, runtime>>
  PROVE  Registry'
<1> USE DEF Registry, TypeOK, ManagerTypeOK
<1>1. Named'
  BY DEF Named
<1>2. Entries'
  BY DEF Entries
<1>3. Contested'
  BY DEF Contested
<1>4. LiveIsRegistered'
  BY DEF LiveIsRegistered, HasRival, Alive
<1> QED BY <1>1, <1>2, <1>3, <1>4

LEMMA RegistryBuild ==
  ASSUME Registry, TypeOK', NEW s \in Spawns, NEW i \in Ids, NEW m \in All,
         SpawnBuild(s, i, m), Run(s)
  PROVE  Registry'
<1> USE DEF Registry, TypeOK, ManagerTypeOK
<1>1. /\ pc[s] = "probing" /\ pc' = [pc EXCEPT ![s] = "building"] /\ agents' = agents
      /\ id' = [id EXCEPT ![s] = i] /\ runtime' = [runtime EXCEPT ![s] = "starting"]
      /\ agents[i] = None
  BY DEF SpawnBuild
<1>2. /\ rivals' = rivals \cup ({s} \X InFlight(i)) \cup (InFlight(i) \X {s})
      /\ s \notin InFlight(i)
  BY <1>1 DEF Run, InFlight
<1>3. Named'
  BY <1>1 DEF Named
<1>4. Entries'
  BY <1>1 DEF Entries
<1>5. Contested'
  <2> SUFFICES ASSUME NEW u \in Spawns, pc'[u] = "building"
               PROVE  /\ agents'[id'[u]] # None => <<agents'[id'[u]], u>> \in rivals'
                      /\ \A t \in Spawns \ {u} :
                           pc'[t] = "building" /\ id'[t] = id'[u] => <<t, u>> \in rivals'
    BY DEF Contested
  <2>1. agents'[id'[u]] # None => <<agents'[id'[u]], u>> \in rivals'
    BY <1>1, <1>2 DEF Contested
  <2>2. ASSUME NEW t \in Spawns \ {u}, pc'[t] = "building", id'[t] = id'[u]
        PROVE  <<t, u>> \in rivals'
    <3>1. CASE u = s
      <4>1. t \in InFlight(i)
        BY <1>1, <2>2, <3>1 DEF InFlight
      <4> QED BY <1>2, <3>1, <4>1
    <3>2. CASE t = s
      <4>1. u \in InFlight(i)
        BY <1>1, <2>2, <3>2 DEF InFlight
      <4> QED BY <1>2, <3>2, <4>1
    <3>3. CASE u # s /\ t # s
      BY <1>1, <1>2, <2>2, <3>3 DEF Contested
    <3> QED BY <3>1, <3>2, <3>3
  <2> QED BY <2>1, <2>2
<1>6. LiveIsRegistered'
  BY <1>1, <1>2 DEF LiveIsRegistered, HasRival, Alive
<1> QED BY <1>3, <1>4, <1>5, <1>6

(* Only a rival's entry is overwritten.                                    *)
LEMMA RegistryRegister ==
  ASSUME Registry, TypeOK', NEW s \in Spawns, SpawnRegister(s), UNCHANGED rivals
  PROVE  Registry'
<1> USE DEF Registry, TypeOK, ManagerTypeOK
<1>1. /\ pc[s] = "building" /\ pc' = [pc EXCEPT ![s] = "done"] /\ id' = id
      /\ agents' = [agents EXCEPT ![id[s]] = s]
      /\ runtime' = [runtime EXCEPT ![s] = IF @ = "starting" THEN "live" ELSE @]
  BY DEF SpawnRegister
<1>2. id[s] \in Ids /\ s # None
  BY <1>1, ManagerAssumption DEF Named
<1>3. Named'
  BY <1>1 DEF Named
<1>4. Entries'
  BY <1>1, <1>2 DEF Entries
<1>5. Contested'
  <2> SUFFICES ASSUME NEW u \in Spawns, pc'[u] = "building"
               PROVE  /\ agents'[id'[u]] # None => <<agents'[id'[u]], u>> \in rivals'
                      /\ \A t \in Spawns \ {u} :
                           pc'[t] = "building" /\ id'[t] = id'[u] => <<t, u>> \in rivals'
    BY DEF Contested
  <2>1. u # s /\ pc[u] = "building" /\ id[u] \in Ids
    BY <1>1 DEF Named
  <2>2. id'[u] = id[u] /\ rivals' = rivals
    BY <1>1
  <2>3. ASSUME agents'[id[u]] # None PROVE <<agents'[id[u]], u>> \in rivals
    <3>1. CASE id[u] = id[s]
      BY <1>1, <1>2, <2>1, <3>1 DEF Contested
    <3>2. CASE id[u] # id[s]
      BY <1>1, <1>2, <2>1, <2>3, <3>2 DEF Contested
    <3> QED BY <3>1, <3>2
  <2>4. ASSUME NEW t \in Spawns \ {u}, pc'[t] = "building", id'[t] = id'[u]
        PROVE  <<t, u>> \in rivals
    BY <1>1, <2>1, <2>4 DEF Contested
  <2> QED BY <2>2, <2>3, <2>4
<1>6. LiveIsRegistered'
  <2> SUFFICES ASSUME NEW u \in Spawns, pc'[u] = "done", Alive(u)', agents'[id[u]] # u
               PROVE  HasRival(u)
    BY <1>1 DEF LiveIsRegistered, HasRival
  <2>1. u # s /\ pc[u] = "done" /\ Alive(u)
    BY <1>1, <1>2 DEF Alive
  <2>2. agents[id[u]] = u \/ HasRival(u)
    BY <2>1 DEF LiveIsRegistered
  <2>3. CASE agents[id[u]] = u
    <3>1. id[u] = id[s] /\ agents[id[s]] = u
      BY <1>1, <1>2, <2>1, <2>3 DEF Named
    <3>2. <<u, s>> \in rivals
      BY <1>1, <3>1, ManagerAssumption DEF Contested
    <3> QED BY <3>2 DEF HasRival
  <2> QED BY <2>2, <2>3
<1> QED BY <1>3, <1>4, <1>5, <1>6

LEMMA RegistryAborted ==
  ASSUME Registry, TypeOK', NEW s \in Spawns, SpawnAborted(s), UNCHANGED rivals
  PROVE  Registry'
<1> USE DEF Registry, TypeOK, ManagerTypeOK, SpawnAborted, Fails
<1>1. Named'
  BY DEF Named
<1>2. Entries'
  BY DEF Entries
<1>3. Contested'
  BY DEF Contested
<1>4. LiveIsRegistered'
  BY DEF LiveIsRegistered, HasRival, Alive
<1> QED BY <1>1, <1>2, <1>3, <1>4

LEMMA RegistryRemove ==
  ASSUME Registry, TypeOK', NEW i \in Ids, Remove(i), UNCHANGED rivals
  PROVE  Registry'
<1> USE DEF Registry, TypeOK, ManagerTypeOK, Remove, callVars, agentVars
<1>1. Named'
  BY DEF Named
<1>2. Entries'
  BY DEF Entries
<1>3. Contested'
  BY DEF Contested, Named
<1>4. LiveIsRegistered'
  BY DEF LiveIsRegistered, HasRival, Alive, Named
<1> QED BY <1>1, <1>2, <1>3, <1>4

(* The history grows only when a factory is called.                        *)
LEMMA RivalsKept ==
  ASSUME NEW s \in Spawns, Run(s), ~(pc[s] = "probing" /\ pc'[s] = "building")
  PROVE  rivals' = rivals
BY DEF Run

LEMMA RegistryRun ==
  ASSUME Registry, TypeOK', NEW s \in Spawns, Run(s)
  PROVE  Registry'
<1> USE DEF Registry, TypeOK, ManagerTypeOK
<1>1. CASE SpawnUnavailable(s) \/ SpawnInUse(s)
  <2>1. /\ pc[s] = "probing" /\ pc' = [pc EXCEPT ![s] = "failed"]
        /\ UNCHANGED <<agents, id, runtime>>
    BY <1>1 DEF SpawnUnavailable, SpawnInUse, Fails, agentVars
  <2>2. rivals' = rivals
    BY <2>1, RivalsKept
  <2> QED BY <2>1, <2>2, RegistryCall
<1>2. ASSUME NEW i \in Ids, NEW m \in All, SpawnBuild(s, i, m) PROVE Registry'
  BY <1>2, RegistryBuild
<1>3. CASE SpawnRegister(s)
  BY <1>3, RivalsKept, RegistryRegister DEF SpawnRegister
<1>4. CASE SpawnAborted(s)
  BY <1>4, RivalsKept, RegistryAborted DEF SpawnAborted
<1>5. CASE ProcessEnds(s) \/ ConnectionClosed(s) \/ ChildTimesOut(s)
  <2>1. /\ UNCHANGED <<agents, pc, id>>
        /\ runtime' = runtime \/ (NotExited(s) /\ runtime' = [runtime EXCEPT ![s] = "exited"])
    BY <1>5 DEF ProcessEnds, ConnectionClosed, ChildTimesOut, callVars
  <2>2. rivals' = rivals
    BY <2>1, RivalsKept
  <2>3. Quiet
    BY <2>1, <2>2 DEF Quiet, NotExited, Named
  <2> QED BY <2>3, RegistryQuiet
<1> QED BY <1>1, <1>2, <1>3, <1>4, <1>5 DEF Run, Progress

LEMMA RegistryStep == Registry /\ [Next]_vars => Registry'
<1> SUFFICES ASSUME Registry, [Next]_vars PROVE Registry'
  OBVIOUS
<1>0. TypeOK'
  BY TypeStep DEF Registry
<1> USE DEF Registry, TypeOK, ManagerTypeOK, historyVars, callVars, agentVars
<1>1. CASE UNCHANGED vars
  <2>1. Quiet
    BY <1>1 DEF vars, managerVars, Quiet
  <2> QED BY <1>0, <2>1, RegistryQuiet
<1>2. ASSUME NEW m \in Modes, LoadPlugin(m) PROVE Registry'
  <2>1. Quiet
    BY <1>2 DEF LoadPlugin, RegisterRuntime, Quiet
  <2> QED BY <1>0, <2>1, RegistryQuiet
<1>3. CASE LoadFails \/ Publish
  <2>1. Quiet
    BY <1>3 DEF LoadFails, Publish, managerVars, Quiet
  <2> QED BY <1>0, <2>1, RegistryQuiet
<1>4. CASE Serve
  <2>1. ASSUME NEW s \in Spawns, SpawnCall(s) PROVE Registry'
    <3>1. PICK p \in {"probing", "failed"} : pc' = [pc EXCEPT ![s] = p]
      BY <2>1 DEF SpawnCall, Fails
    <3> QED BY <1>0, <1>4, <2>1, <3>1, RegistryCall DEF Serve, SpawnCall
  <2>2. ASSUME NEW s \in Spawns, ChildStarts(s) PROVE Registry'
    <3>1. Quiet
      BY <1>4, <2>2 DEF Serve, ChildStarts, Quiet
    <3> QED BY <1>0, <3>1, RegistryQuiet
  <2>3. ASSUME NEW i \in Ids, Kill(i) PROVE Registry'
    <3>1. {agents[i]} \in SUBSET Registered
      BY <2>3 DEF Kill, Registered
    <3>2. Quiet
      BY <1>4, <2>3, <3>1, KillIsQuiet DEF Serve, Kill
    <3> QED BY <1>0, <3>2, RegistryQuiet
  <2>4. ASSUME NEW i \in Ids, Remove(i) PROVE Registry'
    BY <1>0, <1>4, <2>4, RegistryRemove DEF Serve
  <2> QED BY <1>4, <2>1, <2>2, <2>3, <2>4 DEF Serve
<1>5. ASSUME NEW s \in Spawns, Run(s) PROVE Registry'
  BY <1>0, <1>5, RegistryRun
<1>6. ASSUME NEW t \in Teardowns, Begin(t) PROVE Registry'
  <2>1. PICK S \in SUBSET Registered : KillRuntimes(S)
    <3>1. doomed'[t] = {s \in Registered : runtime[s] # "exited"}
      BY <1>6 DEF Begin, KillAll
    <3> QED BY <1>6, <3>1 DEF Begin, KillAll
  <2>2. Quiet
    BY <1>6, <2>1, KillIsQuiet DEF Begin
  <2> QED BY <1>0, <2>2, RegistryQuiet
<1>7. ASSUME NEW t \in Teardowns, Teardown(t) PROVE Registry'
  <2>1. Quiet
    BY <1>7
    DEF Teardown, DestroyPlugin, UnregisterRuntime, AgentsKilled, CloseTransport, EndProcess,
        managerVars, Quiet
  <2> QED BY <1>0, <2>1, RegistryQuiet
<1> QED BY <1>1, <1>2, <1>3, <1>4, <1>5, <1>6, <1>7 DEF Next, Signal, Stop, Teardowns

LEMMA RegistryInit == Init => Registry
BY TypeInit, ManagerAssumption
DEF Init, ManagerInit, NoAgents, Registry, Named, Entries, Contested, LiveIsRegistered, Alive

(* Whoever spawns, kills or stops the daemon: an agent that was announced  *)
(* and still runs is the one agents.get and killAll find under its id, or  *)
(* another spawn awaited its factory for the same id together with it.     *)
THEOREM EngineLiveIsRegistered == Spec => []LiveIsRegistered
<1>1. Registry => LiveIsRegistered
  BY DEF Registry
<1> QED BY <1>1, RegistryStep, RegistryInit, PTL DEF Spec

(* Two living agents share an id only if one of them was spawned in a race *)
(* for its own.                                                            *)
THEOREM EngineOneAgentPerId == Spec => []OneAgentPerId
<1>1. Registry => OneAgentPerId
  <2> SUFFICES ASSUME Registry, NEW s \in Spawns, NEW t \in Spawns,
                      Alive(s), Alive(t), id[s] = id[t]
               PROVE  s = t \/ HasRival(s) \/ HasRival(t)
    BY DEF OneAgentPerId
  <2>1. pc[s] = "done" /\ pc[t] = "done"
    BY DEF Registry, TypeOK, ManagerTypeOK, Named, Alive
  <2> QED BY <2>1 DEF Registry, LiveIsRegistered
<1> QED BY <1>1, RegistryStep, RegistryInit, PTL DEF Spec

(* The entry of an id is removed only when the flag of its agent is set,   *)
(* and overwritten only by a spawn that awaited its factory for this id    *)
(* when the agent that has it did.                                         *)
THEOREM EngineIdChangesHandsAfterExit == Spec => IdChangesHandsAfterExit
<1> DEFINE HandsOver ==
      \A i \in Ids : agents[i] # None /\ agents'[i] # agents[i]
        => runtime[agents[i]] = "exited" \/ <<agents[i], agents'[i]>> \in rivals
<1>1. Registry /\ [Next]_vars => [HandsOver]_vars
  <2> SUFFICES ASSUME Registry, [Next]_vars, NEW i \in Ids,
                      agents[i] # None, agents'[i] # agents[i]
               PROVE  runtime[agents[i]] = "exited" \/ <<agents[i], agents'[i]>> \in rivals
    OBVIOUS
  <2> USE DEF Registry, TypeOK, ManagerTypeOK, Contested, Named
  <2>1. CASE UNCHANGED agents
    BY <2>1
  <2>2. ASSUME NEW j \in Ids, Remove(j) PROVE runtime[agents[i]] = "exited"
    BY <2>2 DEF Remove
  <2>3. ASSUME NEW s \in Spawns, SpawnRegister(s) PROVE <<agents[i], agents'[i]>> \in rivals
    BY <2>3 DEF SpawnRegister
  <2>4. UNCHANGED agents \/ (\E j \in Ids : Remove(j)) \/ \E s \in Spawns : SpawnRegister(s)
    BY DEF Next, vars, managerVars, LoadPlugin, LoadFails, Publish, Serve, Run, Signal, Stop,
           Begin, Teardown, AgentsKilled, DestroyPlugin, CloseTransport, EndProcess, RegisterRuntime,
           UnregisterRuntime, SpawnCall, ChildStarts, Kill, Progress, SpawnUnavailable, SpawnInUse,
           SpawnBuild, SpawnAborted, ProcessEnds, ConnectionClosed, ChildTimesOut
  <2> QED BY <2>1, <2>2, <2>3, <2>4
<1>2. Spec => [][HandsOver]_vars
  <2> HIDE DEF HandsOver
  <2> QED BY <1>1, RegistryStep, RegistryInit, PTL DEF Spec
<1> QED BY <1>2 DEF IdChangesHandsAfterExit

-----------------------------------------------------------------------------
(* kill and the ends of programs keep what a set flag says.                *)
LEMMA ProgramsProgress ==
  ASSUME TypeOK, Named, Programs, NEW s \in Spawns, Progress(s)
  PROVE  Programs'
<1> USE DEF TypeOK, ManagerTypeOK, Programs, callVars, agentVars
<1>0. /\ "running" \notin Told(processes[s]) /\ "running" \notin Lost(processes[s])
      /\ \A k : "running" \notin Lost(processes[s] \ {k})
  BY ToldTyped
<1>1. CASE SpawnUnavailable(s) \/ SpawnInUse(s)
  BY <1>1 DEF SpawnUnavailable, SpawnInUse
<1>2. ASSUME NEW i \in Ids, NEW m \in All, SpawnBuild(s, i, m) PROVE Programs'
  BY <1>2 DEF SpawnBuild
<1>3. CASE SpawnRegister(s)
  BY <1>3 DEF SpawnRegister
<1>4. CASE SpawnAborted(s)
  BY <1>4 DEF SpawnAborted
<1>5. CASE ProcessEnds(s)
  <2>1. PICK k \in processes[s] :
          IF mode[s] \in Lasting THEN processes' = [processes EXCEPT ![s] = {}]
          ELSE \E rest \in {processes[s], processes[s] \ {k}} :
                 processes' = [processes EXCEPT ![s] = Lost(rest)]
    BY <1>5 DEF ProcessEnds
  <2>2. "running" \notin processes'[s] /\ (mode[s] \in Lasting => processes'[s] = {})
    <3>1. CASE mode[s] \in Lasting
      BY <2>1, <3>1
    <3>2. CASE mode[s] \notin Lasting
      <4>1. PICK rest \in {processes[s], processes[s] \ {k}} :
              processes' = [processes EXCEPT ![s] = Lost(rest)]
        BY <2>1, <3>2
      <4>2. "running" \notin Lost(rest)
        BY <1>0, <4>1
      <4> QED BY <3>2, <4>1, <4>2
    <3> QED BY <3>1, <3>2
  <2>3. \A u \in Spawns \ {s} : processes'[u] = processes[u] /\ runtime'[u] = runtime[u]
    BY <1>5, <2>1 DEF ProcessEnds
  <2>4. mode' = mode /\ "pty" \in Lasting
    BY <1>5 DEF ProcessEnds, Lasting
  <2> QED BY <2>2, <2>3, <2>4
<1>6. CASE ConnectionClosed(s)
  BY <1>0, <1>6 DEF ConnectionClosed
<1>7. CASE ChildTimesOut(s)
  <2>1. /\ processes' = [processes EXCEPT ![s] = Told(@)] /\ UNCHANGED <<mode, runtime>>
        /\ mode[s] = "exec"
    BY <1>7 DEF ChildTimesOut
  <2> QED BY <1>0, <2>1
<1> QED BY <1>1, <1>2, <1>3, <1>4, <1>5, <1>6, <1>7 DEF Progress

LEMMA ProgramsKill ==
  ASSUME TypeOK, Programs, NEW S, KillRuntimes(S), mode' = mode
  PROVE  Programs'
<1>1. \A s \in Spawns : "running" \notin Told(processes[s])
  BY ToldTyped DEF TypeOK, ManagerTypeOK
<1>2. \A p : Told(p) = {} <=> p = {}
  BY DEF Told
<1> QED BY <1>1, <1>2 DEF Programs, KillRuntimes, TypeOK, ManagerTypeOK, Lasting

LEMMA ProgramsStep ==
  ASSUME TypeOK, Named, Programs, [Next]_vars
  PROVE  Programs'
<1> USE DEF TypeOK, ManagerTypeOK, callVars, agentVars
<1>1. CASE UNCHANGED <<runtime, processes, mode>>
  BY <1>1 DEF Programs
<1>2. ASSUME NEW s \in Spawns, ChildStarts(s) PROVE Programs'
  BY <1>2 DEF ChildStarts, Programs
<1>3. ASSUME NEW i \in Ids, Kill(i) PROVE Programs'
  BY <1>3, ProgramsKill DEF Kill
<1>4. ASSUME NEW s \in Spawns, Progress(s) PROVE Programs'
  BY <1>4, ProgramsProgress
<1>5. ASSUME NEW t \in Teardowns, Begin(t) PROVE Programs'
  BY <1>5, ProgramsKill DEF Begin, KillAll
<1>6. \/ UNCHANGED <<runtime, processes, mode>>
      \/ \E s \in Spawns : ChildStarts(s) \/ Progress(s)
      \/ \E i \in Ids : Kill(i)
      \/ \E t \in Teardowns : Begin(t)
  BY DEF Next, vars, managerVars, LoadPlugin, LoadFails, Publish, Serve, Run, Signal, Stop,
         Teardown, AgentsKilled, DestroyPlugin, CloseTransport, EndProcess, RegisterRuntime,
         UnregisterRuntime, SpawnCall, Remove, Teardowns
<1> QED BY <1>1, <1>2, <1>3, <1>4, <1>5, <1>6

-----------------------------------------------------------------------------
DrainInv == Registry /\ Programs /\ Draining

LEMMA DrainInit == Init => DrainInv
BY RegistryInit
DEF Init, ManagerInit, NoAgents, DrainInv, Programs, Draining, NoneYet, Awaited, Begun, Past

(* Finished spawns stay finished, and exited ones exited.                  *)
Lasts ==
  \A s \in Spawns : pc[s] = "done" =>
    pc'[s] = "done" /\ (runtime[s] = "exited" => runtime'[s] = "exited")

(* In this step nobody is announced, or loses an excuse.                   *)
NoneNew ==
  \A s \in Spawns : pc'[s] = "done" => Excused(s)' \/ (pc[s] = "done" /\ ~Excused(s))

(* A step that leaves the teardowns alone.                                 *)
LEMMA DrainingKept ==
  ASSUME TypeOK, Draining, stage # "loading", UNCHANGED engineVars, Lasts,
         stopping \/ stage = "down" => NoneNew
  PROVE  Draining'
<1> USE DEF engineVars, teardownVars, TypeOK
<1>1. NoneYet'
  BY DEF NoneYet
<1>2. ASSUME NEW t \in Teardowns PROVE Awaited(t)'
  <2>1. Awaited(t) /\ doomed[t] \subseteq Spawns
    BY DEF Draining
  <2>2. \A s \in doomed[t] : pc'[s] = "done"
    BY <2>1 DEF Awaited, Lasts
  <2>3. Past(t) => doomed[t] = {}
    BY <2>1 DEF Awaited
  <2>4. ASSUME Begun(t), NEW s \in Spawns, pc'[s] = "done", runtime'[s] # "exited", ~Excused(s)'
        PROVE  s \in doomed[t]
    BY <2>1, <2>4 DEF Awaited, Lasts, NoneNew
  <2> QED BY <2>1, <2>2, <2>3, <2>4 DEF Awaited, Begun, Past
<1>3. stage = "down" => AllExited'
  BY DEF Draining, AllExited, Lasts, NoneNew
<1> QED BY <1>1, <1>2, <1>3 DEF Draining

(* So does one that announces nobody and keeps the excuses.                *)
LEMMA QuietKept ==
  ASSUME TypeOK, Draining, stage # "loading", UNCHANGED engineVars, Lasts,
         UNCHANGED <<agents, id, rivals, late>>,
         \A s \in Spawns : pc'[s] = "done" => pc[s] = "done"
  PROVE  Draining'
<1>1. NoneNew
  BY DEF NoneNew, Excused, HasRival
<1> QED BY <1>1, DrainingKept

LEMMA RunLasts ==
  ASSUME TypeOK, NEW s \in Spawns, Run(s)
  PROVE  Lasts
BY DEF TypeOK, ManagerTypeOK, callVars, agentVars, Lasts, Run, Progress, SpawnUnavailable, SpawnInUse,
       SpawnBuild, SpawnRegister, SpawnAborted, ProcessEnds, ConnectionClosed, ChildTimesOut,
       Fails, NotExited

LEMMA RunExcuses ==
  ASSUME Registry, NEW s \in Spawns, Run(s), stopping
  PROVE  NoneNew
<1> USE DEF Registry, TypeOK, ManagerTypeOK, callVars, agentVars
<1>1. ASSUME NEW u \in Spawns, HasRival(u) PROVE HasRival(u)'
  BY <1>1 DEF HasRival, Run
<1>2. late \subseteq late'
  BY DEF Run
<1>3. CASE SpawnRegister(s)
  <2>1. /\ pc[s] = "building" /\ pc' = [pc EXCEPT ![s] = "done"] /\ id' = id
        /\ agents' = [agents EXCEPT ![id[s]] = s]
    BY <1>3 DEF SpawnRegister
  <2>2. s \in late'
    BY <2>1 DEF Run
  <2> SUFFICES ASSUME NEW u \in Spawns, pc'[u] = "done"
               PROVE  Excused(u)' \/ (pc[u] = "done" /\ ~Excused(u))
    BY DEF NoneNew
  <2>3. CASE u = s
    BY <2>2, <2>3 DEF Excused
  <2>4. CASE u # s
    <3>1. pc[u] = "done" /\ id[u] \in Ids
      BY <2>1, <2>4 DEF Named
    <3>2. agents[id[u]] # u => agents'[id'[u]] # u
      BY <2>1, <2>4, <3>1
    <3>3. Excused(u) => Excused(u)'
      BY <1>1, <1>2, <3>2 DEF Excused
    <3> QED BY <3>1, <3>3
  <2> QED BY <2>3, <2>4
<1>4. CASE ~SpawnRegister(s)
  <2>1. /\ \A u \in Spawns : pc'[u] = "done" => pc[u] = "done" /\ id'[u] = id[u]
        /\ agents' = agents
    BY <1>4
    DEF Run, Progress, SpawnUnavailable, SpawnInUse, SpawnBuild, SpawnAborted, ProcessEnds,
        ConnectionClosed, ChildTimesOut, Fails
  <2>2. \A u \in Spawns : pc'[u] = "done" /\ Excused(u) => Excused(u)'
    BY <1>1, <1>2, <2>1 DEF Excused
  <2> QED BY <2>1, <2>2 DEF NoneNew
<1> QED BY <1>3, <1>4

(* killAll's list is what the registry has, which is all that lives but    *)
(* who lost a race.                                                        *)
LEMMA DrainingBegin ==
  ASSUME DrainInv, NEW t \in Teardowns, Begin(t), ~Begun(t)
  PROVE  Draining'
<1> USE DEF DrainInv, Registry, TypeOK, ManagerTypeOK, callVars, historyVars
<1>1. /\ stage = "up" /\ stage' = "up" /\ stopping'
      /\ UNCHANGED <<agents, pc, id, destroyed, rivals, late>>
      /\ doomed' = [doomed EXCEPT ![t] = {s \in Registered : runtime[s] # "exited"}]
      /\ teardown' = [teardown EXCEPT ![t] = "killing"]
  BY DEF Begin, KillAll
<1>2. \A s \in Spawns : runtime[s] = "exited" => runtime'[s] = "exited"
  BY DEF Begin, KillAll, KillRuntimes
<1>3. \A s \in Spawns : runtime'[s] # "exited" => runtime[s] # "exited"
  BY <1>2
<1>4. \A s \in Spawns : Excused(s)' <=> Excused(s)
  BY <1>1 DEF Excused, HasRival
<1>5. ASSUME NEW s \in Spawns, pc[s] = "done", runtime[s] # "exited", ~Excused(s)
      PROVE  s \in doomed'[t]
  <2>1. agents[id[s]] = s /\ id[s] \in Ids
    BY <1>5 DEF Named, LiveIsRegistered, Alive, Excused
  <2>2. s \in Registered
    BY <2>1 DEF Registered
  <2> QED BY <1>1, <1>5, <2>2
<1>6. Awaited(t)'
  <2>1. destroyed[t] = {} /\ ~Past(t)
    BY DEF Draining, Awaited, Begun, Past
  <2>2. \A s \in doomed'[t] : pc[s] = "done"
    BY <1>1, ManagerAssumption DEF Registered, Entries
  <2> QED BY <1>1, <1>3, <1>4, <1>5, <2>1, <2>2 DEF Awaited, Begun, Past
<1>7. ASSUME NEW u \in Teardowns, u # t PROVE Awaited(u)'
  <2>1. Awaited(u) /\ teardown'[u] = teardown[u] /\ doomed'[u] = doomed[u]
    BY <1>1, <1>7 DEF Draining
  <2> QED BY <1>1, <1>2, <1>3, <1>4, <2>1 DEF Awaited, Begun, Past
<1> QED BY <1>1, <1>6, <1>7 DEF Draining, NoneYet

LEMMA DrainingTeardown ==
  ASSUME DrainInv, NEW t \in Teardowns, Teardown(t)
  PROVE  Draining'
<1> USE DEF DrainInv, Registry, TypeOK, Draining, managerVars, callVars, agentVars, historyVars
<1>0. /\ stage = "up" /\ UNCHANGED <<agents, pc, id, runtime, stopping, rivals, late>>
      /\ \A s \in Spawns : Excused(s)' <=> Excused(s)
      /\ doomed' = IF AgentsKilled(t) THEN [doomed EXCEPT ![t] = {}] ELSE doomed
  BY DEF Teardown, AgentsKilled, DestroyPlugin, UnregisterRuntime, CloseTransport, EndProcess,
         teardownVars, Excused, HasRival
<1>1. CASE AgentsKilled(t)
  BY <1>0, <1>1 DEF AgentsKilled, NoneYet, Awaited, Begun, Past
<1>2. ASSUME NEW m \in Modes, DestroyPlugin(t, m) PROVE Draining'
  BY <1>0, <1>2 DEF DestroyPlugin, NoneYet, Awaited, Begun, Past
<1>3. CASE CloseTransport(t)
  BY <1>0, <1>3 DEF CloseTransport, NoneYet, Awaited, Begun, Past
<1>4. CASE EndProcess(t)
  <2>1. Awaited(t) /\ Begun(t) /\ Past(t)
    BY <1>4 DEF EndProcess, Begun, Past
  <2>2. AllExited'
    BY <1>0, <2>1 DEF AllExited, Awaited
  <2>3. \A u \in Teardowns : Awaited(u)'
    BY <1>0, <1>4 DEF EndProcess, teardownVars, Awaited, Begun, Past
  <2> QED BY <1>4, <2>2, <2>3 DEF EndProcess, NoneYet
<1> QED BY <1>1, <1>2, <1>3, <1>4 DEF Teardown

LEMMA DrainingLoad ==
  ASSUME DrainInv, stage = "loading", [Next]_vars
  PROVE  Draining'
<1> USE DEF DrainInv, Registry, TypeOK, ManagerTypeOK, Draining, NoneYet, Awaited, Begun, Past,
            AllExited, engineVars, teardownVars
<1>1. \A s \in Spawns : pc[s] = "new" /\ processes[s] \subseteq Kinds /\ runtime[s] = "none"
  BY DEF Named
<1>2. \A t \in Teardowns : teardown[t] = "none" /\ destroyed[t] = {}
  OBVIOUS
<1>3. pc' = pc /\ ~stopping' /\ UNCHANGED teardownVars
  BY <1>1
  DEF Next, vars, managerVars, callVars, agentVars, LoadPlugin, LoadFails, Publish, Serve, Run,
      Signal, Stop, Begin, Teardown, AgentsKilled, DestroyPlugin, CloseTransport, EndProcess,
      RegisterRuntime, Progress, SpawnUnavailable, SpawnInUse, SpawnBuild, SpawnRegister,
      SpawnAborted, ProcessEnds, ConnectionClosed, ChildTimesOut
<1> QED BY <1>1, <1>2, <1>3

LEMMA DrainStep == DrainInv /\ [Next]_vars => DrainInv'
<1> SUFFICES ASSUME DrainInv, [Next]_vars PROVE Draining'
  BY RegistryStep, ProgramsStep DEF DrainInv, Registry
<1> USE DEF DrainInv, Registry, TypeOK, ManagerTypeOK, callVars, agentVars, historyVars
<1>0. CASE stage = "loading"
  BY <1>0, DrainingLoad
<1>1. CASE UNCHANGED vars /\ stage # "loading"
  BY <1>1, QuietKept DEF vars, managerVars, Lasts
<1>2. CASE Serve
  <2>1. ASSUME NEW s \in Spawns, SpawnCall(s) PROVE Draining'
    BY <1>2, <2>1, QuietKept DEF Serve, SpawnCall, Fails, Lasts
  <2>2. ASSUME NEW s \in Spawns, ChildStarts(s) PROVE Draining'
    BY <1>2, <2>2, QuietKept DEF Serve, ChildStarts, Lasts
  <2>3. ASSUME NEW i \in Ids, Kill(i) PROVE Draining'
    BY <1>2, <2>3, QuietKept DEF Serve, Kill, KillRuntimes, Lasts
  <2>4. ASSUME NEW i \in Ids, Remove(i) PROVE Draining'
    <3>1. /\ agents' = [agents EXCEPT ![i] = None]
          /\ UNCHANGED <<pc, id, runtime, rivals, late>>
      BY <1>2, <2>4 DEF Serve, Remove
    <3>2. \A s \in Spawns : pc[s] = "done" /\ agents[id[s]] # s => agents'[id[s]] # s
      BY <3>1, ManagerAssumption DEF Named
    <3>3. NoneNew /\ Lasts
      BY <3>1, <3>2 DEF NoneNew, Lasts, Excused, HasRival
    <3> QED BY <1>2, <3>3, DrainingKept DEF Serve
  <2> QED BY <1>2, <2>1, <2>2, <2>3, <2>4 DEF Serve
<1>3. ASSUME NEW s \in Spawns, Run(s), stage # "loading" PROVE Draining'
  BY <1>3, RunLasts, RunExcuses, DrainingKept DEF Run
<1>4. CASE Signal \/ Stop
  <2>1. \A t \in Teardowns : Begun(t) => stopping
    BY DEF Draining, Awaited
  <2> QED BY <1>4, <2>1, DrainingBegin DEF Signal, Stop, Teardowns, Begun
<1>5. ASSUME NEW t \in Teardowns, Teardown(t) PROVE Draining'
  BY <1>5, DrainingTeardown
<1> QED BY <1>0, <1>1, <1>2, <1>3, <1>4, <1>5
       DEF Next, LoadPlugin, LoadFails, Publish

(* Whatever races and whoever still spawns: when the plugins or the daemon *)
(* go, every agent announced before and found under its id has been told   *)
(* to stop, with the programs its controller can reach, and those on a     *)
(* terminal have ended.                                                    *)
THEOREM EngineNoAgentIsForgotten == Spec => []NoAgentIsForgotten
<1>1. DrainInv => NoAgentIsForgotten
  <2> SUFFICES ASSUME DrainInv, stage = "down" \/ (\E t \in Teardowns : destroyed[t] # {}),
                      NEW s \in Spawns, pc[s] = "done", ~Excused(s)
               PROVE  Stopped(s)
    BY DEF NoAgentIsForgotten, Excused
  <2>1. runtime[s] = "exited"
    BY DEF DrainInv, Draining, AllExited, Awaited, Begun, Past
  <2> QED BY <2>1 DEF DrainInv, Programs, Stopped
<1> QED BY <1>1, DrainStep, DrainInit, PTL DEF Spec
=============================================================================
