---------------------------- MODULE AgentManager ----------------------------
(***************************************************************************)
(* AgentManager: the daemon's registry of running agents and its runtime   *)
(* factories (src/agents/manager.ts), with as much of the four controllers *)
(* as the manager depends on: when a controller sets its exited flag, and  *)
(* what becomes of the program behind it. Only on a terminal is the one    *)
(* the other: exec and server-http set the flag in kill and return, and    *)
(* server-ws gives its server half a second.                               *)
(*                                                                         *)
(* A spawn call is cut at "await this.drivers.probe()" and at              *)
(* "await factory()"; the id is checked between the two and the agent is   *)
(* registered after the second. A spawn and the runtime it builds share    *)
(* one name.                                                               *)
(***************************************************************************)
EXTENDS Naturals

CONSTANTS
  Spawns,   \* the spawn calls the manager ever receives
  Ids,      \* agent ids, asked for by the caller or generated
  Modes,    \* the runtime modes of the plugins; "pty" is built in
  None

ASSUME ManagerAssumption ==
  /\ None \notin Spawns
  /\ Modes \subseteq {"exec", "server-http", "server-ws"}

VARIABLES
  agents,    \* id -> the runtime registered under it, or None
  runtimes,  \* the modes a factory is registered for
  pc,        \* where each spawn call is
  id,        \* the id it settled on, None before
  mode,      \* the mode of the runtime it builds, None before
  runtime,   \* that runtime's life; "dying" is a kill under way
  processes  \* the programs it has started that run: those its controller
             \* will reach ("running"), those it has told to stop ("told")
             \* and those it has lost sight of ("stray")

callVars    == <<pc, id, mode>>
agentVars   == <<runtime, processes>>
managerVars == <<agents, runtimes, callVars, agentVars>>

All   == Modes \cup {"pty"}
Kinds == {"running", "told", "stray"}

ManagerTypeOK ==
  /\ agents \in [Ids -> Spawns \cup {None}]
  /\ runtimes \subseteq All
  /\ pc \in [Spawns -> {"new", "probing", "building", "done", "failed"}]
  /\ id \in [Spawns -> Ids \cup {None}]
  /\ mode \in [Spawns -> All \cup {None}]
  /\ runtime \in [Spawns -> {"none", "starting", "live", "dying", "exited"}]
  /\ processes \in [Spawns -> SUBSET Kinds]

NoAgents ==
  /\ agents = [i \in Ids |-> None]
  /\ pc = [s \in Spawns |-> "new"]
  /\ id = [s \in Spawns |-> None]
  /\ mode = [s \in Spawns |-> None]
  /\ runtime = [s \in Spawns |-> "none"]
  /\ processes = [s \in Spawns |-> {}]

ManagerInit == NoAgents /\ runtimes = {"pty"}

-----------------------------------------------------------------------------
(* Factories: the runtime plugins' init and onDestroy                      *)

RegisterRuntime(m) ==
  /\ m \notin runtimes
  /\ runtimes' = runtimes \cup {m}
  /\ UNCHANGED <<agents, callVars, agentVars>>

UnregisterRuntime(m) ==
  /\ runtimes' = runtimes \ {m}
  /\ UNCHANGED <<agents, callVars, agentVars>>

-----------------------------------------------------------------------------
(* What becomes of the programs                                            *)

Told(kinds) == {IF k = "running" THEN "told" ELSE k : k \in kinds}
Lost(kinds) == {IF k = "running" THEN "stray" ELSE k : k \in kinds}

(* Modes whose controller has one program, and its flag from that program. *)
Lasting == {"pty", "server-ws"}

NotExited(s) == runtime[s] \in {"starting", "live", "dying"}

(* A program ends. The end of the one program sets the flag; the end of any*)
(* child of an exec agent makes its controller forget the child it has now.*)
ProcessEnds(s) ==
  /\ \E k \in processes[s] :
       IF mode[s] \in Lasting THEN processes' = [processes EXCEPT ![s] = {}]
       ELSE \E rest \in {processes[s], processes[s] \ {k}} :
              processes' = [processes EXCEPT ![s] = Lost(rest)]
  /\ runtime' = [runtime EXCEPT ![s] =
                   IF mode[s] \in Lasting /\ NotExited(s) THEN "exited" ELSE @]
  /\ UNCHANGED <<agents, runtimes, callVars>>

(* A socket closes, by itself or by kill, whose 500 ms end the same way.   *)
(* The server behind it may run on, and exited is exited: nobody tells it. *)
ConnectionClosed(s) ==
  /\ mode[s] = "server-ws" /\ NotExited(s)
  /\ runtime' = [runtime EXCEPT ![s] = "exited"]
  /\ processes' = [processes EXCEPT ![s] = Lost(@)]
  /\ UNCHANGED <<agents, runtimes, callVars>>

(* A submit starts an exec agent's child, after telling the one it has.    *)
ChildStarts(s) ==
  /\ mode[s] = "exec" /\ runtime[s] = "live"
  /\ processes' = [processes EXCEPT ![s] = Told(@) \cup {"running"}]
  /\ UNCHANGED <<agents, runtimes, callVars, runtime>>

ChildTimesOut(s) ==
  /\ mode[s] = "exec" /\ "running" \in processes[s]
  /\ processes' = [processes EXCEPT ![s] = Told(@)]
  /\ UNCHANGED <<agents, runtimes, callVars, runtime>>

-----------------------------------------------------------------------------
(* spawn                                                                   *)

Fails(s) == pc' = [pc EXCEPT ![s] = "failed"]

(* Resolve the driver and ask for its probe, or throw "Unknown driver".    *)
SpawnCall(s) ==
  /\ pc[s] = "new"
  /\ \/ pc' = [pc EXCEPT ![s] = "probing"]
     \/ Fails(s)
  /\ UNCHANGED <<agents, runtimes, id, mode, agentVars>>

(* The probe says no, or no registered runtime suits the driver.           *)
SpawnUnavailable(s) ==
  /\ pc[s] = "probing"
  /\ Fails(s)
  /\ UNCHANGED <<agents, runtimes, id, mode, agentVars>>

(* "Agent id ... is already in use"                                        *)
SpawnInUse(s) ==
  /\ pc[s] = "probing" /\ runtimes # {}
  /\ \E i \in Ids : agents[i] # None
  /\ Fails(s)
  /\ UNCHANGED <<agents, runtimes, id, mode, agentVars>>

\* What a factory starts: a terminal's program; a server, if it is to.
Started(m) ==
  CASE m = "pty" -> {{"running"}}
    [] m = "server-ws" -> {{"running"}, {}}
    [] OTHER -> {{}}

\* Faulty variant, for the mutation runs: the id is checked against the live
\* agents only.
SpawnOverDying(s, i, m) ==
  /\ pc[s] = "probing" /\ m \in runtimes
  /\ agents[i] # None => runtime[agents[i]] = "dying"
  /\ pc' = [pc EXCEPT ![s] = "building"]
  /\ id' = [id EXCEPT ![s] = i]
  /\ mode' = [mode EXCEPT ![s] = m]
  /\ runtime' = [runtime EXCEPT ![s] = "starting"]
  /\ \E p \in Started(m) : processes' = [processes EXCEPT ![s] = p]
  /\ UNCHANGED <<agents, runtimes>>

(* The id is free: call the factory of the mode chosen. Other spawns may   *)
(* have found the same id free and be awaiting theirs.                     *)
SpawnBuild(s, i, m) ==
  /\ pc[s] = "probing" /\ m \in runtimes
  /\ agents[i] = None
  /\ pc' = [pc EXCEPT ![s] = "building"]
  /\ id' = [id EXCEPT ![s] = i]
  /\ mode' = [mode EXCEPT ![s] = m]
  /\ runtime' = [runtime EXCEPT ![s] = "starting"]
  /\ \E p \in Started(m) : processes' = [processes EXCEPT ![s] = p]
  /\ UNCHANGED <<agents, runtimes>>

(* The factory resolved: register the runtime, whoever is there, and       *)
(* announce it. Its program may have ended already.                        *)
SpawnRegister(s) ==
  /\ pc[s] = "building"
  /\ agents' = [agents EXCEPT ![id[s]] = s]
  /\ pc' = [pc EXCEPT ![s] = "done"]
  /\ runtime' = [runtime EXCEPT ![s] = IF @ = "starting" THEN "live" ELSE @]
  /\ UNCHANGED <<runtimes, id, mode, processes>>

(* The factory rejected: no program on the terminal, no connection. A      *)
(* server that was started for the connection is left to itself.           *)
SpawnAborted(s) ==
  /\ pc[s] = "building"
  /\ Fails(s)
  /\ runtime' = [runtime EXCEPT ![s] = "none"]
  /\ processes' = [processes EXCEPT ![s] = IF mode[s] = "pty" THEN {} ELSE Lost(@)]
  /\ UNCHANGED <<agents, runtimes, id, mode>>

-----------------------------------------------------------------------------
(* kill and remove                                                         *)

Alive(s) == runtime[s] \in {"live", "dying"}

Registered == {s \in Spawns : \E i \in Ids : agents[i] = s}

(* kill, called on the runtimes of S: tell the program, if there is one.   *)
(* A terminal's kill then awaits the exit and a server-ws agent's the end  *)
(* of its 500 ms; the others set their flag at once.                       *)
KillRuntimes(S) ==
  /\ runtime' = [s \in Spawns |->
       IF s \in S /\ runtime[s] = "live"
       THEN IF mode[s] \in Lasting THEN "dying" ELSE "exited"
       ELSE runtime[s]]
  /\ processes' = [s \in Spawns |->
       IF s \in S /\ runtime[s] # "exited" THEN Told(processes[s]) ELSE processes[s]]

(* kill(id); a second kill tells the program once more.                    *)
Kill(i) ==
  /\ agents[i] # None
  /\ runtime[agents[i]] = "live"
  /\ KillRuntimes({agents[i]})
  /\ UNCHANGED <<agents, runtimes, callVars>>

\* Faulty variant: a running agent can be removed.
RemoveAny(i) ==
  /\ agents[i] # None
  /\ agents' = [agents EXCEPT ![i] = None]
  /\ UNCHANGED <<runtimes, callVars, agentVars>>

(* remove(id): only an agent whose flag is set; council frees its ids.     *)
Remove(i) ==
  /\ agents[i] # None
  /\ runtime[agents[i]] = "exited"
  /\ agents' = [agents EXCEPT ![i] = None]
  /\ UNCHANGED <<runtimes, callVars, agentVars>>

(* What is already under way continues whatever the daemon does.           *)
Progress(s) ==
  \/ SpawnUnavailable(s) \/ SpawnInUse(s)
  \/ \E i \in Ids, m \in All : SpawnBuild(s, i, m)
  \/ SpawnRegister(s) \/ SpawnAborted(s)
  \/ ProcessEnds(s) \/ ConnectionClosed(s) \/ ChildTimesOut(s)

-----------------------------------------------------------------------------
(* Properties                                                              *)

(* kill was called on the agent, or it ended: its controller says so and   *)
(* every program it can reach is told; a terminal's program has ended.     *)
Stopped(s) ==
  /\ runtime[s] = "exited"
  /\ "running" \notin processes[s]
  /\ mode[s] = "pty" => processes[s] = {}
=============================================================================
