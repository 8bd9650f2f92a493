------------------------------- MODULE Engine -------------------------------
(***************************************************************************)
(* The daemon's life around the agent manager: startEngine loads the       *)
(* runtime plugins and publishes the instance file; a teardown kills every *)
(* agent, destroys the plugins, closes the transport and ends the process  *)
(* (src/cli/engine.ts, src/plugins/loader.ts). There are two teardowns,    *)
(* the signal handler's and stop(), which an ephemeral daemon calls when   *)
(* its command is done; stop() does not ask whether the other one is under *)
(* way. Clients reach the manager until a teardown closes the transport.   *)
(***************************************************************************)
EXTENDS AgentManager

VARIABLES
  stage,      \* of the process
  stopping,
  teardown,   \* how far each teardown has come
  doomed,     \* the agents its killAll awaits: its array "live"
  destroyed,  \* the plugins it has destroyed
  open,       \* does the transport take calls?
  rivals,     \* history: pairs of spawns that awaited their factories
              \* together, for one id
  late        \* history: the agents announced after a teardown has begun

teardownVars == <<teardown, doomed, destroyed>>
engineVars   == <<stage, stopping, teardownVars, open>>
historyVars  == <<rivals, late>>
vars         == <<managerVars, engineVars, historyVars>>

Teardowns == {"signal", "stop"}

TypeOK ==
  /\ ManagerTypeOK
  /\ stage \in {"loading", "up", "down"}
  /\ stopping \in BOOLEAN /\ open \in BOOLEAN
  /\ teardown \in [Teardowns -> {"none", "killing", "destroying", "closing"}]
  /\ doomed \in [Teardowns -> SUBSET Spawns]
  /\ destroyed \in [Teardowns -> SUBSET Modes]
  /\ rivals \subseteq Spawns \X Spawns /\ late \subseteq Spawns

Init ==
  /\ ManagerInit
  /\ stage = "loading" /\ stopping = FALSE /\ open = FALSE
  /\ teardown = [t \in Teardowns |-> "none"]
  /\ doomed = [t \in Teardowns |-> {}]
  /\ destroyed = [t \in Teardowns |-> {}]
  /\ rivals = {} /\ late = {}

-----------------------------------------------------------------------------
(* Startup                                                                 *)

(* loadAll: one plugin's init.                                             *)
LoadPlugin(m) ==
  /\ stage = "loading"
  /\ RegisterRuntime(m)
  /\ UNCHANGED <<engineVars, historyVars>>

(* An init that throws ends the process.                                   *)
LoadFails ==
  /\ stage = "loading" /\ runtimes # All
  /\ stage' = "down"
  /\ UNCHANGED <<managerVars, stopping, teardownVars, open, historyVars>>

(* writeInstance: from here on clients know the url and the token.         *)
Publish ==
  /\ stage = "loading" /\ runtimes = All
  /\ stage' = "up" /\ open' = TRUE
  /\ UNCHANGED <<managerVars, stopping, teardownVars, historyVars>>

-----------------------------------------------------------------------------
(* Clients' calls, and what happens by itself                              *)

Serve ==
  /\ stage = "up" /\ open
  /\ \/ \E s \in Spawns : SpawnCall(s) \/ ChildStarts(s)
     \/ \E i \in Ids : Kill(i) \/ Remove(i)
  /\ UNCHANGED <<engineVars, historyVars>>

InFlight(i) == {t \in Spawns : pc[t] = "building" /\ id[t] = i}

Run(s) ==
  /\ stage # "down"
  /\ Progress(s)
  /\ rivals' = IF pc[s] = "probing" /\ pc'[s] = "building"
               THEN rivals \cup ({s} \X InFlight(id'[s])) \cup (InFlight(id'[s]) \X {s})
               ELSE rivals
  /\ late' = IF stopping /\ pc[s] = "building" /\ pc'[s] = "done"
             THEN late \cup {s} ELSE late
  /\ UNCHANGED engineVars

-----------------------------------------------------------------------------
(* Teardown                                                                *)

\* Faulty variants, for the mutation runs: killAll passes over the agents that
\* somebody is killing already, or kills nobody.
KillAllLive(t) ==
  /\ doomed' = [doomed EXCEPT ![t] = {s \in Registered : runtime[s] = "live"}]
  /\ KillRuntimes(doomed'[t])
KillAllQuietly(t) ==
  /\ doomed' = [doomed EXCEPT ![t] = {s \in Registered : runtime[s] # "exited"}]
  /\ UNCHANGED agentVars

(* killAll: kill is called on the registered agents that have not exited,  *)
(* and all those calls are awaited.                                        *)
KillAll(t) ==
  /\ doomed' = [doomed EXCEPT ![t] = {s \in Registered : runtime[s] # "exited"}]
  /\ KillRuntimes(doomed'[t])

Begin(t) ==
  /\ stage = "up"
  /\ stopping' = TRUE
  /\ teardown' = [teardown EXCEPT ![t] = "killing"]
  /\ KillAll(t)
  /\ UNCHANGED <<agents, runtimes, callVars, stage, destroyed, open, historyVars>>

(* shutdown: a signal is heard once, and not during stop().                *)
Signal == ~stopping /\ Begin("signal")

(* stop(), whatever is under way.                                          *)
Stop == teardown["stop"] = "none" /\ Begin("stop")

AgentsKilled(t) ==
  /\ stage = "up" /\ teardown[t] = "killing"
  /\ \A s \in doomed[t] : runtime[s] = "exited"
  /\ teardown' = [teardown EXCEPT ![t] = "destroying"]
  /\ doomed' = [doomed EXCEPT ![t] = {}]
  /\ UNCHANGED <<managerVars, stage, stopping, destroyed, open, historyVars>>

(* destroyPlugin: the disposables stay in the record, so a second teardown *)
(* unregisters the runtime again.                                          *)
DestroyPlugin(t, m) ==
  /\ stage = "up" /\ teardown[t] = "destroying" /\ m \notin destroyed[t]
  /\ destroyed' = [destroyed EXCEPT ![t] = @ \cup {m}]
  /\ UnregisterRuntime(m)
  /\ UNCHANGED <<stage, stopping, teardown, doomed, open, historyVars>>

(* transport.stop: every client is closed, no call arrives any more.       *)
CloseTransport(t) ==
  /\ stage = "up" /\ teardown[t] = "destroying" /\ destroyed[t] = Modes
  /\ teardown' = [teardown EXCEPT ![t] = "closing"]
  /\ open' = FALSE
  /\ UNCHANGED <<managerVars, stage, stopping, doomed, destroyed, historyVars>>

(* removeInstance and process.exit, with the other teardown under way or   *)
(* not.                                                                    *)
EndProcess(t) ==
  /\ stage = "up" /\ teardown[t] = "closing"
  /\ stage' = "down"
  /\ UNCHANGED <<managerVars, stopping, teardownVars, open, historyVars>>

-----------------------------------------------------------------------------
Teardown(t) ==
  \/ AgentsKilled(t)
  \/ \E m \in Modes : DestroyPlugin(t, m)
  \/ CloseTransport(t) \/ EndProcess(t)

Next ==
  \/ \E m \in Modes : LoadPlugin(m)
  \/ LoadFails \/ Publish
  \/ Serve \/ \E s \in Spawns : Run(s)
  \/ Signal \/ Stop
  \/ \E t \in Teardowns : Teardown(t)

Spec == Init /\ [][Next]_vars

(* The steps of a teardown follow one another; a kill under way comes back:*)
(* a program on a terminal that is told to stop does, and 500 ms pass.     *)
(* Nobody has to call or to stop the daemon.                               *)
Fairness ==
  /\ \A t \in Teardowns : WF_vars(Teardown(t))
  /\ \A s \in Spawns : WF_vars(runtime[s] = "dying" /\ Run(s))

FairSpec == Spec /\ Fairness

-----------------------------------------------------------------------------
(* Properties                                                              *)

(* Between the check of an id (manager.ts:111) and the registration (:125) *)
(* another spawn may take the same id: the last one to register is found.  *)
HasRival(s) == \E t \in Spawns : <<s, t>> \in rivals

(* An agent that was announced and still runs is the one its id finds, so  *)
(* that agents.list, agents.kill and the shutdown find it; the only way out*)
(* is a spawn that awaited its factory for the same id at the same time.   *)
LiveIsRegistered ==
  \A s \in Spawns : pc[s] = "done" /\ Alive(s) => agents[id[s]] = s \/ HasRival(s)

(* "Agent id ... is already in use": two agents that run never have the    *)
(* same id, so the events and bus keys agent.<id>.* are one agent's, unless*)
(* one of them was spawned in a race for it.                               *)
OneAgentPerId ==
  \A s, t \in Spawns :
    Alive(s) /\ Alive(t) /\ id[s] = id[t] => s = t \/ HasRival(s) \/ HasRival(t)

(* "Remove an exited agent": an id is taken from an agent only when its    *)
(* flag is set, or by a spawn that raced with its own for this id.         *)
IdChangesHandsAfterExit ==
  [][\A i \in Ids : agents[i] # None /\ agents'[i] # agents[i]
       => runtime[agents[i]] = "exited" \/ <<agents[i], agents'[i]>> \in rivals]_vars

(* "Terminate all live agents (used by daemon shutdown)": whichever        *)
(* teardown is first, and with another one under way, before the plugins   *)
(* their runtimes belong to and the daemon go, every agent has ended or has*)
(* at least been told to, but those announced after the teardown began and *)
(* those that lost their id to a rival.                                    *)
NoAgentIsForgotten ==
  stage = "down" \/ (\E t \in Teardowns : destroyed[t] # {}) =>
    \A s \in Spawns :
      pc[s] = "done" => Stopped(s) \/ s \in late \/ (HasRival(s) /\ agents[id[s]] # s)

(* A teardown that has begun ends the process.                             *)
TeardownCompletes == stopping ~> stage = "down"
=============================================================================
