----------------------------- MODULE EventFlow -----------------------------
(***************************************************************************)
(* How an agent's events reach the clients and the audit trail: the        *)
(* transport's forwards (src/transport/server.ts), the audit plugin        *)
(* (src/plugins/builtin/audit/index.ts), the subscriptions of a plugin     *)
(* (src/plugins/loader.ts) and the driver that waits for its agent to be   *)
(* idle, all on one service bus. An emit calls its listeners before it     *)
(* returns, so that an event and what it causes is one step.               *)
(*                                                                         *)
(* Of an agent's events message and state are kept; a listener is          *)
(* <<owner, event, the agent whose announcement led to it>>.               *)
(***************************************************************************)
EXTENDS Naturals, Sequences, FiniteSets, Functions

CONSTANTS Agents, Ids, None

Created == <<None, "agent.created">>
Events  == {Created} \cup Ids \X {"message", "state"}

Listeners ==
  {<<owner, Created, None>> : owner \in {"forward", "wire", "log", "audit", "plugin"}}
  \cup {<<owner, <<i, kind>>, a>> : owner \in {"forward", "audit", "wait"},
                                    i \in Ids, kind \in {"message", "state"}, a \in Agents}

ASSUME FlowAssumption ==
  None \notin Agents \cup Ids \cup Listeners /\ IsFiniteSet(Agents)

EventOf(l) == l[2]

B == INSTANCE Bus WITH NoSet <- None

VARIABLES
  engine,       \* how far startEngine and its shutdown are
  audit,        \* is the audit plugin enabled?
  bus,
  cleanups,     \* the handles of the transport
  disposables,  \* of the audit and of the other plugin
  life, id,     \* of each agent
  idle,         \* its status is idle
  emitted,      \* has it had its message? Bound: one each
  sent,         \* how often the clients were notified of it
  audited,      \* how often it was written to the trail
  watched,      \* was it announced to the audit plugin?
  wait          \* its driver's waitForReady

agentVars == <<life, id, idle, emitted, sent, audited, watched, wait>>
flowVars  == <<engine, audit, bus, cleanups, disposables, agentVars>>

FlowTypeOK ==
  /\ engine \in {"new", "listening", "auditing", "serving", "unplugging",
                 "unauditing", "closing", "stopped"}
  /\ audit \in BOOLEAN
  /\ cleanups \in Seq(Listeners)
  /\ disposables \in [{"audit", "plugin"} -> Seq(Listeners)]
  /\ life \in [Agents -> {"none", "built", "announced", "gone"}]
  /\ id \in [Agents -> Ids \cup {None}]
  /\ idle \in [Agents -> BOOLEAN]
  /\ emitted \in [Agents -> BOOLEAN]
  /\ sent \in [Agents -> 0..Cardinality(Agents)]
  /\ audited \in [Agents -> 0..Cardinality(Agents)]
  /\ watched \in [Agents -> BOOLEAN]
  /\ wait \in [Agents -> {"none", "pending", "ready", "failed"}]

FlowInit ==
  /\ engine = "new"
  /\ audit \in BOOLEAN
  /\ bus = B!EmptyBus
  /\ cleanups = <<>>
  /\ disposables = [p \in {"audit", "plugin"} |-> <<>>]
  /\ life = [a \in Agents |-> "none"]
  /\ id = [a \in Agents |-> None]
  /\ idle = [a \in Agents |-> FALSE]
  /\ emitted = [a \in Agents |-> FALSE]
  /\ sent = [a \in Agents |-> 0]
  /\ audited = [a \in Agents |-> 0]
  /\ watched = [a \in Agents |-> FALSE]
  /\ wait = [a \in Agents |-> "none"]

-----------------------------------------------------------------------------
(* startEngine                                                             *)

Forwards(i, a) == << <<"forward", <<i, "message">>, a>>, <<"forward", <<i, "state">>, a>> >>

StartTransport ==
  /\ engine = "new"
  /\ engine' = "listening"
  /\ cleanups' = << <<"forward", Created, None>>, <<"wire", Created, None>> >>
  /\ bus' = B!OnAll(bus, cleanups')
  /\ UNCHANGED <<audit, disposables, agentVars>>

\* ctx.subscribe
Subscribe(plugin, ls) ==
  /\ bus' = B!OnAll(bus, ls)
  /\ disposables' = [disposables EXCEPT ![plugin] = @ \o ls]

LoadAudit ==
  /\ engine = "listening"
  /\ engine' = "auditing"
  /\ IF audit
       THEN Subscribe("audit", << <<"log", Created, None>>, <<"audit", Created, None>> >>)
       ELSE UNCHANGED <<bus, disposables>>
  /\ UNCHANGED <<audit, cleanups, agentVars>>

LoadPlugin ==
  /\ engine = "auditing"
  /\ engine' = "serving"
  /\ Subscribe("plugin", << <<"plugin", Created, None>> >>)
  /\ UNCHANGED <<audit, cleanups, agentVars>>

(* The plugin calls the handle itself; the handle stays in disposables.    *)
PluginLeaves ==
  /\ engine = "serving"
  /\ bus' = B!Off(bus, <<"plugin", Created, None>>)
  /\ UNCHANGED <<engine, audit, cleanups, disposables, agentVars>>

-----------------------------------------------------------------------------
(* The shutdown: destroyPlugin awaits one disposable after the other, in   *)
(* the reverse order of loading; new ones may be pushed meanwhile          *)

BeginShutdown ==
  /\ engine = "serving"
  /\ engine' = "unplugging"
  /\ UNCHANGED <<audit, bus, cleanups, disposables, agentVars>>

Dispose(plugin) ==
  /\ disposables[plugin] # <<>>
  /\ bus' = B!Off(bus, Head(disposables[plugin]))
  /\ disposables' = [disposables EXCEPT ![plugin] = Tail(@)]
  /\ UNCHANGED <<engine, audit, cleanups, agentVars>>

DestroyPlugins ==
  \/ engine = "unplugging" /\ Dispose("plugin")
  \/ engine = "unauditing" /\ Dispose("audit")
  \/ /\ engine = "unplugging" /\ disposables["plugin"] = <<>>
     /\ engine' = "unauditing"
     /\ UNCHANGED <<audit, bus, cleanups, disposables, agentVars>>
  \/ /\ engine = "unauditing" /\ disposables["audit"] = <<>>
     /\ engine' = "closing"
     /\ UNCHANGED <<audit, bus, cleanups, disposables, agentVars>>

\* Faulty variant: only the handles of startTransport itself are called.
StopTransportStatic ==
  /\ engine = "closing"
  /\ engine' = "stopped"
  /\ bus' = B!OffEach(bus, SubSeq(cleanups, 1, 2))
  /\ cleanups' = <<>>
  /\ UNCHANGED <<audit, disposables, agentVars>>

StopTransport ==
  /\ engine = "closing"
  /\ engine' = "stopped"
  /\ bus' = B!OffEach(bus, cleanups)
  /\ cleanups' = <<>>
  /\ UNCHANGED <<audit, disposables, agentVars>>

-----------------------------------------------------------------------------
(* Agents                                                                  *)

Running(a) == engine \notin {"new", "stopped"} /\ life[a] \in {"built", "announced"}

Build(a, i) ==
  /\ engine \notin {"new", "stopped"} /\ life[a] = "none"
  /\ \A b \in Agents : id[b] = i => life[b] = "gone"
  /\ life' = [life EXCEPT ![a] = "built"]
  /\ id' = [id EXCEPT ![a] = i]
  /\ UNCHANGED <<engine, audit, bus, cleanups, disposables,
                 idle, emitted, sent, audited, watched, wait>>

\* Faulty variant: the announcements are waited for with once.
WireOnce(b, a) ==
  IF <<"wire", Created, None>> \notin B!Heard(b, Created) THEN b
  ELSE B!OnAll(B!Off(b, <<"wire", Created, None>>), Forwards(id[a], a))

Wire(b, a) ==
  IF <<"wire", Created, None>> \notin B!Heard(b, Created) THEN b
  ELSE B!OnAll(b, Forwards(id[a], a))

(* agent.created: the transport wires the agent's forwards, the audit      *)
(* plugin its own listeners. What the agent emitted before, and what       *)
(* earlier agents of the id left behind, stays as it is.                   *)
Announce(a) ==
  LET seen  == <<"audit", Created, None>> \in B!Heard(bus, Created)
      trail == IF seen THEN << <<"audit", <<id[a], "message">>, a>> >> ELSE <<>>
  IN /\ Running(a) /\ life[a] = "built"
     /\ life' = [life EXCEPT ![a] = "announced"]
     /\ watched' = [watched EXCEPT ![a] = seen]
     /\ bus' = B!OnAll(Wire(bus, a), trail)
     /\ cleanups' = cleanups \o Forwards(id[a], a)
     /\ disposables' = [disposables EXCEPT !["audit"] = @ \o trail]
     /\ UNCHANGED <<engine, audit, id, idle, emitted, sent, audited, wait>>

\* Those of one owner that an emit of the agent calls.
Calls(a, kind, owner) == {l \in B!Heard(bus, <<id[a], kind>>) : l[1] = owner}

(* An agent is sent no prompt, and so has no message, before it is known.  *)
Message(a) ==
  /\ Running(a) /\ life[a] = "announced" /\ ~emitted[a]
  /\ emitted' = [emitted EXCEPT ![a] = TRUE]
  /\ sent' = [sent EXCEPT ![a] = Cardinality(Calls(a, "message", "forward"))]
  /\ audited' = [audited EXCEPT ![a] = Cardinality(Calls(a, "message", "audit"))]
  /\ UNCHANGED <<engine, audit, bus, cleanups, disposables,
                 life, id, idle, watched, wait>>

Waiter(a) == <<"wait", <<id[a], "state">>, a>>

\* The order they were added in; it makes no difference.
InAnyOrder(ls) == Bijection(1..Cardinality(ls), ls)

(* publishState: the waits on the id end, if the status is idle.           *)
State(a, becomes) ==
  LET ended == IF becomes THEN Calls(a, "state", "wait") ELSE {}
  IN /\ Running(a)
     /\ idle' = [idle EXCEPT ![a] = becomes]
     /\ \E order \in InAnyOrder(ended) : bus' = B!OffEach(bus, order)
     /\ wait' = [b \in Agents |-> IF Waiter(b) \in ended THEN "ready" ELSE wait[b]]
     /\ UNCHANGED <<engine, audit, cleanups, disposables,
                    life, id, emitted, sent, audited, watched>>

(* The process ends, and the agent is removed from the manager.            *)
Gone(a) ==
  /\ Running(a) /\ life[a] = "announced"
  /\ life' = [life EXCEPT ![a] = "gone"]
  /\ idle' = [idle EXCEPT ![a] = FALSE]
  /\ UNCHANGED <<engine, audit, bus, cleanups, disposables,
                 id, emitted, sent, audited, watched, wait>>

-----------------------------------------------------------------------------
(* ClaudeControl.waitForReady and ServiceBus.waitFor                       *)

\* Faulty variant: the present status is not looked at.
WaitForReadyBlind(a) ==
  /\ Running(a) /\ wait[a] = "none"
  /\ bus' = B!On(bus, Waiter(a)) /\ wait' = [wait EXCEPT ![a] = "pending"]
  /\ UNCHANGED <<engine, audit, cleanups, disposables,
                 life, id, idle, emitted, sent, audited, watched>>

WaitForReady(a) ==
  /\ Running(a) /\ wait[a] = "none"
  /\ IF idle[a]
       THEN wait' = [wait EXCEPT ![a] = "ready"] /\ UNCHANGED bus
       ELSE bus' = B!On(bus, Waiter(a)) /\ wait' = [wait EXCEPT ![a] = "pending"]
  /\ UNCHANGED <<engine, audit, cleanups, disposables,
                 life, id, idle, emitted, sent, audited, watched>>

WaitTimeout(a) ==
  /\ wait[a] = "pending"
  /\ bus' = B!Off(bus, Waiter(a))
  /\ wait' = [wait EXCEPT ![a] = "failed"]
  /\ UNCHANGED <<engine, audit, cleanups, disposables,
                 life, id, idle, emitted, sent, audited, watched>>

-----------------------------------------------------------------------------
FlowNext ==
  \/ StartTransport \/ LoadAudit \/ LoadPlugin \/ PluginLeaves
  \/ BeginShutdown \/ DestroyPlugins \/ StopTransport
  \/ \E a \in Agents :
       \/ \E i \in Ids : Build(a, i)
       \/ Announce(a) \/ Message(a) \/ Gone(a)
       \/ \E becomes \in BOOLEAN : State(a, becomes)
       \/ WaitForReady(a) \/ WaitTimeout(a)

FlowSpec == FlowInit /\ [][FlowNext]_flowVars

-----------------------------------------------------------------------------
(* Properties                                                              *)

(* "all listeners run before emit returns": while the daemon serves, no    *)
(* listener that has not been taken off sits in a Set that no emit reads,  *)
(* whoever else subscribes and unsubscribes.                               *)
ListenersAreHeard ==
  engine \in {"listening", "auditing", "serving"} =>
    \A l \in Listeners :
      bus.handle[l] # None /\ l \in bus.sets[bus.handle[l]]
        => l \in B!Heard(bus, EventOf(l))

FirstOfId(a) == \A b \in Agents \ {a} : id[b] # id[a]

(* What an announced agent emits reaches the clients until the transport   *)
(* stops, and the trail if the plugin was there in time; once, unless its  *)
(* id has had other agents.                                                *)
EventsArrive ==
  \A a \in Agents : emitted[a] =>
    /\ sent[a] >= 1
    /\ watched[a] /\ engine = "serving" => audited[a] >= 1
    /\ FirstOfId(a) => sent[a] = 1 /\ audited[a] <= 1

(* A driver waits only for an agent that is not idle: the status is read   *)
(* and the listener added with no event in between.                        *)
NoWakeupIsMissed == \A a \in Agents : wait[a] = "pending" /\ life[a] # "gone" => ~idle[a]

(* "track and clean up their subscriptions": a wait that has ended and a   *)
(* daemon that has stopped leave no listener behind, those of agents       *)
(* announced during the shutdown included.                                 *)
NothingIsLeftBehind ==
  \A e \in Events : \A l \in B!Heard(bus, e) :
    IF l[1] = "wait" THEN wait[l[3]] = "pending" ELSE engine # "stopped"
=============================================================================
