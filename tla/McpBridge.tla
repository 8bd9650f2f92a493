----------------------------- MODULE McpBridge -----------------------------
(***************************************************************************)
(* cordy mcp-stdio (src/cli/commands/mcp-stdio.ts) beside the other        *)
(* commands: it connects once, to the latest daemon, reads requests from   *)
(* its standard input and ends when the input is closed and no handler is  *)
(* under way. A daemon that dies leaves the bridge without one for good.   *)
(***************************************************************************)
EXTENDS Discovery

CONSTANTS
  Lines,      \* the lines a host ever writes
  Crashes,    \* bound: the daemons that may be killed at any time
  Faults      \* bound: the daemons that some command cannot see

ASSUME BridgeAssumption == IsFiniteSet(Lines)

VARIABLES
  kind,      \* of each line, "unsent" before it is read
  pending,   \* the counter: the handlers under way
  replies,   \* how many messages answered each line
  closed     \* end of the standard input

bridgeVars == <<kind, pending, replies, closed>>
vars       == <<discoveryVars, bridgeVars>>

TypeOK ==
  /\ DiscoveryTypeOK
  /\ kind \in [Lines -> {"unsent", "request", "notification", "call"}]
  /\ pending \in 0..Cardinality(Lines)
  /\ replies \in [Lines -> 0..2]
  /\ closed \in BOOLEAN

Init ==
  /\ DiscoveryInit
  /\ kind = [l \in Lines |-> "unsent"]
  /\ pending = 0
  /\ replies = [l \in Lines |-> 0]
  /\ closed = FALSE

-----------------------------------------------------------------------------
Bridging(b) == b \in Bridges /\ cmd[b].pc \in {"connected", "unconnected"}

\* writeMsg
Reply(l) == replies' = [replies EXCEPT ![l] = @ + 1]

(* initialize, tools/list, ping, an unknown method or tool, a line that is *)
(* no JSON: one response at once; a notification: none.                    *)
ReadLine(b, l) ==
  /\ Bridging(b) /\ ~closed /\ kind[l] = "unsent"
  /\ \/ kind' = [kind EXCEPT ![l] = "request"] /\ Reply(l)
     \/ kind' = [kind EXCEPT ![l] = "notification"] /\ UNCHANGED replies
  /\ UNCHANGED <<discoveryVars, pending, closed>>

(* tools/call: an error at once without a daemon, else the call is awaited.*)
ReadCall(b, l) ==
  /\ Bridging(b) /\ ~closed /\ kind[l] = "unsent"
  /\ kind' = [kind EXCEPT ![l] = "call"]
  /\ IF cmd[b].pc = "connected" THEN pending' = pending + 1 /\ UNCHANGED replies
     ELSE Reply(l) /\ UNCHANGED pending
  /\ UNCHANGED <<discoveryVars, closed>>

UnderWay(l) == kind[l] = "call" /\ replies[l] = 0

(* The call has settled, by an answer, an error, the end of the connection *)
(* or its timer: respond, and count down.                                  *)
CallSettled(b, l) ==
  /\ Bridging(b) /\ UnderWay(l)
  /\ Reply(l)
  /\ pending' = pending - 1
  /\ UNCHANGED <<discoveryVars, kind, closed>>

Close(b) ==
  /\ Bridging(b) /\ ~closed
  /\ closed' = TRUE
  /\ UNCHANGED <<discoveryVars, kind, pending, replies>>

\* Faulty variant: nothing is counted.
FinishAtOnce(b) ==
  /\ Bridging(b) /\ closed
  /\ Goto(b, "done")
  /\ UNCHANGED <<proc, port, file, unseen, bridgeVars>>

(* maybeFinish: at the end of the input and after every handler.           *)
Finish(b) ==
  /\ Bridging(b) /\ closed /\ pending = 0
  /\ Goto(b, "done")
  /\ UNCHANGED <<proc, port, file, unseen, bridgeVars>>

-----------------------------------------------------------------------------
CommandStep(c) ==
  \/ Begin(c) \/ AlreadyRunning(c) \/ ForkFails(c) \/ Poll(c) \/ StopNone(c) \/ Stop(c)
  \/ Stopped(c) \/ Booted(c) \/ EngineEnds(c) \/ Find(c) \/ CommandDone(c)
  \/ \E d \in Daemons : \/ ReadFile(c, d) \/ ProbeFile(c, d) \/ UnlinkFile(c, d)
                        \/ Fork(c, d) \/ Ephemeral(c, d)

\* Bound: so many daemons are killed without a reason.
Crashing(d) ==
  /\ Cardinality({e \in Daemons : proc[e] = "dead"}) < Crashes
  /\ Crash(d)

DiscoveryStep ==
  /\ \/ \E c \in Commands : CommandStep(c) \/ Open(c) \/ TimeIsUp(c) \/ Restart(c)
     \/ \E d \in Daemons : Bind(d) \/ Publish(d) \/ Teardown(d) \/ Crashing(d)
  /\ Cardinality(unseen') <= Faults

BridgeStep(b) ==
  \/ Close(b) \/ Finish(b)
  \/ \E l \in Lines : ReadLine(b, l) \/ ReadCall(b, l) \/ CallSettled(b, l)

Next ==
  \/ DiscoveryStep /\ UNCHANGED bridgeVars
  \/ \E b \in Bridges : BridgeStep(b)

Spec == Init /\ [][Next]_vars

(* Commands go on once they have begun, their timers fire, calls settle    *)
(* (CallSettles of RpcSession). A daemon need not come up, answer nor go   *)
(* down, but an engine that is started in a command's own process comes up *)
(* or dies.                                                                *)
Fairness ==
  /\ \A c \in Commands :
       /\ WF_vars(/\ cmd[c].pc # "new" /\ CommandStep(c) /\ DiscoveryStep
                  /\ UNCHANGED bridgeVars)
       /\ WF_vars(TimeIsUp(c) /\ UNCHANGED bridgeVars)
  /\ \A d \in Daemons : WF_vars((Bind(d) \/ Publish(d)) /\ UNCHANGED bridgeVars)
  /\ \A b \in Bridges, l \in Lines : WF_vars(CallSettled(b, l))
  /\ \A b \in Bridges : WF_vars(Finish(b))

FairSpec == Spec /\ Fairness

-----------------------------------------------------------------------------
(* Properties                                                              *)

(* "Atomic writes (tmp + rename)": a daemon that serves can be found,      *)
(* although every reader unlinks what it takes for stale or corrupt. Only  *)
(* one that was kept from reading the file or from signalling the daemon   *)
(* takes a good one.                                                       *)
LiveIsDiscoverable ==
  \A d \in Daemons : proc[d] = "serving" => file[d] = "complete" \/ d \in unseen

(* A command talks to the daemon whose record it read, also when that one  *)
(* has died and another has taken its port.                                *)
ReachesWhatItFound ==
  \A c \in Commands : cmd[c].at # None => cmd[c].at = cmd[c].pick

(* "so we don't exit before async responses land": no line is answered     *)
(* twice, and when the bridge ends every request and call has its answer.  *)
NoLineIsLost ==
  \A b \in Bridges, l \in Lines :
    /\ replies[l] <= 1
    /\ cmd[b].pc = "done" /\ kind[l] \in {"request", "call"} => replies[l] = 1

(* Commands come to their end although daemons die, hang or never come up, *)
(* but for two waits that have no timer: for the answer to the upgrade and *)
(* for the end of the engine in the command's own process. The bridge ends *)
(* when its input does.                                                    *)
CommandsEnd ==
  /\ \A c \in Commands \ Bridges :
       cmd[c].pc \notin {"new", "opening", "ending"}
         ~> cmd[c].pc \in {"done", "ready", "failed", "opening", "ending"}
  /\ \A b \in Bridges : closed ~> cmd[b].pc = "done"
=============================================================================
