---------------------------- MODULE WsController ----------------------------
(***************************************************************************)
(* An agent of the server-ws runtime (src/agents/server-ws-controller.ts): *)
(* a WebSocket to a server the controller may have started itself. The end *)
(* of the server, the close event of the socket and kill's own timer race  *)
(* to finish the agent.                                                    *)
(*                                                                         *)
(* The agent is reachable for its clients once start has resolved. What a  *)
(* frame does to status and messages is the driver's parser's choice.      *)
(***************************************************************************)
EXTENDS Naturals

CONSTANTS Submits, Kills   \* the calls ever made

VARIABLES
  start,    \* the start promise
  server,   \* the child process, if the spec has one
  ws,       \* readyState, and whether there is a socket at all
  ready, exited, status,
  exits,    \* history: how often exit was announced
  submit, kill,
  crashed   \* an error nobody handles: node ends the daemon

vars == <<start, server, ws, ready, exited, status, exits, submit, kill, crashed>>

TypeOK ==
  /\ start \in {"new", "binding", "connecting", "resolved", "rejected"}
  /\ server \in {"none", "running", "signalled", "gone"}
  /\ ws \in {"none", "connecting", "open", "closing", "closed"}
  /\ ready \in BOOLEAN /\ exited \in BOOLEAN /\ crashed \in BOOLEAN
  /\ status \in {"starting", "idle", "busy", "exited"}
  /\ exits \in 0..2
  /\ submit \in [Submits -> {"new", "interrupting", "waiting", "refused",
                             "accepted", "answered", "rejected"}]
  /\ kill \in [Kills -> {"new", "waiting", "found exited", "done"}]

Init ==
  /\ start = "new" /\ server = "none" /\ ws = "none"
  /\ ready = FALSE /\ exited = FALSE /\ status = "starting" /\ exits = 0
  /\ submit = [s \in Submits |-> "new"]
  /\ kill = [k \in Kills |-> "new"]
  /\ crashed = FALSE

-----------------------------------------------------------------------------
\* Faulty variant: the second of two racing ends announces the exit again.
OnConnectionClosedAgain ==
  /\ exited' = TRUE
  /\ status' = "exited"
  /\ exits' = IF exits < 2 THEN exits + 1 ELSE exits

(* The end of the agent, whoever notices it first; the others find _exited *)
(* set.                                                                    *)
OnConnectionClosed ==
  IF exited THEN UNCHANGED <<exited, status, exits>>
  ELSE /\ exited' = TRUE
       /\ status' = "exited"
       /\ exits' = exits + 1

-----------------------------------------------------------------------------
(* start: the server first, 200 ms later the connection                    *)

Start ==
  /\ start = "new"
  /\ \/ server' = "running" /\ start' = "binding" /\ UNCHANGED ws
     \/ start' = "connecting" /\ ws' = "connecting" /\ UNCHANGED server
  /\ UNCHANGED <<ready, exited, status, exits, submit, kill, crashed>>

ConnectWs ==
  /\ start = "binding"
  /\ start' = "connecting" /\ ws' = "connecting"
  /\ UNCHANGED <<server, ready, exited, status, exits, submit, kill, crashed>>

(* No such command: the child's error event has no listener.               *)
ServerMissing ==
  /\ start = "binding" /\ server = "running"
  /\ server' = "gone" /\ crashed' = TRUE
  /\ UNCHANGED <<start, ws, ready, exited, status, exits, submit, kill>>

Opened ==
  /\ ws = "connecting"
  /\ ws' = "open" /\ ready' = TRUE /\ start' = "resolved"
  /\ status' = IF status = "starting" THEN "idle" ELSE status
  /\ UNCHANGED <<server, exited, exits, submit, kill, crashed>>

\* Faulty variant: a connection attempt has no timer.
ConnectFailsRefusedOnly ==
  /\ ws = "connecting" /\ server = "gone"
  /\ ws' = "closing" /\ start' = "rejected"
  /\ UNCHANGED <<server, ready, exited, status, exits, submit, kill, crashed>>

(* Refused, or the 15 s are over: start rejects, the close event follows.  *)
(* The server keeps running.                                               *)
ConnectFails ==
  /\ ws = "connecting"
  /\ ws' = "closing" /\ start' = "rejected"
  /\ UNCHANGED <<server, ready, exited, status, exits, submit, kill, crashed>>

-----------------------------------------------------------------------------
(* The socket and the server                                               *)

(* The other side closes: readyState changes before the event comes.       *)
Closing ==
  /\ ws = "open"
  /\ ws' = "closing"
  /\ UNCHANGED <<start, server, ready, exited, status, exits, submit, kill, crashed>>

Closed ==
  /\ ws = "closing"
  /\ ws' = "closed"
  /\ OnConnectionClosed
  /\ UNCHANGED <<start, server, ready, submit, kill, crashed>>

ServerExits ==
  /\ server \in {"running", "signalled"}
  /\ server' = "gone"
  /\ OnConnectionClosed
  /\ UNCHANGED <<start, ws, ready, submit, kill, crashed>>

(* feedChunk: a state, events and perhaps a message, which every submit    *)
(* that waits takes for its answer. Also after the exit.                   *)
Frame ==
  /\ ws \in {"open", "closing"} /\ start = "resolved"
  /\ status' \in {status, "idle", "busy"}
  /\ \/ UNCHANGED submit
     \/ submit' = [s \in Submits |-> CASE submit[s] = "waiting" -> "answered"
                                       [] submit[s] = "refused" -> "rejected"
                                       [] OTHER -> submit[s]]
  /\ UNCHANGED <<start, server, ws, ready, exited, exits, kill, crashed>>

-----------------------------------------------------------------------------
(* submit and interrupt                                                    *)

CanWrite == ~exited /\ ws = "open"

(* The message promise and its timer exist before the frame is written; a  *)
(* write that throws leaves them behind.                                   *)
Send(s) ==
  \E expectMessage \in BOOLEAN :
    submit' = [submit EXCEPT ![s] =
                 CASE CanWrite /\ expectMessage -> "waiting"
                   [] CanWrite /\ ~expectMessage -> "accepted"
                   [] ~CanWrite /\ expectMessage -> "refused"
                   [] ~CanWrite /\ ~expectMessage -> "rejected"]

Submit(s) ==
  /\ submit[s] = "new" /\ start = "resolved"
  /\ IF exited \/ ~ready
     THEN submit' = [submit EXCEPT ![s] = "rejected"]
     ELSE \/ Send(s)
          \/ /\ status = "busy"   \* interruptIfBusy
             /\ submit' = [submit EXCEPT ![s] = IF CanWrite THEN "interrupting"
                                                ELSE "rejected"]
  /\ UNCHANGED <<start, server, ws, ready, exited, status, exits, kill, crashed>>

(* control.interrupt has returned; nothing is checked again.               *)
Interrupted(s) ==
  /\ submit[s] = "interrupting"
  /\ Send(s)
  /\ UNCHANGED <<start, server, ws, ready, exited, status, exits, kill, crashed>>

(* waitForMessage's timer. After a refused write nobody awaits the promise.*)
TimerFires(s) ==
  /\ \/ submit[s] = "waiting" /\ submit' = [submit EXCEPT ![s] = "accepted"]
                              /\ UNCHANGED crashed
     \/ submit[s] = "refused" /\ submit' = [submit EXCEPT ![s] = "rejected"]
                              /\ crashed' = TRUE
  /\ UNCHANGED <<start, server, ws, ready, exited, status, exits, kill>>

-----------------------------------------------------------------------------
(* kill                                                                    *)

\* Faulty variant: the server is signalled only with the socket still open.
KillSocketOnly(k) ==
  /\ kill[k] = "new" /\ start = "resolved"
  /\ IF exited
     THEN kill' = [kill EXCEPT ![k] = "found exited"] /\ UNCHANGED <<ws, server>>
     ELSE /\ kill' = [kill EXCEPT ![k] = "waiting"]
          /\ ws' = IF ws = "open" THEN "closing" ELSE ws
          /\ server' = IF server = "running" /\ ws = "open" THEN "signalled" ELSE server
  /\ UNCHANGED <<start, ready, exited, status, exits, submit, crashed>>

(* Close the socket, signal the server, wait 500 ms.                       *)
Kill(k) ==
  /\ kill[k] = "new" /\ start = "resolved"
  /\ IF exited
     THEN kill' = [kill EXCEPT ![k] = "found exited"] /\ UNCHANGED <<ws, server>>
     ELSE /\ kill' = [kill EXCEPT ![k] = "waiting"]
          /\ ws' = IF ws = "open" THEN "closing" ELSE ws
          /\ server' = IF server = "running" THEN "signalled" ELSE server
  /\ UNCHANGED <<start, ready, exited, status, exits, submit, crashed>>

Killed(k) ==
  /\ kill[k] = "waiting"
  /\ kill' = [kill EXCEPT ![k] = "done"]
  /\ OnConnectionClosed
  /\ UNCHANGED <<start, server, ws, ready, submit, crashed>>

-----------------------------------------------------------------------------
Next ==
  /\ ~crashed
  /\ \/ Start \/ ConnectWs \/ ServerMissing \/ Opened \/ ConnectFails
     \/ Closing \/ Closed \/ ServerExits \/ Frame
     \/ \E s \in Submits : Submit(s) \/ Interrupted(s) \/ TimerFires(s)
     \/ \E k \in Kills : Kill(k) \/ Killed(k)

Spec == Init /\ [][Next]_vars

(* Timers fire, and the interrupt's promise settles; no peer has to answer.*)
Fairness ==
  /\ WF_vars(~crashed /\ (ConnectWs \/ ConnectFails))
  /\ \A s \in Submits : WF_vars(~crashed /\ (Interrupted(s) \/ TimerFires(s)))
  /\ \A k \in Kills : WF_vars(~crashed /\ Killed(k))

FairSpec == Spec /\ Fairness

-----------------------------------------------------------------------------
(* Properties                                                              *)

(* However the end of the server, the close event and kill's timer race,   *)
(* the exit is announced once: the manager and the bus hear one            *)
(* agent.exited.                                                           *)
ExitIsAnnouncedOnce == exits = IF exited THEN 1 ELSE 0

(* A kill that found the agent running leaves no connection open and no    *)
(* server unsignalled, and the agent is exited when it returns.            *)
KillIsFinal ==
  \A k \in Kills :
    /\ kill[k] \in {"waiting", "done"} => ws # "open" /\ server # "running"
    /\ kill[k] = "done" => exited

(* start, submit and kill come back, whatever the server does: an answer   *)
(* nobody sends and a handshake nobody completes are cut off.              *)
CallsSettle ==
  /\ start \in {"binding", "connecting"}
       ~> start \in {"resolved", "rejected"} \/ crashed
  /\ \A s \in Submits :
       submit[s] \in {"interrupting", "waiting"}
         ~> submit[s] \in {"answered", "accepted", "rejected", "refused"} \/ crashed
  /\ \A k \in Kills : kill[k] = "waiting" ~> kill[k] = "done" \/ crashed
=============================================================================
