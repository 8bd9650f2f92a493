----------------------------- MODULE RpcSession -----------------------------
(***************************************************************************)
(* One client's connection to the daemon: RpcClient's calls with their     *)
(* timers (src/cli/client.ts), the dispatcher and the session at the other *)
(* end (src/transport/{rpc,server,client-session,methods}.ts), and the     *)
(* notifications that share the connection with the answers.               *)
(*                                                                         *)
(* The server awaits each request's handler by itself, so answers overtake *)
(* one another. A handler that awaits nothing runs in the step its request *)
(* arrives in; its answer is sent by a continuation, and requests that     *)
(* came in one chunk are all dispatched before it (Reply).                 *)
(***************************************************************************)
EXTENDS Naturals, Sequences

CONSTANTS
  MaxCalls,  \* bound: how many calls the client makes
  None,      \* no method yet
  Backlog    \* bound: how many messages to the client an event may join

ASSUME RpcAssumption ==
  /\ None \notin {"work", "wrong", "subscribe", "unsubscribe"}
  /\ MaxCalls \in Nat /\ Backlog \in Nat

(* A call is known by its id: nextId++.                                    *)
Calls == 1 .. MaxCalls

VARIABLES
  \* the client
  pc,          \* each call: new, in "pending", or settled in one way
  kind,        \* the method it asks for
  nextId,
  clientOpen,  \* its socket's 'close' event has not come
  \* the connection
  link,
  toServer,    \* requests on their way, in order
  toClient,    \* answers and notifications on their way, in order
  \* the daemon
  handler,     \* the handler of each request
  owed,        \* the calls whose handler is back and whose answer is not sent
  subscribed,  \* does the session's set hold the opt-in event?
  serverOpen   \* is the session among the dispatcher's clients?

clientVars == <<pc, kind, nextId, clientOpen>>
wireVars   == <<link, toServer, toClient>>
serverVars == <<handler, owed, subscribed, serverOpen>>
vars       == <<clientVars, wireVars, serverVars>>

(* "work" stands for a method that awaits (agents.spawn, submit, kill),    *)
(* "wrong" for an unknown method or bad parameters.                        *)
Kinds == {"work", "wrong", "subscribe", "unsubscribe"}
Settled == {"resolved", "rejected", "timedout", "disconnected"}

Answers == [tag : {"answer"}, call : Calls, ok : BOOLEAN]
Answer(c, ok) == [tag |-> "answer", call |-> c, ok |-> ok]
Event == [tag |-> "event"]

TypeOK ==
  /\ pc \in [Calls -> {"new", "pending"} \cup Settled]
  /\ kind \in [Calls -> Kinds \cup {None}]
  /\ nextId \in 1 .. MaxCalls + 1
  /\ clientOpen \in BOOLEAN
  /\ link \in {"up", "down"}
  /\ toServer \in Seq(Calls)
  /\ toClient \in Seq(Answers \cup {Event})
  /\ handler \in [Calls -> {"none", "running", "ok", "error"}]
  /\ owed \subseteq Calls
  /\ subscribed \in BOOLEAN
  /\ serverOpen \in BOOLEAN

Init ==
  /\ pc = [c \in Calls |-> "new"]
  /\ kind = [c \in Calls |-> None]
  /\ nextId = 1 /\ clientOpen = TRUE
  /\ link = "up" /\ toServer = <<>> /\ toClient = <<>>
  /\ handler = [c \in Calls |-> "none"] /\ owed = {}
  /\ subscribed = FALSE /\ serverOpen = TRUE

-----------------------------------------------------------------------------
(* The client                                                              *)

(* A send on a socket that is not open is dropped: the call then waits for *)
(* the close event or its timer.                                           *)
Call(c, method) ==
  /\ c = nextId /\ nextId' = nextId + 1
  /\ kind' = [kind EXCEPT ![c] = method]
  /\ pc' = [pc EXCEPT ![c] = "pending"]
  /\ toServer' = IF link = "up" THEN Append(toServer, c) ELSE toServer
  /\ UNCHANGED <<clientOpen, link, toClient, serverVars>>

\* Faulty variant, for the mutation runs: an answer settles the oldest call
\* that waits.
SettleOldest(answer) ==
  \E c \in Calls :
    /\ pc[c] = "pending" /\ \A d \in 1 .. c - 1 : pc[d] # "pending"
    /\ pc' = [pc EXCEPT ![c] = IF answer.ok THEN "resolved" ELSE "rejected"]

(* A call that has settled is no longer in "pending": its answer is late   *)
(* and ignored.                                                            *)
Settle(answer) ==
  pc' = [pc EXCEPT ![answer.call] =
           IF @ # "pending" THEN @ ELSE IF answer.ok THEN "resolved" ELSE "rejected"]

DeliverAnswer ==
  /\ clientOpen /\ toClient # <<>> /\ Head(toClient).tag = "answer"
  /\ Settle(Head(toClient))
  /\ toClient' = Tail(toClient)
  /\ UNCHANGED <<kind, nextId, clientOpen, link, toServer, serverVars>>

(* The callbacks registered with on() run.                                 *)
DeliverEvent ==
  /\ clientOpen /\ toClient # <<>> /\ Head(toClient).tag = "event"
  /\ toClient' = Tail(toClient)
  /\ UNCHANGED <<clientVars, link, toServer, serverVars>>

Timeout(c) ==
  /\ pc[c] = "pending"
  /\ pc' = [pc EXCEPT ![c] = "timedout"]
  /\ UNCHANGED <<kind, nextId, clientOpen, wireVars, serverVars>>

\* Faulty variant: the close event clears the timers and tells nobody.
CloseSilently ==
  /\ clientOpen /\ link = "down" /\ toClient = <<>>
  /\ clientOpen' = FALSE
  /\ pc' = [c \in Calls |-> IF pc[c] = "pending" THEN "forgotten" ELSE pc[c]]
  /\ UNCHANGED <<kind, nextId, wireVars, serverVars>>

(* 'close' comes after everything that was received: reject what waits.    *)
ClientCloses ==
  /\ clientOpen /\ link = "down" /\ toClient = <<>>
  /\ clientOpen' = FALSE
  /\ pc' = [c \in Calls |-> IF pc[c] = "pending" THEN "disconnected" ELSE pc[c]]
  /\ UNCHANGED <<kind, nextId, wireVars, serverVars>>

-----------------------------------------------------------------------------
(* The daemon                                                              *)

Returns(c, ok) ==
  /\ handler' = [handler EXCEPT ![c] = IF ok THEN "ok" ELSE "error"]
  /\ owed' = owed \cup {c}

Arrives(c) ==
  /\ serverOpen /\ toServer # <<>> /\ Head(toServer) = c
  /\ toServer' = Tail(toServer)

DispatchWork(c) ==
  /\ Arrives(c) /\ kind[c] = "work"
  /\ handler' = [handler EXCEPT ![c] = "running"]
  /\ UNCHANGED <<clientVars, link, toClient, owed, subscribed, serverOpen>>

(* No such method, or a parameter is missing.                              *)
DispatchWrong(c) ==
  /\ Arrives(c) /\ kind[c] = "wrong"
  /\ Returns(c, FALSE)
  /\ UNCHANGED <<clientVars, link, toClient, subscribed, serverOpen>>

\* Faulty variant: unsubscribe forgets to delete.
DispatchSwitchAdds(c) ==
  /\ Arrives(c) /\ kind[c] \in {"subscribe", "unsubscribe"}
  /\ subscribed' = (subscribed \/ kind[c] = "subscribe")
  /\ Returns(c, TRUE)
  /\ UNCHANGED <<clientVars, link, toClient, serverOpen>>

(* notifications.subscribe and unsubscribe: their handlers await nothing.  *)
DispatchSwitch(c) ==
  /\ Arrives(c) /\ kind[c] \in {"subscribe", "unsubscribe"}
  /\ subscribed' = (kind[c] = "subscribe")
  /\ Returns(c, TRUE)
  /\ UNCHANGED <<clientVars, link, toClient, serverOpen>>

(* A handler comes back, with a result or an exception, also when its      *)
(* client has gone.                                                        *)
Finish(c, ok) ==
  /\ handler[c] = "running"
  /\ Returns(c, ok)
  /\ UNCHANGED <<clientVars, wireVars, subscribed, serverOpen>>

(* session.send: dropped unless the socket is open.                        *)
Reply(c) ==
  /\ c \in owed
  /\ owed' = owed \ {c}
  /\ toClient' = IF link = "up" THEN Append(toClient, Answer(c, handler[c] = "ok")) ELSE toClient
  /\ UNCHANGED <<clientVars, link, toServer, handler, subscribed, serverOpen>>

\* Faulty variant: every client in the pool gets every event.
BroadcastToAll ==
  /\ serverOpen
  /\ link = "up" /\ Len(toClient) < Backlog
  /\ toClient' = Append(toClient, Event)
  /\ UNCHANGED <<clientVars, link, toServer, serverVars>>

(* broadcast: an event of the bus to the subscribed clients of the pool.   *)
Broadcast ==
  /\ serverOpen /\ subscribed
  /\ link = "up" /\ Len(toClient) < Backlog
  /\ toClient' = Append(toClient, Event)
  /\ UNCHANGED <<clientVars, link, toServer, serverVars>>

ServerCloses ==
  /\ serverOpen /\ link = "down" /\ toServer = <<>>
  /\ serverOpen' = FALSE
  /\ UNCHANGED <<clientVars, wireVars, handler, owed, subscribed>>

-----------------------------------------------------------------------------
(* The connection ends: either side closes it, the daemon stops or the     *)
(* network fails. What was on its way arrives up to some point.            *)
Break ==
  /\ link = "up" /\ link' = "down"
  /\ \E n \in 0 .. Len(toServer) : toServer' = SubSeq(toServer, 1, n)
  /\ \E n \in 0 .. Len(toClient) : toClient' = SubSeq(toClient, 1, n)
  /\ UNCHANGED <<clientVars, serverVars>>

-----------------------------------------------------------------------------
Client(c) == Timeout(c) \/ \E method \in Kinds : Call(c, method)
Daemon(c) ==
  \/ DispatchWork(c) \/ DispatchWrong(c) \/ DispatchSwitch(c)
  \/ \E ok \in BOOLEAN : Finish(c, ok)
  \/ Reply(c)

Next ==
  \/ \E c \in Calls : Client(c) \/ Daemon(c)
  \/ DeliverAnswer \/ DeliverEvent \/ ClientCloses
  \/ Broadcast \/ ServerCloses
  \/ Break

Spec == Init /\ [][Next]_vars

(* Timers fire. The daemon, the network and the handlers may stay silent.  *)
Fairness == \A c \in Calls : WF_vars(Timeout(c))

FairSpec == Spec /\ Fairness

-----------------------------------------------------------------------------
(* Properties                                                              *)

(* Answers overtake each other, are late or lost, and yet: a call resolves *)
(* only if its own handler returned, and rejects with the handler's error  *)
(* only if that one threw.                                                 *)
OutcomeIsOwn ==
  \A c \in Calls :
    /\ pc[c] = "resolved" => handler[c] = "ok"
    /\ pc[c] = "rejected" => handler[c] = "error"

(* A call that still waits after the close event was made on the closed    *)
(* connection: the daemon never runs it, and its timeout may be retried.   *)
WaitingOnClosedNeverRuns ==
  \A c \in Calls : ~clientOpen /\ pc[c] = "pending" =>
    handler[c] = "none" /\ \A k \in 1 .. Len(toServer) : toServer[k] # c

LastSwitch(c) ==
  /\ kind[c] \in {"subscribe", "unsubscribe"}
  /\ \A d \in c + 1 .. MaxCalls : kind[d] \notin {"subscribe", "unsubscribe"}

(* Of the subscribe and unsubscribe calls a client has under way together  *)
(* the last one it made decides, once it is answered.                      *)
SubscriptionAsAsked ==
  \A c \in Calls : LastSwitch(c) /\ pc[c] = "resolved" =>
    (subscribed <=> kind[c] = "subscribe")

(* After unsubscribe() has returned no event arrives, not even one that    *)
(* was broadcast while the call was under way.                             *)
NoEventAfterUnsubscribe ==
  \A c \in Calls : LastSwitch(c) /\ pc[c] = "resolved" /\ kind[c] = "unsubscribe" =>
    \A k \in 1 .. Len(toClient) : toClient[k] # Event

(* Every call settles, whatever becomes of the daemon and the connection.  *)
CallSettles == \A c \in Calls : pc[c] = "pending" ~> pc[c] \in Settled
=============================================================================
