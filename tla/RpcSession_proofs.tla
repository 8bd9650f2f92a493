-------------------------- MODULE RpcSession_proofs --------------------------
(***************************************************************************)
(* Proofs about RpcSession, for any number of calls and any backlog.       *)
(*                                                                         *)
(* The argument: requests travel in the order of their ids and each is     *)
(* dispatched once (Requests), so what the session was asked last is what  *)
(* it does (Subscription); and every answer on its way tells what its own  *)
(* handler did, which does not change any more (Truthful). Behind the      *)
(* answer to the last unsubscribe no event is on its way (Silent), and     *)
(* what is called after the close event is never sent (Closing).           *)
(***************************************************************************)
EXTENDS RpcSession, TLAPS

Made(c) == c < nextId

(* Requests on their way: in order, not dispatched, behind those that are. *)
Requests ==
  /\ \A c \in Calls : pc[c] = "new" <=> ~Made(c)
  /\ \A c \in Calls : kind[c] = None <=> ~Made(c)
  /\ \A c \in Calls : handler[c] # "none" => Made(c)
  /\ \A k \in 1 .. Len(toServer) :
       /\ Made(toServer[k])
       /\ handler[toServer[k]] = "none"
       /\ \A j \in 1 .. k - 1 : toServer[j] < toServer[k]
       /\ \A c \in Calls : handler[c] # "none" => c < toServer[k]

Truthful ==
  /\ \A c \in owed : handler[c] \in {"ok", "error"}
  /\ \A k \in 1 .. Len(toClient) : toClient[k].tag = "answer" =>
       handler[toClient[k].call] = IF toClient[k].ok THEN "ok" ELSE "error"
  /\ OutcomeIsOwn

(* The last of the switching calls that were dispatched decides.           *)
Subscription ==
  \A c \in Calls :
    /\ handler[c] # "none" /\ kind[c] \in {"subscribe", "unsubscribe"}
    /\ \A d \in Calls : d > c /\ handler[d] # "none" => kind[d] \notin {"subscribe", "unsubscribe"}
    => (subscribed <=> kind[c] = "subscribe")

(* No event follows the answer of the last switch, if that unsubscribed.   *)
Silent ==
  \A c \in Calls : LastSwitch(c) /\ kind[c] = "unsubscribe" =>
    /\ \A j, k \in 1 .. Len(toClient) :
         toClient[j].tag = "answer" /\ toClient[j].call = c /\ j < k => toClient[k] # Event
    /\ pc[c] = "resolved" => \A k \in 1 .. Len(toClient) : toClient[k] # Event

(* Only a connection that is down is closed for the client.                *)
Closing == (~clientOpen => link = "down") /\ WaitingOnClosedNeverRuns

IInv == TypeOK /\ Requests /\ Truthful /\ Subscription

Messages == Answers \cup {Event}

-----------------------------------------------------------------------------
LEMMA TypeInit == Init => TypeOK
<1> SUFFICES ASSUME Init PROVE TypeOK
  OBVIOUS
<1>1. nextId \in 1 .. MaxCalls + 1
  BY RpcAssumption DEF Init
<1>2. toServer \in Seq(Calls) /\ toClient \in Seq(Answers \cup {Event})
  BY DEF Init
<1> QED BY <1>1, <1>2 DEF Init, TypeOK

(* What DeliverAnswer takes off the connection.                            *)
LEMMA HeadIsAnswer ==
  ASSUME toClient \in Seq(Answers \cup {Event}), toClient # <<>>, Head(toClient).tag = "answer"
  PROVE  Head(toClient) \in Answers /\ Tail(toClient) \in Seq(Answers \cup {Event})
<1>1. Head(toClient) \in Answers \cup {Event} /\ Tail(toClient) \in Seq(Answers \cup {Event})
  OBVIOUS
<1>2. Event.tag # "answer"
  BY DEF Event
<1> QED BY <1>1, <1>2

LEMMA TypeStep == TypeOK /\ [Next]_vars => TypeOK'
<1> SUFFICES ASSUME TypeOK, [Next]_vars PROVE TypeOK'
  OBVIOUS
<1> USE RpcAssumption DEF TypeOK, Settled
<1>1. ASSUME NEW c \in Calls, NEW method \in Kinds, Call(c, method)
      PROVE  TypeOK'
  <2>1. nextId' \in 1 .. MaxCalls + 1
    BY <1>1 DEF Call, Calls
  <2>2. toServer' \in Seq(Calls)
    BY <1>1 DEF Call
  <2>3. pc' \in [Calls -> {"new", "pending"} \cup Settled]
    BY <1>1 DEF Call
  <2>4. kind' \in [Calls -> Kinds \cup {None}]
    BY <1>1 DEF Call
  <2>5. UNCHANGED <<clientOpen, link, toClient, handler, owed, subscribed, serverOpen>>
    BY <1>1 DEF Call, serverVars
  <2> QED BY <2>1, <2>2, <2>3, <2>4, <2>5
<1>2. ASSUME NEW c \in Calls, Timeout(c)
      PROVE  TypeOK'
  BY <1>2 DEF Timeout, wireVars, serverVars
<1>3. CASE DeliverAnswer
  <2>1. Head(toClient) \in Answers /\ toClient' \in Seq(Answers \cup {Event})
    BY <1>3, HeadIsAnswer DEF DeliverAnswer
  <2>2. Head(toClient).call \in Calls
    BY <2>1 DEF Answers
  <2>3. pc' \in [Calls -> {"new", "pending"} \cup Settled]
    BY <1>3, <2>2 DEF DeliverAnswer, Settle
  <2> QED BY <1>3, <2>1, <2>3 DEF DeliverAnswer, serverVars
<1>4. CASE DeliverEvent
  BY <1>4 DEF DeliverEvent, clientVars, serverVars
<1>5. CASE ClientCloses
  BY <1>5 DEF ClientCloses, wireVars, serverVars
<1>6. ASSUME NEW c \in Calls, DispatchWork(c)
      PROVE  TypeOK'
  BY <1>6 DEF DispatchWork, Arrives, clientVars
<1>7. ASSUME NEW c \in Calls, DispatchWrong(c)
      PROVE  TypeOK'
  BY <1>7 DEF DispatchWrong, Arrives, Returns, clientVars
<1>8. ASSUME NEW c \in Calls, DispatchSwitch(c)
      PROVE  TypeOK'
  BY <1>8 DEF DispatchSwitch, Arrives, Returns, clientVars
<1>9. ASSUME NEW c \in Calls, NEW ok \in BOOLEAN, Finish(c, ok)
      PROVE  TypeOK'
  BY <1>9 DEF Finish, Returns, clientVars, wireVars
<1>10. ASSUME NEW c \in Calls, Reply(c)
       PROVE  TypeOK'
  <2>1. Answer(c, handler[c] = "ok") \in Answers
    BY DEF Answer, Answers
  <2>2. toClient' \in Seq(Answers \cup {Event})
    BY <1>10, <2>1 DEF Reply
  <2> QED BY <1>10, <2>2 DEF Reply, clientVars
<1>11. CASE Broadcast
  BY <1>11 DEF Broadcast, clientVars, serverVars
<1>12. CASE ServerCloses
  BY <1>12 DEF ServerCloses, clientVars, wireVars
<1>13. CASE Break
  BY <1>13 DEF Break, clientVars, serverVars
<1>14. CASE UNCHANGED vars
  BY <1>14 DEF vars, clientVars, wireVars, serverVars
<1> QED BY <1>1, <1>2, <1>3, <1>4, <1>5, <1>6, <1>7, <1>8, <1>9, <1>10, <1>11, <1>12, <1>13, <1>14
        DEF Next, Client, Daemon

(* The fields of client, connection and session keep their types.          *)
THEOREM RpcTypeCorrect == Spec => []TypeOK
BY TypeInit, TypeStep, PTL DEF Spec

-----------------------------------------------------------------------------
LEMMA RequestsInit == Init => Requests
BY RpcAssumption DEF Init, Requests, Made, Calls

(* A dispatch takes the first request and leaves the others behind it.     *)
LEMMA DispatchKeepsRequests ==
  ASSUME TypeOK, Requests, NEW c \in Calls, Arrives(c),
         NEW state \in {"running", "ok", "error"},
         handler' = [handler EXCEPT ![c] = state],
         UNCHANGED <<pc, kind, nextId>>
  PROVE  Requests'
<1>1. toServer \in Seq(Calls) /\ toServer # <<>> /\ toServer[1] = c /\ toServer' = Tail(toServer)
  BY DEF Arrives, TypeOK
<1>2. /\ Len(toServer') = Len(toServer) - 1
      /\ \A k \in 1 .. Len(toServer') : k + 1 \in 1 .. Len(toServer) /\ toServer'[k] = toServer[k + 1]
  BY <1>1
<1>3. 1 \in 1 .. Len(toServer) /\ Made(c) /\ Made(c)'
  BY <1>1 DEF Requests, Made
<1>4. \A d \in Calls : handler'[d] # "none" <=> handler[d] # "none" \/ d = c
  BY DEF TypeOK
<1>5. ASSUME NEW k \in 1 .. Len(toServer')
      PROVE  /\ toServer'[k] < nextId'
             /\ handler'[toServer'[k]] = "none"
             /\ \A j \in 1 .. k - 1 : toServer'[j] < toServer'[k]
             /\ \A d \in Calls : handler'[d] # "none" => d < toServer'[k]
  <2>1. k + 1 \in 1 .. Len(toServer) /\ toServer'[k] = toServer[k + 1] /\ toServer[k + 1] \in Calls
    BY <1>1, <1>2
  <2>2. 1 \in 1 .. (k + 1) - 1
    BY <1>5, <1>1, <1>2
  <2>3. c < toServer[k + 1]
    BY <1>1, <2>1, <2>2 DEF Requests
  <2>4. toServer[k + 1] # c
    BY <2>1, <2>3 DEF Calls
  <2>5. toServer'[k] < nextId' /\ handler'[toServer'[k]] = "none"
    BY <2>1, <2>4, <1>4 DEF Requests, Made
  <2>6. ASSUME NEW j \in 1 .. k - 1 PROVE toServer'[j] < toServer'[k]
    <3>1. j \in 1 .. Len(toServer') /\ j + 1 \in 1 .. (k + 1) - 1
      BY <1>1, <1>2, <1>5
    <3>2. toServer[j + 1] < toServer[k + 1]
      BY <2>1, <3>1 DEF Requests
    <3> QED BY <1>2, <2>1, <3>1, <3>2
  <2>7. \A d \in Calls : handler'[d] # "none" => d < toServer'[k]
    BY <1>4, <2>1, <2>3 DEF Requests
  <2> QED BY <2>5, <2>6, <2>7
<1>6. /\ \A d \in Calls : pc'[d] = "new" <=> ~Made(d)'
      /\ \A d \in Calls : kind'[d] = None <=> ~Made(d)'
  BY DEF Requests, Made
<1>7. \A d \in Calls : handler'[d] # "none" => Made(d)'
  BY <1>3, <1>4 DEF Requests, Made
<1> QED BY <1>5, <1>6, <1>7 DEF Requests, Made

LEMMA RequestsStep == TypeOK /\ Requests /\ [Next]_vars => Requests'
<1> SUFFICES ASSUME TypeOK, Requests, [Next]_vars PROVE Requests'
  OBVIOUS
<1>1. ASSUME NEW c \in Calls, NEW method \in Kinds, Call(c, method)
      PROVE  Requests'
  <2>1. nextId \in Nat /\ c = nextId /\ nextId' = nextId + 1 /\ method # None
    <3>1. nextId \in Nat
      BY RpcAssumption DEF TypeOK
    <3>2. method # None
      BY RpcAssumption DEF Kinds
    <3> QED BY <1>1, <3>1, <3>2 DEF Call
  <2>2. \A d \in Calls : Made(d)' <=> Made(d) \/ d = c
    BY <2>1 DEF Made, Calls
  <2>3. \A d \in Calls : pc'[d] = "new" <=> pc[d] = "new" /\ d # c
    BY <1>1 DEF Call, TypeOK
  <2>4. \A d \in Calls : kind'[d] = IF d = c THEN method ELSE kind[d]
    BY <1>1 DEF Call, TypeOK
  <2>5. handler' = handler /\ ~Made(c) /\ handler[c] = "none"
    BY <1>1, <2>1 DEF Call, Requests, Made, serverVars
  <2>6. \A k \in 1 .. Len(toServer) : toServer[k] \in Calls /\ toServer[k] < c
    BY <2>1 DEF Requests, Made, TypeOK
  <2>7. \A d \in Calls : handler[d] # "none" => d < c
    BY <2>1 DEF Requests, Made
  <2>9. /\ toServer \in Seq(Calls)
        /\ toServer' = toServer \/ toServer' = Append(toServer, c)
    BY <1>1 DEF Call, TypeOK
  <2>10. /\ Len(toServer') \in {Len(toServer), Len(toServer) + 1}
         /\ \A j \in 1 .. Len(toServer) : toServer'[j] = toServer[j]
         /\ Len(toServer') = Len(toServer) + 1 => toServer'[Len(toServer) + 1] = c
         /\ Len(toServer) \in Nat
    BY <2>9
  <2>8. ASSUME NEW k \in 1 .. Len(toServer')
        PROVE  /\ toServer'[k] < nextId'
               /\ handler'[toServer'[k]] = "none"
               /\ \A j \in 1 .. k - 1 : toServer'[j] < toServer'[k]
               /\ \A d \in Calls : handler'[d] # "none" => d < toServer'[k]
    <3>1. CASE k \in 1 .. Len(toServer)
      <4>1. \A j \in 1 .. k : toServer'[j] = toServer[j]
        BY <2>10, <3>1
      <4>2. toServer'[k] = toServer[k] /\ toServer[k] \in Calls /\ toServer[k] < nextId'
        BY <4>1, <3>1, <2>1, <2>6 DEF Calls
      <4>3. \A j \in 1 .. k - 1 : toServer'[j] < toServer'[k]
        BY <4>1, <3>1 DEF Requests
      <4> QED BY <4>2, <4>3, <3>1, <2>5 DEF Requests
    <3>2. CASE k \notin 1 .. Len(toServer)
      <4>1. k = Len(toServer) + 1 /\ toServer'[k] = c
        BY <2>10, <3>2
      <4>2. \A j \in 1 .. k - 1 : j \in 1 .. Len(toServer) /\ toServer'[j] = toServer[j]
        BY <2>10, <4>1
      <4> QED BY <4>1, <4>2, <2>1, <2>5, <2>6, <2>7
    <3> QED BY <3>1, <3>2
  <2> QED BY <2>2, <2>3, <2>4, <2>1, <2>5, <2>8 DEF Requests, Made
<1>2. ASSUME UNCHANGED <<kind, nextId, handler, toServer>>,
             \A c \in Calls : pc'[c] = "new" <=> pc[c] = "new"
      PROVE  Requests'
  BY <1>2 DEF Requests, Made
<1>3. ASSUME NEW c \in Calls, Timeout(c)
      PROVE  Requests'
  <2>1. \A d \in Calls : pc'[d] = "new" <=> pc[d] = "new"
    BY <1>3 DEF Timeout, TypeOK
  <2> QED BY <1>2, <1>3, <2>1 DEF Timeout, wireVars, serverVars
<1>4. CASE DeliverAnswer
  <2>1. \A c \in Calls : pc'[c] = "new" <=> pc[c] = "new"
    BY <1>4 DEF DeliverAnswer, Settle, TypeOK
  <2> QED BY <1>2, <1>4, <2>1 DEF DeliverAnswer, serverVars
<1>5. CASE DeliverEvent
  BY <1>2, <1>5 DEF DeliverEvent, clientVars, serverVars
<1>6. CASE ClientCloses
  <2>1. \A d \in Calls : pc'[d] = "new" <=> pc[d] = "new"
    BY <1>6 DEF ClientCloses, TypeOK
  <2> QED BY <1>2, <1>6, <2>1 DEF ClientCloses, wireVars, serverVars
<1>7. ASSUME NEW c \in Calls, DispatchWork(c)
      PROVE  Requests'
  BY <1>7, DispatchKeepsRequests DEF DispatchWork, clientVars
<1>8. ASSUME NEW c \in Calls, DispatchWrong(c)
      PROVE  Requests'
  BY <1>8, DispatchKeepsRequests DEF DispatchWrong, Returns, clientVars
<1>9. ASSUME NEW c \in Calls, DispatchSwitch(c)
      PROVE  Requests'
  BY <1>9, DispatchKeepsRequests DEF DispatchSwitch, Returns, clientVars
<1>10. ASSUME NEW c \in Calls, NEW ok \in BOOLEAN, Finish(c, ok)
       PROVE  Requests'
  <2>1. /\ UNCHANGED <<pc, kind, nextId, toServer>>
        /\ \A d \in Calls : handler'[d] # "none" <=> handler[d] # "none"
    BY <1>10 DEF Finish, Returns, TypeOK, clientVars, wireVars
  <2>2. \A k \in 1 .. Len(toServer) : toServer[k] \in Calls
    BY DEF TypeOK
  <2>3. \A d \in Calls : handler[d] = "none" => handler'[d] = "none"
    BY <2>1
  <2> QED BY <2>1, <2>2, <2>3 DEF Requests, Made
<1>11. ASSUME NEW c \in Calls, Reply(c)
       PROVE  Requests'
  BY <1>2, <1>11 DEF Reply, clientVars
<1>12. CASE Broadcast
  BY <1>2, <1>12 DEF Broadcast, clientVars, serverVars
<1>13. CASE ServerCloses
  BY <1>2, <1>13 DEF ServerCloses, clientVars, wireVars
<1>14. CASE Break
  <2>1. UNCHANGED <<pc, kind, nextId, handler>>
    BY <1>14 DEF Break, clientVars, serverVars
  <2>2. PICK n \in 0 .. Len(toServer) : toServer' = SubSeq(toServer, 1, n)
    BY <1>14 DEF Break
  <2>3. \A k \in 1 .. Len(toServer') : k \in 1 .. Len(toServer) /\ toServer'[k] = toServer[k]
    BY <2>2 DEF TypeOK
  <2>4. ASSUME NEW k \in 1 .. Len(toServer'), NEW j \in 1 .. k - 1
        PROVE  toServer'[j] < toServer'[k]
    <3>1. j \in 1 .. Len(toServer') /\ k \in 1 .. Len(toServer)
      BY <2>2, <2>3 DEF TypeOK
    <3> QED BY <2>3, <3>1 DEF Requests
  <2> QED BY <2>1, <2>3, <2>4 DEF Requests, Made
<1>15. CASE UNCHANGED vars
  BY <1>2, <1>15 DEF vars, clientVars, wireVars, serverVars
<1> QED BY <1>1, <1>3, <1>4, <1>5, <1>6, <1>7, <1>8, <1>9, <1>10, <1>11, <1>12, <1>13, <1>14, <1>15
        DEF Next, Client, Daemon

-----------------------------------------------------------------------------
LEMMA TruthfulInit == Init => Truthful
BY DEF Init, Truthful, OutcomeIsOwn

(* A handler that comes back, or starts, had not come back before: nothing *)
(* that was said of the others changes.                                    *)
LEMMA HandlerKeepsTruthful ==
  ASSUME TypeOK, Truthful, NEW c \in Calls, handler[c] \notin {"ok", "error"},
         NEW state \in {"running", "ok", "error"},
         handler' = [handler EXCEPT ![c] = state],
         owed' = owed \/ (owed' = owed \cup {c} /\ state # "running"),
         UNCHANGED <<pc, toClient>>
  PROVE  Truthful'
<1>1. \A d \in Calls : handler[d] \in {"ok", "error"} => handler'[d] = handler[d]
  BY DEF TypeOK
<1>2. handler'[c] = state
  BY DEF TypeOK
<1>3. \A d \in owed' : handler'[d] \in {"ok", "error"}
  BY <1>1, <1>2 DEF Truthful, TypeOK
<1>4. ASSUME NEW k \in 1 .. Len(toClient), toClient[k].tag = "answer"
      PROVE  handler'[toClient[k].call] = IF toClient[k].ok THEN "ok" ELSE "error"
  <2>1. toClient[k] \in Answers
    <3>1. toClient[k] \in Answers \cup {Event}
      BY DEF TypeOK
    <3> QED BY <3>1, <1>4 DEF Event
  <2>2. toClient[k].call \in Calls
    BY <2>1 DEF Answers
  <2>3. handler[toClient[k].call] = IF toClient[k].ok THEN "ok" ELSE "error"
    BY <1>4 DEF Truthful
  <2> QED BY <1>1, <2>2, <2>3
<1>5. OutcomeIsOwn'
  BY <1>1 DEF Truthful, OutcomeIsOwn
<1> QED BY <1>3, <1>4, <1>5 DEF Truthful

LEMMA DispatchIsFirst ==
  ASSUME TypeOK, Requests, NEW c \in Calls, Arrives(c)
  PROVE  handler[c] = "none" /\ \A d \in Calls : handler[d] # "none" => d < c
<1>1. 1 \in 1 .. Len(toServer) /\ toServer[1] = c
  BY DEF Arrives, TypeOK
<1> QED BY <1>1 DEF Requests

LEMMA TruthfulStep == TypeOK /\ Requests /\ Truthful /\ [Next]_vars => Truthful'
<1> SUFFICES ASSUME TypeOK, Requests, Truthful, [Next]_vars PROVE Truthful'
  OBVIOUS
<1>1. ASSUME UNCHANGED <<handler, owed, toClient>>,
             \A c \in Calls : pc'[c] = pc[c] \/ pc'[c] \notin {"resolved", "rejected"}
      PROVE  Truthful'
  BY <1>1 DEF Truthful, OutcomeIsOwn
<1>2. ASSUME NEW c \in Calls, NEW method \in Kinds, Call(c, method)
      PROVE  Truthful'
  <2>1. \A d \in Calls : pc'[d] = pc[d] \/ pc'[d] = "pending"
    BY <1>2 DEF Call, TypeOK
  <2> QED BY <1>1, <1>2, <2>1 DEF Call, serverVars
<1>3. ASSUME NEW c \in Calls, Timeout(c)
      PROVE  Truthful'
  <2>1. \A d \in Calls : pc'[d] = pc[d] \/ pc'[d] = "timedout"
    BY <1>3 DEF Timeout, TypeOK
  <2> QED BY <1>1, <1>3, <2>1 DEF Timeout, wireVars, serverVars
<1>4. CASE DeliverAnswer
  <2>1. toClient \in Seq(Answers \cup {Event}) /\ toClient # <<>> /\ toClient' = Tail(toClient)
    BY <1>4 DEF DeliverAnswer, TypeOK
  <2>2. \A k \in 1 .. Len(toClient') : k + 1 \in 1 .. Len(toClient) /\ toClient'[k] = toClient[k + 1]
    BY <2>1
  <2>3. 1 \in 1 .. Len(toClient) /\ Head(toClient) = toClient[1] /\ Head(toClient).tag = "answer"
    BY <1>4, <2>1 DEF DeliverAnswer
  <2>4. Head(toClient) \in Answers
    BY <2>1, <2>3, HeadIsAnswer
  <2> DEFINE answer == Head(toClient)
  <2>5. handler[answer.call] = IF answer.ok THEN "ok" ELSE "error"
    BY <2>3 DEF Truthful
  <2>6. answer.call \in Calls
    BY <2>4 DEF Answers
  <2>7. \A d \in Calls :
          \/ pc'[d] = pc[d]
          \/ d = answer.call /\ pc'[d] = IF answer.ok THEN "resolved" ELSE "rejected"
    <3> DEFINE verdict == IF answer.ok THEN "resolved" ELSE "rejected"
    <3>1. pc' = [pc EXCEPT ![answer.call] = IF @ # "pending" THEN @ ELSE verdict]
      BY <1>4 DEF DeliverAnswer, Settle
    <3>2. pc \in [Calls -> {"new", "pending"} \cup Settled]
      BY DEF TypeOK
    <3> HIDE DEF answer, verdict
    <3>3. \A d \in Calls : pc'[d] = pc[d] \/ (d = answer.call /\ pc'[d] = verdict)
      BY <3>1, <3>2, <2>6
    <3> QED BY <3>3 DEF verdict
  <2>8. UNCHANGED <<handler, owed>>
    BY <1>4 DEF DeliverAnswer, serverVars
  <2>9. OutcomeIsOwn'
    BY <2>5, <2>7, <2>8 DEF Truthful, OutcomeIsOwn
  <2> QED BY <2>2, <2>8, <2>9 DEF Truthful
<1>5. CASE DeliverEvent
  <2>1. toClient \in Seq(Answers \cup {Event}) /\ toClient # <<>> /\ toClient' = Tail(toClient)
    BY <1>5 DEF DeliverEvent, TypeOK
  <2>2. \A k \in 1 .. Len(toClient') : k + 1 \in 1 .. Len(toClient) /\ toClient'[k] = toClient[k + 1]
    BY <2>1
  <2>3. UNCHANGED <<pc, handler, owed>>
    BY <1>5 DEF DeliverEvent, clientVars, serverVars
  <2> QED BY <2>2, <2>3 DEF Truthful, OutcomeIsOwn
<1>6. CASE ClientCloses
  <2>1. \A d \in Calls : pc'[d] = pc[d] \/ pc'[d] = "disconnected"
    BY <1>6 DEF ClientCloses, TypeOK
  <2> QED BY <1>1, <1>6, <2>1 DEF ClientCloses, wireVars, serverVars
<1>7. ASSUME NEW c \in Calls, DispatchWork(c)
      PROVE  Truthful'
  BY <1>7, DispatchIsFirst, HandlerKeepsTruthful DEF DispatchWork, clientVars
<1>8. ASSUME NEW c \in Calls, DispatchWrong(c)
      PROVE  Truthful'
  BY <1>8, DispatchIsFirst, HandlerKeepsTruthful DEF DispatchWrong, Returns, clientVars
<1>9. ASSUME NEW c \in Calls, DispatchSwitch(c)
      PROVE  Truthful'
  BY <1>9, DispatchIsFirst, HandlerKeepsTruthful DEF DispatchSwitch, Returns, clientVars
<1>10. ASSUME NEW c \in Calls, NEW ok \in BOOLEAN, Finish(c, ok)
       PROVE  Truthful'
  BY <1>10, HandlerKeepsTruthful DEF Finish, Returns, clientVars, wireVars
<1>11. ASSUME NEW c \in Calls, Reply(c)
       PROVE  Truthful'
  <2> DEFINE reply == Answer(c, handler[c] = "ok")
  <2>1. handler[c] = IF reply.ok THEN "ok" ELSE "error"
    <3>1. handler[c] \in {"ok", "error"}
      BY <1>11 DEF Reply, Truthful
    <3>2. reply.ok = (handler[c] = "ok")
      BY DEF Answer
    <3> QED BY <3>1, <3>2
  <2>2. reply.call = c
    BY DEF Answer
  <2>3. UNCHANGED <<pc, handler>> /\ owed' \subseteq owed
    BY <1>11 DEF Reply, clientVars
  <2>4. /\ toClient \in Seq(Answers \cup {Event})
        /\ toClient' = toClient \/ toClient' = Append(toClient, reply)
    BY <1>11 DEF Reply, TypeOK
  <2> HIDE DEF reply
  <2>5. \A k \in 1 .. Len(toClient') :
          (k \in 1 .. Len(toClient) /\ toClient'[k] = toClient[k]) \/ toClient'[k] = reply
    BY <2>4
  <2> QED BY <2>1, <2>2, <2>3, <2>5 DEF Truthful, OutcomeIsOwn
<1>12. CASE Broadcast
  <2>1. toClient \in Seq(Answers \cup {Event}) /\ toClient' = Append(toClient, Event)
    BY <1>12 DEF Broadcast, TypeOK
  <2>2. \A k \in 1 .. Len(toClient') :
          (k \in 1 .. Len(toClient) /\ toClient'[k] = toClient[k]) \/ toClient'[k] = Event
    BY <2>1
  <2>3. UNCHANGED <<pc, handler, owed>> /\ Event.tag # "answer"
    BY <1>12 DEF Broadcast, clientVars, serverVars, Event
  <2> QED BY <2>2, <2>3 DEF Truthful, OutcomeIsOwn
<1>13. CASE ServerCloses
  BY <1>1, <1>13 DEF ServerCloses, clientVars, wireVars
<1>14. CASE Break
  <2>1. UNCHANGED <<pc, handler, owed>>
    BY <1>14 DEF Break, clientVars, serverVars
  <2>2. PICK n \in 0 .. Len(toClient) : toClient' = SubSeq(toClient, 1, n)
    BY <1>14 DEF Break
  <2>3. \A k \in 1 .. Len(toClient') : k \in 1 .. Len(toClient) /\ toClient'[k] = toClient[k]
    BY <2>2 DEF TypeOK
  <2> QED BY <2>1, <2>3 DEF Truthful, OutcomeIsOwn
<1>15. CASE UNCHANGED vars
  BY <1>1, <1>15 DEF vars, clientVars, wireVars, serverVars
<1> QED BY <1>2, <1>3, <1>4, <1>5, <1>6, <1>7, <1>8, <1>9, <1>10, <1>11, <1>12, <1>13, <1>14, <1>15
        DEF Next, Client, Daemon

-----------------------------------------------------------------------------
LEMMA SubscriptionInit == Init => Subscription
BY DEF Init, Subscription

LEMMA SubscriptionStep ==
  TypeOK /\ Requests /\ Subscription /\ [Next]_vars => Subscription'
<1> SUFFICES ASSUME TypeOK, Requests, Subscription, [Next]_vars PROVE Subscription'
  OBVIOUS
<1>1. ASSUME UNCHANGED <<kind, subscribed>>,
             \A c \in Calls : handler'[c] # "none" <=> handler[c] # "none"
      PROVE  Subscription'
  BY <1>1 DEF Subscription
<1>2. ASSUME NEW c \in Calls, NEW method \in Kinds, Call(c, method)
      PROVE  Subscription'
  <2>1. UNCHANGED <<handler, subscribed>> /\ ~Made(c)
    BY <1>2, RpcAssumption DEF Call, Made, TypeOK, serverVars
  <2>2. \A d \in Calls : handler[d] # "none" => kind'[d] = kind[d]
    BY <1>2, <2>1 DEF Call, Requests, TypeOK
  <2> QED BY <2>1, <2>2 DEF Subscription
<1>3. ASSUME NEW c \in Calls, Timeout(c)
      PROVE  Subscription'
  BY <1>1, <1>3 DEF Timeout, wireVars, serverVars
<1>4. CASE DeliverAnswer
  BY <1>1, <1>4 DEF DeliverAnswer, serverVars
<1>5. CASE DeliverEvent
  BY <1>1, <1>5 DEF DeliverEvent, clientVars, serverVars
<1>6. CASE ClientCloses
  BY <1>1, <1>6 DEF ClientCloses, wireVars, serverVars
<1>7. ASSUME NEW c \in Calls, Arrives(c), UNCHANGED <<kind, subscribed>>,
             kind[c] \notin {"subscribe", "unsubscribe"},
             NEW state \in {"running", "ok", "error"},
             handler' = [handler EXCEPT ![c] = state]
      PROVE  Subscription'
  <2>1. \A d \in Calls : handler'[d] # "none" <=> handler[d] # "none" \/ d = c
    BY <1>7 DEF TypeOK
  <2> QED BY <1>7, <2>1 DEF Subscription
<1>8. ASSUME NEW c \in Calls, DispatchWork(c)
      PROVE  Subscription'
  BY <1>7, <1>8 DEF DispatchWork, clientVars
<1>9. ASSUME NEW c \in Calls, DispatchWrong(c)
      PROVE  Subscription'
  BY <1>7, <1>9 DEF DispatchWrong, Returns, clientVars
<1>10. ASSUME NEW c \in Calls, DispatchSwitch(c)
       PROVE  Subscription'
  <2>1. \A d \in Calls : handler'[d] # "none" <=> handler[d] # "none" \/ d = c
    BY <1>10 DEF DispatchSwitch, Returns, TypeOK
  <2>2. \A d \in Calls : handler[d] # "none" => d < c
    BY <1>10, DispatchIsFirst DEF DispatchSwitch
  <2>3. /\ kind' = kind /\ kind[c] \in {"subscribe", "unsubscribe"}
        /\ subscribed' = (kind[c] = "subscribe")
    BY <1>10 DEF DispatchSwitch, clientVars
  <2>4. ASSUME NEW d \in Calls, d # c, handler'[d] # "none",
               \A e \in Calls : e > d /\ handler'[e] # "none" => kind[e] \notin {"subscribe", "unsubscribe"}
        PROVE  FALSE
    <3>1. d < c
      BY <2>1, <2>2, <2>4
    <3>2. c > d
      BY <3>1 DEF Calls
    <3> QED BY <2>1, <2>3, <2>4, <3>2
  <2> QED BY <2>3, <2>4 DEF Subscription
<1>11. ASSUME NEW c \in Calls, NEW ok \in BOOLEAN, Finish(c, ok)
       PROVE  Subscription'
  <2>1. \A d \in Calls : handler'[d] # "none" <=> handler[d] # "none"
    BY <1>11 DEF Finish, Returns, TypeOK
  <2> QED BY <1>1, <1>11, <2>1 DEF Finish, clientVars
<1>12. ASSUME NEW c \in Calls, Reply(c)
       PROVE  Subscription'
  BY <1>1, <1>12 DEF Reply, clientVars
<1>13. CASE Broadcast
  BY <1>1, <1>13 DEF Broadcast, clientVars, serverVars
<1>14. CASE ServerCloses
  BY <1>1, <1>14 DEF ServerCloses, clientVars
<1>15. CASE Break
  BY <1>1, <1>15 DEF Break, clientVars, serverVars
<1>16. CASE UNCHANGED vars
  BY <1>1, <1>16 DEF vars, clientVars, serverVars
<1> QED BY <1>2, <1>3, <1>4, <1>5, <1>6, <1>8, <1>9, <1>10, <1>11, <1>12, <1>13, <1>14, <1>15, <1>16
        DEF Next, Client, Daemon

-----------------------------------------------------------------------------
LEMMA Inductive == Spec => []IInv
<1>1. Init => IInv
  BY TypeInit, RequestsInit, TruthfulInit, SubscriptionInit DEF IInv
<1>2. IInv /\ [Next]_vars => IInv'
  BY TypeStep, RequestsStep, TruthfulStep, SubscriptionStep DEF IInv
<1> QED BY <1>1, <1>2, PTL DEF Spec

(* However answers overtake each other, are lost or come late, a call      *)
(* settles with the outcome of its own handler or with none.               *)
THEOREM RpcOutcomeIsOwn == Spec => []OutcomeIsOwn
<1>1. IInv => OutcomeIsOwn
  BY DEF IInv, Truthful
<1> QED BY <1>1, Inductive, PTL

(* Of the subscribe and unsubscribe calls under way together the last one  *)
(* made decides, once it is answered.                                      *)
THEOREM RpcSubscriptionAsAsked == Spec => []SubscriptionAsAsked
<1>1. IInv => SubscriptionAsAsked
  <2> SUFFICES ASSUME IInv, NEW c \in Calls, LastSwitch(c), pc[c] = "resolved"
               PROVE  subscribed <=> kind[c] = "subscribe"
    BY DEF SubscriptionAsAsked
  <2>1. handler[c] # "none" /\ kind[c] \in {"subscribe", "unsubscribe"}
    BY DEF IInv, Truthful, OutcomeIsOwn, LastSwitch
  <2>2. ASSUME NEW d \in Calls, d > c PROVE kind[d] \notin {"subscribe", "unsubscribe"}
    <3>1. d \in c + 1 .. MaxCalls
      BY <2>2, RpcAssumption DEF Calls
    <3> QED BY <3>1 DEF LastSwitch
  <2> QED BY <2>1, <2>2 DEF IInv, Subscription
<1> QED BY <1>1, Inductive, PTL

-----------------------------------------------------------------------------
LEMMA LastSwitchDecides ==
  ASSUME TypeOK, Subscription, NEW c \in Calls, LastSwitch(c), handler[c] # "none"
  PROVE  subscribed <=> kind[c] = "subscribe"
<1>1. ASSUME NEW d \in Calls, d > c PROVE kind[d] \notin {"subscribe", "unsubscribe"}
  <2>1. d \in c + 1 .. MaxCalls
    BY <1>1, RpcAssumption DEF Calls
  <2> QED BY <2>1 DEF LastSwitch
<1> QED BY <1>1 DEF LastSwitch, Subscription

LEMMA SilentInit == Init => Silent
BY DEF Init, Silent

(* What was taken off the front of the connection, or lost at its end,     *)
(* leaves the rest in order.                                               *)
LEMMA SilentShift ==
  ASSUME TypeOK, Silent, kind' = kind,
         NEW shift \in Nat,
         Len(toClient') \in Nat,
         \A k \in 1 .. Len(toClient') :
           k + shift \in 1 .. Len(toClient) /\ toClient'[k] = toClient[k + shift],
         \A c \in Calls : LastSwitch(c) /\ kind[c] = "unsubscribe" /\ pc'[c] = "resolved" =>
           \/ pc[c] = "resolved"
           \/ \A k \in 1 .. Len(toClient') : toClient'[k] # Event
  PROVE  Silent'
<1> SUFFICES ASSUME NEW c \in Calls, LastSwitch(c), kind[c] = "unsubscribe"
             PROVE  /\ \A j, k \in 1 .. Len(toClient') :
                         toClient'[j].tag = "answer" /\ toClient'[j].call = c /\ j < k
                           => toClient'[k] # Event
                    /\ pc'[c] = "resolved" => \A k \in 1 .. Len(toClient') : toClient'[k] # Event
  BY DEF Silent, LastSwitch
<1>1. ASSUME NEW j \in 1 .. Len(toClient'), NEW k \in 1 .. Len(toClient'),
             toClient'[j].tag = "answer", toClient'[j].call = c, j < k
      PROVE  toClient'[k] # Event
  <2>1. j + shift < k + shift
    BY <1>1
  <2> QED BY <1>1, <2>1 DEF Silent
<1>2. ASSUME pc'[c] = "resolved", NEW k \in 1 .. Len(toClient')
      PROVE  toClient'[k] # Event
  BY <1>2 DEF Silent
<1> QED BY <1>1, <1>2

LEMMA SilentStep == IInv /\ Silent /\ [Next]_vars => Silent'
<1> SUFFICES ASSUME IInv, Silent, [Next]_vars PROVE Silent'
  OBVIOUS
<1> USE DEF IInv
<1>1. ASSUME UNCHANGED <<kind, toClient>>,
             \A c \in Calls : pc'[c] = pc[c] \/ pc'[c] # "resolved"
      PROVE  Silent'
  BY <1>1 DEF Silent, LastSwitch
<1>2. ASSUME NEW c \in Calls, NEW method \in Kinds, Call(c, method)
      PROVE  Silent'
  <2>1. toClient' = toClient /\ pc'[c] = "pending" /\ ~Made(c)
    BY <1>2, RpcAssumption DEF Call, Made, TypeOK
  <2>2. \A k \in 1 .. Len(toClient) : toClient[k].tag = "answer" => toClient[k].call # c
    BY <2>1 DEF Requests, Truthful
  <2>3. kind[c] = None
    BY <2>1 DEF Requests
  <2>4. \A d \in Calls : d # c => kind'[d] = kind[d] /\ pc'[d] = pc[d]
    BY <1>2 DEF Call, TypeOK
  <2>5. ASSUME NEW d \in Calls, d # c, LastSwitch(d)'
        PROVE  LastSwitch(d)
    <3>1. kind'[d] = kind[d]
      BY <2>4, <2>5
    <3>2. \A e \in d + 1 .. MaxCalls : e \in Calls
      BY RpcAssumption DEF Calls
    <3>3. \A e \in d + 1 .. MaxCalls : kind[e] \notin {"subscribe", "unsubscribe"}
      BY <2>3, <2>4, <2>5, <3>2, RpcAssumption DEF LastSwitch
    <3> QED BY <2>5, <3>1, <3>3 DEF LastSwitch
  <2>6. ASSUME NEW d \in Calls, LastSwitch(d)', kind'[d] = "unsubscribe"
        PROVE  /\ \A j, k \in 1 .. Len(toClient') :
                    toClient'[j].tag = "answer" /\ toClient'[j].call = d /\ j < k
                      => toClient'[k] # Event
               /\ pc'[d] = "resolved" => \A k \in 1 .. Len(toClient') : toClient'[k] # Event
    <3>1. CASE d = c
      BY <3>1, <2>1, <2>2
    <3>2. CASE d # c
      BY <3>2, <2>1, <2>4, <2>5, <2>6 DEF Silent
    <3> QED BY <3>1, <3>2
  <2> QED BY <2>6 DEF Silent
<1>3. ASSUME NEW c \in Calls, Timeout(c)
      PROVE  Silent'
  <2>1. \A d \in Calls : pc'[d] = pc[d] \/ pc'[d] = "timedout"
    BY <1>3 DEF Timeout, TypeOK
  <2> QED BY <1>1, <1>3, <2>1 DEF Timeout, wireVars
<1>4. CASE DeliverAnswer
  <2>1. toClient \in Seq(Messages) /\ toClient # <<>> /\ toClient' = Tail(toClient)
    BY <1>4 DEF DeliverAnswer, TypeOK, Messages
  <2>2. /\ Len(toClient') \in Nat
        /\ \A k \in 1 .. Len(toClient') :
             k + 1 \in 1 .. Len(toClient) /\ toClient'[k] = toClient[k + 1] /\ 1 < k + 1
        /\ 1 \in 1 .. Len(toClient) /\ Head(toClient) = toClient[1]
    BY <2>1
  <2>3. toClient[1].tag = "answer" /\ kind' = kind
    BY <1>4, <2>2 DEF DeliverAnswer
  <2>4. \A c \in Calls : c # toClient[1].call => pc'[c] = pc[c]
    BY <1>4, <2>2 DEF DeliverAnswer, Settle, TypeOK
  <2>5. ASSUME NEW c \in Calls, LastSwitch(c), kind[c] = "unsubscribe", c = toClient[1].call
        PROVE  \A k \in 1 .. Len(toClient') : toClient'[k] # Event
    BY <2>2, <2>3, <2>5 DEF Silent
  <2> QED BY <2>2, <2>3, <2>4, <2>5, SilentShift
<1>5. CASE DeliverEvent
  <2>1. toClient \in Seq(Messages) /\ toClient # <<>> /\ toClient' = Tail(toClient)
    BY <1>5 DEF DeliverEvent, TypeOK, Messages
  <2>2. /\ Len(toClient') \in Nat
        /\ \A k \in 1 .. Len(toClient') :
             k + 1 \in 1 .. Len(toClient) /\ toClient'[k] = toClient[k + 1]
    BY <2>1
  <2>3. UNCHANGED <<pc, kind>>
    BY <1>5 DEF DeliverEvent, clientVars
  <2> QED BY <2>2, <2>3, SilentShift
<1>6. CASE ClientCloses
  <2>1. \A d \in Calls : pc'[d] = pc[d] \/ pc'[d] = "disconnected"
    BY <1>6 DEF ClientCloses, TypeOK
  <2> QED BY <1>1, <1>6, <2>1 DEF ClientCloses, wireVars
<1>7. ASSUME NEW c \in Calls, DispatchWork(c) \/ DispatchWrong(c) \/ DispatchSwitch(c)
      PROVE  Silent'
  BY <1>1, <1>7 DEF DispatchWork, DispatchWrong, DispatchSwitch, clientVars
<1>8. ASSUME NEW c \in Calls, NEW ok \in BOOLEAN, Finish(c, ok)
      PROVE  Silent'
  BY <1>1, <1>8 DEF Finish, clientVars, wireVars
<1>9. ASSUME NEW c \in Calls, Reply(c)
      PROVE  Silent'
  <2> DEFINE reply == Answer(c, handler[c] = "ok")
  <2>1. reply # Event
    <3>1. reply.tag = "answer" /\ Event.tag = "event"
      BY DEF Answer, Event
    <3> QED BY <3>1
  <2>2. UNCHANGED <<pc, kind>>
    BY <1>9 DEF Reply, clientVars
  <2>3. /\ toClient \in Seq(Answers \cup {Event})
        /\ toClient' = toClient \/ toClient' = Append(toClient, reply)
    BY <1>9 DEF Reply, TypeOK
  <2> HIDE DEF reply
  <2>4. \A k \in 1 .. Len(toClient') :
          \/ k \in 1 .. Len(toClient) /\ toClient'[k] = toClient[k]
          \/ k = Len(toClient) + 1 /\ toClient'[k] = reply
    BY <2>3
  <2>5. \A j, k \in 1 .. Len(toClient') : j < k /\ k \in 1 .. Len(toClient) =>
          j \in 1 .. Len(toClient) /\ toClient'[j] = toClient[j]
    BY <2>3
  <2> QED BY <2>1, <2>2, <2>4, <2>5 DEF Silent, LastSwitch
<1>10. CASE Broadcast
  <2>1. toClient \in Seq(Messages) /\ toClient' = Append(toClient, Event) /\ subscribed
    BY <1>10 DEF Broadcast, TypeOK, Messages
  <2>2. \A k \in 1 .. Len(toClient') :
          \/ k \in 1 .. Len(toClient) /\ toClient'[k] = toClient[k]
          \/ k = Len(toClient) + 1 /\ toClient'[k] = Event
    BY <2>1
  <2>3. UNCHANGED <<pc, kind>> /\ Event.tag # "answer"
    BY <1>10 DEF Broadcast, clientVars, Event
  <2>4. ASSUME NEW c \in Calls, LastSwitch(c), kind[c] = "unsubscribe"
        PROVE  handler[c] = "none"
    BY <2>1, <2>4, LastSwitchDecides
  <2>5. ASSUME NEW c \in Calls, LastSwitch(c), kind[c] = "unsubscribe"
        PROVE  /\ pc[c] # "resolved"
               /\ \A k \in 1 .. Len(toClient') : toClient'[k].tag = "answer" => toClient'[k].call # c
    BY <2>2, <2>3, <2>4, <2>5 DEF Truthful, OutcomeIsOwn
  <2> QED BY <2>3, <2>5 DEF Silent, LastSwitch
<1>11. CASE ServerCloses
  BY <1>1, <1>11 DEF ServerCloses, clientVars, wireVars
<1>12. CASE Break
  <2>1. UNCHANGED <<pc, kind>>
    BY <1>12 DEF Break, clientVars
  <2>2. PICK n \in 0 .. Len(toClient) : toClient' = SubSeq(toClient, 1, n)
    BY <1>12 DEF Break
  <2>3. /\ Len(toClient') \in Nat
        /\ \A k \in 1 .. Len(toClient') : k + 0 \in 1 .. Len(toClient) /\ toClient'[k] = toClient[k + 0]
    BY <2>2 DEF TypeOK
  <2> QED BY <2>1, <2>3, SilentShift
<1>13. CASE UNCHANGED vars
  BY <1>1, <1>13 DEF vars, clientVars, wireVars
<1> QED BY <1>2, <1>3, <1>4, <1>5, <1>6, <1>7, <1>8, <1>9, <1>10, <1>11, <1>12, <1>13
        DEF Next, Client, Daemon

(* After unsubscribe() has returned no event arrives, not even one that    *)
(* was broadcast while the call was under way.                             *)
THEOREM RpcNoEventAfterUnsubscribe == Spec => []NoEventAfterUnsubscribe
<1>1. Silent => NoEventAfterUnsubscribe
  BY DEF Silent, NoEventAfterUnsubscribe
<1> QED BY <1>1, Inductive, SilentInit, SilentStep, PTL DEF Spec

-----------------------------------------------------------------------------
LEMMA ClosingInit == Init => Closing
BY DEF Init, Closing, WaitingOnClosedNeverRuns

LEMMA ClosingStep == TypeOK /\ Requests /\ Closing /\ [Next]_vars => Closing'
<1> SUFFICES ASSUME TypeOK, Requests, Closing, [Next]_vars PROVE Closing'
  OBVIOUS
<1>1. ASSUME NEW c \in Calls, NEW method \in Kinds, Call(c, method)
      PROVE  Closing'
  <2>1. /\ UNCHANGED <<clientOpen, link, handler>>
        /\ ~clientOpen => toServer' = toServer
        /\ ~Made(c)
        /\ \A d \in Calls : d # c => pc'[d] = pc[d]
    BY <1>1, RpcAssumption DEF Call, Made, TypeOK, serverVars, Closing
  <2>2. handler[c] = "none" /\ \A k \in 1 .. Len(toServer) : toServer[k] # c
    BY <2>1 DEF Requests
  <2> QED BY <2>1, <2>2 DEF Closing, WaitingOnClosedNeverRuns
<1>2. ASSUME UNCHANGED <<clientOpen, link, toServer, handler>>,
             \A c \in Calls : pc'[c] = "pending" => pc[c] = "pending"
      PROVE  Closing'
  BY <1>2 DEF Closing, WaitingOnClosedNeverRuns
<1>3. ASSUME NEW c \in Calls, Timeout(c)
      PROVE  Closing'
  <2>1. \A d \in Calls : pc'[d] = "pending" => pc[d] = "pending"
    BY <1>3 DEF Timeout, TypeOK
  <2> QED BY <1>2, <1>3, <2>1 DEF Timeout, wireVars, serverVars
<1>4. CASE DeliverAnswer
  BY <1>4 DEF DeliverAnswer, Closing, WaitingOnClosedNeverRuns
<1>5. CASE DeliverEvent
  BY <1>5 DEF DeliverEvent, clientVars, Closing, WaitingOnClosedNeverRuns
<1>6. CASE ClientCloses
  <2>1. /\ link' = "down"
        /\ \A c \in Calls : pc'[c] # "pending"
    BY <1>6 DEF ClientCloses, wireVars, TypeOK
  <2> QED BY <2>1 DEF Closing, WaitingOnClosedNeverRuns
<1>7. ASSUME NEW c \in Calls, Arrives(c), UNCHANGED <<pc, clientOpen, link>>,
             \A d \in Calls : d # c => handler'[d] = handler[d]
      PROVE  Closing'
  <2>1. toServer \in Seq(Calls) /\ toServer # <<>> /\ toServer' = Tail(toServer)
    BY <1>7 DEF Arrives, TypeOK
  <2>2. /\ 1 \in 1 .. Len(toServer) /\ toServer[1] = c
        /\ \A k \in 1 .. Len(toServer') : k + 1 \in 1 .. Len(toServer) /\ toServer'[k] = toServer[k + 1]
    BY <1>7, <2>1 DEF Arrives
  <2>3. ~clientOpen => pc[c] # "pending"
    BY <2>2 DEF Closing, WaitingOnClosedNeverRuns
  <2> QED BY <1>7, <2>2, <2>3 DEF Closing, WaitingOnClosedNeverRuns
<1>8. ASSUME NEW c \in Calls, DispatchWork(c) \/ DispatchWrong(c) \/ DispatchSwitch(c)
      PROVE  Closing'
  <2>1. Arrives(c) /\ UNCHANGED <<pc, clientOpen, link>>
    BY <1>8 DEF DispatchWork, DispatchWrong, DispatchSwitch, clientVars
  <2>2. \A d \in Calls : d # c => handler'[d] = handler[d]
    BY <1>8 DEF DispatchWork, DispatchWrong, DispatchSwitch, Returns, TypeOK
  <2> QED BY <1>7, <2>1, <2>2
<1>9. ASSUME NEW c \in Calls, NEW ok \in BOOLEAN, Finish(c, ok)
      PROVE  Closing'
  <2>1. handler[c] = "running" /\ UNCHANGED <<pc, clientOpen, link, toServer>>
    BY <1>9 DEF Finish, clientVars, wireVars
  <2>2. \A d \in Calls : d # c => handler'[d] = handler[d]
    BY <1>9 DEF Finish, Returns, TypeOK
  <2> QED BY <2>1, <2>2 DEF Closing, WaitingOnClosedNeverRuns
<1>10. ASSUME NEW c \in Calls, Reply(c)
       PROVE  Closing'
  BY <1>2, <1>10 DEF Reply, clientVars
<1>11. CASE Broadcast
  BY <1>2, <1>11 DEF Broadcast, clientVars, serverVars
<1>12. CASE ServerCloses
  BY <1>2, <1>12 DEF ServerCloses, clientVars, wireVars
<1>13. CASE Break
  BY <1>13 DEF Break, clientVars, Closing, WaitingOnClosedNeverRuns
<1>14. CASE UNCHANGED vars
  BY <1>2, <1>14 DEF vars, clientVars, wireVars, serverVars
<1> QED BY <1>1, <1>3, <1>4, <1>5, <1>6, <1>8, <1>9, <1>10, <1>11, <1>12, <1>13, <1>14
        DEF Next, Client, Daemon

(* A call made on the closed connection is never run by the daemon.        *)
THEOREM RpcWaitingOnClosedNeverRuns == Spec => []WaitingOnClosedNeverRuns
<1>1. TypeOK /\ Requests /\ Closing /\ [Next]_vars => TypeOK' /\ Requests' /\ Closing'
  BY TypeStep, RequestsStep, ClosingStep
<1>2. Closing => WaitingOnClosedNeverRuns
  BY DEF Closing
<1> QED BY <1>1, <1>2, TypeInit, RequestsInit, ClosingInit, PTL DEF Spec
=============================================================================
