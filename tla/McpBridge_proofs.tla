-------------------------- MODULE McpBridge_proofs --------------------------
(***************************************************************************)
(* Proofs about the daemons, the commands and the bridge, for any number   *)
(* of each and any number of crashes and of files and processes that       *)
(* cannot be looked at.                                                    *)
(*                                                                         *)
(* What a reader is about to unlink belongs to a daemon that no longer     *)
(* serves, and will not again, or that the reader was kept from seeing     *)
(* (Seen): between the read, the probe and the unlink the others go on.    *)
(***************************************************************************)
EXTENDS McpBridge, FiniteSetTheorems, TLAPS

\* Whatever findLatestInstance may choose.
Picks == Daemons \cup {None} \cup {Max(found) : found \in SUBSET Daemons}

CommandRecord ==
  [op : {"none", "start", "poll", "stop", "connect"},
   pc : {"new", "listing", "stopping", "booting", "opening", "connected",
         "unconnected", "ending", "done", "ready", "failed"},
   todo : SUBSET Daemons, look : Daemons \cup {None},
   step : {"read", "probe", "unlink"}, found : SUBSET Daemons,
   mine : Daemons \cup {None}, pick : Picks, at : Picks, late : BOOLEAN]

Typed ==
  /\ proc \in [Daemons -> {"none", "booting", "bound", "writing"} \cup Published]
  /\ file \in [Daemons -> {"none", "partial", "complete"}]
  /\ cmd \in [Commands -> CommandRecord]
  /\ unseen \in SUBSET Daemons
  /\ kind \in [Lines -> {"unsent", "request", "notification", "call"}]
  /\ pending \in Nat
  /\ replies \in [Lines -> Nat]
  /\ closed \in BOOLEAN

(* A connection is the last thing a command comes to, and the record it    *)
(* picked is kept until then.                                              *)
Connects(c) ==
  /\ cmd[c].at # None =>
       /\ cmd[c].at = cmd[c].pick
       /\ cmd[c].op = "connect"
       /\ cmd[c].pc \in {"connected", "ending", "done", "failed"}
  /\ cmd[c].pc \in {"opening", "booting"} => cmd[c].op = "connect"
  /\ cmd[c].pc = "new" <=> cmd[c].op = "none"

(* A bridge connects and does nothing else; it is done when its input is   *)
(* closed and nothing is under way, and so it remains.                     *)
Bridged(b) ==
  /\ cmd[b].op \in {"none", "connect"} /\ cmd[b].mine = None
  /\ cmd[b].pc \notin {"stopping", "ending"}
  /\ cmd[b].pc = "done" => closed /\ pending = 0

Kept(c) == Connects(c) /\ (c \in Bridges => Bridged(c))

Leaving == {"stopping", "closed", "dead"}

(* A file is complete and its daemon has come as far as to write it; one   *)
(* that is about to be unlinked is of no use to anybody who could see it.  *)
Seen ==
  /\ \A d \in Daemons :
       file[d] # "none" => file[d] = "complete" /\ proc[d] \in Published
  /\ \A c \in Commands :
       /\ \A d \in cmd[c].todo : proc[d] \in Published
       /\ cmd[c].look # None => proc[cmd[c].look] \in Published
       /\ cmd[c].look # None /\ cmd[c].step = "unlink"
            => proc[cmd[c].look] \in Leaving \/ cmd[c].look \in unseen

(* What the daemons and commands keep to.                                  *)
Inv == Typed /\ (\A c \in Commands : Kept(c)) /\ Seen /\ LiveIsDiscoverable

(* The counter counts the calls that have no answer yet.                   *)
Awaited == {l \in Lines : UnderWay(l)}

Counted ==
  /\ pending = Cardinality(Awaited)
  /\ \A l \in Lines :
       /\ kind[l] \in {"unsent", "notification"} => replies[l] = 0
       /\ kind[l] = "request" => replies[l] = 1
       /\ kind[l] = "call" => replies[l] \in {0, 1}

-----------------------------------------------------------------------------
(* Helpers of the commands                                                 *)

LEMMA LatestIsPick ==
  ASSUME NEW c \in Commands, Typed
  PROVE  Latest(c) \in Picks
BY DEF Latest, Picks, Typed, CommandRecord

LEMMA FilesAreDaemons == Files \in SUBSET Daemons
BY DEF Files

(* No step takes a daemon back.                                            *)
Onwards ==
  /\ \A d \in Daemons : /\ proc[d] \in Published => proc'[d] \in Published
                        /\ proc[d] \in Leaving => proc'[d] \in Leaving
  /\ unseen \subseteq unseen'

(* A step of one command, after which it lists what it listed before or    *)
(* lists anew. No file changes and no daemon comes to serve.               *)
Moved(c) ==
  /\ cmd' \in [Commands -> CommandRecord]
  /\ \A e \in Commands \ {c} : cmd'[e] = cmd[e]
  /\ Kept(c)'
  /\ cmd'[c].todo = cmd[c].todo \/ cmd'[c].todo \subseteq Files
  /\ \/ cmd'[c].look = None
     \/ cmd'[c].look = cmd[c].look /\ cmd'[c].step = cmd[c].step
  /\ proc' \in [Daemons -> {"none", "booting", "bound", "writing"} \cup Published]
  /\ \A d \in Daemons : proc'[d] = "serving" => proc[d] = "serving"
  /\ Onwards /\ unseen' \in SUBSET Daemons
  /\ file' = file /\ UNCHANGED bridgeVars

LEMMA MoveKeepsInv ==
  ASSUME Inv, NEW c \in Commands, Moved(c)
  PROVE  Inv'
<1>1. \A d \in Daemons : file[d] # "none" => file[d] = "complete" /\ proc[d] \in Published
  BY DEF Inv, Seen
<1>2. \A e \in Commands :
        /\ cmd[e].todo \subseteq Daemons /\ cmd[e].look \in Daemons \cup {None}
        /\ \A d \in cmd[e].todo : proc[d] \in Published
        /\ cmd[e].look # None => proc[cmd[e].look] \in Published
        /\ cmd[e].look # None /\ cmd[e].step = "unlink"
             => proc[cmd[e].look] \in Leaving \/ cmd[e].look \in unseen
  BY DEF Inv, Seen, Typed, CommandRecord
<1>3. \A d \in Daemons :
        file'[d] # "none" => file'[d] = "complete" /\ proc'[d] \in Published
  BY <1>1 DEF Moved, Onwards
<1>4. \A d \in cmd'[c].todo : proc'[d] \in Published
  <2>1. \A d \in Files : proc'[d] \in Published
    BY <1>1 DEF Files, Moved, Onwards
  <2> QED BY <1>2, <2>1 DEF Moved, Onwards
<1>5. /\ cmd'[c].look # None => proc'[cmd'[c].look] \in Published
      /\ cmd'[c].look # None /\ cmd'[c].step = "unlink"
           => proc'[cmd'[c].look] \in Leaving \/ cmd'[c].look \in unseen'
  BY <1>2 DEF Moved, Onwards
<1>6. ASSUME NEW e \in Commands \ {c}
      PROVE  /\ \A d \in cmd'[e].todo : proc'[d] \in Published
             /\ cmd'[e].look # None => proc'[cmd'[e].look] \in Published
             /\ cmd'[e].look # None /\ cmd'[e].step = "unlink"
                  => proc'[cmd'[e].look] \in Leaving \/ cmd'[e].look \in unseen'
  BY <1>2 DEF Moved, Onwards
<1>7. Seen'
  BY <1>3, <1>4, <1>5, <1>6 DEF Seen
<1>8. Typed'
  BY DEF Inv, Typed, Moved, bridgeVars
<1>9. \A e \in Commands : Kept(e)'
  BY DEF Inv, Moved, Kept, Connects, Bridged, bridgeVars
<1>10. LiveIsDiscoverable'
  BY DEF Inv, Moved, LiveIsDiscoverable, Onwards
<1> QED BY <1>7, <1>8, <1>9, <1>10 DEF Inv

(* The steps after which a command goes on, gives up or is done.           *)
GoesOn(c, pc) ==
  /\ cmd[c].pc # "new" /\ Goto(c, pc)
  /\ pc \in {"ending", "done", "failed"} \/ cmd[c].at = None
  /\ c \in Bridges /\ pc = "done" => closed /\ pending = 0
  /\ c \in Bridges => pc # "ending"
  /\ proc' \in [Daemons -> {"none", "booting", "bound", "writing"} \cup Published]
  /\ \A d \in Daemons : proc'[d] = "serving" => proc[d] = "serving"
  /\ Onwards /\ unseen' \in SUBSET Daemons
  /\ file' = file /\ UNCHANGED bridgeVars

LEMMA GoingOnKeepsInv ==
  ASSUME Inv, NEW c \in Commands,
         NEW pc \in {"unconnected", "ending", "done", "ready", "failed"}, GoesOn(c, pc)
  PROVE  Inv'
<1>1. cmd[c] \in CommandRecord /\ Kept(c)
  BY DEF Inv, Typed
<1>2. cmd'[c] = [cmd[c] EXCEPT !.pc = pc, !.found = {}]
  BY DEF GoesOn, Goto, Inv, Typed
<1>3. ASSUME NEW r \in CommandRecord
      PROVE  /\ [r EXCEPT !.pc = pc, !.found = {}] \in CommandRecord
             /\ [r EXCEPT !.pc = pc, !.found = {}].pc = pc
             /\ [r EXCEPT !.pc = pc, !.found = {}].op = r.op
             /\ [r EXCEPT !.pc = pc, !.found = {}].mine = r.mine
             /\ [r EXCEPT !.pc = pc, !.found = {}].pick = r.pick
             /\ [r EXCEPT !.pc = pc, !.found = {}].at = r.at
             /\ [r EXCEPT !.pc = pc, !.found = {}].todo = r.todo
             /\ [r EXCEPT !.pc = pc, !.found = {}].look = r.look
             /\ [r EXCEPT !.pc = pc, !.found = {}].step = r.step
  BY DEF CommandRecord
<1>4. /\ cmd'[c] \in CommandRecord
      /\ cmd'[c].pc = pc /\ cmd'[c].op = cmd[c].op /\ cmd'[c].mine = cmd[c].mine
      /\ cmd'[c].pick = cmd[c].pick /\ cmd'[c].at = cmd[c].at
      /\ cmd'[c].todo = cmd[c].todo /\ cmd'[c].look = cmd[c].look
      /\ cmd'[c].step = cmd[c].step
  BY <1>1, <1>2, <1>3, Zenon
<1>5. /\ cmd' \in [Commands -> CommandRecord]
      /\ \A e \in Commands \ {c} : cmd'[e] = cmd[e]
  BY <1>4 DEF GoesOn, Goto, Inv, Typed
<1>6. Kept(c)'
  BY <1>1, <1>4 DEF GoesOn, Kept, Connects, Bridged, bridgeVars
<1>7. Moved(c)
  BY <1>4, <1>5, <1>6 DEF GoesOn, Moved
<1> QED BY <1>7, MoveKeepsInv

(* A step that changes nothing but the record of c.                        *)
LEMMA RecordKeepsInv ==
  ASSUME Inv, NEW c \in Commands, NEW r \in CommandRecord, cmd' = [cmd EXCEPT ![c] = r],
         r.at = None, r.pc # "new", r.op # "none",
         r.pc \in {"opening", "booting"} => r.op = "connect",
         c \in Bridges => /\ r.op = "connect" /\ r.mine = None
                         /\ r.pc \notin {"stopping", "ending", "done"},
         r.todo = cmd[c].todo \/ r.todo \subseteq Files,
         r.look = None \/ (r.look = cmd[c].look /\ r.step = cmd[c].step),
         proc' \in [Daemons -> {"none", "booting", "bound", "writing"} \cup Published],
         \A d \in Daemons : proc'[d] = "serving" => proc[d] = "serving",
         Onwards, unseen' \in SUBSET Daemons, file' = file, UNCHANGED bridgeVars
  PROVE  Inv'
<1>1. cmd'[c] = r /\ cmd' \in [Commands -> CommandRecord]
      /\ \A e \in Commands \ {c} : cmd'[e] = cmd[e]
  BY DEF Inv, Typed
<1>2. Kept(c)'
  BY <1>1 DEF Kept, Connects, Bridged
<1>3. Moved(c)
  BY <1>1, <1>2 DEF Moved
<1> QED BY <1>3, MoveKeepsInv

-----------------------------------------------------------------------------
(* Steps                                                                   *)

(* What most commands' steps leave alone.                                  *)
LEMMA StillOnwards ==
  ASSUME Inv, UNCHANGED <<proc, unseen>>
  PROVE  /\ Onwards /\ unseen' \in SUBSET Daemons
         /\ proc' \in [Daemons -> {"none", "booting", "bound", "writing"} \cup Published]
         /\ \A d \in Daemons : proc'[d] = "serving" => proc[d] = "serving"
BY DEF Inv, Typed, Onwards

LEMMA BootsOnwards ==
  ASSUME Inv, NEW d \in Daemons, Boot(d), UNCHANGED unseen
  PROVE  /\ Onwards /\ unseen' \in SUBSET Daemons
         /\ proc' \in [Daemons -> {"none", "booting", "bound", "writing"} \cup Published]
         /\ \A e \in Daemons : proc'[e] = "serving" => proc[e] = "serving"
BY DEF Boot, Inv, Typed, Onwards, Published, Leaving

(* A command lists the files.                                              *)
LEMMA ReadingKeepsInv ==
  ASSUME Inv, NEW c \in Commands, NEW op \in {"start", "poll", "stop", "connect"},
         Readdir(c, op), cmd[c].at = None, UNCHANGED <<proc, file, unseen>>,
         c \in Bridges => op = "connect", UNCHANGED bridgeVars
  PROVE  Inv'
<1>1. PICK files \in {Files, {}} :
        cmd' = [cmd EXCEPT ![c].op = op, ![c].pc = "listing",
                           ![c].todo = files, ![c].found = {}]
  BY DEF Readdir
<1> DEFINE r == [cmd[c] EXCEPT !.op = op, !.pc = "listing", !.todo = files, !.found = {}]
<1>2. cmd[c] \in CommandRecord /\ Kept(c) /\ files \in SUBSET Daemons
  BY FilesAreDaemons DEF Inv, Typed
<1>3. ASSUME NEW q \in CommandRecord
      PROVE  LET n == [q EXCEPT !.op = op, !.pc = "listing", !.todo = files, !.found = {}]
             IN /\ n \in CommandRecord /\ n.at = q.at /\ n.pc = "listing" /\ n.op = op
                /\ n.mine = q.mine /\ n.todo = files /\ n.look = q.look /\ n.step = q.step
  <2>1. files \in SUBSET Daemons
    BY <1>2
  <2> QED BY <2>1 DEF CommandRecord
<1>4. cmd' = [cmd EXCEPT ![c] = r]
  BY <1>1
<1>5. /\ r \in CommandRecord /\ r.at = cmd[c].at /\ r.pc = "listing" /\ r.op = op
      /\ r.mine = cmd[c].mine /\ r.todo = files /\ r.look = cmd[c].look
      /\ r.step = cmd[c].step
  BY <1>2, <1>3, Zenon
<1>6. c \in Bridges => r.mine = None
  BY <1>2, <1>5 DEF Kept, Bridged
<1> HIDE DEF r
<1> QED BY <1>1, <1>4, <1>5, <1>6, StillOnwards, RecordKeepsInv

(* A command looks at the files one after the other.                       *)
LooksOn(n, q, d) ==
  /\ n \in CommandRecord /\ n.pc = q.pc /\ n.op = q.op /\ n.mine = q.mine
  /\ n.pick = q.pick /\ n.at = q.at
  /\ n.todo \subseteq q.todo /\ n.look \in {None, d}

LEMMA LookKeepsInv ==
  ASSUME Inv, NEW c \in Commands, NEW d \in Daemons,
         ReadFile(c, d) \/ ProbeFile(c, d) \/ UnlinkFile(c, d), UNCHANGED bridgeVars
  PROVE  Inv'
<1>1. /\ cmd[c] \in CommandRecord /\ Kept(c) /\ Typed /\ Seen /\ LiveIsDiscoverable
      /\ None \notin Daemons
  BY DiscoveryAssumption DEF Inv, Typed
<1>2. /\ cmd[c].pc = "listing" /\ UNCHANGED <<proc, port>> /\ proc[d] \in Published
      /\ cmd[c].todo \subseteq Daemons /\ cmd[c].found \subseteq Daemons
  BY <1>1 DEF ReadFile, ProbeFile, UnlinkFile, Seen, CommandRecord
<1>3. unseen \subseteq unseen' /\ unseen' \in SUBSET Daemons
  BY <1>1 DEF ReadFile, ProbeFile, UnlinkFile, Fault, Typed
<1>4. /\ cmd' = [cmd EXCEPT ![c] = cmd'[c]]
      /\ LooksOn(cmd'[c], cmd[c], d)
      /\ cmd'[c].look = d /\ cmd'[c].step = "unlink" => proc[d] \in Leaving \/ d \in unseen'
  <2>1. ASSUME NEW step \in {"probe", "unlink"}, LookAt(c, d, step)
        PROVE  /\ cmd' = [cmd EXCEPT ![c] = cmd'[c]]
               /\ LooksOn(cmd'[c], cmd[c], d)
               /\ cmd'[c].look = d /\ cmd'[c].step = step
    <3>1. ASSUME NEW q \in CommandRecord
          PROVE  LET n == [q EXCEPT !.look = d, !.step = step]
                 IN LooksOn(n, q, d) /\ n.look = d /\ n.step = step
      BY DEF CommandRecord, LooksOn
    <3>2. /\ cmd'[c] = [cmd[c] EXCEPT !.look = d, !.step = step]
          /\ cmd' = [cmd EXCEPT ![c] = cmd'[c]]
      BY <1>1, <2>1 DEF LookAt, Typed
    <3> QED BY <1>1, <3>1, <3>2, Zenon
  <2>2. CASE ReadFile(c, d)
    <3>1. PICK step \in {"probe", "unlink"} :
            /\ LookAt(c, d, step)
            /\ step = "unlink" => file[d] # "complete" \/ d \in unseen'
      BY <2>2 DEF ReadFile, Fault
    <3>2. step = "unlink" => proc[d] \in Leaving \/ d \in unseen'
      BY <1>1, <1>2, <1>3, <3>1 DEF LiveIsDiscoverable, Published, Leaving
    <3> QED BY <2>1, <3>1, <3>2
  <2>3. CASE ProbeFile(c, d) /\ ~LookAt(c, d, "unlink")
    <3>1. ASSUME NEW q \in CommandRecord
          PROVE  LET n == [q EXCEPT !.todo = @ \ {d}, !.look = None, !.step = "read",
                                    !.found = @ \cup {d}]
                 IN LooksOn(n, q, d) /\ n.look = None
      BY DEF CommandRecord, LooksOn
    <3>2. /\ cmd'[c] = [cmd[c] EXCEPT !.todo = @ \ {d}, !.look = None, !.step = "read",
                                      !.found = @ \cup {d}]
          /\ cmd' = [cmd EXCEPT ![c] = cmd'[c]]
      BY <1>1, <2>3 DEF ProbeFile, Typed
    <3>3. LooksOn(cmd'[c], cmd[c], d) /\ cmd'[c].look = None
      BY <1>1, <3>1, <3>2, Zenon
    <3> QED BY <1>1, <3>2, <3>3
  <2>4. CASE ProbeFile(c, d) /\ LookAt(c, d, "unlink")
    <3>1. cmd'[c].look = d
      BY <2>1, <2>4
    <3>2. proc[d] \in Leaving \/ d \in unseen' \/ cmd' = [cmd EXCEPT
             ![c].todo = @ \ {d}, ![c].look = None, ![c].step = "read",
             ![c].found = @ \cup {d}]
      BY <1>2, <2>4 DEF ProbeFile, Fault, Alive, Published, Leaving
    <3>3. proc[d] \in Leaving \/ d \in unseen'
      BY <1>1, <3>1, <3>2 DEF Typed, CommandRecord
    <3> QED BY <2>1, <2>4, <3>3
  <2>5. CASE UnlinkFile(c, d)
    <3>1. ASSUME NEW q \in CommandRecord
          PROVE  LET n == [q EXCEPT !.todo = @ \ {d}, !.look = None, !.step = "read"]
                 IN LooksOn(n, q, d) /\ n.look = None
      BY DEF CommandRecord, LooksOn
    <3>2. /\ cmd'[c] = [cmd[c] EXCEPT !.todo = @ \ {d}, !.look = None, !.step = "read"]
          /\ cmd' = [cmd EXCEPT ![c] = cmd'[c]]
      BY <1>1, <2>5 DEF UnlinkFile, Typed
    <3>3. LooksOn(cmd'[c], cmd[c], d) /\ cmd'[c].look = None
      BY <1>1, <3>1, <3>2, Zenon
    <3> QED BY <1>1, <3>2, <3>3
  <2> QED BY <2>2, <2>3, <2>4, <2>5
<1>8. /\ cmd' \in [Commands -> CommandRecord]
      /\ \A e \in Commands \ {c} : cmd'[e] = cmd[e]
  BY <1>1, <1>4 DEF Typed, LooksOn
<1>9. \A e \in Commands : Kept(e)'
  BY <1>1, <1>4, <1>8 DEF LooksOn, Inv, Kept, Connects, Bridged, bridgeVars
<1>10. /\ file' \in [Daemons -> {"none", "partial", "complete"}]
       /\ \A e \in Daemons \ {d} : file'[e] = file[e]
       /\ file'[d] = file[d] \/ (file'[d] = "none" /\ UnlinkFile(c, d))
  BY <1>1 DEF ReadFile, ProbeFile, UnlinkFile, Typed
<1>11. UnlinkFile(c, d) => proc[d] \in Leaving \/ d \in unseen
  BY <1>1 DEF UnlinkFile, Seen
<1>12. LiveIsDiscoverable'
  BY <1>1, <1>2, <1>3, <1>10, <1>11 DEF LiveIsDiscoverable, Leaving
<1>13. Typed'
  BY <1>1, <1>2, <1>3, <1>8, <1>10 DEF Typed, bridgeVars
<1>14. Seen'
  <2>1. \A e \in Daemons : file'[e] # "none" => file'[e] = "complete" /\ proc'[e] \in Published
    BY <1>1, <1>2, <1>10 DEF Seen
  <2>2. ASSUME NEW e \in Commands
        PROVE  /\ \A f \in cmd'[e].todo : proc'[f] \in Published
               /\ cmd'[e].look # None => proc'[cmd'[e].look] \in Published
               /\ cmd'[e].look # None /\ cmd'[e].step = "unlink"
                    => proc'[cmd'[e].look] \in Leaving \/ cmd'[e].look \in unseen'
    BY <1>1, <1>2, <1>3, <1>4, <1>8 DEF Seen, LooksOn
  <2> QED BY <2>1, <2>2 DEF Seen
<1> QED BY <1>9, <1>12, <1>13, <1>14 DEF Inv

LEMMA CommandKeepsInv ==
  ASSUME Inv, NEW c \in Commands, CommandStep(c) \/ Open(c) \/ TimeIsUp(c) \/ Restart(c),
         UNCHANGED bridgeVars
  PROVE  Inv'
<1>0. /\ cmd[c] \in CommandRecord /\ Kept(c) /\ Typed /\ None \notin Daemons
      /\ Bridges \subseteq Commands
  BY DiscoveryAssumption DEF Inv, Typed
<1>1. CASE AlreadyRunning(c) \/ ForkFails(c) \/ StopNone(c)
  <2>1. \E pc \in {"done", "failed"} : GoesOn(c, pc)
    BY <1>0, <1>1, StillOnwards
    DEF AlreadyRunning, ForkFails, StopNone, Listed, GoesOn, Kept, Connects, Bridged
  <2> QED BY <2>1, GoingOnKeepsInv
<1>2. CASE Stopped(c)
  <2>1. /\ Onwards /\ unseen' \in SUBSET Daemons
        /\ proc' \in [Daemons -> {"none", "booting", "bound", "writing"} \cup Published]
        /\ \A d \in Daemons : proc'[d] = "serving" => proc[d] = "serving"
    BY <1>0, <1>2 DEF Stopped, Kill9, Fault, Typed, Onwards, Published, Leaving, Alive
  <2>2. GoesOn(c, "done")
    BY <1>0, <1>2, <2>1 DEF Stopped, GoesOn, Kept, Bridged
  <2> QED BY <2>2, GoingOnKeepsInv
<1>3. CASE EngineEnds(c)
  <2>1. \E pc \in {"done", "failed"} : GoesOn(c, pc)
    BY <1>0, <1>3, StillOnwards DEF EngineEnds, GoesOn, Kept, Connects, Bridged
  <2> QED BY <2>1, GoingOnKeepsInv
<1>4. CASE CommandDone(c)
  <2>1. /\ Onwards /\ unseen' \in SUBSET Daemons
        /\ proc' \in [Daemons -> {"none", "booting", "bound", "writing"} \cup Published]
        /\ \A d \in Daemons : proc'[d] = "serving" => proc[d] = "serving"
    BY <1>0, <1>4 DEF CommandDone, Typed, Onwards, Published, Leaving
  <2>2. \E pc \in {"ending", "done"} : GoesOn(c, pc)
    BY <1>0, <1>4, <2>1 DEF CommandDone, GoesOn, Kept, Connects
  <2> QED BY <2>2, GoingOnKeepsInv
<1>5. CASE Open(c)
  <2>1. CASE Goto(c, "unconnected")
    <3>1. GoesOn(c, "unconnected")
      BY <1>0, <1>5, <2>1, StillOnwards DEF Open, GoesOn, Kept, Connects
    <3> QED BY <3>1, GoingOnKeepsInv
  <2>2. CASE ~Goto(c, "unconnected")
    <3>1. PICK d \in Daemons :
            /\ d = cmd[c].pick
            /\ cmd' = [cmd EXCEPT ![c].pc = "connected", ![c].at = d]
      BY <1>5, <2>2 DEF Open, Admits, Listening
    <3>2. cmd[c].pc = "opening" /\ UNCHANGED <<proc, file, unseen>>
      BY <1>5 DEF Open
    <3>3. ASSUME NEW r \in CommandRecord
          PROVE  LET n == [r EXCEPT !.pc = "connected", !.at = r.pick]
                 IN /\ n \in CommandRecord /\ n.pc = "connected" /\ n.op = r.op
                    /\ n.mine = r.mine /\ n.pick = r.pick /\ n.at = r.pick
                    /\ n.todo = r.todo /\ n.look = r.look /\ n.step = r.step
      BY DEF CommandRecord
    <3>4. cmd'[c] = [cmd[c] EXCEPT !.pc = "connected", !.at = cmd[c].pick]
      BY <1>0, <3>1 DEF Typed
    <3>5. /\ cmd'[c] \in CommandRecord /\ cmd'[c].pc = "connected"
          /\ cmd'[c].op = cmd[c].op /\ cmd'[c].mine = cmd[c].mine
          /\ cmd'[c].pick = cmd[c].pick /\ cmd'[c].at = cmd[c].pick
          /\ cmd'[c].todo = cmd[c].todo /\ cmd'[c].look = cmd[c].look
          /\ cmd'[c].step = cmd[c].step
      BY <1>0, <3>3, <3>4, Zenon
    <3>6. Kept(c)'
      BY <1>0, <3>2, <3>5 DEF Kept, Connects, Bridged
    <3>7. /\ cmd' \in [Commands -> CommandRecord]
          /\ \A e \in Commands \ {c} : cmd'[e] = cmd[e]
      BY <1>0, <3>1, <3>5 DEF Typed
    <3>8. Moved(c)
      BY <3>2, <3>5, <3>6, <3>7, StillOnwards DEF Moved
    <3> QED BY <3>8, MoveKeepsInv
  <2> QED BY <2>1, <2>2
<1>6. CASE Poll(c)
  <2>1. CASE \E pc \in {"ready", "failed"} : Goto(c, pc)
    <3>1. \E pc \in {"ready", "failed"} : GoesOn(c, pc)
      BY <1>0, <1>6, <2>1, StillOnwards DEF Poll, Listed, GoesOn, Kept, Connects
    <3> QED BY <3>1, GoingOnKeepsInv
  <2>2. CASE Readdir(c, "poll")
    <3>1. cmd[c].at = None /\ c \notin Bridges /\ UNCHANGED <<proc, file, unseen>>
      BY <1>0, <1>6 DEF Poll, Listed, Kept, Connects, Bridged
    <3> QED BY <2>2, <3>1, ReadingKeepsInv
  <2> QED BY <1>6, <2>1, <2>2 DEF Poll
<1>7. CASE Begin(c)
  <2>1. PICK op \in {"start", "stop", "connect"} :
          (c \in Bridges => op = "connect") /\ Readdir(c, op)
    BY <1>7 DEF Begin
  <2>2. cmd[c].at = None /\ UNCHANGED <<proc, file, unseen>>
    BY <1>0, <1>7 DEF Begin, Kept, Connects
  <2> QED BY <2>1, <2>2, ReadingKeepsInv
<1>8. CASE Booted(c)
  <2>1. Readdir(c, "connect") /\ cmd[c].at = None /\ UNCHANGED <<proc, file, unseen>>
    BY <1>0, <1>8 DEF Booted, Kept, Connects
  <2> QED BY <2>1, ReadingKeepsInv
<1>9. CASE Restart(c)
  <2> DEFINE r == [Idle EXCEPT !.op = "start", !.pc = "listing", !.todo = Files]
  <2>1. /\ r \in CommandRecord /\ r.at = None /\ r.pc = "listing" /\ r.op = "start"
        /\ r.todo = Files /\ r.look = None
    BY FilesAreDaemons DEF Idle, CommandRecord, Picks
  <2>2. cmd' = [cmd EXCEPT ![c] = r] /\ c \notin Bridges /\ UNCHANGED <<proc, file, unseen>>
    BY <1>0, <1>9 DEF Restart, Kept, Bridged
  <2> HIDE DEF r
  <2> QED BY <2>1, <2>2, StillOnwards, RecordKeepsInv
<1>10. CASE Find(c)
  <2> DEFINE pc == IF Latest(c) = None THEN "unconnected" ELSE "opening"
             r == [cmd[c] EXCEPT !.pick = Latest(c), !.found = {}, !.pc = pc]
  <2>1. Latest(c) \in Picks /\ pc \in {"unconnected", "opening"}
    BY <1>0, LatestIsPick
  <2>2. r = [cmd[c] EXCEPT !.pick = Latest(c), !.found = {}, !.pc = pc]
    OBVIOUS
  <2> HIDE DEF r, pc
  <2>3. /\ r \in CommandRecord /\ r.pc = pc /\ r.op = cmd[c].op /\ r.mine = cmd[c].mine
        /\ r.at = cmd[c].at /\ r.todo = cmd[c].todo /\ r.look = cmd[c].look
        /\ r.step = cmd[c].step
    <3>1. ASSUME NEW q \in CommandRecord
          PROVE  LET n == [q EXCEPT !.pick = Latest(c), !.found = {}, !.pc = pc]
                 IN /\ n \in CommandRecord /\ n.pc = pc /\ n.op = q.op /\ n.mine = q.mine
                    /\ n.at = q.at /\ n.todo = q.todo /\ n.look = q.look /\ n.step = q.step
      BY <2>1 DEF CommandRecord
    <3> QED BY <1>0, <2>2, <3>1, Zenon
  <2>4. cmd' = [cmd EXCEPT ![c] = r] /\ UNCHANGED <<proc, file, unseen>>
    BY <1>10, <2>2 DEF Find, pc
  <2>5. cmd[c].op = "connect" /\ cmd[c].at = None /\ (c \in Bridges => cmd[c].mine = None)
    BY <1>0, <1>10 DEF Find, Listed, Kept, Connects, Bridged
  <2> QED BY <2>1, <2>3, <2>4, <2>5, StillOnwards, RecordKeepsInv
<1>11. CASE TimeIsUp(c)
  <2> DEFINE r == [cmd[c] EXCEPT !.late = TRUE]
  <2>1. /\ r \in CommandRecord /\ r.pc = cmd[c].pc /\ r.op = cmd[c].op
        /\ r.mine = cmd[c].mine /\ r.at = cmd[c].at /\ r.todo = cmd[c].todo
        /\ r.look = cmd[c].look /\ r.step = cmd[c].step
    BY <1>0 DEF CommandRecord
  <2>2. cmd' = [cmd EXCEPT ![c] = r] /\ UNCHANGED <<proc, file, unseen>>
    BY <1>11 DEF TimeIsUp
  <2>3. /\ cmd[c].pc \in {"stopping", "listing"} /\ cmd[c].at = None /\ cmd[c].op # "none"
        /\ c \notin Bridges
    BY <1>0, <1>11 DEF TimeIsUp, Kept, Connects, Bridged
  <2> HIDE DEF r
  <2> QED BY <2>1, <2>2, <2>3, StillOnwards, RecordKeepsInv
<1>12. CASE Stop(c)
  <2>1. PICK d \in Daemons :
          /\ \/ Sigterm(d) /\ UNCHANGED unseen
             \/ Alive(d) /\ UNCHANGED proc /\ Fault(d)
          /\ cmd' = [cmd EXCEPT ![c].pick = d, ![c].pc = "stopping", ![c].found = {}]
    BY <1>12 DEF Stop
  <2>2. ASSUME NEW q \in CommandRecord, NEW pick \in Picks
        PROVE  LET n == [q EXCEPT !.pick = pick, !.pc = "stopping", !.found = {}]
               IN /\ n \in CommandRecord /\ n.pc = "stopping" /\ n.op = q.op
                  /\ n.at = q.at /\ n.todo = q.todo /\ n.look = q.look /\ n.step = q.step
    BY DEF CommandRecord
  <2> DEFINE r == [cmd[c] EXCEPT !.pick = d, !.pc = "stopping", !.found = {}]
  <2>3. d \in Picks
    BY DEF Picks
  <2>4. /\ r \in CommandRecord /\ r.pc = "stopping" /\ r.op = cmd[c].op
        /\ r.at = cmd[c].at /\ r.todo = cmd[c].todo /\ r.look = cmd[c].look
        /\ r.step = cmd[c].step
    BY <1>0, <2>2, <2>3, Zenon
  <2>5. cmd' = [cmd EXCEPT ![c] = r] /\ UNCHANGED <<port, file>>
    BY <1>12, <2>1 DEF Stop
  <2>6. cmd[c].op = "stop" /\ cmd[c].at = None /\ c \notin Bridges
    BY <1>0, <1>12 DEF Stop, Listed, Kept, Connects, Bridged
  <2>7. /\ Onwards /\ unseen' \in SUBSET Daemons
        /\ proc' \in [Daemons -> {"none", "booting", "bound", "writing"} \cup Published]
        /\ \A e \in Daemons : proc'[e] = "serving" => proc[e] = "serving"
    BY <1>0, <2>1 DEF Sigterm, Kill9, Fault, Typed, Onwards, Published, Leaving
  <2> HIDE DEF r
  <2> QED BY <2>4, <2>5, <2>6, <2>7, RecordKeepsInv
<1>13. ASSUME NEW d \in Daemons, ReadFile(c, d) \/ ProbeFile(c, d) \/ UnlinkFile(c, d)
       PROVE  Inv'
  BY <1>13, LookKeepsInv
<1>14. ASSUME NEW d \in Daemons, Fork(c, d) PROVE Inv'
  <2>1. ASSUME NEW q \in CommandRecord, NEW files \in SUBSET Daemons
        PROVE  LET n == [q EXCEPT !.op = "poll", !.mine = d, !.todo = files]
               IN /\ n \in CommandRecord /\ n.pc = q.pc /\ n.op = "poll"
                  /\ n.at = q.at /\ n.todo = files /\ n.look = q.look /\ n.step = q.step
    BY DEF CommandRecord
  <2> DEFINE r == [cmd[c] EXCEPT !.op = "poll", !.mine = d, !.todo = Files]
  <2>2. /\ r \in CommandRecord /\ r.pc = cmd[c].pc /\ r.op = "poll"
        /\ r.at = cmd[c].at /\ r.todo = Files /\ r.look = cmd[c].look
        /\ r.step = cmd[c].step
    BY <1>0, <2>1, FilesAreDaemons, Zenon
  <2>3. cmd' = [cmd EXCEPT ![c] = r] /\ Boot(d) /\ UNCHANGED <<port, file, unseen>>
    BY <1>14 DEF Fork
  <2>4. cmd[c].pc = "listing" /\ cmd[c].at = None /\ c \notin Bridges
    BY <1>0, <1>14 DEF Fork, Listed, Kept, Connects, Bridged
  <2> HIDE DEF r
  <2> QED BY <2>2, <2>3, <2>4, BootsOnwards, RecordKeepsInv
<1>15. ASSUME NEW d \in Daemons, Ephemeral(c, d) PROVE Inv'
  <2>1. ASSUME NEW q \in CommandRecord
        PROVE  LET n == [q EXCEPT !.op = "connect", !.pc = "booting", !.mine = d]
               IN /\ n \in CommandRecord /\ n.pc = "booting" /\ n.op = "connect"
                  /\ n.at = q.at /\ n.todo = q.todo /\ n.look = q.look /\ n.step = q.step
    BY DEF CommandRecord
  <2> DEFINE r == [cmd[c] EXCEPT !.op = "connect", !.pc = "booting", !.mine = d]
  <2>2. /\ r \in CommandRecord /\ r.pc = "booting" /\ r.op = "connect"
        /\ r.at = cmd[c].at /\ r.todo = cmd[c].todo /\ r.look = cmd[c].look
        /\ r.step = cmd[c].step
    BY <1>0, <2>1, Zenon
  <2>3. cmd' = [cmd EXCEPT ![c] = r] /\ Boot(d) /\ UNCHANGED <<port, file, unseen>>
    BY <1>15 DEF Ephemeral
  <2>4. cmd[c].at = None /\ c \notin Bridges
    BY <1>0, <1>15 DEF Ephemeral, Kept, Connects
  <2> HIDE DEF r
  <2> QED BY <2>2, <2>3, <2>4, BootsOnwards, RecordKeepsInv
<1> QED
  BY <1>1, <1>2, <1>3, <1>4, <1>5, <1>6, <1>7, <1>8, <1>9, <1>10, <1>11,
     <1>12, <1>13, <1>14, <1>15
  DEF CommandStep

LEMMA DaemonKeepsInv ==
  ASSUME Inv, NEW d \in Daemons, Bind(d) \/ Publish(d) \/ Teardown(d) \/ Crashing(d),
         UNCHANGED bridgeVars
  PROVE  Inv'
<1>1. Typed /\ Seen /\ LiveIsDiscoverable
  BY DEF Inv
<1>2. /\ proc' \in [Daemons -> {"none", "booting", "bound", "writing"} \cup Published]
      /\ file' \in [Daemons -> {"none", "partial", "complete"}]
      /\ UNCHANGED <<cmd, unseen>>
  BY <1>1 DEF Typed, Published, Bind, Publish, Teardown, Crashing, Crash, Kill9
<1>3. Onwards
  BY <1>1 DEF Typed, Onwards, Published, Leaving, Bind, Publish, Teardown, Crashing, Crash,
              Kill9
<1>4. Typed' /\ \A c \in Commands : Kept(c)'
  BY <1>1, <1>2 DEF Inv, Typed, Kept, Connects, Bridged, bridgeVars
<1>5. LiveIsDiscoverable'
  BY <1>1, <1>2
  DEF Typed, LiveIsDiscoverable, Bind, Publish, Teardown, Crashing, Crash, Kill9
<1>6. \A e \in Daemons : file'[e] # "none" => file'[e] = "complete" /\ proc'[e] \in Published
  BY <1>1 DEF Typed, Seen, Published, Bind, Publish, Teardown, Crashing, Crash, Kill9
<1>7. \A c \in Commands :
        cmd[c].todo \subseteq Daemons /\ cmd[c].look \in Daemons \cup {None}
  BY <1>1 DEF Typed, CommandRecord
<1>8. Seen'
  BY <1>1, <1>2, <1>3, <1>6, <1>7 DEF Seen, Onwards
<1> QED BY <1>4, <1>5, <1>8 DEF Inv

(* The lines: what was read is counted until it is answered.               *)
LEMMA LinesKeepInv ==
  ASSUME Inv, Counted, NEW b \in Bridges, BridgeStep(b)
  PROVE  Inv' /\ Counted'
<1>1. b \in Commands /\ IsFiniteSet(Awaited)
  BY DiscoveryAssumption, BridgeAssumption, FS_Subset DEF Awaited
<1>2. CASE Close(b)
  BY <1>2 DEF Close, Inv, Typed, Kept, Connects, Bridged, Seen,
              LiveIsDiscoverable, discoveryVars,
     Counted, Awaited, UnderWay
<1>3. CASE Finish(b)
  <2>1. GoesOn(b, "done")
    BY <1>1, <1>3, StillOnwards DEF Finish, Bridging, GoesOn, Inv, Typed, bridgeVars
  <2>2. Inv'
    BY <1>1, <2>1, GoingOnKeepsInv
  <2> QED BY <1>3, <2>2 DEF Finish, bridgeVars, Counted, Awaited, UnderWay
<1>4. ASSUME NEW l \in Lines, ReadLine(b, l) PROVE Inv' /\ Counted'
  <2>1. Awaited' = Awaited
    BY <1>4 DEF ReadLine, Reply, Inv, Typed, Counted, Awaited, UnderWay
  <2>2. Counted'
    BY <1>4, <2>1 DEF ReadLine, Reply, Inv, Typed, Counted
  <2> QED BY <1>4, <2>2
          DEF ReadLine, Reply, Inv, Typed, Kept, Connects, Bridged, Seen,
              LiveIsDiscoverable,
              discoveryVars
<1>5. ASSUME NEW l \in Lines, ReadCall(b, l) PROVE Inv' /\ Counted'
  <2>1. CASE cmd[b].pc = "connected"
    <3>1. Awaited' = Awaited \cup {l} /\ l \notin Awaited
      BY <1>5, <2>1 DEF ReadCall, Inv, Typed, Counted, Awaited, UnderWay
    <3>2. Counted'
      BY <1>1, <1>5, <2>1, <3>1, FS_AddElement DEF ReadCall, Inv, Typed, Counted
    <3> QED BY <1>5, <2>1, <3>2
            DEF ReadCall, Inv, Typed, Kept, Connects, Bridged, Seen,
              LiveIsDiscoverable, discoveryVars
  <2>2. CASE cmd[b].pc # "connected"
    <3>1. Awaited' = Awaited
      BY <1>5, <2>2 DEF ReadCall, Reply, Inv, Typed, Counted, Awaited, UnderWay
    <3>2. Counted'
      BY <1>5, <2>2, <3>1 DEF ReadCall, Reply, Inv, Typed, Counted
    <3> QED BY <1>5, <2>2, <3>2
            DEF ReadCall, Reply, Inv, Typed, Kept, Connects, Bridged, Seen,
              LiveIsDiscoverable,
                discoveryVars
  <2> QED BY <2>1, <2>2
<1>6. ASSUME NEW l \in Lines, CallSettled(b, l) PROVE Inv' /\ Counted'
  <2>1. l \in Awaited /\ Awaited' = Awaited \ {l}
    BY <1>6 DEF CallSettled, Reply, Inv, Typed, Awaited, UnderWay
  <2>2. pending # 0
    BY <1>1, <2>1, FS_EmptySet DEF Counted
  <2>3. Cardinality(Awaited \ {l}) = pending - 1
    BY <1>1, <2>1, FS_RemoveElement DEF Counted
  <2>4. pending' = Cardinality(Awaited') /\ pending' \in Nat
    BY <1>6, <2>1, <2>2, <2>3 DEF CallSettled, Inv, Typed
  <2>5. Counted'
    BY <1>6, <2>4 DEF CallSettled, Reply, UnderWay, Inv, Typed, Counted
  <2> QED BY <1>6, <2>2, <2>4, <2>5
          DEF CallSettled, Reply, Inv, Typed, Kept, Connects, Bridged, Seen,
              LiveIsDiscoverable,
              discoveryVars
<1> QED BY <1>2, <1>3, <1>4, <1>5, <1>6 DEF BridgeStep

-----------------------------------------------------------------------------
(* Theorems                                                                *)

LEMMA InitInv == Init => Inv /\ Counted
<1> SUFFICES ASSUME Init PROVE Inv /\ Counted
  OBVIOUS
<1>1. /\ proc \in [Daemons -> {"none", "booting", "bound", "writing"} \cup Published]
      /\ file \in [Daemons -> {"none", "partial", "complete"}]
      /\ LiveIsDiscoverable
  BY DEF Init, DiscoveryInit, Published, LiveIsDiscoverable
<1>2. Idle \in CommandRecord
  BY DEF Idle, CommandRecord, Picks
<1>3. cmd = [c \in Commands |-> Idle]
  BY DEF Init, DiscoveryInit
<1>4. Typed
  BY <1>1, <1>2, <1>3 DEF Typed, Init, DiscoveryInit
<1>5. (\A c \in Commands : Kept(c)) /\ Seen
  BY <1>1, <1>3 DEF Kept, Connects, Bridged, Seen, Idle, Init, DiscoveryInit, Published
<1>6. Awaited = {}
  BY DEF Init, Awaited, UnderWay
<1> QED BY <1>1, <1>4, <1>5, <1>6, FS_EmptySet DEF Inv, Counted, Init

LEMMA StepInv == Inv /\ Counted /\ [Next]_vars => Inv' /\ Counted'
<1> SUFFICES ASSUME Inv, Counted, [Next]_vars PROVE Inv' /\ Counted'
  OBVIOUS
<1>1. CASE DiscoveryStep /\ UNCHANGED bridgeVars
  <2>1. Inv'
    BY <1>1, CommandKeepsInv, DaemonKeepsInv DEF DiscoveryStep
  <2> QED BY <1>1, <2>1 DEF bridgeVars, Counted, Awaited, UnderWay
<1>2. CASE \E b \in Bridges : BridgeStep(b)
  BY <1>2, LinesKeepInv
<1>3. CASE UNCHANGED vars
  BY <1>3 DEF vars, discoveryVars, bridgeVars, Inv, Typed, Kept, Connects, Bridged, Seen,
              LiveIsDiscoverable, Counted, Awaited, UnderWay
<1> QED BY <1>1, <1>2, <1>3 DEF Next

THEOREM BridgeInvariant == Spec => [](Inv /\ Counted)
BY InitInv, StepInv, PTL DEF Spec

(* A daemon that serves can be found, whatever the readers of its file do  *)
(* meanwhile, between whichever of their system calls: only one that an    *)
(* error of the system's kept from reading the file or from signalling the *)
(* daemon unlinks it.                                                      *)
THEOREM BridgeLiveIsDiscoverable == Spec => []LiveIsDiscoverable
<1>1. Inv => LiveIsDiscoverable
  BY DEF Inv
<1> QED BY <1>1, BridgeInvariant, PTL

(* A command is connected to the daemon whose record it picked.            *)
THEOREM BridgeReachesWhatItFound == Spec => []ReachesWhatItFound
<1>1. Inv => ReachesWhatItFound
  BY DEF Inv, Kept, Connects, ReachesWhatItFound
<1> QED BY <1>1, BridgeInvariant, PTL

(* No line is answered twice, and a bridge that has ended has answered     *)
(* every request and call.                                                 *)
THEOREM BridgeNoLineIsLost == Spec => []NoLineIsLost
<1>1. Inv /\ Counted => NoLineIsLost
  <2> SUFFICES ASSUME Inv, Counted, NEW b \in Bridges, NEW l \in Lines
               PROVE  /\ replies[l] <= 1
                      /\ cmd[b].pc = "done" /\ kind[l] \in {"request", "call"}
                           => replies[l] = 1
    BY DEF NoLineIsLost
  <2>1. replies[l] \in {0, 1}
    BY DEF Inv, Typed, Counted
  <2>2. cmd[b].pc = "done" => Awaited = {}
    BY DiscoveryAssumption, BridgeAssumption, FS_Subset, FS_EmptySet
    DEF Inv, Kept, Bridged, Counted, Awaited
  <2> QED BY <2>1, <2>2 DEF Counted, Awaited, UnderWay
<1> QED BY <1>1, BridgeInvariant, PTL

=============================================================================
