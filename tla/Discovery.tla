----------------------------- MODULE Discovery -----------------------------
(***************************************************************************)
(* Daemons and the commands that start, find, use and stop them: the       *)
(* instance files (src/daemon/instances.ts), the daemon command            *)
(* (src/cli/commands/daemon.ts), the ephemeral mode and the client's       *)
(* connect. Processes interleave between the system calls that tell them   *)
(* of one another, of which the search for a port and the end of a         *)
(* teardown take two or more in a step. Any daemon may be killed at any    *)
(* time and leaves its file behind; it may also stop to answer.            *)
(*                                                                         *)
(* A daemon stands for its pid, its token and startedAt: a number, in the  *)
(* order of the starts. Pids are not re-used.                              *)
(***************************************************************************)
EXTENDS Integers, FiniteSets, FiniteSetsExt

CONSTANTS
  Daemons,    \* bound: the daemons that are ever started
  Commands,
  Bridges,    \* the commands that are mcp-stdio
  Ports,      \* the range that is probed, in this order
  None

ASSUME DiscoveryAssumption ==
  /\ Bridges \subseteq Commands
  /\ Daemons \subseteq Nat /\ Ports \subseteq Nat /\ IsFiniteSet(Ports)
  /\ None \notin Daemons \cup Ports

VARIABLES
  proc,    \* the life of each daemon process
  port,    \* the port it bound, and wrote to its file
  file,    \* ~/.cordyceps/instances/<pid>.json
  cmd,     \* the commands: see Idle
  unseen   \* history: the daemons whose file a command could not read or
           \* unlink, or that it could not signal, for some other error

discoveryVars == <<proc, port, file, cmd, unseen>>

Idle == [op |-> "none", pc |-> "new",
         todo |-> {}, look |-> None, step |-> "read", found |-> {},
         mine |-> None, pick |-> None, at |-> None, late |-> FALSE]

Alive(d) == proc[d] \notin {"none", "dead"}

\* The stages of a daemon that other processes may come to know.
Published == {"serving", "stopping", "closed", "dead"}

DiscoveryTypeOK ==
  /\ proc \in [Daemons -> {"none", "booting", "bound", "writing"} \cup Published]
  /\ port \in [Daemons -> Ports \cup {None}]
  /\ file \in [Daemons -> {"none", "partial", "complete"}]
  /\ unseen \subseteq Daemons

(* The first daemon may be there already.                                  *)
DiscoveryInit ==
  /\ \/ /\ proc = [d \in Daemons |-> "none"]
        /\ port = [d \in Daemons |-> None]
        /\ file = [d \in Daemons |-> "none"]
     \/ LET first == Min(Daemons)
        IN /\ proc = [d \in Daemons |-> IF d = first THEN "serving" ELSE "none"]
           /\ port = [d \in Daemons |-> IF d = first THEN Min(Ports) ELSE None]
           /\ file = [d \in Daemons |-> IF d = first THEN "complete" ELSE "none"]
  /\ cmd = [c \in Commands |-> Idle]
  /\ unseen = {}

-----------------------------------------------------------------------------
(* The daemon process                                                      *)

Listening(p) ==
  {d \in Daemons :
     port[d] = p /\ proc[d] \in {"bound", "writing", "serving", "stopping"}}

(* The first free port of the range; without one the process ends.         *)
Bind(d) ==
  /\ proc[d] = "booting"
  /\ LET free == {p \in Ports : Listening(p) = {}}
     IN IF free = {} THEN proc' = [proc EXCEPT ![d] = "dead"] /\ UNCHANGED port
        ELSE /\ proc' = [proc EXCEPT ![d] = "bound"]
             /\ port' = [port EXCEPT ![d] = Min(free)]
  /\ UNCHANGED <<file, cmd, unseen>>

\* Faulty variant: the file is written in place.
PublishInPlace(d) ==
  /\ \/ /\ proc[d] = "bound"
        /\ proc' = [proc EXCEPT ![d] = "writing"]
        /\ file' = [file EXCEPT ![d] = "partial"]
     \/ /\ proc[d] = "writing"
        /\ proc' = [proc EXCEPT ![d] = "serving"]
        /\ file' = [file EXCEPT ![d] = IF @ = "partial" THEN "complete" ELSE @]
  /\ UNCHANGED <<port, cmd, unseen>>

(* writeInstance, once the plugins are loaded: a temporary file that no    *)
(* reader looks at, renamed when it is complete.                           *)
Publish(d) ==
  /\ \/ /\ proc[d] = "bound"
        /\ proc' = [proc EXCEPT ![d] = "writing"]
        /\ UNCHANGED file
     \/ /\ proc[d] = "writing"
        /\ proc' = [proc EXCEPT ![d] = "serving"]
        /\ file' = [file EXCEPT ![d] = "complete"]
  /\ UNCHANGED <<port, cmd, unseen>>

(* shutdown and stop(): the transport closes, then the file goes.          *)
Teardown(d) ==
  /\ \/ /\ proc[d] = "stopping"
        /\ proc' = [proc EXCEPT ![d] = "closed"]
        /\ UNCHANGED file
     \/ /\ proc[d] = "closed"
        /\ proc' = [proc EXCEPT ![d] = "dead"]
        /\ file' = [file EXCEPT ![d] = "none"]
  /\ UNCHANGED <<port, cmd, unseen>>

Kill9(d) == proc' = [proc EXCEPT ![d] = "dead"]

(* The handlers are installed when the file is written; until then SIGTERM *)
(* ends the process, afterwards it starts one shutdown.                    *)
Sigterm(d) ==
  CASE proc[d] \in {"booting", "bound", "writing"} -> Kill9(d)
    [] proc[d] = "serving" -> proc' = [proc EXCEPT ![d] = "stopping"]
    [] OTHER -> UNCHANGED proc

(* SIGKILL, a power failure, an error nobody handles.                      *)
Crash(d) ==
  /\ Alive(d)
  /\ Kill9(d)
  /\ UNCHANGED <<port, file, cmd, unseen>>

Boot(d) ==
  /\ proc[d] = "none" /\ \A e \in Daemons : e < d => proc[e] # "none"
  /\ proc' = [proc EXCEPT ![d] = "booting"]

-----------------------------------------------------------------------------
(* listInstances                                                           *)

Files == {d \in Daemons : file[d] # "none"}

Goto(c, pc) == cmd' = [cmd EXCEPT ![c].pc = pc, ![c].found = {}]

\* The directory is read, or cannot be; what was found before is forgotten.
Readdir(c, op) ==
  \E files \in {Files, {}} :
    cmd' = [cmd EXCEPT ![c].op = op, ![c].pc = "listing",
                       ![c].todo = files, ![c].found = {}]

(* Something keeps a command from seeing a daemon: EACCES, EMFILE, EPERM.  *)
Fault(d) == unseen' = unseen \cup {d}

LookAt(c, d, step) == cmd' = [cmd EXCEPT ![c].look = d, ![c].step = step]

(* One file after the other. It may be gone by now.                        *)
ReadFile(c, d) ==
  /\ cmd[c].pc = "listing" /\ d \in cmd[c].todo /\ cmd[c].look = None
  /\ \/ file[d] = "complete" /\ LookAt(c, d, "probe") /\ UNCHANGED unseen
     \/ file[d] # "complete" /\ LookAt(c, d, "unlink") /\ UNCHANGED unseen
     \/ file[d] = "complete" /\ LookAt(c, d, "unlink") /\ Fault(d)
  /\ UNCHANGED <<proc, port, file>>

(* isPidAlive: every error is taken for the end of the process.            *)
ProbeFile(c, d) ==
  /\ cmd[c].pc = "listing" /\ cmd[c].look = d /\ cmd[c].step = "probe"
  /\ \/ /\ Alive(d)
        /\ cmd' = [cmd EXCEPT ![c].todo = @ \ {d}, ![c].look = None,
                              ![c].step = "read", ![c].found = @ \cup {d}]
        /\ UNCHANGED unseen
     \/ ~Alive(d) /\ LookAt(c, d, "unlink") /\ UNCHANGED unseen
     \/ Alive(d) /\ LookAt(c, d, "unlink") /\ Fault(d)
  /\ UNCHANGED <<proc, port, file>>

(* Stale or corrupt, or taken for it. An error is ignored.                 *)
UnlinkFile(c, d) ==
  /\ cmd[c].pc = "listing" /\ cmd[c].look = d /\ cmd[c].step = "unlink"
  /\ cmd' = [cmd EXCEPT ![c].todo = @ \ {d}, ![c].look = None, ![c].step = "read"]
  /\ \/ file' = [file EXCEPT ![d] = "none"] /\ UNCHANGED unseen
     \/ UNCHANGED file /\ Fault(d)
  /\ UNCHANGED <<proc, port>>

Listed(c, op) ==
  cmd[c].op = op /\ cmd[c].pc = "listing" /\ cmd[c].todo = {}

(* findLatestInstance                                                      *)
Latest(c) ==
  IF cmd[c].found = {} THEN None ELSE Max(cmd[c].found)

-----------------------------------------------------------------------------
(* daemon start, daemon stop                                               *)

Begin(c) ==
  /\ cmd[c].pc = "new"
  /\ \E op \in {"start", "stop", "connect"} :
       (c \in Bridges => op = "connect") /\ Readdir(c, op)
  /\ UNCHANGED <<proc, port, file, unseen>>

AlreadyRunning(c) ==
  /\ Listed(c, "start") /\ cmd[c].found # {}
  /\ Goto(c, "done")
  /\ UNCHANGED <<proc, port, file, unseen>>

Fork(c, d) ==
  /\ Listed(c, "start") /\ cmd[c].found = {}
  /\ Boot(d)
  /\ cmd' = [cmd EXCEPT ![c].op = "poll", ![c].mine = d, ![c].todo = Files]
  /\ UNCHANGED <<port, file, unseen>>

ForkFails(c) ==
  /\ Listed(c, "start") /\ cmd[c].found = {}
  /\ Goto(c, "failed")
  /\ UNCHANGED <<proc, port, file, unseen>>

(* pollUntil the file of the child is there, or the 8 s are over.          *)
Poll(c) ==
  /\ Listed(c, "poll")
  /\ IF cmd[c].mine \in cmd[c].found THEN Goto(c, "ready")
     ELSE IF cmd[c].late THEN Goto(c, "failed")
     ELSE Readdir(c, "poll")
  /\ UNCHANGED <<proc, port, file, unseen>>

StopNone(c) ==
  /\ Listed(c, "stop") /\ cmd[c].found = {}
  /\ Goto(c, "done")
  /\ UNCHANGED <<proc, port, file, unseen>>

(* An error of the signal is ignored as well.                              *)
Stop(c) ==
  /\ Listed(c, "stop") /\ cmd[c].found # {}
  /\ \E d \in Daemons :
       /\ d = Latest(c)
       /\ \/ Sigterm(d) /\ UNCHANGED unseen
          \/ Alive(d) /\ UNCHANGED proc /\ Fault(d)
       /\ cmd' = [cmd EXCEPT ![c].pick = d, ![c].pc = "stopping", ![c].found = {}]
  /\ UNCHANGED <<port, file>>

(* The process is gone or cannot be probed, or after 8 s is killed the hard *)
(* way, which may fail too.                                                *)
Stopped(c) ==
  /\ cmd[c].pc = "stopping"
  /\ \E d \in Daemons :
       /\ d = cmd[c].pick
       /\ \/ ~Alive(d) /\ UNCHANGED <<proc, unseen>>
          \/ Alive(d) /\ cmd[c].late /\ Kill9(d) /\ UNCHANGED unseen
          \/ Alive(d) /\ UNCHANGED proc /\ Fault(d)
  /\ Goto(c, "done")
  /\ UNCHANGED <<port, file>>

(* restart: a stop, which always reports success, and a start.             *)
Restart(c) ==
  /\ cmd[c].op = "stop" /\ cmd[c].pc = "done"
  /\ cmd' = [cmd EXCEPT ![c] = [Idle EXCEPT !.op = "start", !.pc = "listing",
                                            !.todo = Files]]
  /\ UNCHANGED <<proc, port, file, unseen>>

\* Faulty variant: polling for the file has no deadline.
TimeIsUpIdle(c) ==
  /\ cmd[c].pc = "stopping" /\ ~cmd[c].late
  /\ cmd' = [cmd EXCEPT ![c].late = TRUE]
  /\ UNCHANGED <<proc, port, file, unseen>>

TimeIsUp(c) ==
  /\ cmd[c].pc = "stopping" \/ (cmd[c].op = "poll" /\ cmd[c].pc = "listing")
  /\ ~cmd[c].late
  /\ cmd' = [cmd EXCEPT ![c].late = TRUE]
  /\ UNCHANGED <<proc, port, file, unseen>>

-----------------------------------------------------------------------------
(* The other commands connect to the latest daemon; the ephemeral mode     *)
(* starts an engine in its own process first and stops it at the end       *)

Ephemeral(c, d) ==
  /\ cmd[c].pc = "new" /\ c \notin Bridges
  /\ Boot(d)
  /\ cmd' = [cmd EXCEPT ![c].op = "connect", ![c].pc = "booting", ![c].mine = d]
  /\ UNCHANGED <<port, file, unseen>>

Booted(c) ==
  /\ cmd[c].pc = "booting" /\ proc[cmd[c].mine] = "serving"
  /\ Readdir(c, "connect")
  /\ UNCHANGED <<proc, port, file, unseen>>

(* The command dies with its engine, or is done when its engine has stopped.*)
EngineEnds(c) ==
  /\ cmd[c].op = "connect" /\ cmd[c].mine # None /\ proc[cmd[c].mine] = "dead"
  /\ cmd[c].pc \notin {"done", "failed"}
  /\ Goto(c, IF cmd[c].pc = "ending" THEN "done" ELSE "failed")
  /\ UNCHANGED <<proc, port, file, unseen>>

Find(c) ==
  /\ Listed(c, "connect")
  /\ cmd' = [cmd EXCEPT
       ![c].pick = Latest(c), ![c].found = {},
       ![c].pc = IF Latest(c) = None THEN "unconnected" ELSE "opening"]
  /\ UNCHANGED <<proc, port, file, unseen>>

\* Faulty variant: whoever listens lets everybody in.
AdmitsAnyone(d, token) == proc[d] # "none"

(* The upgrade: the path, loopback host and origin, and the daemon's token *)
(* in constant time; of these only the token can differ between daemons.   *)
Admits(d, token) == token = d

(* Nobody listens at the url of the record any more, or a daemon that      *)
(* refuses the upgrade, or one that admits the bearer of the token. No     *)
(* timer runs meanwhile: who listens there, perhaps no daemon, may keep    *)
(* silent.                                                                 *)
Open(c) ==
  /\ cmd[c].pc = "opening"
  /\ LET there == {d \in Listening(port[cmd[c].pick]) : Admits(d, cmd[c].pick)}
     IN IF there = {} THEN Goto(c, "unconnected")
        ELSE \E d \in there : cmd' = [cmd EXCEPT ![c].pc = "connected", ![c].at = d]
  /\ UNCHANGED <<proc, port, file, unseen>>

(* The command has its result, or reports the error. finally stops the     *)
(* engine of an ephemeral one and waits for it, without a timer.           *)
CommandDone(c) ==
  /\ c \notin Bridges /\ cmd[c].op = "connect"
  /\ cmd[c].pc \in {"connected", "unconnected"}
  /\ IF cmd[c].mine = None THEN Goto(c, "done") /\ UNCHANGED proc
     ELSE /\ Goto(c, "ending")
          /\ proc' = [proc EXCEPT ![cmd[c].mine] =
                         IF @ = "serving" THEN "stopping" ELSE @]
  /\ UNCHANGED <<port, file, unseen>>
=============================================================================
