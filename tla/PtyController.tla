---------------------------- MODULE PtyController ----------------------------
(***************************************************************************)
(* PtyAgentController with the claude driver: an agent that is a terminal  *)
(* program, driven by keystrokes and read off its screen                   *)
(* (src/agents/pty-controller.ts, src/drivers/claude/{control,parser}.ts). *)
(*                                                                         *)
(* A submit is cut at each sleep of ClaudeControl.submit. The program is   *)
(* external: it echoes what is typed, works off the prompts entered one by *)
(* one and paints frames; a frame is reduced to what ClaudeParser matches. *)
(* The text of a message or prompt is the set of submits it comes from;    *)
(* ClaudeParser has the parser itself, and what it does to redraws.        *)
(***************************************************************************)
EXTENDS Naturals, Sequences

CONSTANTS
  Submits,      \* the submit calls the agent ever receives
  Neighbour,    \* text of another agent of the same driver
  Stray,        \* what approve, reject and agents.raw type
  Messages,     \* how many messages one turn may print
  Overlapping,  \* may a submit come before the last one has settled?
  Shared,       \* does another agent of the driver run in the daemon?
  MaxStrays     \* how often stray keys may meet the prompt

ASSUME PtyAssumption ==
  /\ Neighbour \notin Submits /\ Stray \notin Submits
  /\ Messages \in Nat \ {0}
  /\ Overlapping \in BOOLEAN
  /\ Shared \in BOOLEAN
  /\ MaxStrays \in Nat

VARIABLES
  \* the controller and its parser
  status, activity, blocking,   \* fields of _state
  exited,
  scratch,    \* messageBuf, one per driver and not per agent
  crashed,    \* an unhandled rejection has ended the daemon
  \* one submit call each
  pc,
  banner,     \* wasStarting
  listener,   \* its waitForMessage promise, if it asked for a message
  heard,      \* the message that resolved it
  \* the program in the terminal
  proc, signalled,
  line,       \* what stands in its input line
  queue,      \* the prompts entered and not worked off
  phase,      \* of the prompt it works on
  printed,    \* how many messages each prompt has led to
  \* history: what a turn may have been mixed up by
  overlapped, \* a submit came before the last one had settled
  mingled,    \* another agent's screen has changed the scratch
  strays      \* how often stray keys met the prompt

stateVars   == <<status, activity, blocking>>
controlVars == <<stateVars, exited, scratch, crashed>>
callVars    == <<pc, banner, listener, heard>>
screenVars  == <<line, queue, phase, printed>>
historyVars == <<overlapped, mingled, strays>>
vars        == <<controlVars, callVars, proc, signalled, screenVars, historyVars>>

Texts == Submits \cup {Neighbour, Stray}

Pending == {"interrupting", "readying", "settling", "clearing", "typing", "listening"}
Settled == {"answered", "unanswered", "returned", "failed"}

TypeOK ==
  /\ status \in {"starting", "idle", "busy", "blocked", "exited"}
  /\ activity \in BOOLEAN /\ blocking \in BOOLEAN /\ exited \in BOOLEAN
  /\ scratch \subseteq Texts
  /\ crashed \in BOOLEAN
  /\ pc \in [Submits -> {"new"} \cup Pending \cup Settled]
  /\ banner \in [Submits -> BOOLEAN]
  /\ listener \in [Submits -> {"none", "on", "heard", "expired"}]
  /\ heard \in [Submits -> SUBSET Texts]
  /\ proc \in {"running", "exited"}
  /\ signalled \in BOOLEAN
  /\ line \subseteq Texts
  /\ queue \in Seq(SUBSET Texts)
  /\ phase \in {"quiet", "thinking", "asking"}
  /\ printed \in [Submits -> 0 .. Messages]
  /\ overlapped \in BOOLEAN /\ mingled \in BOOLEAN /\ strays \in 0 .. MaxStrays

Init ==
  /\ status = "starting" /\ activity = FALSE /\ blocking = FALSE
  /\ exited = FALSE /\ scratch = {} /\ crashed = FALSE
  /\ pc = [s \in Submits |-> "new"]
  /\ banner = [s \in Submits |-> FALSE]
  /\ listener = [s \in Submits |-> "none"]
  /\ heard = [s \in Submits |-> {}]
  /\ proc = "running" /\ signalled = FALSE
  /\ line = {} /\ queue = <<>> /\ phase = "quiet"
  /\ printed = [s \in Submits |-> 0]
  /\ overlapped = FALSE /\ mingled = FALSE /\ strays = 0

-----------------------------------------------------------------------------
(* Keystrokes: PtyProcess.write is a no-op once the program is gone. While *)
(* the program asks for permission its dialog takes the keys.              *)

ClearLine == line' = IF proc = "running" THEN {} ELSE line

TypeText(text) ==
  line' = IF proc = "running" /\ phase # "asking" THEN line \cup {text} ELSE line

PressEnter(before) ==
  IF proc = "running" /\ phase = "asking"
    THEN /\ phase' = "thinking"
         /\ line' = {} /\ UNCHANGED <<queue, printed>>
    ELSE /\ line' = {}
         /\ queue' = IF proc = "running" /\ before # {} THEN Append(queue, before) ELSE queue
         /\ UNCHANGED <<phase, printed>>

(* Escape closes a dialog; a turn it stops ends with a result as usual.    *)
PressEscape ==
  /\ phase' = IF proc = "running" /\ phase = "asking" THEN "thinking" ELSE phase
  /\ UNCHANGED <<line, queue, printed>>

-----------------------------------------------------------------------------
(* submit                                                                  *)

\* Faulty variant, for the mutation runs: an agent that is not idle is typed
\* at without waiting.
PrepareAtOnce(s) ==
  /\ \E expected \in {"on", "none"} : listener' = [listener EXCEPT ![s] = expected]
  /\ banner' = [banner EXCEPT ![s] = status = "starting"]
  /\ pc' = [pc EXCEPT ![s] = "clearing"] /\ ClearLine

(* What submit and the first lines of control.submit do at once: a caller  *)
(* that expects a message listens, an idle agent's input line is cleared,  *)
(* any other is waited for.                                                *)
Prepare(s) ==
  /\ \E expected \in {"on", "none"} : listener' = [listener EXCEPT ![s] = expected]
  /\ banner' = [banner EXCEPT ![s] = status = "starting"]
  /\ IF status = "idle"
       THEN pc' = [pc EXCEPT ![s] = "clearing"] /\ ClearLine
       ELSE pc' = [pc EXCEPT ![s] = "readying"] /\ UNCHANGED line

Alone == \A s \in Submits : pc[s] \notin Pending

Comes ==
  /\ Overlapping \/ Alone
  /\ overlapped' = (overlapped \/ ~Alone)
  /\ UNCHANGED <<mingled, strays>>

SubmitRefused(s) ==
  /\ ~crashed /\ pc[s] = "new" /\ exited /\ Comes
  /\ pc' = [pc EXCEPT ![s] = "failed"]
  /\ UNCHANGED <<controlVars, banner, listener, heard, proc, signalled, screenVars>>

Submit(s) ==
  /\ ~crashed /\ pc[s] = "new" /\ ~exited /\ Comes
  /\ Prepare(s)
  /\ UNCHANGED <<controlVars, heard, proc, signalled, queue, phase, printed>>

(* interruptIfBusy: Escape, then 150 ms.                                   *)
SubmitInterrupts(s) ==
  /\ ~crashed /\ pc[s] = "new" /\ ~exited /\ status = "busy" /\ Comes
  /\ pc' = [pc EXCEPT ![s] = "interrupting"]
  /\ PressEscape
  /\ UNCHANGED <<controlVars, banner, listener, heard, proc, signalled>>

SubmitAfterInterrupt(s) ==
  /\ ~crashed /\ pc[s] = "interrupting"
  /\ Prepare(s)
  /\ UNCHANGED <<controlVars, heard, proc, signalled, queue, phase, printed,
                 historyVars>>

(* waitForReady gives up: control.submit and submit throw, the listener    *)
(* stays.                                                                  *)
ReadyTimeout(s) ==
  /\ ~crashed /\ pc[s] = "readying"
  /\ pc' = [pc EXCEPT ![s] = "failed"]
  /\ UNCHANGED <<controlVars, banner, listener, heard, proc, signalled, screenVars,
                 historyVars>>

(* 800 ms for the banner, then Ctrl-U.                                     *)
BannerSettled(s) ==
  /\ ~crashed /\ pc[s] = "settling"
  /\ pc' = [pc EXCEPT ![s] = "clearing"]
  /\ ClearLine
  /\ UNCHANGED <<controlVars, banner, listener, heard, proc, signalled, queue, phase, printed,
                 historyVars>>

TypePrompt(s) ==
  /\ ~crashed /\ pc[s] = "clearing"
  /\ pc' = [pc EXCEPT ![s] = "typing"]
  /\ TypeText(s)
  /\ UNCHANGED <<controlVars, banner, listener, heard, proc, signalled, queue, phase, printed,
                 historyVars>>

(* Enter, and submit returns, or goes on to its message, which may be      *)
(* there already.                                                          *)
EnterPrompt(s) ==
  /\ ~crashed /\ pc[s] = "typing"
  /\ pc' = [pc EXCEPT ![s] = CASE listener[s] = "none"  -> "returned"
                               [] listener[s] = "heard" -> "answered"
                               [] OTHER                 -> "listening"]
  /\ PressEnter(line)
  /\ UNCHANGED <<controlVars, banner, listener, heard, proc, signalled,
                 historyVars>>

\* Faulty variant: the timer takes the listener off and settles nothing.
MessageTimeoutSilent(s) ==
  /\ ~crashed /\ listener[s] = "on"
  /\ listener' = [listener EXCEPT ![s] = "expired"]
  /\ crashed' = (pc[s] # "listening")
  /\ UNCHANGED <<stateVars, exited, scratch, pc, banner, heard, proc, signalled, screenVars,
                 historyVars>>

(* The timer of waitForMessage: submit returns without a message, if it    *)
(* has come to await it; before that nobody handles the rejection.         *)
MessageTimeout(s) ==
  /\ ~crashed /\ listener[s] = "on"
  /\ listener' = [listener EXCEPT ![s] = "expired"]
  /\ IF pc[s] = "listening"
       THEN pc' = [pc EXCEPT ![s] = "unanswered"] /\ UNCHANGED crashed
       ELSE crashed' = TRUE /\ UNCHANGED pc
  /\ UNCHANGED <<stateVars, exited, scratch, banner, heard, proc, signalled, screenVars,
                 historyVars>>

-----------------------------------------------------------------------------
(* interrupt, approve or reject, raw, kill                                 *)

Interrupt ==
  /\ ~crashed /\ ~exited
  /\ PressEscape
  /\ UNCHANGED <<controlVars, callVars, proc, signalled, historyVars>>

(* Keys that nothing but a dialog is meant to take: at the prompt they are *)
(* stray.                                                                  *)
MeetPrompt ==
  /\ phase = "asking" \/ strays < MaxStrays
  /\ strays' = IF phase = "asking" THEN strays ELSE strays + 1
  /\ UNCHANGED <<overlapped, mingled>>

(* approve types "y" and Enter when _state.blocking is set, which it stays *)
(* until the next activity or message, whether the dialog is still open or *)
(* not. reject does the same with "n".                                     *)
Approve ==
  /\ ~crashed /\ ~exited /\ blocking
  /\ MeetPrompt
  /\ PressEnter(line \cup {Stray})
  /\ UNCHANGED <<controlVars, callVars, proc, signalled>>

(* agents.raw: any text, or Enter. (Escape is Interrupt.)                  *)
RawWrite ==
  /\ ~crashed /\ ~exited
  /\ MeetPrompt
  /\ \/ TypeText(Stray) /\ UNCHANGED <<queue, phase, printed>>
     \/ PressEnter(line)
  /\ UNCHANGED <<controlVars, callVars, proc, signalled>>

\* Faulty variant: kill does not wait for the exit.
KillAtOnce ==
  /\ ~crashed /\ ~exited
  /\ signalled' = TRUE
  /\ exited' = TRUE /\ status' = "exited"
  /\ UNCHANGED <<activity, blocking, scratch, crashed, callVars, proc, screenVars,
                 historyVars>>

Kill ==
  /\ ~crashed /\ ~exited
  /\ signalled' = TRUE
  /\ UNCHANGED <<controlVars, callVars, proc, screenVars, historyVars>>

-----------------------------------------------------------------------------
(* onPtyData and onPtyExit                                                 *)

(* The status ClaudeParser.feed computes last.                             *)
StatusAfter(frame, active, asks) ==
  CASE active -> "busy"
    [] ~active /\ asks -> "blocked"
    [] ~active /\ ~asks /\ status = "starting" /\ frame = "prompt" -> "idle"
    [] ~active /\ ~asks /\ status = "busy" -> "idle"
    [] OTHER -> status

ParseState(frame) ==
  /\ activity' = CASE frame = "activity" -> TRUE
                   [] frame = "result" -> FALSE
                   [] OTHER -> activity
  /\ blocking' = CASE frame = "block" -> TRUE
                   [] frame \in {"activity", "message"} -> FALSE
                   [] OTHER -> blocking
  /\ status' = StatusAfter(frame, activity', blocking')

(* parseMessage: a new message pushes the last one out, a marker without a *)
(* text leaves it, the mode line and the glyphs of activity and result end *)
(* it.                                                                     *)
\* Faulty variant: the buffer is not emptied, so a redraw repeats it.
ParseMessageKeeps(frame, text) ==
  CASE frame = "message" /\ text # {} -> [scratch |-> text, message |-> scratch]
    [] frame \in {"activity", "result", "mode"} -> [scratch |-> scratch, message |-> scratch]
    [] OTHER -> [scratch |-> scratch, message |-> {}]
ParseMessage(frame, text) ==
  CASE frame = "message" /\ text # {} -> [scratch |-> text, message |-> scratch]
    [] frame \in {"activity", "result", "mode"} -> [scratch |-> {}, message |-> scratch]
    [] OTHER -> [scratch |-> scratch, message |-> {}]

(* An answer that reads like the last message published is taken for a     *)
(* redraw of it and dropped. Any two messages may read alike.              *)
Deduplicated(message) ==
  {message} \cup IF \/ Shared
                    \/ \E s \in Submits :
                         printed[s] > 1 \/ \E t \in Submits \ {s} : printed[s] * printed[t] > 0
                  THEN {{}} ELSE {}

Hears(s, message) == message # {} /\ listener[s] = "on"

(* publishState wakes the submits that wait for idle, then every listener  *)
(* hears the message.                                                      *)
Publish(message) ==
  LET woken == {s \in Submits : status' = "idle" /\ pc[s] = "readying"}
  IN  /\ pc' = [s \in Submits |->
                  CASE s \in woken -> IF banner[s] THEN "settling" ELSE "clearing"
                    [] pc[s] = "listening" /\ Hears(s, message) -> "answered"
                    [] OTHER -> pc[s]]
      /\ listener' = [s \in Submits |-> IF Hears(s, message) THEN "heard" ELSE listener[s]]
      /\ heard' = [s \in Submits |-> IF Hears(s, message) THEN message ELSE heard[s]]
      /\ line' = IF \E s \in woken : ~banner[s] THEN {} ELSE line

(* What the program may paint, and what that does to it.                   *)
Paints(frame) ==
  \/ /\ frame = "prompt" /\ queue = <<>>
     /\ UNCHANGED <<queue, phase, printed>>
  \/ /\ frame = "mode" /\ UNCHANGED <<queue, phase, printed>>
  \/ /\ frame = "activity" /\ queue # <<>> /\ phase # "asking"
     /\ phase' = "thinking" /\ UNCHANGED <<queue, printed>>
  \/ /\ frame = "message" /\ phase = "thinking"
     /\ \A s \in Submits \cap Head(queue) : printed[s] < Messages
     /\ printed' = [s \in Submits |-> IF s \in Head(queue) THEN printed[s] + 1 ELSE printed[s]]
     /\ UNCHANGED <<queue, phase>>
  \/ /\ frame = "block" /\ phase = "thinking"
     /\ phase' = "asking" /\ UNCHANGED <<queue, printed>>
  \/ /\ frame = "result" /\ phase = "thinking"
     /\ queue' = Tail(queue) /\ phase' = "quiet" /\ UNCHANGED printed

(* The text of a message on the screen. If its chunk began with a status   *)
(* glyph or a line end, the parser cuts everything behind that off.        *)
Shown == {{}} \cup IF queue = <<>> THEN {} ELSE {Head(queue)}

PtyData(frame) ==
  /\ ~crashed /\ proc = "running"
  /\ Paints(frame)
  /\ ParseState(frame)
  /\ \E text \in Shown :
       LET r == ParseMessage(frame, text)
       IN  /\ scratch' = r.scratch
           /\ \E message \in Deduplicated(r.message) : Publish(message)
  /\ UNCHANGED <<exited, crashed, banner, proc, signalled, historyVars>>

(* The same parser instance reads another agent's screen.                  *)
NeighbourData(frame) ==
  /\ ~crashed /\ Shared
  /\ scratch' = ParseMessage(frame, {Neighbour}).scratch
  /\ mingled' = (mingled \/ scratch' # scratch)
  /\ UNCHANGED <<stateVars, exited, crashed, callVars, proc, signalled, screenVars,
                 overlapped, strays>>

PtyExit ==
  /\ ~crashed /\ proc = "running"
  /\ proc' = "exited"
  /\ exited' = TRUE /\ status' = "exited"
  /\ UNCHANGED <<activity, blocking, scratch, crashed, callVars, signalled, screenVars,
                 historyVars>>

-----------------------------------------------------------------------------
Frames == {"prompt", "mode", "activity", "message", "block", "result"}

Timers(s) ==
  \/ SubmitAfterInterrupt(s) \/ ReadyTimeout(s) \/ BannerSettled(s)
  \/ TypePrompt(s) \/ EnterPrompt(s) \/ MessageTimeout(s)

Next ==
  \/ \E s \in Submits : SubmitRefused(s) \/ Submit(s) \/ SubmitInterrupts(s) \/ Timers(s)
  \/ Interrupt \/ Approve \/ RawWrite \/ Kill
  \/ \E frame \in Frames : PtyData(frame)
  \/ \E frame \in {"message", "mode"} : NeighbourData(frame)
  \/ PtyExit

Spec == Init /\ [][Next]_vars

(* Timers fire; the program and the callers may do nothing.                *)
Fairness == \A s \in Submits : WF_vars(Timers(s))

FairSpec == Spec /\ Fairness

-----------------------------------------------------------------------------
(* Properties                                                              *)

(* No submit is handed the answer of another one's prompt, unless before   *)
(* something had come between a turn and its submit: another submit gave   *)
(* up or never waited, its turn printed more than one message, two submits *)
(* were under way together, stray keys met the prompt, or another agent's  *)
(* screen went through the parser.                                         *)
ForeignAnswerIsLate ==
  \A s \in Submits : pc[s] = "answered" /\ heard[s] # {s} =>
    \/ overlapped \/ mingled \/ strays > 0
    \/ \E t \in Submits \ {s} : pc[t] \in {"unanswered", "returned"} \/ printed[t] > 1

(* The keystrokes of a submit never answer a permission dialog, unless     *)
(* two submits were under way together, stray keys met the prompt, or an   *)
(* earlier submit returned without the answer of its own turn, which may   *)
(* then still run. Another agent's screen alone cannot make it.            *)
NoBlindAnswer ==
  [][\A s \in Submits :
       pc[s] = "typing" /\ pc'[s] # "typing" /\ phase = "asking" =>
         \/ overlapped \/ strays > 0
         \/ \E t \in Submits : pc[t] \in {"answered", "unanswered", "returned"}
                              /\ heard[t] # {t}]_vars

(* Exited is terminal: nothing the program had still painted revives it.   *)
ExitedIsTerminal == exited => status = "exited"

(* A submit that was accepted settles, unless the daemon dies.             *)
SubmitSettles ==
  \A s \in Submits : pc[s] \in Pending ~> pc[s] \in Settled \/ crashed
=============================================================================
