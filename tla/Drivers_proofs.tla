--------------------------- MODULE Drivers_proofs ---------------------------
(***************************************************************************)
(* Proofs about the drivers: the runtime that drives a screen, and the     *)
(* drivers' pure parts.                                                    *)
(*                                                                         *)
(* The pty runtime, for any number of submits, approvals and other agents, *)
(* with any timeouts.  The claude parser, for screens of any length whose  *)
(* texts are any sequences: the parser fed frame after frame, from its     *)
(* initial state, with the messages it has published and the texts that    *)
(* were painted.  The grade of a version, for all versions and ranges.     *)
(***************************************************************************)
EXTENDS PtyController, Semver, TLAPS

-----------------------------------------------------------------------------
(* The pty runtime                                                         *)

(* The program works on a prompt, if on any.                               *)
Working == phase # "quiet" => queue # <<>>

(* What a frame of the screen does to the parser and to the program.       *)
LEMMA DataStep ==
  ASSUME TypeOK, NEW frame \in Frames, PtyData(frame)
  PROVE  /\ \E message \in {{}, scratch} :
              /\ Publish(message)
              /\ message = {} \/ frame = "message" \/ scratch' = {}
         /\ frame = "result" => scratch' = {}
         /\ scratch' \in {{}, scratch} \/ (frame = "message" /\ scratch' =
              IF queue = <<>> THEN {} ELSE Head(queue))
         /\ scratch' \in SUBSET Texts
         /\ activity' \in BOOLEAN /\ blocking' \in BOOLEAN
         /\ status' = StatusAfter(frame, activity', blocking')
         /\ Paints(frame)
         /\ ~crashed /\ proc = "running"
         /\ UNCHANGED <<exited, crashed, banner, proc, signalled, historyVars>>
<1>1. /\ ParseState(frame) /\ Paints(frame) /\ ~crashed /\ proc = "running"
      /\ UNCHANGED <<exited, crashed, banner, proc, signalled, historyVars>>
  BY DEF PtyData
<1>2. PICK text \in Shown :
        LET r == ParseMessage(frame, text)
        IN  scratch' = r.scratch /\ \E message \in Deduplicated(r.message) : Publish(message)
  BY DEF PtyData
<1> DEFINE r == ParseMessage(frame, text)
<1>3. /\ text \in SUBSET Texts
      /\ text = {} \/ text = IF queue = <<>> THEN {} ELSE Head(queue)
  BY DEF TypeOK, Shown
<1>4. /\ r.scratch \in {{}, scratch} \/ (frame = "message" /\ r.scratch = text)
      /\ r.message \in {{}, scratch}
      /\ r.message = {} \/ frame = "message" \/ r.scratch = {}
      /\ frame = "result" => r.scratch = {}
  BY DEF ParseMessage, Frames
<1> HIDE DEF r
<1>5. \E message \in {{}, scratch} :
        /\ Publish(message)
        /\ message = {} \/ frame = "message" \/ scratch' = {}
  BY <1>2, <1>4 DEF Deduplicated, r
<1>6. activity' \in BOOLEAN /\ blocking' \in BOOLEAN
  BY <1>1 DEF ParseState, TypeOK
<1>7. scratch' = r.scratch
  BY <1>2 DEF r
<1> QED BY <1>1, <1>3, <1>4, <1>5, <1>6, <1>7 DEF ParseState, TypeOK

LEMMA Counted == ASSUME TypeOK, NEW s \in Submits PROVE printed[s] \in Nat
<1>1. printed[s] \in 0 .. Messages
  BY DEF TypeOK
<1> QED BY <1>1, PtyAssumption

LEMMA PaintsTyped ==
  ASSUME TypeOK, Working, NEW frame \in Frames, Paints(frame)
  PROVE  /\ queue' \in Seq(SUBSET Texts) /\ Working'
         /\ phase' \in {"quiet", "thinking", "asking"}
         /\ printed' \in [Submits -> 0 .. Messages]
<1>1. CASE frame = "message"
  <2>1. /\ \A s \in Submits \cap Head(queue) : printed[s] < Messages
        /\ printed' = [s \in Submits |-> IF s \in Head(queue) THEN printed[s] + 1
                                         ELSE printed[s]]
        /\ UNCHANGED <<queue, phase>>
    BY <1>1 DEF Paints
  <2>2. \A s \in Submits : printed[s] \in 0 .. Messages /\ Messages \in Nat
    BY PtyAssumption DEF TypeOK
  <2>3. \A s \in Submits :
          (IF s \in Head(queue) THEN printed[s] + 1 ELSE printed[s]) \in 0 .. Messages
    BY <2>1, <2>2
  <2> QED BY <2>1, <2>3 DEF TypeOK, Working
<1>2. CASE frame = "result"
  <2>1. queue # <<>> /\ queue' = Tail(queue) /\ phase' = "quiet" /\ printed' = printed
    BY <1>2 DEF Paints, Working
  <2>2. Tail(queue) \in Seq(SUBSET Texts)
    BY <2>1 DEF TypeOK
  <2> QED BY <2>1, <2>2 DEF TypeOK, Working
<1>3. CASE frame \notin {"message", "result"}
  BY <1>3 DEF Paints, Frames, TypeOK, Working
<1> QED BY <1>1, <1>2, <1>3

LEMMA PublishTyped ==
  ASSUME TypeOK, NEW message \in SUBSET Texts, Publish(message)
  PROVE  /\ pc' \in [Submits -> {"new"} \cup Pending \cup Settled]
         /\ listener' \in [Submits -> {"none", "on", "heard", "expired"}]
         /\ heard' \in [Submits -> SUBSET Texts]
         /\ line' \in {{}, line}
<1>1. \A s \in Submits :
        /\ pc'[s] \in {pc[s], "settling", "clearing", "answered"}
        /\ listener'[s] \in {listener[s], "heard"}
        /\ heard'[s] \in {heard[s], message}
  BY DEF Publish, TypeOK
<1>2. \A s \in Submits : /\ pc'[s] \in {"new"} \cup Pending \cup Settled
                         /\ listener'[s] \in {"none", "on", "heard", "expired"}
                         /\ heard'[s] \in SUBSET Texts
  BY <1>1 DEF TypeOK, Pending, Settled
<1> QED BY <1>2 DEF Publish

LEMMA DataTyped ==
  ASSUME TypeOK, Working, NEW frame \in Frames, PtyData(frame)
  PROVE  TypeOK' /\ Working'
<1>1. /\ scratch' \in SUBSET Texts /\ activity' \in BOOLEAN /\ blocking' \in BOOLEAN
      /\ UNCHANGED <<exited, crashed, banner, proc, signalled>>
      /\ UNCHANGED <<overlapped, mingled, strays>>
      /\ Paints(frame)
  BY DataStep DEF historyVars
<1>2. PICK message \in {{}, scratch} : Publish(message)
  BY DataStep
<1>3. message \in SUBSET Texts
  BY <1>2 DEF TypeOK
<1>4. status' \in {"starting", "idle", "busy", "blocked", "exited"}
  BY DataStep DEF StatusAfter, TypeOK
<1>5. line' \subseteq Texts
  BY <1>2, <1>3, PublishTyped DEF TypeOK
<1> QED BY <1>1, <1>2, <1>3, <1>4, <1>5, PaintsTyped, PublishTyped DEF TypeOK

(* The calls' own steps: what the keys they press may do.                  *)
LEMMA EnterTyped ==
  ASSUME TypeOK, Working, NEW before \in SUBSET Texts, PressEnter(before)
  PROVE  /\ line' = {} /\ queue' \in Seq(SUBSET Texts) /\ Working'
         /\ phase' \in {"quiet", "thinking", "asking"}
         /\ printed' = printed
<1>1. Append(queue, before) \in Seq(SUBSET Texts)
  BY DEF TypeOK
<1>2. Append(queue, before) # <<>>
  <2>1. queue \in Seq(SUBSET Texts)
    BY DEF TypeOK
  <2>2. Len(Append(queue, before)) = Len(queue) + 1 /\ Len(queue) \in Nat
    BY <2>1
  <2>3. Len(<<>>) = 0
    OBVIOUS
  <2> QED BY <2>2, <2>3
<1>3. /\ line' = {} /\ printed' = printed /\ queue' \in {queue, Append(queue, before)}
      /\ phase' = phase \/ (phase' = "thinking" /\ phase = "asking")
  BY DEF PressEnter
<1> QED BY <1>1, <1>2, <1>3 DEF TypeOK, Working

LEMMA PreparedTyped ==
  ASSUME TypeOK, NEW s \in Submits, Prepare(s)
  PROVE  /\ pc' \in [Submits -> {"new"} \cup Pending \cup Settled]
         /\ banner' \in [Submits -> BOOLEAN]
         /\ listener' \in [Submits -> {"none", "on", "heard", "expired"}]
         /\ line' \in {{}, line}
<1>1. PICK expected \in {"on", "none"} : listener' = [listener EXCEPT ![s] = expected]
  BY DEF Prepare
<1>2. listener' \in [Submits -> {"none", "on", "heard", "expired"}]
  BY <1>1 DEF TypeOK
<1>3. banner' \in [Submits -> BOOLEAN]
  BY DEF Prepare, TypeOK
<1>4. pc' \in [Submits -> {"new"} \cup Pending \cup Settled] /\ line' \in {{}, line}
  BY DEF Prepare, ClearLine, TypeOK, Pending
<1> QED BY <1>2, <1>3, <1>4

LEMMA CallTyped ==
  ASSUME TypeOK, Working, NEW s \in Submits,
         SubmitRefused(s) \/ Submit(s) \/ SubmitInterrupts(s) \/ Timers(s)
  PROVE  TypeOK' /\ Working'
<1> USE DEF stateVars, controlVars, callVars, screenVars, historyVars
<1>1. CASE SubmitRefused(s)
  BY <1>1 DEF SubmitRefused, Comes, Alone, TypeOK, Working, Settled
<1>2. CASE Submit(s)
  BY <1>2, PreparedTyped DEF Submit, Comes, TypeOK, Working
<1>3. CASE SubmitInterrupts(s)
  BY <1>3 DEF SubmitInterrupts, PressEscape, Comes, TypeOK, Working, Pending
<1>4. CASE SubmitAfterInterrupt(s)
  BY <1>4, PreparedTyped DEF SubmitAfterInterrupt, TypeOK, Working
<1>5. CASE ReadyTimeout(s)
  BY <1>5 DEF ReadyTimeout, TypeOK, Working, Settled
<1>6. CASE BannerSettled(s)
  BY <1>6 DEF BannerSettled, ClearLine, TypeOK, Working, Pending
<1>7. CASE TypePrompt(s)
  BY <1>7 DEF TypePrompt, TypeText, TypeOK, Working, Pending, Texts
<1>8. CASE EnterPrompt(s)
  <2>1. line \in SUBSET Texts /\ PressEnter(line)
    BY <1>8 DEF EnterPrompt, TypeOK, Working
  <2> QED BY <1>8, <2>1, EnterTyped DEF EnterPrompt, TypeOK, Working, Pending, Settled
<1>9. CASE MessageTimeout(s)
  BY <1>9 DEF MessageTimeout, TypeOK, Working, Settled
<1> QED BY <1>1, <1>2, <1>3, <1>4, <1>5, <1>6, <1>7, <1>8, <1>9 DEF Timers

LEMMA StraysTyped ==
  ASSUME TypeOK, MeetPrompt
  PROVE  strays' \in 0 .. MaxStrays
BY PtyAssumption DEF TypeOK, MeetPrompt

LEMMA TypeKept == TypeOK /\ Working /\ [Next]_vars => TypeOK' /\ Working'
<1> SUFFICES ASSUME TypeOK, Working, [Next]_vars PROVE TypeOK' /\ Working'
  OBVIOUS
<1> USE DEF stateVars, controlVars, callVars, screenVars, historyVars
<1>1. CASE UNCHANGED vars
  BY <1>1 DEF vars, TypeOK, Working
<1>2. ASSUME NEW s \in Submits,
             SubmitRefused(s) \/ Submit(s) \/ SubmitInterrupts(s) \/ Timers(s)
      PROVE  TypeOK' /\ Working'
  BY <1>2, CallTyped
<1>3. CASE Interrupt
  BY <1>3 DEF Interrupt, PressEscape, TypeOK, Working
<1>4. CASE Approve
  <2>1. (line \cup {Stray}) \in SUBSET Texts /\ PressEnter(line \cup {Stray})
    BY <1>4 DEF Approve, TypeOK, Texts
  <2>2. strays' \in 0 .. MaxStrays
    BY <1>4, StraysTyped DEF Approve
  <2> QED BY <1>4, <2>1, <2>2, EnterTyped DEF Approve, MeetPrompt, TypeOK, Working
<1>9. CASE RawWrite
  <2>1. strays' \in 0 .. MaxStrays
    BY <1>9, StraysTyped DEF RawWrite
  <2>2. CASE TypeText(Stray) /\ UNCHANGED <<queue, phase, printed>>
    BY <1>9, <2>1, <2>2 DEF RawWrite, TypeText, MeetPrompt, TypeOK, Texts, Working
  <2>3. CASE PressEnter(line)
    <3>1. line \in SUBSET Texts
      BY DEF TypeOK
    <3> QED BY <1>9, <2>1, <2>3, <3>1, EnterTyped DEF RawWrite, MeetPrompt, TypeOK, Working
  <2> QED BY <1>9, <2>2, <2>3 DEF RawWrite
<1>5. CASE Kill
  BY <1>5 DEF Kill, TypeOK, Working
<1>6. ASSUME NEW frame \in Frames, PtyData(frame) PROVE TypeOK' /\ Working'
  BY <1>6, DataTyped
<1>7. ASSUME NEW frame \in {"message", "mode"}, NeighbourData(frame) PROVE TypeOK' /\ Working'
  <2>1. ParseMessage(frame, {Neighbour}).scratch \in SUBSET Texts
    BY DEF ParseMessage, TypeOK, Texts
  <2> QED BY <1>7, <2>1 DEF NeighbourData, TypeOK, Working
<1>8. CASE PtyExit
  BY <1>8 DEF PtyExit, TypeOK, Working
<1> QED BY <1>1, <1>2, <1>3, <1>4, <1>5, <1>6, <1>7, <1>8, <1>9 DEF Next

LEMMA InitTyped == Init => TypeOK /\ Working
<1> SUFFICES ASSUME Init PROVE TypeOK /\ Working
  OBVIOUS
<1>1. [s \in Submits |-> 0] \in [Submits -> 0 .. Messages]
  BY PtyAssumption
<1>2. <<>> \in Seq(SUBSET Texts)
  OBVIOUS
<1>3. 0 \in 0 .. MaxStrays
  BY PtyAssumption
<1> QED BY <1>1, <1>2, <1>3 DEF Init, TypeOK, Working

LEMMA PtyTyped == Spec => [](TypeOK /\ Working)
BY InitTyped, TypeKept, PTL DEF Spec

(* Type correctness: the agent's status, its parser and every call of the  *)
(* pty runtime keep to their ranges, with any number of submits, approvals *)
(* and other agents, and the program works only on a prompt it was given.  *)
THEOREM PtyTypeCorrect == Spec => []TypeOK
BY PtyTyped, PTL

(* The screen says no more once the program has ended.                     *)
Ended ==
  /\ exited <=> proc = "exited"
  /\ exited => status = "exited"

LEMMA EndedKept == Ended /\ [Next]_vars => Ended'
<1> SUFFICES ASSUME Ended, [Next]_vars PROVE Ended'
  OBVIOUS
<1> USE DEF stateVars, controlVars, callVars, screenVars, historyVars, Ended
<1>1. CASE UNCHANGED vars
  BY <1>1 DEF vars
<1>2. ASSUME NEW s \in Submits,
             SubmitRefused(s) \/ Submit(s) \/ SubmitInterrupts(s) \/ Timers(s)
      PROVE  UNCHANGED <<exited, proc, status>>
  BY <1>2 DEF SubmitRefused, Submit, SubmitInterrupts, Timers, SubmitAfterInterrupt,
     ReadyTimeout, BannerSettled, TypePrompt, EnterPrompt, MessageTimeout
<1>3. CASE Interrupt \/ Approve \/ RawWrite \/ Kill
  BY <1>3 DEF Interrupt, Approve, RawWrite, Kill
<1>4. ASSUME NEW frame \in Frames, PtyData(frame) PROVE Ended'
  BY <1>4 DEF PtyData
<1>5. ASSUME NEW frame \in {"message", "mode"}, NeighbourData(frame) PROVE Ended'
  BY <1>5 DEF NeighbourData
<1>6. CASE PtyExit
  BY <1>6 DEF PtyExit
<1> QED BY <1>1, <1>2, <1>3, <1>4, <1>5, <1>6 DEF Next

(* Once the program has exited no frame, approve or timer gives the agent  *)
(* another status, and it is exited only if the program is.                *)
THEOREM PtyExitedIsTerminal == Spec => []ExitedIsTerminal
<1>1. Init => Ended
  BY DEF Init, Ended
<1>2. Ended => ExitedIsTerminal
  BY DEF Ended, ExitedIsTerminal
<1> QED BY <1>1, <1>2, EndedKept, PTL DEF Spec

(* One call after the other                                                *)

Early == {"settling", "clearing", "typing"}
Sent  == {"listening", "answered", "unanswered", "returned"}

(* So far the submits came one after the other, and no key met the prompt  *)
(* that was not a submit's.                                                *)
Calm == ~overlapped /\ strays = 0

LEMMA CalmBefore == TypeOK /\ [Next]_vars /\ Calm' => Calm
<1> SUFFICES ASSUME TypeOK, [Next]_vars, Calm' PROVE Calm
  OBVIOUS
<1> USE DEF stateVars, controlVars, callVars, screenVars, historyVars
<1>1. CASE \E s \in Submits : SubmitRefused(s) \/ Submit(s) \/ SubmitInterrupts(s)
  BY <1>1 DEF SubmitRefused, Submit, SubmitInterrupts, Comes, Calm
<1>2. CASE Approve \/ RawWrite
  <2>1. strays \in Nat /\ MeetPrompt
    BY <1>2, PtyAssumption DEF TypeOK, Approve, RawWrite
  <2> QED BY <2>1 DEF MeetPrompt, Calm
<1>3. CASE UNCHANGED <<overlapped, strays>>
  BY <1>3 DEF Calm
<1>4. \A s \in Submits : Timers(s) => UNCHANGED <<overlapped, strays>>
  BY DEF Timers, SubmitAfterInterrupt, ReadyTimeout, BannerSettled, TypePrompt,
     EnterPrompt, MessageTimeout
<1>5. UNCHANGED vars \/ Interrupt \/ Kill \/ PtyExit => UNCHANGED <<overlapped, strays>>
  BY DEF vars, Interrupt, Kill, PtyExit
<1>6. \A frame \in Frames : PtyData(frame) => UNCHANGED <<overlapped, strays>>
  BY DEF PtyData
<1>7. \A frame : NeighbourData(frame) => UNCHANGED <<overlapped, strays>>
  BY DEF NeighbourData
<1> QED BY <1>1, <1>2, <1>3, <1>4, <1>5, <1>6, <1>7 DEF Next

LEMMA CalmKeys ==
  ASSUME TypeOK, Calm', Approve \/ RawWrite
  PROVE  /\ phase = "asking" /\ phase' \in {"asking", "thinking"}
         /\ line' \in {{}, line} /\ queue' = queue /\ printed' = printed
         /\ UNCHANGED <<controlVars, callVars, proc, signalled, overlapped, mingled>>
<1>1. strays \in Nat /\ MeetPrompt
  BY PtyAssumption DEF TypeOK, Approve, RawWrite
<1>2. phase = "asking"
  BY <1>1 DEF MeetPrompt, Calm
<1>3. CASE Approve
  BY <1>2, <1>3 DEF Approve, PressEnter, MeetPrompt
<1>4. CASE RawWrite
  BY <1>2, <1>4 DEF RawWrite, PressEnter, TypeText, MeetPrompt
<1> QED BY <1>2, <1>3, <1>4

Solo == \A s, u \in Submits : pc[s] \in Pending /\ pc[u] \in Pending => s = u

(* The listener of a submit, and what it has heard.                        *)
Listens(s) ==
  /\ pc[s] \in {"new", "interrupting"} => listener[s] = "none"
  /\ pc[s] \in Early \cup {"readying"} /\ ~crashed => listener[s] # "expired"
  /\ pc[s] = "returned" => listener[s] = "none"
  /\ pc[s] = "listening" => listener[s] = "on"
  /\ pc[s] = "answered" => listener[s] = "heard"
  /\ pc[s] = "unanswered" => listener[s] = "expired"
  /\ listener[s] # "heard" => heard[s] = {}

(* Only what was sent is worked on, and only what was printed is heard.    *)
Appears(s) ==
  /\ printed[s] > 0 => pc[s] \in Sent
  /\ \A k \in 1..Len(queue) : s \in queue[k] => pc[s] \in Sent
  /\ s \in scratch => printed[s] > 0
  /\ \A u \in Submits : s \in heard[u] => printed[s] > 0

LineIsOwn == line # {} => \E s \in Submits : line = {s} /\ pc[s] = "typing"

Active == phase # "quiet" => activity /\ status \in {"busy", "exited"}

Base ==
  /\ TypeOK /\ Working /\ Solo /\ LineIsOwn /\ Active
  /\ \A s \in Submits : Listens(s) /\ Appears(s)

LEMMA Entered ==
  ASSUME Base, NEW s \in Submits, EnterPrompt(s)
  PROVE  /\ line' = {} /\ printed' = printed
         /\ \/ queue' = queue
            \/ queue' = Append(queue, {s}) /\ phase' = phase
         /\ phase' = phase \/ (phase = "asking" /\ phase' = "thinking")
         /\ pc[s] = "typing"
         /\ pc' = [pc EXCEPT ![s] = CASE listener[s] = "none"  -> "returned"
                                      [] listener[s] = "heard" -> "answered"
                                      [] OTHER                 -> "listening"]
         /\ UNCHANGED <<controlVars, banner, listener, heard, proc, signalled, historyVars>>
<1>1. line # {} => line = {s}
  BY DEF EnterPrompt, Base, LineIsOwn, Solo, Pending
<1> QED BY <1>1 DEF EnterPrompt, PressEnter

LEMMA CallKeepsBase ==
  ASSUME Base, ~overlapped', NEW s \in Submits,
         SubmitRefused(s) \/ Submit(s) \/ SubmitInterrupts(s) \/ Timers(s)
  PROVE  Base'
<1> USE DEF stateVars, controlVars, callVars, screenVars, historyVars
<1>a. TypeOK' /\ Working'
  BY CallTyped DEF Base
<1>b. /\ TypeOK /\ Solo /\ LineIsOwn /\ Active
      /\ \A u \in Submits : Listens(u) /\ Appears(u)
  BY DEF Base
<1>1. CASE SubmitRefused(s)
  <2>1. Solo' /\ LineIsOwn' /\ Active'
    BY <1>1, <1>b DEF SubmitRefused,
       Comes, Alone, TypeOK, Solo, LineIsOwn, Active, Pending, Settled
  <2>2. ASSUME NEW u \in Submits PROVE Listens(u)'
    BY <1>1, <1>b DEF SubmitRefused, TypeOK, Listens, Early
  <2>3. ASSUME NEW u \in Submits PROVE Appears(u)'
    BY <1>1, <1>b DEF SubmitRefused, TypeOK, Appears, Sent
  <2> QED BY <1>a, <2>1, <2>2, <2>3 DEF Base
<1>2. CASE Submit(s)
  <2>1. Solo' /\ LineIsOwn' /\ Active'
    BY <1>2, <1>b DEF Submit, Prepare, ClearLine,
       Comes, Alone, TypeOK, Solo, LineIsOwn, Active, Pending, Settled
  <2>2. ASSUME NEW u \in Submits PROVE Listens(u)'
    BY <1>2, <1>b DEF Submit, Prepare, ClearLine, TypeOK, Listens, Early
  <2>3. ASSUME NEW u \in Submits PROVE Appears(u)'
    BY <1>2, <1>b DEF Submit, Prepare, ClearLine, TypeOK, Appears, Sent
  <2> QED BY <1>a, <2>1, <2>2, <2>3 DEF Base
<1>3. CASE SubmitInterrupts(s)
  <2>1. Solo' /\ LineIsOwn' /\ Active'
    BY <1>3, <1>b DEF SubmitInterrupts, PressEscape,
       Comes, Alone, TypeOK, Solo, LineIsOwn, Active, Pending, Settled
  <2>2. ASSUME NEW u \in Submits PROVE Listens(u)'
    BY <1>3, <1>b DEF SubmitInterrupts, PressEscape, TypeOK, Listens, Early
  <2>3. ASSUME NEW u \in Submits PROVE Appears(u)'
    BY <1>3, <1>b DEF SubmitInterrupts, PressEscape, TypeOK, Appears, Sent
  <2> QED BY <1>a, <2>1, <2>2, <2>3 DEF Base
<1>4. CASE SubmitAfterInterrupt(s)
  <2>1. Solo' /\ LineIsOwn' /\ Active'
    BY <1>4, <1>b DEF SubmitAfterInterrupt, Prepare, ClearLine,
       Comes, Alone, TypeOK, Solo, LineIsOwn, Active, Pending, Settled
  <2>2. ASSUME NEW u \in Submits PROVE Listens(u)'
    BY <1>4, <1>b DEF SubmitAfterInterrupt, Prepare, ClearLine, TypeOK, Listens, Early
  <2>3. ASSUME NEW u \in Submits PROVE Appears(u)'
    BY <1>4, <1>b DEF SubmitAfterInterrupt, Prepare, ClearLine, TypeOK, Appears, Sent
  <2> QED BY <1>a, <2>1, <2>2, <2>3 DEF Base
<1>5. CASE ReadyTimeout(s)
  <2>1. Solo' /\ LineIsOwn' /\ Active'
    BY <1>5, <1>b DEF ReadyTimeout,
       Comes, Alone, TypeOK, Solo, LineIsOwn, Active, Pending, Settled
  <2>2. ASSUME NEW u \in Submits PROVE Listens(u)'
    BY <1>5, <1>b DEF ReadyTimeout, TypeOK, Listens, Early
  <2>3. ASSUME NEW u \in Submits PROVE Appears(u)'
    BY <1>5, <1>b DEF ReadyTimeout, TypeOK, Appears, Sent
  <2> QED BY <1>a, <2>1, <2>2, <2>3 DEF Base
<1>6. CASE BannerSettled(s)
  <2>1. Solo' /\ LineIsOwn' /\ Active'
    BY <1>6, <1>b DEF BannerSettled, ClearLine,
       Comes, Alone, TypeOK, Solo, LineIsOwn, Active, Pending, Settled
  <2>2. ASSUME NEW u \in Submits PROVE Listens(u)'
    BY <1>6, <1>b DEF BannerSettled, ClearLine, TypeOK, Listens, Early
  <2>3. ASSUME NEW u \in Submits PROVE Appears(u)'
    BY <1>6, <1>b DEF BannerSettled, ClearLine, TypeOK, Appears, Sent
  <2> QED BY <1>a, <2>1, <2>2, <2>3 DEF Base
<1>7. CASE TypePrompt(s)
  <2>1. Solo' /\ LineIsOwn' /\ Active'
    BY <1>7, <1>b DEF TypePrompt, TypeText,
       Comes, Alone, TypeOK, Solo, LineIsOwn, Active, Pending, Settled
  <2>2. ASSUME NEW u \in Submits PROVE Listens(u)'
    BY <1>7, <1>b DEF TypePrompt, TypeText, TypeOK, Listens, Early
  <2>3. ASSUME NEW u \in Submits PROVE Appears(u)'
    BY <1>7, <1>b DEF TypePrompt, TypeText, TypeOK, Appears, Sent
  <2> QED BY <1>a, <2>1, <2>2, <2>3 DEF Base
<1>8. CASE EnterPrompt(s)
  <2>1. Solo' /\ LineIsOwn' /\ Active'
    BY <1>8, <1>b, Entered DEF TypeOK, Solo, LineIsOwn, Active, Pending
  <2>2. ASSUME NEW u \in Submits PROVE Listens(u)'
    BY <1>8, <1>b, Entered DEF TypeOK, Listens, EnterPrompt, Early
  <2>3. ASSUME NEW u \in Submits PROVE Appears(u)'
    <3>1. \A k \in 1..Len(queue') :
            \/ k \in 1..Len(queue) /\ queue'[k] = queue[k]
            \/ queue'[k] = {s}
      <4>1. queue \in Seq(SUBSET Texts) /\ {s} \in SUBSET Texts
        BY <1>b DEF TypeOK, Texts
      <4>2. queue' = queue \/ queue' = Append(queue, {s})
        BY <1>8, <1>b, Entered
      <4>3. CASE queue' = queue
        BY <4>3
      <4>4. CASE queue' = Append(queue, {s})
        BY <4>1, <4>4
      <4> QED BY <4>2, <4>3, <4>4
    <3>2. pc'[s] \in Sent /\ (pc[u] \in Sent => pc'[u] \in Sent)
      BY <1>8, <1>b, Entered DEF TypeOK, Sent
    <3>3. UNCHANGED <<printed, scratch, heard>>
      BY <1>8, Entered
    <3>4. \A k \in 1..Len(queue') : u \in queue'[k] => pc'[u] \in Sent
      BY <1>b, <3>1, <3>2 DEF Appears
    <3> QED BY <1>b, <3>2, <3>3, <3>4 DEF Appears
  <2> QED BY <1>a, <2>1, <2>2, <2>3 DEF Base
<1>9. CASE MessageTimeout(s)
  <2>1. Solo' /\ LineIsOwn' /\ Active'
    BY <1>9, <1>b DEF MessageTimeout,
       Comes, Alone, TypeOK, Solo, LineIsOwn, Active, Pending, Settled
  <2>2. ASSUME NEW u \in Submits PROVE Listens(u)'
    BY <1>9, <1>b DEF MessageTimeout, TypeOK, Listens, Early
  <2>3. ASSUME NEW u \in Submits PROVE Appears(u)'
    BY <1>9, <1>b DEF MessageTimeout, TypeOK, Appears, Sent
  <2> QED BY <1>a, <2>1, <2>2, <2>3 DEF Base
<1> QED BY <1>1, <1>2, <1>3, <1>4, <1>5, <1>6, <1>7, <1>8, <1>9 DEF Timers

(* What a published message does to a call.                                *)
LEMMA HeardBy ==
  ASSUME TypeOK, NEW message, Publish(message), NEW u \in Submits
  PROVE  /\ \/ listener'[u] = listener[u] /\ heard'[u] = heard[u]
            \/ /\ message # {} /\ listener[u] = "on"
               /\ listener'[u] = "heard" /\ heard'[u] = message
         /\ \/ pc'[u] = pc[u] /\ ~(pc[u] = "listening" /\ message # {} /\ listener[u] = "on")
            \/ pc[u] = "readying" /\ status' = "idle" /\ pc'[u] \in {"settling", "clearing"}
            \/ /\ pc[u] = "listening" /\ pc'[u] = "answered"
               /\ message # {} /\ listener'[u] = "heard" /\ heard'[u] = message
BY DEF Publish, Hears, TypeOK

(* The turn on the screen after a frame.                                   *)
LEMMA Painted ==
  ASSUME TypeOK, Working, NEW frame \in Frames, Paints(frame)
  PROVE  /\ \/ queue' = queue /\ frame # "result"
            \/ /\ frame = "result" /\ queue # <<>> /\ phase # "quiet"
               /\ queue' = Tail(queue) /\ phase' = "quiet"
         /\ frame # "result" => phase' = phase \/ (queue # <<>> /\ phase' # "quiet")
         /\ phase' # "quiet" => phase # "quiet" \/ frame = "activity"
         /\ frame = "message" => phase # "quiet" /\ phase' = phase /\ queue # <<>>
         /\ \A u \in Submits :
              \/ printed'[u] = printed[u]
                   /\ ~(frame = "message" /\ u \in Head(queue))
              \/ /\ frame = "message" /\ u \in Head(queue)
                 /\ printed'[u] = printed[u] + 1
<1>1. CASE frame = "message"
  BY <1>1 DEF Paints, TypeOK, Working
<1>2. CASE frame = "result"
  BY <1>2 DEF Paints, TypeOK, Working
<1>3. CASE frame \notin {"message", "result"}
  BY <1>3 DEF Paints, Frames, TypeOK, Working
<1> QED BY <1>1, <1>2, <1>3

LEMMA DataKeepsBase ==
  ASSUME Base, NEW frame \in Frames, PtyData(frame)
  PROVE  Base'
<1>1. /\ TypeOK /\ Working /\ Solo /\ LineIsOwn /\ Active
      /\ \A u \in Submits : Listens(u) /\ Appears(u)
      /\ Paints(frame) /\ ~crashed /\ UNCHANGED <<crashed, exited, proc>>
  BY DataStep DEF Base
<1>2. PICK message \in {{}, scratch} : Publish(message)
  BY <1>1, DataStep
<1>3. TypeOK' /\ Working'
  BY <1>1, DataTyped
<1>4. Solo'
  <2>1. \A u \in Submits : pc'[u] \in Pending => pc[u] \in Pending
    BY <1>1, <1>2, HeardBy DEF Pending
  <2> QED BY <1>1, <2>1 DEF Solo
<1>5. LineIsOwn'
  <2>1. line' \in {{}, line}
    BY <1>2 DEF Publish
  <2>2. \A u \in Submits : pc[u] = "typing" => pc'[u] = "typing"
    BY <1>1, <1>2, HeardBy
  <2> QED BY <1>1, <2>1, <2>2 DEF LineIsOwn
<1>6. Active'
  <2>1. phase' # "quiet" => (phase # "quiet" /\ frame # "result") \/ frame = "activity"
    BY <1>1, Painted
  <2>2. phase' # "quiet" => activity'
    BY <1>1, <2>1 DEF Active, PtyData, ParseState
  <2>3. activity' => status' = "busy"
    BY <1>1, DataStep DEF StatusAfter
  <2> QED BY <2>2, <2>3 DEF Active
<1>7. ASSUME NEW u \in Submits PROVE Listens(u)'
  BY <1>1, <1>2, HeardBy DEF Listens, Early
<1>8. ASSUME NEW u \in Submits PROVE Appears(u)'
  <2>1. pc[u] \in Sent => pc'[u] \in Sent
    BY <1>1, <1>2, HeardBy DEF Sent
  <2>2. queue \in Seq(SUBSET Texts) /\ printed[u] \in Nat
    BY <1>1, PtyAssumption DEF TypeOK
  <2>3. \A k \in 1..Len(queue') :
          \E j \in 1..Len(queue) : queue'[k] = queue[j]
    <3>1. CASE queue' = queue
      BY <3>1
    <3>2. CASE queue # <<>> /\ queue' = Tail(queue)
      <4>1. \A k \in 1..Len(queue') : k + 1 \in 1..Len(queue) /\ queue'[k] = queue[k + 1]
        BY <2>2, <3>2
      <4> QED BY <4>1
    <3> QED BY <1>1, <3>1, <3>2, Painted
  <2>4. \A k \in 1..Len(queue') : u \in queue'[k] => pc'[u] \in Sent
    BY <1>1, <2>1, <2>3 DEF Appears
  <2>5. queue # <<>> => Head(queue) = queue[1] /\ 1 \in 1..Len(queue)
    BY <2>2
  <2>6. printed'[u] > 0 => pc'[u] \in Sent
    BY <1>1, <2>1, <2>2, <2>5, Painted DEF Appears
  <2>7. printed'[u] >= printed[u] /\ printed'[u] \in Nat
    BY <1>1, <2>2, Painted
  <2>8. u \in scratch => printed'[u] > 0
    BY <1>1, <2>2, <2>7 DEF Appears
  <2>9. u \in scratch' => printed'[u] > 0
    <3>1. CASE scratch' \in {{}, scratch}
      BY <2>8, <3>1
    <3>2. CASE frame = "message" /\ scratch' = IF queue = <<>> THEN {} ELSE Head(queue)
      BY <1>1, <2>2, <3>2, Painted
    <3> QED BY <1>1, <3>1, <3>2, DataStep
  <2>10. ASSUME NEW v \in Submits, u \in heard'[v] PROVE printed'[u] > 0
    <3>1. heard'[v] = heard[v] \/ heard'[v] = message
      BY <1>1, <1>2, HeardBy
    <3>2. u \in heard[v] => printed'[u] > 0
      BY <1>1, <2>2, <2>7 DEF Appears
    <3> QED BY <1>2, <2>8, <2>10, <3>1, <3>2
  <2> QED BY <2>4, <2>6, <2>9, <2>10 DEF Appears
<1> QED BY <1>3, <1>4, <1>5, <1>6, <1>7, <1>8 DEF Base

LEMMA BaseKept == Base /\ [Next]_vars /\ Calm' => Base'
<1> SUFFICES ASSUME Calm', Base, [Next]_vars PROVE Base'
  OBVIOUS
<1> USE DEF stateVars, controlVars, callVars, screenVars, historyVars
<1>0. /\ TypeOK /\ Working /\ Solo /\ LineIsOwn /\ Active
      /\ \A u \in Submits : Listens(u) /\ Appears(u)
      /\ TypeOK' /\ Working'
  BY TypeKept DEF Base
<1>1. CASE UNCHANGED vars
  BY <1>0, <1>1 DEF vars, Base, Solo, LineIsOwn, Active, Listens, Appears
<1>2. ASSUME NEW s \in Submits,
             SubmitRefused(s) \/ Submit(s) \/ SubmitInterrupts(s) \/ Timers(s)
      PROVE  Base'
  BY <1>2, CallKeepsBase DEF Calm
<1>3. CASE Interrupt \/ Kill
  BY <1>0, <1>3 DEF Interrupt, PressEscape, Kill, Base, Solo, LineIsOwn, Active,
     Listens, Appears
<1>4. CASE Approve \/ RawWrite
  <2>1. /\ line' \in {{}, line} /\ queue' = queue /\ printed' = printed
        /\ phase = "asking" /\ phase' \in {"asking", "thinking"}
        /\ UNCHANGED <<controlVars, callVars>>
    BY <1>0, <1>4, CalmKeys
  <2> QED BY <1>0, <2>1 DEF Base, Solo, LineIsOwn, Active, Listens, Appears
<1>5. ASSUME NEW frame \in Frames, PtyData(frame) PROVE Base'
  BY <1>5, DataKeepsBase
<1>6. ASSUME NEW frame \in {"message", "mode"}, NeighbourData(frame) PROVE Base'
  <2>1. scratch' \in {{}, scratch, {Neighbour}}
    BY <1>6 DEF NeighbourData, ParseMessage
  <2>2. \A u \in Submits : u \in scratch' => u \in scratch
    BY <2>1, PtyAssumption
  <2> QED BY <1>0, <1>6, <2>2
          DEF NeighbourData, Base, Solo, LineIsOwn, Active, Listens, Appears
<1>7. CASE PtyExit
  BY <1>0, <1>7 DEF PtyExit, Base, Solo, LineIsOwn, Active, Listens, Appears
<1> QED BY <1>1, <1>2, <1>3, <1>4, <1>5, <1>6, <1>7 DEF Next

LEMMA InitBase == Init => Base
<1> SUFFICES ASSUME Init PROVE Base
  OBVIOUS
<1>1. TypeOK /\ Working
  BY InitTyped
<1> QED BY <1>1 DEF Init, Base, Solo, LineIsOwn, Active, Listens, Appears, Pending, Early

-----------------------------------------------------------------------------
(* No key into a dialog                                                    *)

Quiet == queue = <<>> /\ phase = "quiet"

Turn(s) == queue = <<{s}>> /\ (phase = "quiet" => printed[s] = 0)

(* The submit has returned without the answer of its own turn.             *)
Missed(s) == pc[s] \in {"answered", "unanswered", "returned"} /\ heard[s] # {s}

(* Nobody has missed an answer: at most one turn is on, whose submit       *)
(* listens, or has its answer, and then nobody types before it ends.       *)
InTurn ==
  \/ \E s \in Submits : Missed(s)
  \/ Quiet
  \/ \E s \in Submits :
       /\ Turn(s)
       /\ \/ pc[s] = "listening"
          \/ /\ pc[s] = "answered" /\ phase # "quiet"
             /\ \A u \in Submits : pc[u] \notin Early

LEMMA MissedForGood ==
  ASSUME Base, Base', [Next]_vars, NEW s \in Submits, Missed(s)
  PROVE  Missed(s)'
<1> USE DEF stateVars, controlVars, callVars, screenVars, historyVars
<1>1. pc[s] \in {"answered", "unanswered", "returned"} /\ heard[s] # {s} /\ TypeOK
      /\ listener[s] # "on"
  BY DEF Missed, Base, Listens
<1> SUFFICES pc'[s] = pc[s] /\ heard'[s] = heard[s]
  BY <1>1 DEF Missed
<1>2. CASE UNCHANGED vars
  BY <1>2 DEF vars
<1>3. ASSUME NEW u \in Submits,
             SubmitRefused(u) \/ Submit(u) \/ SubmitInterrupts(u) \/ Timers(u)
      PROVE  pc'[s] = pc[s] /\ heard'[s] = heard[s]
  BY <1>1, <1>3 DEF SubmitRefused, Submit, SubmitInterrupts, Timers, SubmitAfterInterrupt,
     ReadyTimeout, BannerSettled, TypePrompt, EnterPrompt, MessageTimeout, Prepare, TypeOK
<1>4. CASE Interrupt \/ Approve \/ RawWrite \/ Kill \/ PtyExit
  BY <1>4 DEF Interrupt, Approve, RawWrite, Kill, PtyExit
<1>5. ASSUME NEW frame \in Frames, PtyData(frame)
      PROVE  pc'[s] = pc[s] /\ heard'[s] = heard[s]
  <2>1. PICK message \in {{}, scratch} : Publish(message)
    BY <1>1, <1>5, DataStep
  <2> QED BY <1>1, <2>1, HeardBy
<1>6. ASSUME NEW frame \in {"message", "mode"}, NeighbourData(frame)
      PROVE  pc'[s] = pc[s] /\ heard'[s] = heard[s]
  BY <1>6 DEF NeighbourData
<1> QED BY <1>2, <1>3, <1>4, <1>5, <1>6 DEF Next

(* While a submit is on its way to its prompt no turn is on.               *)
LEMMA TypesInQuiet ==
  ASSUME Base, InTurn, NEW s \in Submits, pc[s] \in Early
  PROVE  Quiet \/ \E u \in Submits : Missed(u)
BY DEF Base, Solo, InTurn, Early, Pending

LEMMA CallKeepsInTurn ==
  ASSUME ~overlapped', Base, Base', InTurn, \A u \in Submits : ~Missed(u) /\ ~Missed(u)',
         NEW s \in Submits,
         SubmitRefused(s) \/ Submit(s) \/ SubmitInterrupts(s) \/ Timers(s)
  PROVE  InTurn'
<1> USE DEF stateVars, controlVars, callVars, screenVars, historyVars
<1>0. /\ TypeOK /\ Solo /\ Active
      /\ \A u \in Submits : Listens(u) /\ Appears(u)
  BY DEF Base
<1>1. CASE EnterPrompt(s)
  <2>1. Quiet /\ printed[s] = 0
    <3>1. pc[s] = "typing"
      BY <1>1, Entered
    <3>2. printed[s] \in Nat /\ ~(printed[s] > 0)
      BY <1>0, <3>1, Counted DEF Appears, Sent
    <3> QED BY <3>1, <3>2, TypesInQuiet DEF Early
  <2>2. CASE queue' = <<>>
    BY <1>1, <2>1, <2>2, Entered DEF Quiet, InTurn
  <2>3. CASE queue' # <<>>
    <3>1. queue' = <<{s}>> /\ printed'[s] = 0
      BY <1>1, <2>1, <2>3, Entered DEF Quiet
    <3>2. pc'[s] = "listening"
      <4>3. listener[s] # "none"
        <5> SUFFICES ASSUME listener[s] = "none" PROVE FALSE
          OBVIOUS
        <5>1. pc'[s] = "returned" /\ heard'[s] = {}
          BY <1>1, <1>0, Entered DEF TypeOK, Listens
        <5> QED BY <5>1 DEF Missed
      <4> SUFFICES ASSUME listener[s] = "heard" PROVE FALSE
        BY <1>1, <1>0, <4>3, Entered DEF TypeOK
      <4>1. pc'[s] = "answered" /\ heard' = heard
        BY <1>1, <1>0, Entered DEF TypeOK
      <4>2. s \in heard[s]
        BY <4>1 DEF Missed
      <4> QED BY <1>0, <2>1, <4>2 DEF Appears
    <3> QED BY <3>1, <3>2 DEF InTurn, Turn
  <2> QED BY <2>2, <2>3
<1>2. CASE MessageTimeout(s)
  <2>1. pc[s] # "listening"
    <3> SUFFICES ASSUME pc[s] = "listening" PROVE FALSE
      OBVIOUS
    <3>1. pc'[s] = "unanswered" /\ heard'[s] = {}
      BY <1>0, <1>2 DEF MessageTimeout, TypeOK, Listens
    <3> QED BY <3>1 DEF Missed
  <2>2. UNCHANGED <<pc, queue, phase, printed>>
    BY <1>2, <2>1 DEF MessageTimeout
  <2> QED BY <2>2 DEF InTurn, Quiet, Turn, Missed
<1>3. CASE SubmitRefused(s) \/ Submit(s) \/ SubmitInterrupts(s)
           \/ SubmitAfterInterrupt(s) \/ ReadyTimeout(s) \/ BannerSettled(s) \/ TypePrompt(s)
  <2>1. /\ UNCHANGED <<queue, printed>>
        /\ phase' = phase \/ (phase = "asking" /\ phase' = "thinking")
    <3>1. CASE SubmitInterrupts(s)
      BY <3>1 DEF SubmitInterrupts, PressEscape
    <3>2. CASE ~SubmitInterrupts(s)
      BY <1>3, <3>2 DEF SubmitRefused, Submit, SubmitAfterInterrupt, ReadyTimeout,
         BannerSettled, TypePrompt
    <3> QED BY <3>1, <3>2
  <2>2. \A u \in Submits \ {s} : pc'[u] = pc[u]
    BY <1>0, <1>3 DEF SubmitRefused, Submit, SubmitInterrupts, SubmitAfterInterrupt,
       ReadyTimeout, BannerSettled, TypePrompt, Prepare, TypeOK
  <2>3. pc[s] \notin {"listening", "answered"}
    BY <1>3 DEF SubmitRefused, Submit, SubmitInterrupts, SubmitAfterInterrupt,
       ReadyTimeout, BannerSettled, TypePrompt
  <2>4. pc'[s] \in Early => pc[s] \in Early \/ phase = "quiet"
    BY <1>0, <1>3 DEF SubmitRefused, Submit, SubmitInterrupts, SubmitAfterInterrupt,
       ReadyTimeout, BannerSettled, TypePrompt, Prepare, TypeOK, Early, Active
  <2>5. CASE Quiet
    BY <2>1, <2>5 DEF Quiet, InTurn
  <2>6. ASSUME NEW t \in Submits, Turn(t), pc[t] = "listening" PROVE InTurn'
    BY <2>1, <2>2, <2>3, <2>6 DEF InTurn, Turn
  <2>7. ASSUME NEW t \in Submits, Turn(t), pc[t] = "answered", phase # "quiet",
               \A u \in Submits : pc[u] \notin Early
        PROVE  InTurn'
    BY <2>1, <2>2, <2>3, <2>4, <2>7 DEF InTurn, Turn
  <2> QED BY <2>5, <2>6, <2>7 DEF InTurn
<1> QED BY <1>1, <1>2, <1>3 DEF Timers

LEMMA DataKeepsInTurn ==
  ASSUME Base, Base', InTurn, \A u \in Submits : ~Missed(u) /\ ~Missed(u)',
         NEW frame \in Frames, PtyData(frame)
  PROVE  InTurn'
<1>1. /\ TypeOK /\ Working /\ Solo /\ Active /\ Active'
      /\ \A u \in Submits : Listens(u) /\ Appears(u)
      /\ Paints(frame)
  BY DataStep DEF Base
<1>2. PICK message \in {{}, scratch} : Publish(message)
  BY <1>1, DataStep
<1>3. CASE Quiet
  <2>1. queue' = <<>> /\ phase' = "quiet"
    BY <1>1, <1>3, Painted DEF Quiet
  <2> QED BY <2>1 DEF InTurn, Quiet
<1>4. CASE frame = "result"
  <2>1. Quiet'
    <3>1. queue # <<>> /\ queue' = Tail(queue) /\ phase' = "quiet"
      BY <1>1, <1>4, Painted
    <3>2. PICK s \in Submits : queue = <<{s}>>
      BY <3>1 DEF InTurn, Turn, Quiet
    <3> QED BY <3>1, <3>2 DEF Quiet
  <2> QED BY <2>1 DEF InTurn
<1>5. ASSUME frame # "result", NEW s \in Submits, Turn(s), pc[s] = "listening"
      PROVE  InTurn'
  <2>1. queue' = <<{s}>> /\ (phase # "quiet" => phase' # "quiet")
    BY <1>1, <1>5, Painted DEF Turn
  <2>2. phase' = "quiet" => printed'[s] = 0
    BY <1>1, <1>5, <2>1, Painted DEF Turn
  <2>3. CASE pc'[s] = "listening"
    BY <2>1, <2>2, <2>3 DEF InTurn, Turn
  <2>4. CASE pc'[s] # "listening"
    <3>1. pc'[s] = "answered" /\ heard'[s] = message
      BY <1>1, <1>2, <1>5, <2>4, HeardBy
    <3>2. s \in scratch
      BY <1>2, <3>1 DEF Missed
    <3>3. phase' # "quiet"
      BY <1>1, <1>5, <2>1, <3>2 DEF Appears, Turn
    <3>4. \A u \in Submits : pc'[u] \notin Early
      <4> SUFFICES ASSUME NEW u \in Submits, pc'[u] \in Early PROVE FALSE
        OBVIOUS
      <4>1. pc[u] \in Pending
        BY <1>1, <1>2, HeardBy DEF Early, Pending
      <4>2. u = s
        BY <1>1, <1>5, <4>1 DEF Solo, Pending
      <4> QED BY <3>1, <4>2 DEF Early
    <3> QED BY <2>1, <2>2, <3>1, <3>3, <3>4 DEF InTurn, Turn
  <2> QED BY <2>3, <2>4
<1>6. ASSUME frame # "result", NEW s \in Submits, Turn(s), pc[s] = "answered",
             phase # "quiet", \A u \in Submits : pc[u] \notin Early
      PROVE  InTurn'
  <2>1. queue' = <<{s}>> /\ phase' # "quiet"
    BY <1>1, <1>6, Painted DEF Turn
  <2>2. pc'[s] = "answered"
    BY <1>1, <1>2, <1>6, HeardBy
  <2>3. status' # "idle"
    BY <1>1, <2>1 DEF Active
  <2>4. \A u \in Submits : pc'[u] \notin Early
    BY <1>1, <1>2, <1>6, <2>3, HeardBy DEF Early
  <2> QED BY <2>1, <2>2, <2>4 DEF InTurn, Turn
<1> QED BY <1>3, <1>4, <1>5, <1>6 DEF InTurn

LEMMA InTurnKept == Base /\ InTurn /\ [Next]_vars /\ Calm' => Base' /\ InTurn'
<1> SUFFICES ASSUME Calm', Base, InTurn, [Next]_vars PROVE InTurn'
  BY BaseKept
<1> USE DEF stateVars, controlVars, callVars, screenVars, historyVars
<1>0. Base'
  BY BaseKept
<1>1. CASE \E u \in Submits : Missed(u) \/ Missed(u)'
  BY <1>0, <1>1, MissedForGood DEF InTurn
<1>2. CASE ~\E u \in Submits : Missed(u) \/ Missed(u)'
  <2>1. CASE UNCHANGED vars \/ Interrupt \/ Kill \/ Approve \/ RawWrite \/ PtyExit
             \/ \E frame \in {"message", "mode"} : NeighbourData(frame)
    <3>1. UNCHANGED <<pc, queue, printed>>
          /\ (phase' = phase \/ (phase = "asking" /\ phase' = "thinking"))
      <4>1. CASE Approve \/ RawWrite
        BY <4>1, CalmKeys DEF Base
      <4>2. CASE Interrupt
        BY <4>2 DEF Interrupt, PressEscape
      <4>3. CASE ~Approve /\ ~RawWrite /\ ~Interrupt
        BY <2>1, <4>3 DEF vars, Kill, PtyExit, NeighbourData
      <4> QED BY <4>1, <4>2, <4>3
    <3> QED BY <1>2, <3>1 DEF InTurn, Quiet, Turn
  <2>2. ASSUME NEW s \in Submits,
               SubmitRefused(s) \/ Submit(s) \/ SubmitInterrupts(s) \/ Timers(s)
        PROVE  InTurn'
    BY <1>0, <1>2, <2>2, CallKeepsInTurn DEF Calm
  <2>3. ASSUME NEW frame \in Frames, PtyData(frame) PROVE InTurn'
    BY <1>0, <1>2, <2>3, DataKeepsInTurn
  <2> QED BY <2>1, <2>2, <2>3 DEF Next
<1> QED BY <1>1, <1>2

(* The keystrokes of a submit never answer a permission dialog, unless two *)
(* submits were under way together, stray keys met the prompt, or an       *)
(* earlier submit returned without the answer of its own turn: whatever    *)
(* the program paints, whether callers wait for their message or not, and  *)
(* whatever the other agents of the driver do to the parser.               *)
THEOREM PtyNoBlindAnswer == Spec => NoBlindAnswer
<1> DEFINE Blindly ==
      \A s \in Submits :
        pc[s] = "typing" /\ pc'[s] # "typing" /\ phase = "asking" =>
          \/ overlapped \/ strays > 0
          \/ \E t \in Submits : pc[t] \in {"answered", "unanswered", "returned"}
                               /\ heard[t] # {t}
    Inv == TypeOK /\ Working /\ (Calm => Base /\ InTurn)
<1>1. Init => Inv
  BY InitBase, InitTyped DEF Init, InTurn, Quiet
<1>2. Inv /\ [Next]_vars => Inv'
  BY InTurnKept, TypeKept, CalmBefore
<1>3. Inv /\ [Next]_vars => [Blindly]_vars
  <2> SUFFICES ASSUME Inv, NEW s \in Submits, pc[s] = "typing", phase = "asking",
                      ~overlapped, ~(strays > 0)
               PROVE  \E t \in Submits : Missed(t)
    BY DEF Missed
  <2>1. strays \in Nat
    BY PtyAssumption DEF TypeOK
  <2> QED BY <2>1, TypesInQuiet DEF Calm, Early, Quiet
<1> HIDE DEF Blindly, Inv
<1>4. Spec => [][Blindly]_vars
  BY <1>1, <1>2, <1>3, PTL DEF Spec
<1> QED BY <1>4 DEF Blindly, NoBlindAnswer

-----------------------------------------------------------------------------
(* Whose answer it is                                                      *)

Clean == Quiet /\ scratch = {}

(* The submit has given up waiting or did not wait, or its turn has said   *)
(* more than one thing: what is left of the turn may reach others.         *)
Late(s) == pc[s] \in {"unanswered", "returned"} \/ printed[s] > 1

(* Unless another submit is late, a submit types with nothing on the       *)
(* screen, and hears only what its own turn prints.                        *)
OwnTurn(s) ==
  \/ \E t \in Submits \ {s} : Late(t)
  \/ /\ pc[s] \in Early => Clean
     /\ pc[s] \in Early \cup {"readying"} => listener[s] # "heard"
     /\ pc[s] = "listening" => Clean \/ (Turn(s) /\ scratch \subseteq {s})
     /\ pc[s] = "answered" => heard[s] = {s}

(* Between two submits a turn may still be on, but has had its say.        *)
Over == Clean \/ \E t \in Submits : /\ Turn(t) /\ scratch = {}
                                    /\ pc[t] = "answered" /\ phase # "quiet"

Between ==
  \/ \E t \in Submits : Late(t) \/ pc[t] \in Early \cup {"listening"}
  \/ Over

Owned == Base /\ Between /\ \A s \in Submits : OwnTurn(s)

LEMMA LateForGood ==
  ASSUME Base, [Next]_vars, NEW s \in Submits, Late(s)
  PROVE  Late(s)'
<1> USE DEF stateVars, controlVars, callVars, screenVars, historyVars
<1>1. /\ TypeOK /\ Working /\ Listens(s)
      /\ printed[s] \in Nat
  BY PtyAssumption DEF Base, TypeOK
<1> SUFFICES /\ pc[s] \in {"unanswered", "returned"} => pc'[s] = pc[s]
             /\ printed'[s] \in Nat /\ printed'[s] >= printed[s]
  BY <1>1 DEF Late
<1>2. CASE UNCHANGED vars
  BY <1>1, <1>2 DEF vars
<1>3. ASSUME NEW u \in Submits,
             SubmitRefused(u) \/ Submit(u) \/ SubmitInterrupts(u) \/ Timers(u)
      PROVE  printed' = printed /\ (pc[s] \in {"unanswered", "returned"} => pc'[s] = pc[s])
  <2>1. CASE EnterPrompt(u)
    BY <1>1, <2>1, Entered DEF TypeOK
  <2>2. CASE ~EnterPrompt(u)
    BY <1>1, <1>3, <2>2 DEF SubmitRefused, Submit, SubmitInterrupts, Timers,
       SubmitAfterInterrupt, ReadyTimeout, BannerSettled, TypePrompt, MessageTimeout,
       Prepare, PressEscape, TypeOK
  <2> QED BY <2>1, <2>2
<1>4. CASE Interrupt \/ Approve \/ RawWrite \/ Kill \/ PtyExit
  BY <1>1, <1>4 DEF Interrupt, Approve, RawWrite, Kill, PtyExit, PressEscape, PressEnter
<1>5. ASSUME NEW frame \in Frames, PtyData(frame)
      PROVE  /\ printed'[s] \in Nat /\ printed'[s] >= printed[s]
             /\ pc[s] \in {"unanswered", "returned"} => pc'[s] = pc[s]
  <2>1. PICK message \in {{}, scratch} : Publish(message)
    BY <1>1, <1>5, DataStep
  <2>2. Paints(frame)
    BY <1>1, <1>5, DataStep
  <2> QED BY <1>1, <2>1, <2>2, HeardBy, Painted
<1>6. ASSUME NEW frame \in {"message", "mode"}, NeighbourData(frame)
      PROVE  printed' = printed /\ pc' = pc
  BY <1>6 DEF NeighbourData
<1> QED BY <1>1, <1>2, <1>3, <1>4, <1>5, <1>6 DEF Next

(* A submit that finds the agent idle, or is woken, finds a clean screen.  *)
LEMMA NobodyLate ==
  ASSUME Owned, NEW s \in Submits,
         pc[s] \in {"new", "interrupting", "readying"},
         \A t \in Submits \ {s} : ~Late(t) /\ (pc[t] \notin Pending \/ pc[s] # "new"),
         NEW u \in Submits
  PROVE  ~Late(u) /\ pc[u] \notin Early \cup {"listening"} /\ Over
<1>1. printed[s] \in Nat /\ ~(printed[s] > 0)
  BY Counted DEF Owned, Base, Appears, Sent
<1>2. ~Late(s)
  BY <1>1 DEF Late
<1>3. \A t \in Submits : pc[t] \notin Early \cup {"listening"}
  BY DEF Owned, Base, Solo, Pending, Early
<1> QED BY <1>2, <1>3 DEF Owned, Between

LEMMA CallKeepsOwnTurn ==
  ASSUME ~overlapped', Owned, Base', NEW s \in Submits,
         \A t \in Submits \ {s} : ~Late(t),
         SubmitRefused(s) \/ Submit(s) \/ SubmitInterrupts(s) \/ Timers(s)
  PROVE  OwnTurn(s)'
<1> USE DEF stateVars, controlVars, callVars, screenVars, historyVars
<1>0. /\ Base /\ TypeOK /\ Solo /\ Active /\ TypeOK'
      /\ \A u \in Submits : Listens(u) /\ Appears(u) /\ OwnTurn(u)
  BY DEF Owned, Base
<1>1. /\ pc[s] \in Early => Clean
      /\ pc[s] \in Early \cup {"readying"} => listener[s] # "heard"
  BY <1>0 DEF OwnTurn
<1>2. CASE SubmitRefused(s) \/ SubmitInterrupts(s) \/ ReadyTimeout(s)
  <2>1. pc'[s] \in {"failed", "interrupting"}
    BY <1>0, <1>2 DEF SubmitRefused, SubmitInterrupts, ReadyTimeout, TypeOK
  <2> QED BY <2>1 DEF OwnTurn, Early
<1>3. CASE Submit(s) \/ SubmitAfterInterrupt(s)
  <2>1. /\ UNCHANGED <<queue, phase, printed, scratch, status>>
        /\ listener'[s] # "heard"
        /\ \/ pc'[s] = "readying"
           \/ status = "idle" /\ pc'[s] = "clearing"
    BY <1>0, <1>3 DEF Submit, SubmitAfterInterrupt, Prepare, TypeOK
  <2>2. /\ pc[s] \in {"new", "interrupting"}
        /\ \A t \in Submits \ {s} : pc[t] \notin Pending \/ pc[s] # "new"
    BY <1>3 DEF Submit, SubmitAfterInterrupt, Comes, Alone
  <2>3. Over
    BY <2>2, NobodyLate
  <2>4. status = "idle" => Clean
    BY <1>0, <2>3 DEF Over, Active
  <2> QED BY <2>1, <2>4 DEF OwnTurn, Early, Clean, Quiet
<1>4. CASE BannerSettled(s) \/ TypePrompt(s)
  <2>1. pc[s] \in Early /\ pc'[s] \in Early /\ pc'[s] # "listening" /\ pc'[s] # "answered"
    BY <1>0, <1>4 DEF BannerSettled, TypePrompt, TypeOK, Early
  <2>2. UNCHANGED <<queue, phase, scratch, listener>>
    BY <1>4 DEF BannerSettled, TypePrompt
  <2> QED BY <1>1, <2>1, <2>2 DEF OwnTurn, Clean, Quiet
<1>5. CASE EnterPrompt(s)
  <2>1. pc[s] = "typing" /\ Clean /\ listener[s] # "heard"
    BY <1>1, <1>5, <1>0, Entered DEF Early
  <2>2. pc'[s] \in {"listening", "returned"} /\ scratch' = {} /\ phase' = "quiet"
    BY <1>0, <1>5, <2>1, Entered DEF TypeOK, Clean, Quiet
  <2>3. ~(printed[s] > 0) /\ printed[s] \in Nat
    <3>1. Appears(s) /\ printed[s] \in 0 .. Messages
      BY <1>0 DEF TypeOK
    <3> QED BY <2>1, <3>1, PtyAssumption DEF Appears, Sent
  <2>4. queue' = <<>> \/ queue' = <<{s}>>
    BY <1>0, <1>5, <2>1, Entered DEF Clean, Quiet
  <2>5. printed'[s] = 0
    BY <1>0, <1>5, <2>3, Entered
  <2> QED BY <2>2, <2>4, <2>5 DEF OwnTurn, Clean, Quiet, Turn, Early
<1>6. CASE MessageTimeout(s)
  <2>1. /\ UNCHANGED <<queue, phase, scratch>> /\ listener'[s] = "expired"
        /\ pc[s] # "answered"
        /\ \/ pc'[s] = "unanswered"
           \/ pc'[s] = pc[s] /\ pc[s] # "listening"
    BY <1>0, <1>6 DEF MessageTimeout, TypeOK, Listens
  <2> QED BY <1>1, <2>1 DEF OwnTurn, Clean, Quiet, Early
<1> QED BY <1>2, <1>3, <1>4, <1>5, <1>6 DEF Timers

(* The steps of one submit leave what another relies on.                   *)
LEMMA OthersKeepOwnTurn ==
  ASSUME Owned, NEW s \in Submits, \A t \in Submits \ {s} : ~Late(t),
         NEW u \in Submits, u # s,
         SubmitRefused(u) \/ Submit(u) \/ SubmitInterrupts(u) \/ Timers(u)
  PROVE  OwnTurn(s)'
<1> USE DEF stateVars, controlVars, callVars, screenVars, historyVars
<1>0. Base /\ TypeOK /\ Solo /\ OwnTurn(s)
  BY DEF Owned, Base
<1>1. CASE EnterPrompt(u)
  <2>1. pc[u] = "typing" /\ pc'[s] = pc[s] /\ heard' = heard
    BY <1>0, <1>1, Entered DEF TypeOK
  <2>2. pc[s] \notin Pending
    BY <1>0, <2>1 DEF Solo, Pending
  <2> QED BY <1>0, <2>1, <2>2 DEF OwnTurn, Early, Pending
<1>2. CASE ~EnterPrompt(u)
  <2>1. pc'[s] = pc[s] /\ listener'[s] = listener[s] /\ heard'[s] = heard[s]
    BY <1>0, <1>2 DEF SubmitRefused, Submit, SubmitInterrupts, Timers,
       SubmitAfterInterrupt, ReadyTimeout, BannerSettled, TypePrompt, MessageTimeout,
       Prepare, TypeOK
  <2>2. UNCHANGED <<queue, printed, scratch>>
        /\ (phase' = phase \/ (phase = "asking" /\ phase' = "thinking"))
    <3>1. CASE SubmitInterrupts(u)
      BY <3>1 DEF SubmitInterrupts, PressEscape
    <3>2. CASE ~SubmitInterrupts(u)
      BY <1>2, <3>2 DEF SubmitRefused, Submit, Timers, SubmitAfterInterrupt,
         ReadyTimeout, BannerSettled, TypePrompt, MessageTimeout
    <3> QED BY <3>1, <3>2
  <2> QED BY <1>0, <2>1, <2>2 DEF OwnTurn, Clean, Quiet, Turn
<1> QED BY <1>1, <1>2

LEMMA CallKeepsBetween ==
  ASSUME ~overlapped', Owned, Base', \A t \in Submits : ~Late(t) /\ ~Late(t)',
         NEW s \in Submits,
         SubmitRefused(s) \/ Submit(s) \/ SubmitInterrupts(s) \/ Timers(s)
  PROVE  Between'
<1> USE DEF stateVars, controlVars, callVars, screenVars, historyVars
<1>0. /\ Base /\ TypeOK /\ Solo /\ Active
      /\ \A u \in Submits : Listens(u) /\ Appears(u) /\ OwnTurn(u)
  BY DEF Owned, Base
<1>1. CASE EnterPrompt(s)
  <2>1. listener[s] # "heard"
    BY <1>0, <1>1, Entered DEF OwnTurn, Early
  <2>2. pc'[s] \in {"listening", "returned"}
    BY <1>0, <1>1, <2>1, Entered DEF TypeOK
  <2> QED BY <2>2 DEF Between, Late
<1>2. CASE ~EnterPrompt(s)
  <2>1. UNCHANGED <<queue, printed, scratch>>
        /\ (phase' = phase \/ (phase = "asking" /\ phase' = "thinking"))
    <3>1. CASE SubmitInterrupts(s)
      BY <3>1 DEF SubmitInterrupts, PressEscape
    <3>2. CASE ~SubmitInterrupts(s)
      BY <1>2, <3>2 DEF SubmitRefused, Submit, Timers, SubmitAfterInterrupt,
         ReadyTimeout, BannerSettled, TypePrompt, MessageTimeout
    <3> QED BY <3>1, <3>2
  <2>2. \A t \in Submits \ {s} : pc'[t] = pc[t]
    BY <1>0, <1>2 DEF SubmitRefused, Submit, SubmitInterrupts, Timers,
       SubmitAfterInterrupt, ReadyTimeout, BannerSettled, TypePrompt, MessageTimeout,
       Prepare, TypeOK
  <2>3. pc'[s] # "unanswered" /\ pc[s] # "answered"
    BY <1>0, <1>2 DEF Late, SubmitRefused, Submit, SubmitInterrupts, Timers,
       SubmitAfterInterrupt, ReadyTimeout, BannerSettled, TypePrompt, MessageTimeout,
       Listens
  <2>4. pc[s] \in Early \cup {"listening"} => pc'[s] \in Early \cup {"listening"}
    BY <1>0, <1>2, <2>3 DEF SubmitRefused, Submit, SubmitInterrupts, Timers,
       SubmitAfterInterrupt, ReadyTimeout, BannerSettled, TypePrompt, MessageTimeout,
       Early, TypeOK
  <2>5. CASE \E t \in Submits : pc[t] \in Early \cup {"listening"}
    BY <2>2, <2>4, <2>5 DEF Between
  <2>6. CASE Over
    BY <2>1, <2>2, <2>3, <2>6 DEF Over, Between, Clean, Quiet, Turn
  <2> QED BY <2>5, <2>6 DEF Owned, Between
<1> QED BY <1>1, <1>2

LEMMA DataKeepsOwned ==
  ASSUME Owned, Base', NEW frame \in Frames, PtyData(frame), [Next]_vars
  PROVE  Owned'
<1>0. /\ Base /\ TypeOK /\ Working /\ Solo /\ Active /\ Active'
      /\ \A u \in Submits : Listens(u) /\ Appears(u) /\ OwnTurn(u)
      /\ \A u \in Submits : printed[u] \in Nat
      /\ Paints(frame)
  BY DataStep, PtyAssumption DEF Owned, Base, TypeOK
<1>1. PICK message \in {{}, scratch} :
        /\ Publish(message)
        /\ message = {} \/ frame = "message" \/ scratch' = {}
  BY <1>0, DataStep
<1>2. /\ frame = "result" => scratch' = {}
      /\ \/ scratch' \in {{}, scratch}
         \/ frame = "message" /\ scratch' = IF queue = <<>> THEN {} ELSE Head(queue)
  BY <1>0, DataStep
<1>3. Clean => Clean'
  <2>1. ASSUME Clean PROVE queue' = <<>> /\ phase' = "quiet" /\ frame # "message"
    BY <1>0, <2>1, Painted DEF Clean, Quiet
  <2> QED BY <1>2, <2>1 DEF Clean, Quiet
  (* A turn whose submit has its answer has had its say.                   *)
<1>4. ASSUME NEW t \in Submits, Turn(t), scratch = {}, pc[t] = "answered",
             phase # "quiet", \A u \in Submits : ~Late(u)'
      PROVE  \/ Clean' /\ frame = "result"
             \/ Turn(t)' /\ scratch' = {} /\ pc'[t] = "answered" /\ phase' # "quiet"
  <2>1. pc'[t] = "answered"
    BY <1>0, <1>1, <1>4, HeardBy
  <2>2. \A u \in Submits : ~Late(u)
    BY <1>0, <1>4, LateForGood
  <2>3. printed[t] > 0
    BY <1>0, <1>4, <2>2 DEF OwnTurn, Appears
  <2>4. frame # "message"
    BY <1>0, <1>4, <2>3, Painted DEF Late, Turn
  <2>5. scratch' = {}
    BY <1>2, <1>4, <2>4
  <2>6. CASE frame = "result"
    BY <1>0, <1>4, <2>5, <2>6, Painted DEF Turn, Clean, Quiet
  <2>7. CASE frame # "result"
    BY <1>0, <1>4, <2>1, <2>5, <2>7, Painted DEF Turn
  <2> QED BY <2>6, <2>7
  (* The turn of a submit that still listens.                              *)
<1>5. ASSUME NEW s \in Submits, Turn(s), scratch \subseteq {s}, pc[s] = "listening"
      PROVE  /\ frame # "result" => Turn(s)' /\ scratch' \subseteq {s}
             /\ frame = "result" => Clean'
             /\ message = {} => pc'[s] = "listening"
             /\ message # {} => /\ pc'[s] = "answered" /\ heard'[s] = {s}
                                /\ phase # "quiet"
  <2>1. frame = "result" => Clean'
    BY <1>0, <1>2, <1>5, Painted DEF Turn, Clean, Quiet
  <2>2. frame # "result" => Turn(s)'
    BY <1>0, <1>5, Painted DEF Turn
  <2>3. scratch' \subseteq {s}
    BY <1>2, <1>5 DEF Turn
  <2>4. listener[s] = "on"
    BY <1>0, <1>5 DEF Listens
  <2>5. message # {} => message = {s} /\ s \in scratch
    BY <1>1, <1>5
  <2>6. message # {} => pc'[s] = "answered" /\ heard'[s] = {s}
    BY <1>0, <1>1, <1>5, <2>4, <2>5, HeardBy
  <2>7. message # {} => phase # "quiet"
    BY <1>0, <1>5, <2>5 DEF Appears, Turn
  <2>8. message = {} => pc'[s] = "listening"
    BY <1>0, <1>1, <1>5, HeardBy
  <2> QED BY <2>1, <2>2, <2>3, <2>6, <2>7, <2>8
<1>6. ASSUME NEW s \in Submits, \A t \in Submits \ {s} : ~Late(t)'
      PROVE  OwnTurn(s)'
  <2>1. \A t \in Submits \ {s} : ~Late(t)
    BY <1>0, <1>6, LateForGood
  <2>2. CASE pc[s] \in Early
    <3>1. Clean /\ listener[s] # "heard"
      BY <1>0, <2>1, <2>2 DEF OwnTurn
    <3>2. message = {} /\ pc'[s] = pc[s]
      BY <1>0, <1>1, <2>2, <3>1, HeardBy DEF Clean, Early
    <3>3. listener'[s] = listener[s]
      BY <1>0, <1>1, <3>2, HeardBy
    <3> QED BY <1>3, <2>2, <3>1, <3>2, <3>3 DEF OwnTurn, Early
  <2>3. CASE pc[s] = "listening"
    <3>1. CASE Clean
      <4>1. message = {}
        BY <1>1, <3>1 DEF Clean
      <4>2. pc'[s] = "listening"
        BY <1>0, <1>1, <2>3, <4>1, HeardBy
      <4> QED BY <1>3, <3>1, <4>2 DEF OwnTurn, Early
    <3>2. CASE Turn(s) /\ scratch \subseteq {s}
      BY <1>5, <2>3, <3>2 DEF OwnTurn, Early
    <3> QED BY <1>0, <2>1, <2>3, <3>1, <3>2 DEF OwnTurn
  <2>4. CASE pc[s] = "answered"
    <3>1. heard[s] = {s} /\ listener[s] = "heard"
      BY <1>0, <2>1, <2>4 DEF OwnTurn, Listens
    <3>2. pc'[s] = "answered" /\ heard'[s] = {s}
      BY <1>0, <1>1, <2>4, <3>1, HeardBy
    <3> QED BY <3>2 DEF OwnTurn, Early
  <2>5. CASE pc[s] = "readying"
    <3>1. Over /\ \A u \in Submits : ~Late(u)
      BY <2>1, <2>5, NobodyLate
    <3>2. message = {} /\ listener[s] # "heard"
      BY <1>0, <1>1, <2>1, <2>5, <3>1 DEF Over, Clean, OwnTurn
    <3>3. listener'[s] # "heard"
      BY <1>0, <1>1, <3>2, HeardBy
    <3>4. pc'[s] = "readying" \/ (status' = "idle" /\ pc'[s] \in Early)
      BY <1>0, <1>1, <2>5, HeardBy DEF Early
    <3>5. ASSUME status' = "idle" PROVE Clean'
      <4>1. phase' = "quiet"
        BY <1>0, <3>5 DEF Active
      <4>2. ~Late(s)'
        <5>1. pc[s] \notin Sent /\ printed[s] = 0
          BY <1>0, <2>5 DEF Appears, Sent
        <5>2. frame = "message" => s \notin Head(queue)
          <6>1. frame = "message" => queue # <<>>
            BY <1>0, Painted
          <6>2. queue # <<>> => Head(queue) = queue[1] /\ 1 \in 1..Len(queue)
            BY <1>0 DEF TypeOK
          <6> QED BY <1>0, <5>1, <6>1, <6>2 DEF Appears
        <5>3. printed'[s] = 0
          BY <1>0, <5>1, <5>2, Painted
        <5> QED BY <3>4, <5>3 DEF Late, Early
      <4>3. \A u \in Submits : ~Late(u)'
        BY <1>6, <4>2
      <4> QED BY <1>3, <1>4, <3>1, <4>1, <4>3 DEF Over
    <3> QED BY <3>3, <3>4, <3>5 DEF OwnTurn, Early
  <2>6. CASE pc[s] \notin Early \cup {"listening", "answered", "readying"}
    <3>1. pc'[s] = pc[s]
      BY <1>0, <1>1, <2>6, HeardBy
    <3> QED BY <2>6, <3>1 DEF OwnTurn
  <2> QED BY <2>2, <2>3, <2>4, <2>5, <2>6
<1>7. ASSUME \A u \in Submits : ~Late(u)' /\ pc'[u] \notin Early \cup {"listening"}
      PROVE  Over'
  <2>1. \A u \in Submits : ~Late(u)
    BY <1>0, <1>7, LateForGood
  <2>2. CASE Over
    BY <1>3, <1>4, <1>7, <2>2 DEF Over
  <2>3. ASSUME NEW s \in Submits, pc[s] \in Early PROVE FALSE
    BY <1>0, <1>1, <1>7, <2>3, HeardBy DEF Early
  <2>4. ASSUME NEW s \in Submits, pc[s] = "listening" PROVE Over'
    <3>1. Clean \/ (Turn(s) /\ scratch \subseteq {s})
      BY <1>0, <2>1, <2>4 DEF OwnTurn
    <3>2. CASE Clean
      BY <1>3, <3>2 DEF Over
    <3>3. CASE Turn(s) /\ scratch \subseteq {s}
      <4>1. /\ message # {} /\ pc'[s] = "answered" /\ phase # "quiet"
            /\ frame # "result" => Turn(s)'
            /\ frame = "result" => Clean'
        BY <1>5, <1>7, <2>4, <3>3
      <4>2. s \in scratch /\ printed[s] > 0
        BY <1>0, <1>1, <3>3, <4>1 DEF Appears
      <4>3. frame # "message"
        BY <1>0, <1>7, <3>3, <4>2, Painted DEF Late, Turn
      <4>4. scratch' = {}
        BY <1>1, <4>1, <4>3
      <4>5. frame # "result" => phase' # "quiet"
        BY <1>0, <4>1, Painted
      <4> QED BY <4>1, <4>4, <4>5 DEF Over
    <3> QED BY <3>1, <3>2, <3>3
  <2> QED BY <2>1, <2>2, <2>3, <2>4 DEF Owned, Between
<1>8. Between'
  BY <1>7 DEF Between
<1>9. \A s \in Submits : OwnTurn(s)'
  BY <1>6 DEF OwnTurn
<1> QED BY <1>8, <1>9 DEF Owned

LEMMA OwnedKept == Owned /\ [Next]_vars /\ Calm' /\ ~mingled' => Owned'
<1> SUFFICES ASSUME Calm', ~mingled', Owned, [Next]_vars PROVE Owned'
  OBVIOUS
<1> USE DEF stateVars, controlVars, callVars, screenVars, historyVars
<1>0. Base /\ Base' /\ \A s \in Submits : OwnTurn(s)
  BY BaseKept DEF Owned
<1>1. CASE UNCHANGED vars \/ Interrupt \/ Kill \/ Approve \/ RawWrite \/ PtyExit
  <2>1. UNCHANGED <<pc, listener, heard, queue, printed, scratch>>
        /\ (phase' = phase \/ (phase = "asking" /\ phase' = "thinking"))
    <3>1. CASE Approve \/ RawWrite
      BY <1>0, <3>1, CalmKeys DEF Base
    <3>2. CASE Interrupt
      BY <3>2 DEF Interrupt, PressEscape
    <3>3. CASE ~Approve /\ ~RawWrite /\ ~Interrupt
      BY <1>1, <3>3 DEF vars, Kill, PtyExit
    <3> QED BY <3>1, <3>2, <3>3
  <2>2. \A s \in Submits : OwnTurn(s)'
    BY <1>0, <2>1 DEF OwnTurn, Late, Clean, Quiet, Turn
  <2>3. Between'
    BY <2>1 DEF Owned, Between, Over, Late, Clean, Quiet, Turn
  <2> QED BY <1>0, <2>2, <2>3 DEF Owned
<1>2. ASSUME NEW u \in Submits,
             SubmitRefused(u) \/ Submit(u) \/ SubmitInterrupts(u) \/ Timers(u)
      PROVE  Owned'
  <2>1. ASSUME NEW s \in Submits PROVE OwnTurn(s)'
    <3>1. CASE \E t \in Submits \ {s} : Late(t)
      BY <1>0, <3>1, LateForGood DEF OwnTurn
    <3>2. CASE ~\E t \in Submits \ {s} : Late(t)
      BY <1>0, <1>2, <3>2, CallKeepsOwnTurn, OthersKeepOwnTurn DEF Calm
    <3> QED BY <3>1, <3>2
  <2>2. Between'
    <3>1. CASE \E t \in Submits : Late(t) \/ Late(t)'
      BY <1>0, <3>1, LateForGood DEF Between
    <3>2. CASE ~\E t \in Submits : Late(t) \/ Late(t)'
      BY <1>0, <1>2, <3>2, CallKeepsBetween DEF Calm
    <3> QED BY <3>1, <3>2
  <2> QED BY <1>0, <2>1, <2>2 DEF Owned
<1>3. ASSUME NEW frame \in Frames, PtyData(frame) PROVE Owned'
  BY <1>0, <1>3, DataKeepsOwned
<1>4. ASSUME NEW frame \in {"message", "mode"}, NeighbourData(frame) PROVE Owned'
  <2>1. UNCHANGED <<pc, listener, heard, queue, printed, scratch, phase>>
    BY <1>4 DEF NeighbourData
  <2>2. \A s \in Submits : OwnTurn(s)'
    BY <1>0, <2>1 DEF OwnTurn, Late, Clean, Quiet, Turn
  <2>3. Between'
    BY <2>1 DEF Owned, Between, Over, Late, Clean, Quiet, Turn
  <2> QED BY <1>0, <2>2, <2>3 DEF Owned
<1> QED BY <1>1, <1>2, <1>3, <1>4 DEF Next

LEMMA MingledForGood == TypeOK /\ [Next]_vars /\ ~mingled' => ~mingled
<1> SUFFICES ASSUME TypeOK, [Next]_vars, ~mingled' PROVE ~mingled
  OBVIOUS
<1> USE DEF stateVars, controlVars, callVars, screenVars, historyVars
<1>1. ASSUME NEW s \in Submits,
             SubmitRefused(s) \/ Submit(s) \/ SubmitInterrupts(s) \/ Timers(s)
      PROVE  ~mingled
  BY <1>1 DEF SubmitRefused, Submit, SubmitInterrupts, Comes, Timers,
     SubmitAfterInterrupt, ReadyTimeout, BannerSettled, TypePrompt, EnterPrompt,
     MessageTimeout
<1>2. CASE UNCHANGED vars \/ Interrupt \/ Approve \/ RawWrite \/ Kill \/ PtyExit
  BY <1>2 DEF vars, Interrupt, Approve, RawWrite, MeetPrompt, Kill, PtyExit
<1>3. ASSUME NEW frame \in Frames, PtyData(frame) PROVE ~mingled
  BY <1>3 DEF PtyData
<1>4. ASSUME NEW frame \in {"message", "mode"}, NeighbourData(frame) PROVE ~mingled
  BY <1>4 DEF NeighbourData
<1> QED BY <1>1, <1>2, <1>3, <1>4 DEF Next

(* A submit is handed the answer of its own prompt, unless another one     *)
(* gave up or did not wait, its turn said more than one thing, or          *)
(* something else came between: submits under way together, stray keys at  *)
(* the prompt, or another agent's screen in the parser. Callers, program   *)
(* and the other agents may do any of it.                                  *)
THEOREM PtyForeignAnswerIsLate == Spec => []ForeignAnswerIsLate
<1> DEFINE Inv == TypeOK /\ Working /\ (Calm /\ ~mingled => Owned)
<1>1. Init => Inv
  BY InitBase, InitTyped DEF Init, Owned, Between, Over, Clean, Quiet, OwnTurn, Early
<1>2. Inv => ForeignAnswerIsLate
  <2> SUFFICES ASSUME Inv, NEW s \in Submits, pc[s] = "answered", heard[s] # {s},
                      ~overlapped, ~mingled, ~(strays > 0)
               PROVE  \E t \in Submits \ {s} : Late(t)
    BY DEF ForeignAnswerIsLate, Late
  <2>1. strays \in Nat
    BY PtyAssumption DEF TypeOK
  <2> QED BY <2>1 DEF Calm, Owned, OwnTurn
<1>3. Inv /\ [Next]_vars => Inv'
  BY OwnedKept, TypeKept, CalmBefore, MingledForGood
<1> HIDE DEF Inv
<1> QED BY <1>1, <1>2, <1>3, PTL DEF Spec

-----------------------------------------------------------------------------
(* The claude parser                                                       *)

CONSTANTS
  Newline,
  Letters       \* besides the end of a line

VARIABLES parser, published, painted

Strings == Seq(Letters \cup {Newline})

States ==
  [capturing : BOOLEAN, buf : Strings, last : Strings, activity : BOOLEAN,
   blocking : BOOLEAN, status : {"starting", "idle", "busy", "blocked"}]

(* Every chunk: the marker takes the blanks behind it.                     *)
Chunks ==
  { frame \in [activity : BOOLEAN, result : BOOLEAN, block : BOOLEAN, prompt : BOOLEAN,
               kind : {"empty", "marker", "status", "other"}, text : Strings,
               before : Strings, cut : BOOLEAN] :
      frame.kind = "marker" => frame.text = <<>> \/ Head(frame.text) # Newline }

S == INSTANCE ClaudeScreen

-----------------------------------------------------------------------------
(* What every step of the parser keeps to: it publishes nothing or a text  *)
(* other than the last one, which it then remembers.                       *)
Publishes(p, r) ==
  /\ r.state \in States /\ r.message \in Strings
  /\ IF r.message = <<>> THEN r.state.last = p.last
     ELSE r.message # p.last /\ r.state.last = r.message

LEMMA Trimmed == ASSUME NEW t \in Strings PROVE S!Trim(t) \in Strings
BY DEF S!Trim, Strings

LEMMA FirstTextIs ==
  ASSUME NEW frame \in Chunks
  PROVE  /\ S!FirstText(frame) \in Strings
         /\ frame.kind = "marker" /\ S!OpensChunk(frame) => S!FirstText(frame) = frame.text
<1>1. frame.text \in Strings /\ frame.before \in Strings
  BY DEF Chunks
<1>2. frame.before \o frame.text \in Strings
  BY <1>1 DEF Strings
<1>3. S!FirstText(frame) \in Strings
  BY <1>1, <1>2, Trimmed DEF S!FirstText
<1>4. ASSUME frame.kind = "marker", S!OpensChunk(frame)
      PROVE  S!FirstText(frame) = frame.text
  <2>1. frame.before = <<>> /\ ~frame.cut
    BY <1>4 DEF S!OpensChunk
  <2>2. <<>> \o frame.text = frame.text
    BY <1>1 DEF Strings
  <2>3. S!Trim(frame.text) = frame.text
    BY <1>4 DEF S!Trim, Chunks
  <2> QED BY <2>1, <2>2, <2>3 DEF S!FirstText
<1> QED BY <1>3, <1>4

LEMMA FinalizedIsNew ==
  ASSUME NEW p \in States
  PROVE  S!Finalized(p) \in Strings /\ (S!Finalized(p) = <<>> \/ S!Finalized(p) # p.last)
<1>1. p.buf \in Strings
  BY DEF States
<1>2. <<>> \in Strings
  BY DEF Strings
<1> QED BY <1>1, <1>2, Trimmed DEF S!Finalized

LEMMA MarkerPublishes ==
  ASSUME NEW p \in States, NEW text \in Strings
  PROVE  Publishes(p, S!ParseMarker(p, text))
<1>1. <<>> \in Strings
  BY DEF Strings
<1>2. S!Longer(text, p.buf) \in Strings
  BY DEF S!Longer, States
<1>3. CASE p.capturing /\ p.buf # <<>> /\ S!SameMessage(p.buf, text)
  BY <1>1, <1>2, <1>3 DEF S!ParseMarker, Publishes, States
<1>4. CASE p.capturing /\ p.buf # <<>> /\ ~S!SameMessage(p.buf, text)
  BY <1>1, <1>4, FinalizedIsNew DEF S!ParseMarker, Publishes, S!Published, States
<1>5. CASE ~(p.capturing /\ p.buf # <<>>)
  BY <1>1, <1>5 DEF S!ParseMarker, Publishes, States
<1> QED BY <1>3, <1>4, <1>5

LEMMA StatusLinePublishes ==
  ASSUME NEW p \in States
  PROVE  Publishes(p, S!ParseStatusLine(p))
<1>1. <<>> \in Strings
  BY DEF Strings
<1>2. CASE p.capturing
  BY <1>1, <1>2, FinalizedIsNew DEF S!ParseStatusLine, Publishes, S!Published, States
<1>3. CASE ~p.capturing
  BY <1>1, <1>3 DEF S!ParseStatusLine, Publishes, States
<1> QED BY <1>2, <1>3

LEMMA ContinuationPublishes ==
  ASSUME NEW p \in States, NEW text \in Strings
  PROVE  Publishes(p, S!ParseContinuation(p, text))
<1>1. <<>> \in Strings /\ p.buf \o <<Newline>> \o text \in Strings
  BY DEF Strings, States
<1> QED BY <1>1 DEF S!ParseContinuation, Publishes, States

LEMMA MessagePublishes ==
  ASSUME NEW p \in States, NEW frame \in Chunks, frame.kind # "empty"
  PROVE  Publishes(p, S!ParseMessage(p, frame))
<1>1. frame.text \in Strings /\ frame.kind \in {"marker", "status", "other"}
  BY DEF Chunks
<1>2. S!FirstText(frame) \in Strings
  BY FirstTextIs
<1> QED BY <1>1, <1>2, MarkerPublishes, StatusLinePublishes, ContinuationPublishes
  DEF S!ParseMessage

LEMMA FeedPublishes ==
  ASSUME NEW p \in States, NEW frame \in Chunks
  PROVE  Publishes(p, S!Feed(p, frame))
<1>1. CASE frame.kind = "empty"
  <2>1. <<>> \in Strings
    BY DEF Strings
  <2>2. Publishes(p, [state |-> p, message |-> <<>>])
    BY <2>1 DEF Publishes
  <2> QED BY <1>1, <2>2, StatusLinePublishes DEF S!Feed, S!ParseEmpty
<1>2. CASE frame.kind # "empty"
  <2> DEFINE q == S!ParseSpinner(p, frame)
             r == S!ParseMessage(q, frame)
             next == S!ParseBlocking(r.state, frame)
             shownAs == S!StatusOf(next, frame)
  <2>1. q \in States /\ q.last = p.last
    BY DEF S!ParseSpinner, States, Chunks
  <2>2. Publishes(q, r)
    BY <1>2, <2>1, MessagePublishes
  <2>3. r.message = <<>> \/ frame.kind = "marker" \/ (frame.kind = "status" /\ p.capturing)
    <3>1. q.capturing = p.capturing
      BY DEF S!ParseSpinner, States
    <3> QED BY <1>2, <3>1 DEF S!ParseMessage, S!ParseStatusLine, S!ParseContinuation, Chunks
  <2> HIDE DEF q, r
  <2>4. next \in States /\ next.last = r.state.last
    BY <2>2 DEF Publishes, S!ParseBlocking, States
  <2> HIDE DEF next
  <2>5. shownAs \in {"starting", "idle", "busy", "blocked"}
    BY <2>4 DEF S!StatusOf, States
  <2> HIDE DEF shownAs
  <2> DEFINE kept == [p EXCEPT !.capturing = next.capturing, !.buf = next.buf]
             shown == [next EXCEPT !.status = shownAs]
  <2>6. S!Feed(p, frame) = [state |-> shown, message |-> r.message]
        \/ (S!Feed(p, frame) = [state |-> kept, message |-> r.message] /\ r.message = <<>>)
    BY <1>2, <2>3 DEF S!Feed, q, r, next, shownAs
  <2>7. shown \in States /\ shown.last = r.state.last
    BY <2>4, <2>5 DEF States
  <2>8. kept \in States /\ kept.last = p.last
    BY <2>4 DEF States
  <2> HIDE DEF kept, shown
  <2>9. CASE S!Feed(p, frame) = [state |-> shown, message |-> r.message]
    BY <2>1, <2>2, <2>7, <2>9 DEF Publishes
  <2>10. CASE S!Feed(p, frame) = [state |-> kept, message |-> r.message] /\ r.message = <<>>
    BY <2>2, <2>8, <2>10 DEF Publishes
  <2> QED BY <2>6, <2>9, <2>10
<1> QED BY <1>1, <1>2

-----------------------------------------------------------------------------
(* last is the last message published.                                     *)
Remembers ==
  /\ parser \in States
  /\ published \in Seq(Strings)
  /\ published # <<>> => parser.last = published[Len(published)]

NoneTwice == \A i \in DOMAIN published : i > 1 => published[i] # published[i - 1]

LEMMA ParserInitially == S!Init => Remembers /\ NoneTwice
<1> SUFFICES ASSUME S!Init PROVE Remembers /\ NoneTwice
  OBVIOUS
<1>1. parser \in States
  BY DEF S!Init, S!InitialState, States, Strings
<1> QED BY <1>1 DEF S!Init, Remembers, NoneTwice

LEMMA FedKeeps ==
  ASSUME Remembers, NoneTwice, NEW frame \in Chunks, S!Fed(frame)
  PROVE  Remembers' /\ NoneTwice'
<1> DEFINE r == S!Feed(parser, frame)
<1>1. parser \in States /\ published \in Seq(Strings)
  BY DEF Remembers
<1>2. Publishes(parser, r)
  BY <1>1, FeedPublishes
<1>3. /\ parser' = r.state
      /\ published' = IF r.message = <<>> THEN published ELSE Append(published, r.message)
  BY DEF S!Fed
<1> HIDE DEF r
<1>4. CASE r.message = <<>>
  <2>1. published' = published /\ parser' \in States /\ parser'.last = parser.last
    BY <1>2, <1>3, <1>4 DEF Publishes
  <2> QED BY <2>1 DEF Remembers, NoneTwice
<1>5. CASE r.message # <<>>
  <2>1. /\ published' = Append(published, r.message) /\ r.message \in Strings
        /\ parser' \in States /\ parser'.last = r.message /\ r.message # parser.last
    BY <1>2, <1>3, <1>5 DEF Publishes
  <2>2. published' \in Seq(Strings) /\ Len(published') = Len(published) + 1
    BY <1>1, <2>1
  <2>3. published'[Len(published')] = r.message
    BY <1>1, <2>1, <2>2
  <2>4. NoneTwice'
    <3> SUFFICES ASSUME NEW i \in 1..Len(published'), i > 1
                 PROVE  published'[i] # published'[i - 1]
      BY <2>2 DEF NoneTwice
    <3>1. CASE i = Len(published')
      <4>1. published'[i - 1] = published[Len(published)] /\ published # <<>>
        BY <1>1, <2>1, <2>2, <3>1
      <4> QED BY <2>1, <2>3, <3>1, <4>1 DEF Remembers
    <3>2. CASE i # Len(published')
      <4>1. /\ i \in DOMAIN published
            /\ published'[i] = published[i] /\ published'[i - 1] = published[i - 1]
        BY <1>1, <2>1, <2>2, <3>2
      <4> QED BY <4>1 DEF NoneTwice
    <3> QED BY <3>1, <3>2
  <2> QED BY <2>1, <2>2, <2>3, <2>4 DEF Remembers
<1> QED BY <1>4, <1>5

(* "the same message got emitted once per redraw": whatever the screen is  *)
(* redrawn with, a message is not published twice in a row.                *)
THEOREM ParserPublishesNoneTwice == S!Spec => []NoneTwice
<1>1. S!Init => Remembers /\ NoneTwice
  BY ParserInitially
<1>2. (Remembers /\ NoneTwice) /\ [S!Next]_(S!vars) => (Remembers /\ NoneTwice)'
  <2> SUFFICES ASSUME Remembers, NoneTwice, [S!Next]_(S!vars)
               PROVE  (Remembers /\ NoneTwice)'
    OBVIOUS
  <2>1. CASE UNCHANGED S!vars
    BY <2>1 DEF Remembers, NoneTwice, S!vars
  <2>2. CASE S!Next
    BY <2>2, FedKeeps DEF S!Next
  <2> QED BY <2>1, <2>2
<1> QED BY <1>1, <1>2, PTL DEF S!Spec

-----------------------------------------------------------------------------
StatusShown(p) ==
  /\ p.activity => p.status = "busy"
  /\ p.blocking /\ ~p.activity => p.status = "blocked"

LEMMA FeedShows ==
  ASSUME NEW p \in States, StatusShown(p), NEW frame \in Chunks
  PROVE  StatusShown(S!Feed(p, frame).state)
<1>1. CASE frame.kind = "empty"
  <2>1. StatusShown(S!ParseStatusLine(p).state)
    BY DEF S!ParseStatusLine, S!Published, States, StatusShown
  <2> QED BY <1>1, <2>1 DEF S!Feed, S!ParseEmpty
<1>2. CASE frame.kind # "empty"
  <2> DEFINE q == S!ParseSpinner(p, frame)
             r == S!ParseMessage(q, frame)
             next == S!ParseBlocking(r.state, frame)
             shownAs == S!StatusOf(next, frame)
             kept == [p EXCEPT !.capturing = next.capturing, !.buf = next.buf]
             shown == [next EXCEPT !.status = shownAs]
  <2>1. q \in States
    BY DEF S!ParseSpinner, States, Chunks
  <2>2. r.state \in States
    BY <1>2, <2>1, MessagePublishes DEF Publishes
  <2> HIDE DEF q, r
  <2>3. next \in States
    BY <2>2 DEF S!ParseBlocking, States
  <2> HIDE DEF next
  <2>4. shownAs \in {"starting", "idle", "busy", "blocked"}
        /\ (next.activity => shownAs = "busy")
        /\ (next.blocking /\ ~next.activity => shownAs = "blocked")
    BY <2>3 DEF S!StatusOf, States
  <2> HIDE DEF shownAs
  <2>5. StatusShown(shown)
    BY <2>3, <2>4 DEF StatusShown, States
  <2>6. StatusShown(kept)
    BY DEF StatusShown, States
  <2> HIDE DEF kept, shown
  <2>7. S!Feed(p, frame).state = shown \/ S!Feed(p, frame).state = kept
    BY <1>2 DEF S!Feed, q, r, next, shownAs, shown, kept
  <2> QED BY <2>5, <2>6, <2>7
<1> QED BY <1>1, <1>2

(* Between two frames the agent is busy if and as long as the spinner is   *)
(* on, and else blocked if a question is open, however frames are combined *)
(* and chunks without any news come in between.                            *)
THEOREM ParserStatusIsShown == S!Spec => []StatusShown(parser)
<1> DEFINE I == parser \in States /\ StatusShown(parser)
<1>1. S!Init => I
  BY ParserInitially DEF S!Init, S!InitialState, Remembers, StatusShown
<1>2. I /\ [S!Next]_(S!vars) => I'
  <2> SUFFICES ASSUME parser \in States, StatusShown(parser), [S!Next]_(S!vars)
               PROVE  parser' \in States /\ StatusShown(parser')
    OBVIOUS
  <2>1. CASE UNCHANGED S!vars
    BY <2>1 DEF S!vars
  <2>2. ASSUME NEW frame \in Chunks, S!Fed(frame)
        PROVE  parser' \in States /\ StatusShown(parser')
    BY <2>2, FeedPublishes, FeedShows DEF S!Fed, Publishes
  <2> QED BY <2>1, <2>2 DEF S!Next
<1> QED BY <1>1, <1>2, PTL DEF S!Spec

-----------------------------------------------------------------------------
(* What is painted is published                                            *)

LEMMA PrefixIs ==
  ASSUME NEW s \in Strings, NEW t \in Strings
  PROVE  S!IsPrefix(s, t) <=> /\ Len(s) <= Len(t)
                              /\ \A i \in 1..Len(s) : s[i] = t[i]
<1>1. Len(s) \in Nat /\ Len(t) \in Nat /\ s \in Seq(Letters \cup {Newline})
      /\ t \in Seq(Letters \cup {Newline})
  BY DEF Strings
<1>2. ASSUME Len(s) <= Len(t)
      PROVE  SubSeq(s, 1, Len(s)) = SubSeq(t, 1, Len(s)) <=> \A i \in 1..Len(s) : s[i] = t[i]
  <2>1. SubSeq(s, 1, Len(s)) = [i \in 1..Len(s) |-> s[i]]
    BY <1>1
  <2>2. SubSeq(t, 1, Len(s)) = [i \in 1..Len(s) |-> t[i]]
    BY <1>1, <1>2
  <2> QED BY <2>1, <2>2
<1> QED BY <1>2 DEF S!IsPrefix

LEMMA PrefixTrans ==
  ASSUME NEW s \in Strings, NEW t \in Strings, NEW u \in Strings,
         S!IsPrefix(s, t), S!IsPrefix(t, u)
  PROVE  S!IsPrefix(s, u)
<1>1. Len(s) \in Nat /\ Len(t) \in Nat /\ Len(u) \in Nat
  BY DEF Strings
<1> QED BY <1>1, PrefixIs

(* A longer text is still longer when both are trimmed.                    *)
LEMMA TrimKeepsPrefix ==
  ASSUME NEW s \in Strings, NEW t \in Strings, s # <<>>, S!IsPrefix(s, t)
  PROVE  S!IsPrefix(S!Trim(s), S!Trim(t))
<1>1. /\ s \in Seq(Letters \cup {Newline}) /\ t \in Seq(Letters \cup {Newline})
      /\ Len(s) \in Nat \ {0} /\ Len(t) \in Nat
      /\ Len(s) <= Len(t) /\ \A i \in 1..Len(s) : s[i] = t[i]
  BY PrefixIs DEF Strings
<1>2. t # <<>> /\ Head(s) = s[1] /\ Head(t) = t[1] /\ s[1] = t[1]
  BY <1>1
<1>3. CASE Head(s) # Newline
  BY <1>2, <1>3 DEF S!Trim
<1>4. CASE Head(s) = Newline
  <2>1. S!Trim(s) = Tail(s) /\ S!Trim(t) = Tail(t) /\ Tail(s) \in Strings /\ Tail(t) \in Strings
    BY <1>1, <1>2, <1>4 DEF S!Trim, Strings
  <2>2. Len(Tail(s)) = Len(s) - 1 /\ Len(Tail(t)) = Len(t) - 1
    BY <1>1, <1>2
  <2>3. \A i \in 1..Len(Tail(s)) : Tail(s)[i] = Tail(t)[i]
    <3>1. ASSUME NEW i \in 1..(Len(s) - 1) PROVE Tail(s)[i] = Tail(t)[i]
      <4>1. i + 1 \in 1..Len(s) /\ i \in 1..(Len(t) - 1)
        BY <1>1, <3>1
      <4>2. Tail(s)[i] = s[i + 1] /\ Tail(t)[i] = t[i + 1]
        BY <1>1, <1>2, <3>1, <4>1
      <4> QED BY <1>1, <4>1, <4>2
    <3> QED BY <2>2, <3>1
  <2>4. Len(Tail(s)) <= Len(Tail(t))
    BY <1>1, <2>2
  <2> QED BY <2>1, <2>3, <2>4, PrefixIs
<1> QED BY <1>3, <1>4

LEMMA PrefixOfJoined ==
  ASSUME NEW s \in Strings, NEW t \in Strings
  PROVE  s \o t \in Strings /\ S!IsPrefix(s, s \o t)
<1>1. /\ s \o t \in Seq(Letters \cup {Newline}) /\ Len(s) \in Nat /\ Len(t) \in Nat
      /\ Len(s \o t) = Len(s) + Len(t)
      /\ \A i \in 1..Len(s) : (s \o t)[i] = s[i]
  BY DEF Strings
<1>2. s \o t \in Strings /\ Len(s) <= Len(s \o t)
  BY <1>1 DEF Strings
<1> QED BY <1>1, <1>2, PrefixIs

LEMMA NothingBegins ==
  ASSUME NEW t \in Strings
  PROVE  /\ <<>> \in Strings /\ S!IsPrefix(<<>>, t) /\ S!IsPrefix(t, t)
         /\ S!IsPrefix(t, <<>>) => t = <<>>
<1>1. <<>> \in Strings /\ Len(<<>>) = 0 /\ Len(t) \in Nat /\ (Len(t) = 0 => t = <<>>)
  BY DEF Strings
<1> QED BY <1>1, PrefixIs

(* What a step of the parser does to a text in its buffer: it stays, or it *)
(* is published, or it is what was published last.                         *)
StillThere(p, r, t) ==
  \/ S!IsPrefix(t, S!Trim(r.state.buf))
  \/ S!IsPrefix(t, r.message)
  \/ S!IsPrefix(t, p.last)

(* Without a message that is captured there is no text.                    *)
Tidy(p) == p.capturing \/ p.buf = <<>>

Keeps(p, r) ==
  /\ Tidy(r.state)
  /\ \A t \in Strings : S!IsPrefix(t, S!Trim(p.buf)) => StillThere(p, r, t)

LEMMA FinalizedKeeps ==
  ASSUME NEW p \in States, NEW t \in Strings, S!IsPrefix(t, S!Trim(p.buf))
  PROVE  S!IsPrefix(t, S!Finalized(p)) \/ S!IsPrefix(t, p.last)
BY DEF S!Finalized

LEMMA MarkerKeeps ==
  ASSUME NEW p \in States, Tidy(p), NEW text \in Strings
  PROVE  LET r == S!ParseMarker(p, text)
         IN  Keeps(p, r) /\ S!IsPrefix(S!Trim(text), S!Trim(r.state.buf))
<1> DEFINE r == S!ParseMarker(p, text)
           b == p.buf
<1>1. b \in Strings /\ Len(b) \in Nat /\ Len(text) \in Nat /\ S!Trim(text) \in Strings
      /\ S!Trim(b) \in Strings
  BY Trimmed DEF States, Strings
<1>2. \A s \in Strings : S!IsPrefix(s, s)
  BY NothingBegins
<1>3. CASE p.capturing /\ b # <<>> /\ S!SameMessage(b, text)
  <2> DEFINE l == S!Longer(text, b)
  <2>1. r.state.buf = l /\ r.state.capturing = p.capturing
    BY <1>3 DEF S!ParseMarker, States
  <2>2. (l = text \/ l = b) /\ l \in Strings
    BY <1>1 DEF S!Longer
  <2>3. S!IsPrefix(b, l) /\ S!IsPrefix(text, l)
    <3>1. CASE l = text /\ Len(text) > Len(b)
      <4>1. S!IsPrefix(b, text)
        <5>1. S!IsPrefix(text, b) => Len(text) <= Len(b)
          BY <1>1, PrefixIs
        <5> QED BY <1>1, <1>3, <3>1, <5>1 DEF S!SameMessage
      <4> QED BY <1>2, <3>1, <4>1
    <3>2. CASE l = b /\ Len(text) <= Len(b)
      <4>1. CASE S!IsPrefix(text, b)
        BY <1>1, <1>2, <3>2, <4>1
      <4>2. CASE S!IsPrefix(b, text)
        <5>1. Len(b) <= Len(text) /\ \A i \in 1..Len(b) : b[i] = text[i]
          BY <1>1, <4>2, PrefixIs
        <5>2. \A i \in 1..Len(text) : text[i] = b[i]
          BY <1>1, <3>2, <5>1
        <5>3. S!IsPrefix(text, b)
          BY <1>1, <3>2, <5>2, PrefixIs
        <5> QED BY <1>1, <1>2, <3>2, <5>3
      <4> QED BY <1>3, <4>1, <4>2 DEF S!SameMessage
    <3> QED BY <1>1, <3>1, <3>2 DEF S!Longer
  <2> HIDE DEF l
  <2>4. S!Trim(l) \in Strings /\ S!IsPrefix(S!Trim(b), S!Trim(l))
    BY <1>1, <1>3, <2>2, <2>3, TrimKeepsPrefix, Trimmed
  <2>5. S!IsPrefix(S!Trim(text), S!Trim(l))
    <3>1. CASE text = <<>>
      <4>1. S!Trim(text) = <<>>
        BY <3>1 DEF S!Trim
      <4> QED BY <2>4, <4>1, NothingBegins
    <3>2. CASE text # <<>>
      BY <2>2, <2>3, <3>2, TrimKeepsPrefix
    <3> QED BY <3>1, <3>2
  <2>6. \A t \in Strings : S!IsPrefix(t, S!Trim(b)) => S!IsPrefix(t, S!Trim(l))
    BY <1>1, <2>4, PrefixTrans
  <2> QED BY <1>3, <2>1, <2>5, <2>6 DEF Keeps, StillThere, Tidy
<1>4. CASE p.capturing /\ b # <<>> /\ ~S!SameMessage(b, text)
  <2>1. r.state.buf = text /\ r.state.capturing = p.capturing /\ r.message = S!Finalized(p)
    BY <1>4 DEF S!ParseMarker, S!Published, States
  <2> QED BY <1>1, <1>2, <1>4, <2>1, FinalizedKeeps DEF Keeps, StillThere, Tidy
<1>5. CASE ~(p.capturing /\ b # <<>>)
  <2>1. b = <<>>
    BY <1>5 DEF Tidy
  <2>2. r.state.buf = text /\ r.state.capturing = TRUE
    BY <1>5 DEF S!ParseMarker, States
  <2>3. \A t \in Strings : S!IsPrefix(t, S!Trim(b)) => S!IsPrefix(t, S!Trim(text))
    <3>1. S!Trim(b) = <<>>
      BY <2>1 DEF S!Trim
    <3> QED BY <1>1, <3>1, NothingBegins
  <2> QED BY <1>1, <1>2, <2>2, <2>3 DEF Keeps, StillThere, Tidy
<1> QED BY <1>3, <1>4, <1>5

LEMMA StatusLineKeeps ==
  ASSUME NEW p \in States, Tidy(p)
  PROVE  Keeps(p, S!ParseStatusLine(p))
<1>1. CASE p.capturing
  <2>1. /\ S!ParseStatusLine(p).state.buf = <<>>
        /\ S!ParseStatusLine(p).message = S!Finalized(p)
    BY <1>1 DEF S!ParseStatusLine, S!Published, States
  <2> QED BY <2>1, FinalizedKeeps DEF Keeps, StillThere, Tidy
<1>2. CASE ~p.capturing
  <2>1. S!ParseStatusLine(p).state = p
    BY <1>2 DEF S!ParseStatusLine
  <2> QED BY <2>1 DEF Keeps, StillThere
<1> QED BY <1>1, <1>2

LEMMA ContinuationKeeps ==
  ASSUME NEW p \in States, Tidy(p), NEW text \in Strings
  PROVE  Keeps(p, S!ParseContinuation(p, text))
<1> DEFINE r == S!ParseContinuation(p, text)
           b == p.buf
           more == b \o <<Newline>> \o text
<1>1. CASE p.capturing
  <2>1. b \in Strings /\ <<Newline>> \in Strings
    BY DEF States, Strings
  <2>2. more \in Strings /\ S!IsPrefix(b, more)
    <3>1. b \o <<Newline>> \in Strings /\ S!IsPrefix(b, b \o <<Newline>>)
      BY <2>1, PrefixOfJoined
    <3>2. more \in Strings /\ S!IsPrefix(b \o <<Newline>>, more)
      BY <3>1, PrefixOfJoined
    <3> QED BY <2>1, <3>1, <3>2, PrefixTrans
  <2>3. r.state.buf = more /\ r.state.capturing
    BY <1>1 DEF S!ParseContinuation, States
  <2> HIDE DEF more
  <2>4. S!Trim(b) \in Strings /\ S!Trim(more) \in Strings
    BY <2>1, <2>2, Trimmed
  <2>5. S!IsPrefix(S!Trim(b), S!Trim(more))
    <3>1. CASE b = <<>>
      <4>1. S!Trim(b) = <<>>
        BY <3>1 DEF S!Trim
      <4> QED BY <2>4, <4>1, NothingBegins
    <3>2. CASE b # <<>>
      BY <2>1, <2>2, <3>2, TrimKeepsPrefix
    <3> QED BY <3>1, <3>2
  <2>6. \A t \in Strings : S!IsPrefix(t, S!Trim(b)) => S!IsPrefix(t, S!Trim(more))
    BY <2>4, <2>5, PrefixTrans
  <2> QED BY <2>3, <2>6 DEF Keeps, StillThere, Tidy
<1>2. CASE ~p.capturing
  <2>1. r.state = p
    BY <1>2 DEF S!ParseContinuation
  <2> QED BY <2>1 DEF Keeps, StillThere
<1> QED BY <1>1, <1>2

LEMMA FeedKeepsTexts ==
  ASSUME NEW p \in States, Tidy(p), NEW frame \in Chunks
  PROVE  /\ Keeps(p, S!Feed(p, frame))
         /\ frame.kind = "marker" /\ S!OpensChunk(frame) =>
              S!IsPrefix(frame.text, S!Trim(S!Feed(p, frame).state.buf))
<1>1. CASE frame.kind = "empty"
  <2>1. Keeps(p, [state |-> p, message |-> <<>>])
    BY DEF Keeps, StillThere
  <2> QED BY <1>1, <2>1, StatusLineKeeps DEF S!Feed, S!ParseEmpty
<1>2. CASE frame.kind # "empty"
  <2> DEFINE q == S!ParseSpinner(p, frame)
             r == S!ParseMessage(q, frame)
             next == S!ParseBlocking(r.state, frame)
             shownAs == S!StatusOf(next, frame)
             f == S!Feed(p, frame)
  <2>1. q \in States /\ q.last = p.last /\ q.buf = p.buf /\ q.capturing = p.capturing
    BY DEF S!ParseSpinner, States, Chunks
  <2>2. Tidy(q) /\ frame.text \in Strings /\ frame.kind \in {"marker", "status", "other"}
    BY <1>2, <2>1 DEF Tidy, Chunks
  <2>12. /\ S!FirstText(frame) \in Strings
         /\ frame.kind = "marker" /\ S!OpensChunk(frame) =>
              S!Trim(S!FirstText(frame)) = frame.text
    <3>1. S!Trim(frame.text) = frame.text \/ frame.kind # "marker"
      BY DEF S!Trim, Chunks
    <3> QED BY <3>1, FirstTextIs
  <2>3. /\ Keeps(q, r)
        /\ frame.kind = "marker" =>
             S!IsPrefix(S!Trim(S!FirstText(frame)), S!Trim(r.state.buf))
    BY <2>1, <2>2, <2>12, MarkerKeeps, StatusLineKeeps, ContinuationKeeps DEF S!ParseMessage
  <2>4. r.state \in States
    BY <1>2, <2>1, MessagePublishes DEF Publishes
  <2> HIDE DEF q, r
  <2>5. next \in States /\ next.buf = r.state.buf /\ next.capturing = r.state.capturing
    BY <2>4 DEF S!ParseBlocking, States
  <2> HIDE DEF next
  <2>6. \/ f = [state |-> [next EXCEPT !.status = shownAs], message |-> r.message]
        \/ f = [state |-> [p EXCEPT !.capturing = next.capturing, !.buf = next.buf],
                message |-> r.message]
    BY <1>2 DEF S!Feed, q, r, next
  <2> DEFINE shown == [next EXCEPT !.status = shownAs]
             kept == [p EXCEPT !.capturing = next.capturing, !.buf = next.buf]
  <2>9. shown.buf = next.buf /\ shown.capturing = next.capturing
    BY <2>5 DEF States
  <2>10. kept.buf = next.buf /\ kept.capturing = next.capturing
    BY DEF States
  <2>11. f = [state |-> shown, message |-> r.message] \/ f = [state |-> kept, message |-> r.message]
    BY <2>6
  <2> HIDE DEF f, shown, kept
  <2>7. f.message = r.message /\ f.state.buf = r.state.buf /\ f.state.capturing = r.state.capturing
    BY <2>5, <2>9, <2>10, <2>11
  <2>8. /\ Keeps(p, f)
        /\ frame.kind = "marker" /\ S!OpensChunk(frame) =>
             S!IsPrefix(frame.text, S!Trim(f.state.buf))
    BY <2>1, <2>3, <2>7, <2>12 DEF Keeps, StillThere, Tidy
  <2> QED BY <2>8 DEF f
<1> QED BY <1>1, <1>2

PaintedTyped ==
  painted \subseteq [text : Strings, opens : BOOLEAN]

LostInv ==
  /\ Remembers /\ Tidy(parser)
  /\ published = <<>> => parser.last = <<>>
  /\ PaintedTyped
  /\ S!OpeningTextIsKept

LEMMA FedLosesNothing ==
  ASSUME LostInv, NEW frame \in Chunks, S!Fed(frame)
  PROVE  LostInv'
<1> DEFINE r == S!Feed(parser, frame)
<1>1. parser \in States /\ published \in Seq(Strings) /\ Tidy(parser)
  BY DEF LostInv, Remembers
<1>2. Publishes(parser, r)
  BY <1>1, FeedPublishes
<1>3. Keeps(parser, r)
      /\ (frame.kind = "marker" /\ S!OpensChunk(frame) =>
            S!IsPrefix(frame.text, S!Trim(r.state.buf)))
  BY <1>1, FeedKeepsTexts
<1>4. /\ parser' = r.state
      /\ published' = IF r.message = <<>> THEN published ELSE Append(published, r.message)
      /\ painted' = painted \cup
           IF frame.kind = "marker"
             THEN {[text |-> frame.text, opens |-> S!OpensChunk(frame)]} ELSE {}
  BY DEF S!Fed
<1> HIDE DEF r
<1>5. PaintedTyped'
  <2>1. frame.text \in Strings /\ S!OpensChunk(frame) \in BOOLEAN
    BY DEF Chunks, S!OpensChunk
  <2> QED BY <1>4, <2>1 DEF LostInv, PaintedTyped
<1>6. Remembers' /\ (published' = <<>> => parser'.last = <<>>)
  <2>1. CASE r.message = <<>>
    BY <1>2, <1>4, <2>1 DEF Publishes, LostInv, Remembers
  <2>2. CASE r.message # <<>>
    <3>1. /\ published' \in Seq(Strings) /\ published' # <<>>
          /\ published'[Len(published')] = r.message
      BY <1>1, <1>2, <1>4, <2>2 DEF Publishes
    <3> QED BY <1>2, <1>4, <2>2, <3>1 DEF Publishes, Remembers
  <2> QED BY <2>1, <2>2
<1>7. \A j \in DOMAIN published : j \in DOMAIN published' /\ published'[j] = published[j]
  BY <1>1, <1>2, <1>4 DEF Publishes
<1>8. r.message # <<>> => \E j \in DOMAIN published' : published'[j] = r.message
  <2> SUFFICES ASSUME r.message # <<>> PROVE \E j \in DOMAIN published' : published'[j] = r.message
    OBVIOUS
  <2>1. published' = Append(published, r.message) /\ r.message \in Strings
    BY <1>2, <1>4 DEF Publishes
  <2>2. Len(published) + 1 \in DOMAIN published' /\ published'[Len(published) + 1] = r.message
    BY <1>1, <2>1
  <2> QED BY <2>2
<1>9. ASSUME NEW m \in painted', m.opens
      PROVE  \/ S!IsPrefix(m.text, S!Trim(parser'.buf))
             \/ \E j \in DOMAIN published' : S!IsPrefix(m.text, published'[j])
  <2> DEFINE t == m.text
  <2>3. t \in Strings
    BY <1>5 DEF PaintedTyped
  <2>1. CASE m \in painted
    <3>1. \/ S!IsPrefix(t, S!Trim(parser.buf))
          \/ \E j \in DOMAIN published : S!IsPrefix(t, published[j])
      BY <1>9, <2>1 DEF LostInv, S!OpeningTextIsKept, S!Kept
    <3> HIDE DEF t
    <3> SUFFICES \/ S!IsPrefix(t, S!Trim(parser'.buf))
                 \/ \E j \in DOMAIN published' : S!IsPrefix(t, published'[j])
      BY DEF t
    <3>2. CASE t = <<>>
      <4>1. S!Trim(parser'.buf) \in Strings
        BY <1>2, <1>4, Trimmed DEF Publishes, States
      <4> QED BY <3>2, <4>1, NothingBegins
    <3>3. CASE t # <<>> /\ S!IsPrefix(t, S!Trim(parser.buf))
      <4>1. StillThere(parser, r, t)
        BY <1>3, <2>3, <3>3 DEF Keeps
      <4>2. CASE S!IsPrefix(t, S!Trim(r.state.buf))
        BY <1>4, <4>2
      <4>3. CASE S!IsPrefix(t, r.message)
        <5>1. r.message # <<>>
          BY <2>3, <3>3, <4>3, NothingBegins
        <5> QED BY <1>8, <4>3, <5>1
      <4>4. CASE S!IsPrefix(t, parser.last)
        <5>1. parser.last # <<>>
          BY <2>3, <3>3, <4>4, NothingBegins
        <5>2. published # <<>> /\ parser.last = published[Len(published)]
          BY <5>1 DEF LostInv, Remembers
        <5>3. Len(published) \in DOMAIN published
          BY <1>1, <5>2
        <5> QED BY <1>7, <4>4, <5>2, <5>3
      <4> QED BY <4>1, <4>2, <4>3, <4>4 DEF StillThere
    <3>4. CASE \E j \in DOMAIN published : S!IsPrefix(t, published[j])
      BY <1>7, <3>4
    <3> QED BY <3>1, <3>2, <3>3, <3>4
  <2>2. CASE m \notin painted
    BY <1>3, <1>4, <1>9, <2>2
  <2> QED BY <2>1, <2>2
<1>10. Tidy(parser')
  BY <1>3, <1>4 DEF Keeps
<1> QED BY <1>5, <1>6, <1>9, <1>10 DEF LostInv, S!OpeningTextIsKept, S!Kept

(* "long messages ... got truncated": no longer, if the marker opens its   *)
(* chunk. Whatever is redrawn, and however often, what stood behind such a *)
(* marker is the beginning of a message that was published, or still is in *)
(* the buffer.                                                             *)
THEOREM ParserLosesNothing == S!Spec => []S!OpeningTextIsKept
<1>1. S!Init => LostInv
  <2> SUFFICES ASSUME S!Init PROVE LostInv
    OBVIOUS
  <2>1. Remembers /\ Tidy(parser) /\ parser.last = <<>> /\ painted = {}
    BY ParserInitially DEF S!Init, S!InitialState, Tidy
  <2> QED BY <2>1 DEF LostInv, PaintedTyped, S!OpeningTextIsKept
<1>2. LostInv /\ [S!Next]_(S!vars) => LostInv'
  <2> SUFFICES ASSUME LostInv, [S!Next]_(S!vars) PROVE LostInv'
    OBVIOUS
  <2>1. CASE UNCHANGED S!vars
    BY <2>1 DEF S!vars, LostInv, Remembers, PaintedTyped, S!OpeningTextIsKept, S!Kept
  <2>2. CASE S!Next
    BY <2>2, FedLosesNothing DEF S!Next
  <2> QED BY <2>1, <2>2
<1>3. LostInv => S!OpeningTextIsKept
  BY DEF LostInv
<1> QED BY <1>1, <1>2, <1>3, PTL DEF S!Spec

-----------------------------------------------------------------------------
(* Versions                                                                *)

LEMMA SameVersion ==
  ASSUME NEW a \in Versions, NEW b \in Versions,
         a.major = b.major, a.minor = b.minor, a.patch = b.patch
  PROVE  a = b
BY DEF Versions

(* compareVersions is negative, zero or positive as the first version      *)
(* comes before, is, or comes after the second.                            *)
THEOREM CompareVersionsIsOrder ==
  ASSUME NEW a \in Versions, NEW b \in Versions
  PROVE  ComparesRight(a, b)
<1>1. a.major \in Nat /\ a.minor \in Nat /\ a.patch \in Nat
  BY DEF Versions
<1>2. b.major \in Nat /\ b.minor \in Nat /\ b.patch \in Nat
  BY DEF Versions
<1>3. CompareVersions(a, b) < 0 <=> Precedes(a, b)
  BY <1>1, <1>2 DEF CompareVersions, Precedes
<1>4. CompareVersions(a, b) > 0 <=> Precedes(b, a)
  BY <1>1, <1>2 DEF CompareVersions, Precedes
<1>5. CompareVersions(a, b) = 0 <=> a = b
  BY <1>1, <1>2, SameVersion DEF CompareVersions
<1> QED BY <1>3, <1>4, <1>5 DEF ComparesRight

LEMMA CompareBetween ==
  ASSUME NEW a \in Versions, NEW b \in Versions, NEW c \in Versions, NEW t \in Versions,
         ~Precedes(b, a), ~Precedes(c, b)
  PROVE  /\ CompareVersions(a, t) \in Int /\ CompareVersions(b, t) \in Int
         /\ CompareVersions(c, t) \in Int
         /\ CompareVersions(a, t) >= 0 => CompareVersions(b, t) >= 0
         /\ CompareVersions(a, t) > 0 => CompareVersions(b, t) > 0
         /\ CompareVersions(c, t) <= 0 => CompareVersions(b, t) <= 0
         /\ CompareVersions(c, t) < 0 => CompareVersions(b, t) < 0
         /\ CompareVersions(a, t) = 0 /\ CompareVersions(c, t) = 0 => CompareVersions(b, t) = 0
<1>1. /\ a.major \in Nat /\ a.minor \in Nat /\ a.patch \in Nat
      /\ b.major \in Nat /\ b.minor \in Nat /\ b.patch \in Nat
  BY DEF Versions
<1>2. /\ c.major \in Nat /\ c.minor \in Nat /\ c.patch \in Nat
      /\ t.major \in Nat /\ t.minor \in Nat /\ t.patch \in Nat
  BY DEF Versions
<1> QED BY <1>1, <1>2 DEF CompareVersions, Precedes

(* A range of any number of terms has no hole.                             *)
THEOREM RangesHaveNoHoles ==
  ASSUME NEW range \in Seq(Terms),
         NEW a \in Versions, NEW b \in Versions, NEW c \in Versions
  PROVE  HasNoHole(range, a, b, c)
<1> SUFFICES ASSUME Satisfies([matches |-> TRUE, version |-> a], range),
                    Satisfies([matches |-> TRUE, version |-> c], range),
                    ~Precedes(b, a), ~Precedes(c, b),
                    NEW i \in DOMAIN range
             PROVE  range[i].matches /\ Holds(range[i].op, CompareVersions(b, range[i].target))
  BY DEF HasNoHole, Satisfies
<1> DEFINE term == range[i]
<1>1. term \in Terms
  OBVIOUS
<1>2. term.matches /\ Holds(term.op, CompareVersions(a, term.target))
  BY DEF Satisfies
<1>3. Holds(term.op, CompareVersions(c, term.target))
  BY DEF Satisfies
<1>4. term.target \in Versions /\ term.op \in Operators
  BY <1>1 DEF Terms
<1> HIDE DEF term
<1>5. Holds(term.op, CompareVersions(b, term.target))
  BY <1>2, <1>3, <1>4, CompareBetween DEF Holds, Operators
<1> QED BY <1>2, <1>5 DEF term

(* "a mismatch is *unsupported*, not untested": the probes still ask for   *)
(* untested, so that "... is outside the tested range" is never said.      *)
THEOREM ProbesNeverWarn ==
  ASSUME NEW detected, NEW supported
  PROVE  ~Warns(detected, supported)
BY DEF Warns, GradeCompat
=============================================================================
