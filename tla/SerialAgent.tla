----------------------------- MODULE SerialAgent -----------------------------
(***************************************************************************)
(* What an agent promises its callers, whatever runs behind it: it works   *)
(* on one turn at a time, answers a submit with that turn's own text (and  *)
(* that of strangers, where its output passes through shared hands), and   *)
(* once it is stopped accepts no submit.                                   *)
(***************************************************************************)
CONSTANTS
  Submits,   \* the submit calls
  None,      \* no turn
  Strangers  \* the turns whose text may get into another's answer

VARIABLES
  turn,      \* the submit the agent works on, or None
  outcome,   \* what became of each submit
  answer,    \* the turns whose text the caller got back
  stopped    \* was the agent killed?

serialVars == <<turn, outcome, answer, stopped>>

Init ==
  /\ turn = None
  /\ outcome = [s \in Submits |-> "asked"]
  /\ answer = [s \in Submits |-> {}]
  /\ stopped = FALSE

Becomes(s, from, to) ==
  /\ outcome[s] = from
  /\ outcome' = [outcome EXCEPT ![s] = to]

Accept(s) ==
  /\ ~stopped /\ turn = None
  /\ Becomes(s, "asked", "running")
  /\ turn' = s
  /\ UNCHANGED <<answer, stopped>>

Refuse(s) ==
  /\ Becomes(s, "asked", "failed")
  /\ UNCHANGED <<turn, answer, stopped>>

(* The turn ends and is answered, with no text of the agent's other turns. *)
Succeed(s) ==
  /\ turn = s
  /\ Becomes(s, "running", "answered")
  /\ \E text \in SUBSET ({s} \cup Strangers) : answer' = [answer EXCEPT ![s] = text]
  /\ turn' = None
  /\ UNCHANGED stopped

(* A failed turn may go on occupying the agent until it is released.       *)
Fail(s) ==
  /\ turn = s
  /\ Becomes(s, "running", "failed")
  /\ turn' \in {s, None}
  /\ UNCHANGED <<answer, stopped>>

Release ==
  /\ turn # None /\ outcome[turn] = "failed"
  /\ turn' = None
  /\ UNCHANGED <<outcome, answer, stopped>>

Stop ==
  /\ ~stopped /\ stopped' = TRUE
  /\ UNCHANGED <<turn, outcome, answer>>

Next ==
  \/ \E s \in Submits : Accept(s) \/ Refuse(s) \/ Succeed(s) \/ Fail(s)
  \/ Release
  \/ Stop

Spec == Init /\ [][Next]_serialVars
=============================================================================
