-------------------------------- MODULE Bus --------------------------------
(***************************************************************************)
(* The events half of the service bus (src/core/bus.ts), as operators on   *)
(* its state. A listener is registered once, for its event; the bus keeps  *)
(* a Set of listeners for every event that has some, and the handle a      *)
(* listener gets holds on to the Set it was added to, which may not be the *)
(* one the event has by the time the handle is called. A Set is named      *)
(* after the listener it was made for.                                     *)
(***************************************************************************)
LOCAL INSTANCE Naturals
LOCAL INSTANCE Sequences

CONSTANTS
  Events, Listeners,
  EventOf(_),    \* the event of each listener
  NoSet

\* listeners, the Sets ever made, the Set each handle closes over.
EmptyBus ==
  [listeners |-> [e \in Events |-> NoSet],
   sets      |-> [l \in Listeners |-> {}],
   handle    |-> [l \in Listeners |-> NoSet]]

(* on: without a Set for the event a new one is made.                      *)
On(bus, l) ==
  LET e == EventOf(l)
      set == IF bus.listeners[e] = NoSet THEN l ELSE bus.listeners[e]
  IN [listeners |-> [bus.listeners EXCEPT ![e] = set],
      sets      |-> [bus.sets EXCEPT ![set] = @ \cup {l}],
      handle    |-> [bus.handle EXCEPT ![l] = set]]

\* Faulty variant: the event's entry goes with its first listener.
OffAll(bus, l) ==
  LET set == bus.handle[l]
  IN [bus EXCEPT !.sets[set] = @ \ {l}, !.listeners[EventOf(l)] = NoSet]

(* The handle on returns: an emptied Set takes the event's entry with it.  *)
Off(bus, l) ==
  LET set == bus.handle[l]
      left == bus.sets[set] \ {l}
  IN [bus EXCEPT !.sets[set] = left,
                 !.listeners[EventOf(l)] = IF left = {} THEN NoSet ELSE @]

(* Those an emit of the event calls: a copy of the Set, so that a listener *)
(* may leave it.                                                           *)
Heard(bus, e) ==
  IF bus.listeners[e] = NoSet THEN {} ELSE bus.sets[bus.listeners[e]]

(* Calls one after the other: the bus after the first n of them.           *)
OnSteps(bus, ls) ==
  LET on[n \in 0..Len(ls)] == IF n = 0 THEN bus ELSE On(on[n - 1], ls[n])
  IN on

OffSteps(bus, ls) ==
  LET off[n \in 0..Len(ls)] == IF n = 0 THEN bus ELSE Off(off[n - 1], ls[n])
  IN off

OnAll(bus, ls)   == OnSteps(bus, ls)[Len(ls)]
OffEach(bus, ls) == OffSteps(bus, ls)[Len(ls)]
=============================================================================
