--------------------------- MODULE Events_proofs ---------------------------
(***************************************************************************)
(* Proofs about EventFlow, for any number of agents and ids, WsController, *)
(* for any number of submits and kills, and PluginLoader, for any plugins. *)
(*                                                                         *)
(* FlowInv says who is on the bus at every moment (Registered), that the   *)
(* Set of a listener that is on is the Set its event has (WellBus), which  *)
(* handles are kept (Handles, PluginHandle), who has not been on yet       *)
(* (Fresh) and what has become of the agents (Lived). The operators of the *)
(* bus are described by what they do to Up and Had; one lemma then shows   *)
(* for each action that it keeps FlowInv.                                  *)
(*                                                                         *)
(* In WsController exits counts the calls that found _exited unset, so     *)
(* that it follows exited; what makes kill final is that it can only be    *)
(* called on a started agent (Early), whose socket is past its handshake   *)
(* (Handshake): nothing opens the socket or starts the server afterwards.  *)
(*                                                                         *)
(* In PluginLoader every prefix of a group that has been shifted has each  *)
(* plugin once, and behind those it follows (Once, Follows); who is left  *)
(* over when nobody is ready waits for another one left over.              *)
(***************************************************************************)
EXTENDS EventFlow, WsController, PluginLoader, FiniteSetTheorems, WellFoundedInduction, TLAPS

-----------------------------------------------------------------------------
(* EventFlow: the invariant                                                *)

(* The listeners that are on the bus, and those that have been.            *)
Had(b) == {l \in Listeners : b.handle[l] # None}
Up(b)  == {l \in Had(b) : l \in b.sets[b.handle[l]]}

(* Every listener that is on the bus is in the Set that its event has.     *)
WellBus(b) ==
  /\ b \in [listeners : [Events -> Listeners \cup {None}],
            sets      : [Listeners -> SUBSET Listeners],
            handle    : [Listeners -> Listeners \cup {None}]]
  /\ \A s \in Listeners : \A l \in b.sets[s] :
       b.handle[l] = s /\ b.listeners[EventOf(l)] = s
  /\ \A e \in Events : b.listeners[e] # None =>
       /\ b.sets[b.listeners[e]] # {}
       /\ \A l \in b.sets[b.listeners[e]] : EventOf(l) = e
  /\ \A l \in Listeners \ Had(b) : b.sets[l] = {}

ForwardAll == <<"forward", Created, None>>
WireAll    == <<"wire", Created, None>>
LogAll     == <<"log", Created, None>>
AuditAll   == <<"audit", Created, None>>
PluginAll  == <<"plugin", Created, None>>

Kinds    == {"message", "state"}
Owners   == {"forward", "audit", "wait"}
Known(a) == life[a] \in {"announced", "gone"}

At(owner, i, k, a) == <<owner, <<i, k>>, a>>

Once(s) == \A m, n \in DOMAIN s : s[m] = s[n] => m = n
Of(s)   == {s[n] : n \in DOMAIN s}

(* The sequence is an enumeration of the set.                              *)
Lists(s, ls) == s \in Seq(Listeners) /\ Once(s) /\ Of(s) = ls

(* Who is on the bus.                                                      *)
Registered ==
  /\ \A l \in {ForwardAll, WireAll} :
       l \in Up(bus) <=> engine \notin {"new", "stopped"}
  /\ \A a \in Agents, i \in Ids, k \in Kinds :
       /\ At("forward", i, k, a) \in Up(bus)
            <=> Known(a) /\ id[a] = i /\ engine # "stopped"
       /\ At("wait", i, k, a) \in Up(bus)
            <=> k = "state" /\ id[a] = i /\ wait[a] = "pending"
       /\ At("audit", i, k, a) \in Up(bus)
            => k = "message" /\ id[a] = i /\ watched[a]
  /\ engine \in {"listening", "auditing", "serving"} =>
       \A a \in Agents : watched[a] => At("audit", id[a], "message", a) \in Up(bus)

(* Who has not been on it yet.                                             *)
Fresh ==
  /\ engine = "new" => ForwardAll \notin Had(bus) /\ WireAll \notin Had(bus)
  /\ engine \in {"new", "listening"} => LogAll \notin Had(bus) /\ AuditAll \notin Had(bus)
  /\ engine \in {"new", "listening", "auditing"} => PluginAll \notin Had(bus)
  /\ \A a \in Agents, i \in Ids, k \in Kinds :
       /\ At("forward", i, k, a) \in Had(bus) => Known(a)
       /\ At("audit", i, k, a) \in Had(bus) => Known(a)
       /\ At("wait", i, k, a) \in Had(bus) => wait[a] # "none"

OfTransport(ls) == {l \in ls : l[1] \in {"forward", "wire"}}
OfAudit(ls)     == {l \in ls : l[1] \in {"log", "audit"}}

(* The handles kept are those of the listeners that are on the bus.        *)
Handles ==
  /\ Lists(cleanups, OfTransport(Up(bus)))
  /\ Lists(disposables["audit"], OfAudit(Up(bus)))
  /\ engine \in {"closing", "stopped"} => disposables["audit"] = <<>>

(* That of the other plugin is kept even when it was called, and may be    *)
(* called again: it holds on to the Set in which the transport's listener  *)
(* still is.                                                               *)
PluginHandle ==
  /\ disposables["plugin"] \in {<<>>, <<PluginAll>>}
  /\ PluginAll \in Up(bus) => disposables["plugin"] # <<>>
  /\ disposables["plugin"] # <<>> => PluginAll \in Had(bus)
  /\ engine = "serving" => PluginAll \in Had(bus)
  /\ engine \in {"unauditing", "closing", "stopped"} => disposables["plugin"] = <<>>
  /\ PluginAll \in Had(bus) /\ engine # "stopped" =>
       bus.handle[PluginAll] = bus.handle[ForwardAll]

(* What has happened to each agent.                                        *)
Lived ==
  \A a \in Agents :
    /\ id[a] = None <=> life[a] = "none"
    /\ engine = "new" => life[a] = "none"
    /\ life[a] = "none" => ~idle[a] /\ wait[a] = "none"
    /\ watched[a] \/ emitted[a] => Known(a)
    /\ emitted[a] => sent[a] >= 1
    /\ emitted[a] /\ watched[a] /\ engine \in {"listening", "auditing", "serving"}
         => audited[a] >= 1
    /\ emitted[a] /\ FirstOfId(a) => sent[a] = 1 /\ audited[a] <= 1

FlowInv ==
  /\ FlowTypeOK /\ WellBus(bus)
  /\ Registered /\ Fresh /\ Handles /\ PluginHandle /\ Lived
  /\ NoWakeupIsMissed
-----------------------------------------------------------------------------
(* The bus                                                                 *)

LEMMA EventsAre ==
  /\ \A l \in Listeners : EventOf(l) \in Events
  /\ None \notin Listeners
<1>1. Created \in Events /\ \A i \in Ids, k \in Kinds : <<i, k>> \in Events
  BY DEF Events, Created, Kinds
<1>2. ASSUME NEW l \in Listeners PROVE EventOf(l) \in Events
  <2>1. CASE l \in {<<owner, Created, None>> :
                      owner \in {"forward", "wire", "log", "audit", "plugin"}}
    BY <1>1, <2>1 DEF EventOf
  <2>2. CASE l \in {<<owner, <<i, kind>>, a>> : owner \in {"forward", "audit", "wait"},
                      i \in Ids, kind \in {"message", "state"}, a \in Agents}
    <3>1. PICK owner \in {"forward", "audit", "wait"}, i \in Ids, kind \in Kinds, a \in Agents :
            l = <<owner, <<i, kind>>, a>>
      BY <2>2 DEF Kinds
    <3> QED BY <1>1, <3>1 DEF EventOf
  <2> QED BY <2>1, <2>2 DEF Listeners
<1>3. None \notin Listeners
  BY FlowAssumption DEF Listeners
<1> QED BY <1>2, <1>3

LEMMA HeardAreUp ==
  ASSUME NEW b, WellBus(b), NEW e \in Events
  PROVE  B!Heard(b, e) = {l \in Up(b) : EventOf(l) = e}
BY EventsAre DEF B!Heard, WellBus, Up, Had

LEMMA OnAdds ==
  ASSUME NEW b, WellBus(b), NEW l \in Listeners \ Had(b)
  PROVE  /\ WellBus(B!On(b, l))
         /\ Up(B!On(b, l)) = Up(b) \cup {l}
         /\ Had(B!On(b, l)) = Had(b) \cup {l}
         /\ \A x \in Listeners \ {l} : B!On(b, l).handle[x] = b.handle[x]
         /\ \A x \in Up(b) : EventOf(x) = EventOf(l) => B!On(b, l).handle[l] = b.handle[x]
BY EventsAre DEF B!On, WellBus, Up, Had

(* A handle may be called again as long as its Set holds others.           *)
LEMMA OffTakes ==
  ASSUME NEW b, WellBus(b), NEW l \in Had(b), b.sets[b.handle[l]] # {}
  PROVE  /\ WellBus(B!Off(b, l))
         /\ Up(B!Off(b, l)) = Up(b) \ {l}
         /\ Had(B!Off(b, l)) = Had(b)
         /\ B!Off(b, l).handle = b.handle
<1> DEFINE set == b.handle[l]
           left == b.sets[set] \ {l}
           e == EventOf(l)
           new == B!Off(b, l)
<1>1. /\ b \in [listeners : [Events -> Listeners \cup {None}],
                sets : [Listeners -> SUBSET Listeners],
                handle : [Listeners -> Listeners \cup {None}]]
      /\ l \in Listeners /\ set \in Listeners /\ set # None /\ e \in Events
      /\ left \in SUBSET Listeners
  BY EventsAre DEF WellBus, Had
<1>2. /\ new.sets = [b.sets EXCEPT ![set] = left]
      /\ new.handle = b.handle
      /\ new.listeners = [b.listeners EXCEPT ![e] = IF left = {} THEN None ELSE @]
      /\ new \in [listeners : [Events -> Listeners \cup {None}],
                  sets : [Listeners -> SUBSET Listeners],
                  handle : [Listeners -> Listeners \cup {None}]]
  BY <1>1 DEF B!Off
<1>3. Had(new) = Had(b)
  BY <1>2 DEF Had
<1>9. \A s \in Listeners : \A x \in b.sets[s] :
        b.handle[x] = s /\ b.listeners[EventOf(x)] = s
  BY DEF WellBus
<1>4. ASSUME NEW s \in Listeners, NEW x \in new.sets[s]
      PROVE  new.handle[x] = s /\ new.listeners[EventOf(x)] = s
  <2>1. x \in b.sets[s] /\ x \in Listeners /\ EventOf(x) \in Events
    BY <1>1, <1>2, <1>4, EventsAre
  <2>2. b.handle[x] = s /\ b.listeners[EventOf(x)] = s
    BY <1>9, <2>1
  <2>3. ASSUME EventOf(x) = e, left = {} PROVE FALSE
    <3>1. PICK y \in b.sets[set] : TRUE
      OBVIOUS
    <3>2. y = l
      BY <2>3, <3>1
    <3>3. b.listeners[e] = set
      BY <1>1, <1>9, <3>1, <3>2
    <3>4. s = set
      BY <2>2, <2>3, <3>3
    <3> QED BY <1>1, <1>2, <1>4, <2>3, <3>4
  <2>4. new.listeners[EventOf(x)] = b.listeners[EventOf(x)]
    BY <1>1, <1>2, <2>1, <2>3
  <2> QED BY <1>2, <2>2, <2>4
<1>5. ASSUME NEW f \in Events, new.listeners[f] # None
      PROVE  /\ new.sets[new.listeners[f]] # {}
             /\ \A x \in new.sets[new.listeners[f]] : EventOf(x) = f
  <2>1. new.listeners[f] = b.listeners[f] /\ b.listeners[f] \in Listeners
        /\ (f = e => left # {})
    BY <1>1, <1>2, <1>5
  <2>2. /\ b.sets[b.listeners[f]] # {}
        /\ \A x \in b.sets[b.listeners[f]] : EventOf(x) = f
    <3>1. \A g \in Events : b.listeners[g] # None =>
            /\ b.sets[b.listeners[g]] # {}
            /\ \A x \in b.sets[b.listeners[g]] : EventOf(x) = g
      BY DEF WellBus
    <3>2. b.listeners[f] # None
      BY <1>5, <2>1
    <3> QED BY <3>1, <3>2
  <2>3. new.sets[b.listeners[f]] \subseteq b.sets[b.listeners[f]]
    BY <1>1, <1>2, <2>1
  <2>4. CASE b.listeners[f] # set
    BY <1>1, <1>2, <2>1, <2>2, <2>4
  <2>5. CASE b.listeners[f] = set
    <3>1. left # {}
      <4>1. CASE l \in b.sets[set]
        BY <2>1, <2>2, <2>5, <4>1
      <4>2. CASE l \notin b.sets[set]
        BY <4>2
      <4> QED BY <4>1, <4>2
    <3>2. new.sets[set] = left
      BY <1>1, <1>2
    <3> QED BY <2>1, <2>2, <2>3, <2>5, <3>1, <3>2
  <2> QED BY <2>4, <2>5
<1>6. \A x \in Listeners \ Had(new) : new.sets[x] = {}
  BY <1>1, <1>2, <1>3 DEF WellBus
<1>7. WellBus(new)
  BY <1>2, <1>4, <1>5, <1>6 DEF WellBus
<1>8. Up(new) = Up(b) \ {l}
  BY <1>1, <1>2, <1>3 DEF Up, Had
<1> QED BY <1>2, <1>3, <1>7, <1>8

-----------------------------------------------------------------------------
(* Induction over the calls of a sequence                                  *)

LEMMA Least ==
  ASSUME NEW T \in SUBSET Nat, T # {}
  PROVE  \E x \in T : \A y \in T : x <= y
<1> DEFINE Below == OpToRel(<, Nat)
<1>1. IsWellFoundedOn(Below, Nat)
  BY NatLessThanWellFounded
<1>2. \A x, y \in Nat : y < x => <<y, x>> \in Below
  BY DEF OpToRel
<1>3. \E x \in T : \A y \in T : <<y, x>> \notin Below
  <2> HIDE DEF Below
  <2> QED BY <1>1, WFMin
<1>4. PICK x \in T : \A y \in T : <<y, x>> \notin Below
  BY <1>3
<1>5. \A y \in T : ~(y < x)
  <2> HIDE DEF Below
  <2> QED BY <1>2, <1>4
<1> QED BY <1>5

LEMMA Induction ==
  ASSUME NEW N \in Nat, NEW T \in SUBSET Nat, 0 \in T,
         \A n \in T : n < N => n + 1 \in T
  PROVE  0..N \subseteq T
<1> DEFINE M == (0..N) \ T
<1> SUFFICES ASSUME M # {} PROVE FALSE
  OBVIOUS
<1>1. PICK x \in M : \A y \in M : x <= y
  <2>1. M \in SUBSET Nat
    OBVIOUS
  <2> HIDE DEF M
  <2> QED BY <2>1, Least
<1>2. x # 0 /\ x - 1 \in 0..N /\ x - 1 < N
  BY <1>1
<1>3. x - 1 \in T
  BY <1>1, <1>2
<1> QED BY <1>1, <1>2, <1>3

LEMMA OnStepsDef ==
  ASSUME NEW b, NEW ls, Len(ls) \in Nat
  PROVE  /\ B!OnSteps(b, ls)[0] = b
         /\ \A n \in 1..Len(ls) :
              B!OnSteps(b, ls)[n] = B!On(B!OnSteps(b, ls)[n - 1], ls[n])
<1> DEFINE Add(f, n) == IF n = 0 THEN b ELSE B!On(f[n - 1], ls[n])
           Sol(f, m) == f = [n \in 0..m |-> Add(f, n)]
           T == {m \in Nat : \E f : Sol(f, m)}
<1>0. ASSUME NEW f, NEW g, NEW n \in Nat, n # 0 => f[n - 1] = g[n - 1]
      PROVE  Add(f, n) = Add(g, n)
  BY <1>0
<1>1. B!OnSteps(b, ls) = CHOOSE f : Sol(f, Len(ls))
  BY DEF B!OnSteps
<1>7. \A f : Add(f, 0) = b /\ \A n \in Nat \ {0} : Add(f, n) = B!On(f[n - 1], ls[n])
  OBVIOUS
<1> HIDE DEF Add
<1>2. 0 \in T
  <2> DEFINE g == [n \in 0..0 |-> Add(<<>>, 0)]
  <2>1. \A n \in 0..0 : Add(g, n) = Add(<<>>, 0)
    BY <1>0
  <2>2. Sol(g, 0)
    BY <2>1
  <2> QED BY <2>2
<1>3. ASSUME NEW m \in T PROVE m + 1 \in T
  <2>1. PICK f : Sol(f, m)
    OBVIOUS
  <2> DEFINE g == [n \in 0..(m + 1) |-> IF n = m + 1 THEN Add(f, m + 1) ELSE f[n]]
  <2>2. ASSUME NEW n \in 0..(m + 1) PROVE g[n] = Add(g, n)
    <3>1. n # 0 => n - 1 \in 0..(m + 1) /\ n - 1 # m + 1
      OBVIOUS
    <3>2. n # 0 => g[n - 1] = f[n - 1]
      BY <3>1
    <3> HIDE DEF g
    <3>3. Add(f, n) = Add(g, n)
      BY <1>0, <3>2
    <3> USE DEF g
    <3>4. CASE n = m + 1
      BY <3>3, <3>4
    <3>5. CASE n # m + 1
      <4>1. n \in 0..m
        BY <3>5
      <4>2. f[n] = Add(f, n)
        BY <2>1, <4>1
      <4>3. g[n] = f[n]
        BY <3>5
      <4> HIDE DEF g
      <4> QED BY <3>3, <4>2, <4>3
    <3> QED BY <3>4, <3>5
  <2>3. g = [n \in 0..(m + 1) |-> Add(g, n)]
    <3>1. g = [n \in 0..(m + 1) |-> g[n]]
      OBVIOUS
    <3> HIDE DEF g
    <3> QED BY <2>2, <3>1
  <2> HIDE DEF g
  <2>4. Sol(g, m + 1)
    BY <2>3
  <2> HIDE DEF Sol
  <2> QED BY <2>4
<1>4. \E f : Sol(f, Len(ls))
  <2> HIDE DEF T
  <2>1. T \in SUBSET Nat /\ Len(ls) \in 0..Len(ls)
    BY DEF T
  <2>2. Len(ls) \in T
    BY <1>2, <1>3, <2>1, Induction
  <2> QED BY <2>2 DEF T
<1>5. Sol(B!OnSteps(b, ls), Len(ls))
  <2> HIDE DEF Sol
  <2> QED BY <1>1, <1>4
<1>6. \A n \in 0..Len(ls) : B!OnSteps(b, ls)[n] = Add(B!OnSteps(b, ls), n)
  BY <1>5
<1> QED BY <1>6, <1>7

LEMMA OffStepsDef ==
  ASSUME NEW b, NEW ls, Len(ls) \in Nat
  PROVE  /\ B!OffSteps(b, ls)[0] = b
         /\ \A n \in 1..Len(ls) :
              B!OffSteps(b, ls)[n] = B!Off(B!OffSteps(b, ls)[n - 1], ls[n])
<1> DEFINE Add(f, n) == IF n = 0 THEN b ELSE B!Off(f[n - 1], ls[n])
           Sol(f, m) == f = [n \in 0..m |-> Add(f, n)]
           T == {m \in Nat : \E f : Sol(f, m)}
<1>0. ASSUME NEW f, NEW g, NEW n \in Nat, n # 0 => f[n - 1] = g[n - 1]
      PROVE  Add(f, n) = Add(g, n)
  BY <1>0
<1>1. B!OffSteps(b, ls) = CHOOSE f : Sol(f, Len(ls))
  BY DEF B!OffSteps
<1>7. \A f : Add(f, 0) = b /\ \A n \in Nat \ {0} : Add(f, n) = B!Off(f[n - 1], ls[n])
  OBVIOUS
<1> HIDE DEF Add
<1>2. 0 \in T
  <2> DEFINE g == [n \in 0..0 |-> Add(<<>>, 0)]
  <2>1. \A n \in 0..0 : Add(g, n) = Add(<<>>, 0)
    BY <1>0
  <2>2. Sol(g, 0)
    BY <2>1
  <2> QED BY <2>2
<1>3. ASSUME NEW m \in T PROVE m + 1 \in T
  <2>1. PICK f : Sol(f, m)
    OBVIOUS
  <2> DEFINE g == [n \in 0..(m + 1) |-> IF n = m + 1 THEN Add(f, m + 1) ELSE f[n]]
  <2>2. ASSUME NEW n \in 0..(m + 1) PROVE g[n] = Add(g, n)
    <3>1. n # 0 => n - 1 \in 0..(m + 1) /\ n - 1 # m + 1
      OBVIOUS
    <3>2. n # 0 => g[n - 1] = f[n - 1]
      BY <3>1
    <3> HIDE DEF g
    <3>3. Add(f, n) = Add(g, n)
      BY <1>0, <3>2
    <3> USE DEF g
    <3>4. CASE n = m + 1
      BY <3>3, <3>4
    <3>5. CASE n # m + 1
      <4>1. n \in 0..m
        BY <3>5
      <4>2. f[n] = Add(f, n)
        BY <2>1, <4>1
      <4>3. g[n] = f[n]
        BY <3>5
      <4> HIDE DEF g
      <4> QED BY <3>3, <4>2, <4>3
    <3> QED BY <3>4, <3>5
  <2>3. g = [n \in 0..(m + 1) |-> Add(g, n)]
    <3>1. g = [n \in 0..(m + 1) |-> g[n]]
      OBVIOUS
    <3> HIDE DEF g
    <3> QED BY <2>2, <3>1
  <2> HIDE DEF g
  <2>4. Sol(g, m + 1)
    BY <2>3
  <2> HIDE DEF Sol
  <2> QED BY <2>4
<1>4. \E f : Sol(f, Len(ls))
  <2> HIDE DEF T
  <2>1. T \in SUBSET Nat /\ Len(ls) \in 0..Len(ls)
    BY DEF T
  <2>2. Len(ls) \in T
    BY <1>2, <1>3, <2>1, Induction
  <2> QED BY <2>2 DEF T
<1>5. Sol(B!OffSteps(b, ls), Len(ls))
  <2> HIDE DEF Sol
  <2> QED BY <1>1, <1>4
<1>6. \A n \in 0..Len(ls) : B!OffSteps(b, ls)[n] = Add(B!OffSteps(b, ls), n)
  BY <1>5
<1> QED BY <1>6, <1>7

(* Listeners that are on for one event share a Set.                        *)
LEMMA OneSet ==
  ASSUME NEW b, WellBus(b), NEW x \in Up(b), NEW y \in Up(b), EventOf(x) = EventOf(y)
  PROVE  b.handle[x] = b.handle[y]
<1>1. \A s \in Listeners : \A l \in b.sets[s] : b.listeners[EventOf(l)] = s
  BY DEF WellBus
<1>2. \A l \in Up(b) : b.handle[l] \in Listeners /\ l \in b.sets[b.handle[l]]
  BY DEF WellBus, Up, Had
<1>3. b.listeners[EventOf(x)] = b.handle[x] /\ b.listeners[EventOf(y)] = b.handle[y]
  BY <1>1, <1>2
<1> QED BY <1>3

LEMMA OnAllAdds ==
  ASSUME NEW b, WellBus(b), NEW ls \in Seq(Listeners), Once(ls), Of(ls) \cap Had(b) = {}
  PROVE  /\ WellBus(B!OnAll(b, ls))
         /\ Up(B!OnAll(b, ls)) = Up(b) \cup Of(ls)
         /\ Had(B!OnAll(b, ls)) = Had(b) \cup Of(ls)
         /\ \A x \in Listeners \ Of(ls) : B!OnAll(b, ls).handle[x] = b.handle[x]
<1> DEFINE f == B!OnSteps(b, ls)
           First(n) == {ls[m] : m \in 1..n}
           P(c, F) == /\ WellBus(c)
                      /\ Up(c) = Up(b) \cup F
                      /\ Had(c) = Had(b) \cup F
                      /\ \A x \in Listeners \ F : c.handle[x] = b.handle[x]
           T == {n \in Nat : n <= Len(ls) => P(f[n], First(n))}
<1>0. Len(ls) \in Nat /\ DOMAIN ls = 1..Len(ls)
  OBVIOUS
<1>1. f[0] = b /\ \A n \in 1..Len(ls) : f[n] = B!On(f[n - 1], ls[n])
  BY <1>0, OnStepsDef
<1> HIDE DEF f
<1>2. 0 \in T
  <2>1. First(0) = {}
    OBVIOUS
  <2>2. P(b, {})
    OBVIOUS
  <2> HIDE DEF P, First
  <2> QED BY <1>1, <2>1, <2>2
<1>3. ASSUME NEW n \in T, n < Len(ls) PROVE n + 1 \in T
  <2> DEFINE l == ls[n + 1]
             c == f[n]
  <2>1. n + 1 \in 1..Len(ls) /\ (n + 1) - 1 = n /\ n <= Len(ls)
    BY <1>0, <1>3
  <2>2. P(c, First(n))
    BY <1>3, <2>1
  <2>3. f[n + 1] = B!On(c, l)
    BY <1>1, <2>1
  <2>4. First(n + 1) = First(n) \cup {l}
    <3>1. 1..(n + 1) = 1..n \cup {n + 1}
      OBVIOUS
    <3> QED BY <3>1
  <2>5. l \in Listeners /\ l \notin First(n) /\ l \in Of(ls)
    <3>1. \A m \in 1..n : m \in DOMAIN ls /\ m # n + 1
      BY <1>0, <2>1
    <3> QED BY <1>0, <2>1, <3>1 DEF Once, Of
  <2> HIDE DEF First, l, c
  <2>6. WellBus(c) /\ l \in Listeners \ Had(c)
    BY <2>2, <2>5
  <2>7. P(B!On(c, l), First(n) \cup {l})
    <3>1. /\ WellBus(B!On(c, l))
          /\ Up(B!On(c, l)) = Up(c) \cup {l}
          /\ Had(B!On(c, l)) = Had(c) \cup {l}
          /\ \A x \in Listeners \ {l} : B!On(c, l).handle[x] = c.handle[x]
      BY <2>6, OnAdds
    <3> QED BY <2>2, <3>1
  <2> HIDE DEF P
  <2>8. P(f[n + 1], First(n + 1))
    BY <2>3, <2>4, <2>7
  <2>9. n + 1 \in Nat
    BY <1>3
  <2> QED BY <2>8, <2>9
<1>4. P(f[Len(ls)], First(Len(ls)))
  <2>1. T \in SUBSET Nat /\ Len(ls) \in 0..Len(ls)
    BY <1>0
  <2> HIDE DEF T
  <2>2. Len(ls) \in T
    BY <1>0, <1>2, <1>3, <2>1, Induction
  <2> HIDE DEF P, First
  <2> QED BY <1>0, <2>2 DEF T
<1>5. First(Len(ls)) = Of(ls)
  BY <1>0 DEF Of
<1>6. B!OnAll(b, ls) = f[Len(ls)]
  BY DEF B!OnAll, f
<1> QED BY <1>4, <1>5, <1>6

LEMMA OffEachTakes ==
  ASSUME NEW b, WellBus(b), NEW ls \in Seq(Listeners), Once(ls), Of(ls) \subseteq Up(b)
  PROVE  /\ WellBus(B!OffEach(b, ls))
         /\ Up(B!OffEach(b, ls)) = Up(b) \ Of(ls)
         /\ Had(B!OffEach(b, ls)) = Had(b)
         /\ B!OffEach(b, ls).handle = b.handle
<1> DEFINE f == B!OffSteps(b, ls)
           First(n) == {ls[m] : m \in 1..n}
           P(c, F) == /\ WellBus(c)
                      /\ Up(c) = Up(b) \ F
                      /\ Had(c) = Had(b)
                      /\ c.handle = b.handle
           T == {n \in Nat : n <= Len(ls) => P(f[n], First(n))}
<1>0. Len(ls) \in Nat /\ DOMAIN ls = 1..Len(ls)
  OBVIOUS
<1>1. f[0] = b /\ \A n \in 1..Len(ls) : f[n] = B!Off(f[n - 1], ls[n])
  BY <1>0, OffStepsDef
<1> HIDE DEF f
<1>2. 0 \in T
  <2>1. First(0) = {}
    OBVIOUS
  <2>2. P(b, {})
    OBVIOUS
  <2> HIDE DEF P, First
  <2> QED BY <1>1, <2>1, <2>2
<1>3. ASSUME NEW n \in T, n < Len(ls) PROVE n + 1 \in T
  <2> DEFINE l == ls[n + 1]
             c == f[n]
  <2>1. n + 1 \in 1..Len(ls) /\ (n + 1) - 1 = n /\ n <= Len(ls)
    BY <1>0, <1>3
  <2>2. P(c, First(n))
    BY <1>3, <2>1
  <2>3. f[n + 1] = B!Off(c, l)
    BY <1>1, <2>1
  <2>4. First(n + 1) = First(n) \cup {l}
    <3>1. 1..(n + 1) = 1..n \cup {n + 1}
      OBVIOUS
    <3> QED BY <3>1
  <2>5. l \in Listeners /\ l \notin First(n) /\ l \in Of(ls)
    <3>1. \A m \in 1..n : m \in DOMAIN ls /\ m # n + 1
      BY <1>0, <2>1
    <3> QED BY <1>0, <2>1, <3>1 DEF Once, Of
  <2> HIDE DEF First, l, c
  <2>6. l \in Up(c)
    BY <2>2, <2>5
  <2>7. P(B!Off(c, l), First(n) \cup {l})
    <3>1. WellBus(c) /\ l \in Had(c) /\ c.sets[c.handle[l]] # {}
      BY <2>2, <2>6 DEF Up
    <3>2. /\ WellBus(B!Off(c, l))
          /\ Up(B!Off(c, l)) = Up(c) \ {l}
          /\ Had(B!Off(c, l)) = Had(c)
          /\ B!Off(c, l).handle = c.handle
      BY <3>1, OffTakes
    <3> QED BY <2>2, <3>2
  <2> HIDE DEF P
  <2>8. P(f[n + 1], First(n + 1))
    BY <2>3, <2>4, <2>7
  <2>9. n + 1 \in Nat
    BY <1>3
  <2> QED BY <2>8, <2>9
<1>4. P(f[Len(ls)], First(Len(ls)))
  <2>1. T \in SUBSET Nat /\ Len(ls) \in 0..Len(ls)
    BY <1>0
  <2> HIDE DEF T
  <2>2. Len(ls) \in T
    BY <1>0, <1>2, <1>3, <2>1, Induction
  <2> HIDE DEF P, First
  <2> QED BY <1>0, <2>2 DEF T
<1>5. First(Len(ls)) = Of(ls)
  BY <1>0 DEF Of
<1>6. B!OffEach(b, ls) = f[Len(ls)]
  BY DEF B!OffEach, f
<1> QED BY <1>4, <1>5, <1>6

-----------------------------------------------------------------------------
(* The listeners                                                           *)

Alls == {ForwardAll, WireAll, LogAll, AuditAll, PluginAll}

LEMMA AllsAre ==
  /\ Alls \subseteq Listeners
  /\ \A l \in Alls : EventOf(l) = Created
  /\ ForwardAll[1] = "forward" /\ WireAll[1] = "wire" /\ LogAll[1] = "log"
  /\ AuditAll[1] = "audit" /\ PluginAll[1] = "plugin"
  /\ Created \in Events
BY DEF Alls, Listeners, EventOf, Events, ForwardAll, WireAll, LogAll, AuditAll, PluginAll

LEMMA AtsAre ==
  ASSUME NEW o \in Owners, NEW i \in Ids, NEW k \in Kinds, NEW a \in Agents
  PROVE  /\ At(o, i, k, a) \in Listeners
         /\ At(o, i, k, a) \notin Alls
         /\ At(o, i, k, a)[1] = o /\ At(o, i, k, a)[3] = a
         /\ EventOf(At(o, i, k, a)) = <<i, k>> /\ <<i, k>> \in Events
<1>1. At(o, i, k, a) \in Listeners
  BY DEF At, Listeners, Owners, Kinds
<1>2. At(o, i, k, a)[3] # None
  BY FlowAssumption DEF At
<1>3. \A l \in Alls : l[3] = None
  BY DEF Alls, ForwardAll, WireAll, LogAll, AuditAll, PluginAll
<1> QED BY <1>1, <1>2, <1>3 DEF At, EventOf, Events, Kinds

LEMMA AtsDiffer ==
  ASSUME NEW o \in Owners, NEW i \in Ids, NEW k \in Kinds, NEW a \in Agents,
         NEW p \in Owners, NEW j \in Ids, NEW m \in Kinds, NEW b \in Agents,
         At(o, i, k, a) = At(p, j, m, b)
  PROVE  o = p /\ i = j /\ k = m /\ a = b
BY DEF At

LEMMA ListenersAre ==
  ASSUME NEW l \in Listeners
  PROVE  \/ l \in Alls
         \/ \E o \in Owners, i \in Ids, k \in Kinds, a \in Agents : l = At(o, i, k, a)
<1>1. CASE l \in {<<owner, Created, None>> :
                    owner \in {"forward", "wire", "log", "audit", "plugin"}}
  BY <1>1 DEF Alls, ForwardAll, WireAll, LogAll, AuditAll, PluginAll
<1>2. CASE l \in {<<owner, <<i, kind>>, a>> : owner \in {"forward", "audit", "wait"},
                    i \in Ids, kind \in {"message", "state"}, a \in Agents}
  BY <1>2 DEF Owners, Kinds, At
<1> QED BY <1>1, <1>2 DEF Listeners

LEMMA AtsAreApart ==
  ASSUME NEW x \in SUBSET Alls
  PROVE  \A o \in Owners, i \in Ids, k \in Kinds, a \in Agents : At(o, i, k, a) \notin x
<1>1. ASSUME NEW o \in Owners, NEW i \in Ids, NEW k \in Kinds, NEW a \in Agents
      PROVE  At(o, i, k, a) \notin x
  <2>1. At(o, i, k, a) \notin Alls
    BY AtsAre
  <2> QED BY <2>1
<1> QED BY <1>1

LEMMA AtsAreOf ==
  \A o \in Owners, i \in Ids, k \in Kinds, a \in Agents :
    /\ At(o, i, k, a) \in Listeners
    /\ At(o, i, k, a)[1] = o /\ At(o, i, k, a)[3] = a
    /\ EventOf(At(o, i, k, a)) = <<i, k>>
<1>1. \A o \in Owners, i \in Ids, k \in Kinds, a \in Agents : At(o, i, k, a) \in Listeners
  BY DEF At, Listeners, Owners, Kinds
<1>2. \A o \in Owners, i \in Ids, k \in Kinds, a \in Agents :
        /\ At(o, i, k, a)[1] = o /\ At(o, i, k, a)[3] = a
        /\ EventOf(At(o, i, k, a)) = <<i, k>>
  BY DEF At, EventOf
<1> QED BY <1>1, <1>2

LEMMA ListsNone == Lists(<<>>, {})
BY DEF Lists, Once, Of

LEMMA ListsOne ==
  ASSUME NEW l \in Listeners
  PROVE  Lists(<<l>>, {l})
BY DEF Lists, Once, Of

LEMMA ListsOneOrNone ==
  ASSUME NEW l \in Listeners, NEW one
  PROVE  Lists(IF one THEN <<l>> ELSE <<>>, IF one THEN {l} ELSE {})
<1>1. CASE one
  BY <1>1, ListsOne
<1>2. CASE ~one
  BY <1>2, ListsNone
<1> QED BY <1>1, <1>2

LEMMA ListsTwo ==
  ASSUME NEW l \in Listeners, NEW m \in Listeners, l # m
  PROVE  Lists(<<l, m>>, {l, m})
<1>1. <<l, m>> \in Seq(Listeners) /\ DOMAIN <<l, m>> = 1..2
  OBVIOUS
<1>2. 1..2 = {1, 2}
  OBVIOUS
<1> QED BY <1>1, <1>2 DEF Lists, Once, Of

LEMMA ListsBoth ==
  ASSUME NEW s, NEW x, Lists(s, x), NEW t, NEW y, Lists(t, y), x \cap y = {}
  PROVE  Lists(s \o t, x \cup y)
<1>1. s \in Seq(Listeners) /\ t \in Seq(Listeners)
  BY DEF Lists
<1> DEFINE p == Len(s)
           q == Len(t)
<1>2. p \in Nat /\ q \in Nat /\ DOMAIN s = 1..p /\ DOMAIN t = 1..q
  BY <1>1
<1>3. /\ s \o t \in Seq(Listeners)
      /\ DOMAIN (s \o t) = 1..(p + q)
      /\ \A n \in 1..(p + q) : (s \o t)[n] = IF n <= p THEN s[n] ELSE t[n - p]
  BY <1>1
<1>4. \A n \in 1..(p + q) :
        \/ n \in DOMAIN s /\ (s \o t)[n] = s[n]
        \/ n > p /\ n - p \in DOMAIN t /\ (s \o t)[n] = t[n - p]
  BY <1>2, <1>3
<1>5. /\ \A n \in DOMAIN s : s[n] \in x
      /\ \A n \in DOMAIN t : t[n] \in y
      /\ \A l \in x : \E n \in DOMAIN s : l = s[n]
      /\ \A l \in y : \E n \in DOMAIN t : l = t[n]
  BY DEF Lists, Of
<1>6. Of(s \o t) \subseteq x \cup y
  BY <1>3, <1>4, <1>5 DEF Of
<1>7. ASSUME NEW l \in x PROVE l \in Of(s \o t)
  <2>1. PICK n \in DOMAIN s : l = s[n]
    BY <1>5
  <2>2. n \in 1..(p + q) /\ n <= p
    BY <1>2, <2>1
  <2> QED BY <1>3, <2>1, <2>2 DEF Of
<1>8. ASSUME NEW l \in y PROVE l \in Of(s \o t)
  <2>1. PICK n \in DOMAIN t : l = t[n]
    BY <1>5
  <2>2. n + p \in 1..(p + q) /\ ~(n + p <= p) /\ (n + p) - p = n
    BY <1>2, <2>1
  <2> QED BY <1>3, <2>1, <2>2 DEF Of
<1>9. ASSUME NEW m \in 1..(p + q), NEW n \in 1..(p + q), (s \o t)[m] = (s \o t)[n]
      PROVE  m = n
  <2>1. CASE m \in DOMAIN s /\ (s \o t)[m] = s[m] /\ n \in DOMAIN s /\ (s \o t)[n] = s[n]
    BY <1>9, <2>1 DEF Lists, Once
  <2>2. CASE /\ m > p /\ m - p \in DOMAIN t /\ (s \o t)[m] = t[m - p]
             /\ n > p /\ n - p \in DOMAIN t /\ (s \o t)[n] = t[n - p]
    <3>1. m - p = n - p
      BY <1>9, <2>2 DEF Lists, Once
    <3> QED BY <1>2, <3>1
  <2> QED BY <1>4, <1>5, <1>9, <2>1, <2>2
<1> QED BY <1>3, <1>6, <1>7, <1>8, <1>9 DEF Lists, Once

LEMMA ListsTail ==
  ASSUME NEW s, NEW x, Lists(s, x), s # <<>>
  PROVE  Head(s) \in x /\ Lists(Tail(s), x \ {Head(s)})
<1>1. s \in Seq(Listeners)
  BY DEF Lists
<1> DEFINE p == Len(s)
<1>2. p \in Nat \ {0} /\ DOMAIN s = 1..p /\ Head(s) = s[1]
  BY <1>1
<1>3. /\ Tail(s) \in Seq(Listeners)
      /\ DOMAIN Tail(s) = 1..(p - 1)
      /\ \A n \in 1..(p - 1) : Tail(s)[n] = s[n + 1]
  BY <1>1, <1>2
<1>5. \A m, n \in DOMAIN s : s[m] = s[n] => m = n
  BY DEF Lists, Once
<1>6. x = {s[n] : n \in DOMAIN s}
  BY DEF Lists, Of
<1>7. \A n \in 1..(p - 1) : n + 1 \in DOMAIN s /\ n + 1 # 1
  BY <1>2
<1>8. Once(Tail(s))
  <2>1. ASSUME NEW m \in 1..(p - 1), NEW n \in 1..(p - 1), Tail(s)[m] = Tail(s)[n]
        PROVE  m = n
    <3>1. m + 1 = n + 1
      BY <1>3, <1>5, <1>7, <2>1
    <3> QED BY <3>1
  <2> QED BY <1>3, <2>1 DEF Once
<1>9. Of(Tail(s)) = x \ {Head(s)}
  <2>1. ASSUME NEW n \in 1..(p - 1) PROVE Tail(s)[n] \in x \ {Head(s)}
    <3>1. n + 1 \in DOMAIN s /\ 1 \in DOMAIN s /\ n + 1 # 1
      BY <1>2, <1>7
    <3>2. s[n + 1] # s[1]
      BY <1>5, <3>1
    <3> QED BY <1>2, <1>3, <1>6, <3>1, <3>2
  <2>2. ASSUME NEW l \in x \ {Head(s)} PROVE l \in Of(Tail(s))
    <3>1. PICK n \in DOMAIN s : l = s[n]
      BY <1>6
    <3>2. n - 1 \in 1..(p - 1) /\ (n - 1) + 1 = n
      BY <1>2, <2>2, <3>1
    <3> QED BY <1>3, <3>1, <3>2 DEF Of
  <2> QED BY <1>3, <2>1, <2>2 DEF Of
<1>10. Head(s) \in x
  BY <1>2, <1>6
<1> QED BY <1>3, <1>8, <1>9, <1>10 DEF Lists

LEMMA ListsAre ==
  ASSUME NEW s, NEW x, Lists(s, x)
  PROVE  /\ s \in Seq(Listeners) /\ Once(s) /\ Of(s) = x /\ x \subseteq Listeners
         /\ s = <<>> => x = {}
BY DEF Lists, Of

(* The listeners of one owner for one event are as few as the agents.      *)
LEMMA FewAre ==
  ASSUME NEW o \in Owners, NEW i \in Ids, NEW k \in Kinds,
         NEW x, x \subseteq {At(o, i, k, b) : b \in Agents}
  PROVE  IsFiniteSet(x) /\ Cardinality(x) \in 0..Cardinality(Agents)
<1> DEFINE t == {At(o, i, k, b) : b \in Agents}
           f == [b \in Agents |-> At(o, i, k, b)]
<1>1. f \in Surjection(Agents, t)
  BY DEF Surjection
<1>2. IsFiniteSet(Agents)
  BY FlowAssumption
<1>3. IsFiniteSet(t) /\ Cardinality(t) <= Cardinality(Agents)
  <2> HIDE DEF t, f
  <2> QED BY <1>1, <1>2, FS_Surjection
<1>4. IsFiniteSet(x) /\ Cardinality(x) <= Cardinality(t)
  <2> HIDE DEF t, f
  <2>1. x \subseteq t
    BY DEF t
  <2> QED BY <1>3, <2>1, FS_Subset
<1>5. Cardinality(x) \in Nat /\ Cardinality(t) \in Nat /\ Cardinality(Agents) \in Nat
  BY <1>2, <1>3, <1>4, FS_CardinalityType
<1> QED BY <1>3, <1>4, <1>5

LEMMA EnumerationsList ==
  ASSUME NEW x \in SUBSET Listeners, IsFiniteSet(x), NEW order \in InAnyOrder(x)
  PROVE  Lists(order, x)
<1>1. Cardinality(x) \in Nat
  BY FS_CardinalityType
<1>2. order \in [1..Cardinality(x) -> x]
      /\ (\A m, n \in DOMAIN order : order[m] = order[n] => m = n)
      /\ \A l \in x : \E n \in 1..Cardinality(x) : order[n] = l
  BY DEF InAnyOrder, Bijection, Injection, Surjection, IsInjective
<1>3. order \in Seq(Listeners)
  <2>1. order \in [1..Cardinality(x) -> Listeners]
    BY <1>2
  <2> QED BY <1>1, <2>1
<1> QED BY <1>2, <1>3 DEF Lists, Once, Of
-----------------------------------------------------------------------------
(* The steps                                                               *)

LEMMA InitHasIt == FlowInit => FlowInv
<1> SUFFICES ASSUME FlowInit PROVE FlowInv
  OBVIOUS
<1> USE DEF FlowInit
<1>1. FlowTypeOK
  <2>1. Cardinality(Agents) \in Nat
    BY FlowAssumption, FS_CardinalityType
  <2> QED BY <2>1 DEF FlowTypeOK
<1>2. WellBus(bus) /\ Up(bus) = {} /\ Had(bus) = {}
  BY DEF WellBus, Up, Had, B!EmptyBus
<1>3. Registered /\ Fresh /\ PluginHandle
  BY <1>2 DEF Registered, Fresh, PluginHandle, Known
<1>4. Handles
  <2>1. OfTransport(Up(bus)) = {} /\ OfAudit(Up(bus)) = {}
    BY <1>2 DEF OfTransport, OfAudit
  <2> QED BY <2>1, ListsNone DEF Handles
<1>5. Lived /\ NoWakeupIsMissed
  BY DEF Lived, NoWakeupIsMissed
<1> QED BY <1>1, <1>2, <1>3, <1>4, <1>5 DEF FlowInv

LEMMA StartTransportKeeps ==
  ASSUME FlowInv, StartTransport
  PROVE  FlowInv'
<1> USE DEF FlowInv
<1>1. cleanups' = <<ForwardAll, WireAll>> /\ engine = "new" /\ engine' = "listening"
      /\ bus' = B!OnAll(bus, cleanups') /\ audit' = audit /\ disposables' = disposables
      /\ life' = life /\ id' = id /\ idle' = idle /\ emitted' = emitted /\ sent' = sent
      /\ audited' = audited /\ watched' = watched /\ wait' = wait
  BY DEF StartTransport, ForwardAll, WireAll, agentVars
<1>2. Lists(cleanups', {ForwardAll, WireAll}) /\ ForwardAll # WireAll
  <2>1. ForwardAll # WireAll
    BY DEF ForwardAll, WireAll
  <2> QED BY <1>1, <2>1, AllsAre, ListsTwo DEF Alls
<1>3. {ForwardAll, WireAll} \cap Had(bus) = {}
  BY <1>1 DEF Fresh
<1>4. /\ WellBus(bus')
      /\ Up(bus') = Up(bus) \cup {ForwardAll, WireAll}
      /\ Had(bus') = Had(bus) \cup {ForwardAll, WireAll}
  BY <1>1, <1>2, <1>3, ListsAre, OnAllAdds
<1>5. FlowTypeOK'
  BY <1>1, <1>2, ListsAre DEF FlowTypeOK
<1>6. Alls = {ForwardAll, WireAll, LogAll, AuditAll, PluginAll}
  BY DEF Alls
<1>7. \A a \in Agents : life[a] = "none" /\ wait[a] = "none" /\ ~watched[a]
  BY <1>1 DEF Lived, Known
<1>8. \A o \in Owners, i \in Ids, k \in Kinds, a \in Agents :
        At(o, i, k, a) \notin {ForwardAll, WireAll}
  BY <1>6, AtsAreApart
<1>9. Registered'
  BY <1>1, <1>4, <1>7, <1>8 DEF Registered, Known, Owners
<1>10. Fresh'
  BY <1>1, <1>4, <1>6, <1>8 DEF Fresh, Known, Owners, ForwardAll, WireAll, LogAll, AuditAll, PluginAll
<1>11. Handles'
  <2>1. Up(bus) \subseteq Listeners
    BY DEF Up, Had
  <2>2. OfTransport(Up(bus)) = {}
    <3>1. ASSUME NEW l \in Up(bus), l[1] \in {"forward", "wire"} PROVE FALSE
      <4>1. CASE l \in Alls
        BY <1>1, <3>1, <4>1, <1>6, AllsAre DEF Registered
      <4>2. ASSUME NEW o \in Owners, NEW i \in Ids, NEW k \in Kinds, NEW a \in Agents,
                   l = At(o, i, k, a)
            PROVE  FALSE
        <5>1. o = "forward"
          BY <3>1, <4>2, AtsAre DEF Owners
        <5> QED BY <1>7, <3>1, <4>2, <5>1 DEF Registered, Known
      <4> QED BY <2>1, <4>1, <4>2, ListenersAre
    <3> QED BY <3>1 DEF OfTransport
  <2>3. OfTransport(Up(bus')) = {ForwardAll, WireAll}
    BY <1>4, <2>2, AllsAre DEF OfTransport
  <2>4. OfAudit(Up(bus')) = OfAudit(Up(bus))
    BY <1>4, AllsAre DEF OfAudit
  <2> QED BY <1>1, <1>2, <2>3, <2>4 DEF Handles
<1>12. PluginHandle'
  BY <1>1, <1>4, <1>6 DEF PluginHandle, Fresh, ForwardAll, WireAll, PluginAll
<1>13. Lived' /\ NoWakeupIsMissed'
  BY <1>1, <1>7 DEF Lived, NoWakeupIsMissed, Known, FirstOfId
<1> QED BY <1>4, <1>5, <1>9, <1>10, <1>11, <1>12, <1>13
LEMMA OneOn ==
  ASSUME NEW b, NEW l \in Listeners
  PROVE  B!OnAll(b, <<l>>) = B!On(b, l)
<1> DEFINE ls == <<l>>
           f == B!OnSteps(b, ls)
<1>1. Len(ls) = 1 /\ Len(ls) \in Nat /\ 1 \in 1..Len(ls) /\ 1 - 1 = 0 /\ ls[1] = l
  OBVIOUS
<1>2. B!OnAll(b, ls) = f[Len(ls)]
  BY DEF B!OnAll
<1>3. f[0] = b /\ \A n \in 1..Len(ls) : f[n] = B!On(f[n - 1], ls[n])
  <2> HIDE DEF ls
  <2> QED BY <1>1, OnStepsDef
<1> HIDE DEF f, ls
<1>4. f[1] = B!On(f[1 - 1], ls[1])
  BY <1>1, <1>3
<1> QED BY <1>1, <1>2, <1>3, <1>4 DEF ls

LEMMA LoadAuditKeeps ==
  ASSUME FlowInv, LoadAudit
  PROVE  FlowInv'
<1> USE DEF FlowInv
<1>1. engine = "listening" /\ engine' = "auditing"
      /\ cleanups' = cleanups /\ audit' = audit
      /\ life' = life /\ id' = id /\ idle' = idle /\ emitted' = emitted /\ sent' = sent
      /\ audited' = audited /\ watched' = watched /\ wait' = wait
  BY DEF LoadAudit, agentVars
<1>2. CASE ~audit
  <2>1. bus' = bus /\ disposables' = disposables
    BY <1>2 DEF LoadAudit
  <2>2. FlowTypeOK' /\ WellBus(bus')
    BY <1>1, <2>1 DEF FlowTypeOK
  <2>3. Registered' /\ Fresh'
    BY <1>1, <2>1 DEF Registered, Fresh, Known
  <2>4. Handles' /\ PluginHandle'
    BY <1>1, <2>1 DEF Handles, PluginHandle
  <2>5. Lived' /\ NoWakeupIsMissed'
    BY <1>1, <2>1 DEF Lived, NoWakeupIsMissed, Known, FirstOfId
  <2> QED BY <2>2, <2>3, <2>4, <2>5
<1>3. CASE audit
  <2> DEFINE two == <<LogAll, AuditAll>>
  <2>1. /\ bus' = B!OnAll(bus, two)
        /\ disposables' = [disposables EXCEPT !["audit"] = @ \o two]
    BY <1>3 DEF LoadAudit, Subscribe, LogAll, AuditAll
  <2>2. Lists(two, {LogAll, AuditAll})
    <3>1. LogAll # AuditAll
      BY DEF LogAll, AuditAll
    <3> QED BY <3>1, AllsAre, ListsTwo DEF Alls
  <2>3. {LogAll, AuditAll} \cap Had(bus) = {}
    BY <1>1 DEF Fresh
  <2> HIDE DEF two
  <2>4. /\ WellBus(bus')
        /\ Up(bus') = Up(bus) \cup {LogAll, AuditAll}
        /\ Had(bus') = Had(bus) \cup {LogAll, AuditAll}
        /\ \A x \in Listeners \ {LogAll, AuditAll} : bus'.handle[x] = bus.handle[x]
    BY <2>1, <2>2, <2>3, ListsAre, OnAllAdds
  <2>5. /\ disposables'["audit"] = disposables["audit"] \o two
        /\ disposables'["plugin"] = disposables["plugin"]
        /\ disposables' \in [{"audit", "plugin"} -> Seq(Listeners)]
    <3>1. two \in Seq(Listeners)
      BY <2>2, ListsAre
    <3> QED BY <2>1, <3>1 DEF FlowTypeOK
  <2>6. FlowTypeOK'
    BY <1>1, <2>5 DEF FlowTypeOK
  <2>7. Alls = {ForwardAll, WireAll, LogAll, AuditAll, PluginAll}
    BY DEF Alls
  <2>8. \A o \in Owners, i \in Ids, k \in Kinds, a \in Agents :
          At(o, i, k, a) \notin {LogAll, AuditAll}
    BY <2>7, AtsAreApart
  <2>9. /\ ForwardAll \notin {LogAll, AuditAll} /\ WireAll \notin {LogAll, AuditAll}
        /\ PluginAll \notin {LogAll, AuditAll}
    BY DEF ForwardAll, WireAll, LogAll, AuditAll, PluginAll
  <2>10. Registered'
    BY <1>1, <2>4, <2>8, <2>9 DEF Registered, Known, Owners
  <2>11. Fresh'
    BY <1>1, <2>4, <2>8, <2>9 DEF Fresh, Known, Owners
  <2>12. Handles'
    <3>1. OfTransport(Up(bus')) = OfTransport(Up(bus))
      BY <2>4, AllsAre DEF OfTransport
    <3>2. OfAudit(Up(bus')) = OfAudit(Up(bus)) \cup {LogAll, AuditAll}
      BY <2>4, AllsAre DEF OfAudit
    <3>3. OfAudit(Up(bus)) \cap {LogAll, AuditAll} = {}
      BY <2>3 DEF OfAudit, Up
    <3>4. Lists(disposables'["audit"], OfAudit(Up(bus')))
      <4>1. Lists(disposables["audit"], OfAudit(Up(bus)))
        BY DEF Handles
      <4> QED BY <2>2, <2>5, <3>2, <3>3, <4>1, ListsBoth
    <3> QED BY <1>1, <3>1, <3>4 DEF Handles
  <2>13. PluginHandle'
    <3>1. ForwardAll \in Listeners /\ PluginAll \in Listeners
      BY AllsAre, <2>7
    <3> QED BY <1>1, <2>4, <2>5, <2>9, <3>1 DEF PluginHandle
  <2>14. Lived' /\ NoWakeupIsMissed'
    BY <1>1 DEF Lived, NoWakeupIsMissed, Known, FirstOfId
  <2> QED BY <2>4, <2>6, <2>10, <2>11, <2>12, <2>13, <2>14
<1> QED BY <1>2, <1>3

LEMMA LoadPluginKeeps ==
  ASSUME FlowInv, LoadPlugin
  PROVE  FlowInv'
<1> USE DEF FlowInv
<1>1. engine = "auditing" /\ engine' = "serving"
      /\ cleanups' = cleanups /\ audit' = audit
      /\ life' = life /\ id' = id /\ idle' = idle /\ emitted' = emitted /\ sent' = sent
      /\ audited' = audited /\ watched' = watched /\ wait' = wait
  BY DEF LoadPlugin, agentVars
<1>2. /\ bus' = B!On(bus, PluginAll)
      /\ disposables' = [disposables EXCEPT !["plugin"] = @ \o <<PluginAll>>]
      /\ PluginAll \in Listeners
  <2>1. PluginAll \in Listeners
    BY AllsAre DEF Alls
  <2>2. bus' = B!OnAll(bus, <<PluginAll>>)
    BY DEF LoadPlugin, Subscribe, PluginAll
  <2> QED BY <2>1, <2>2, OneOn DEF LoadPlugin, Subscribe, PluginAll
<1>3. PluginAll \notin Had(bus) /\ ForwardAll \in Up(bus)
  BY <1>1 DEF Fresh, Registered
<1>4. /\ WellBus(bus')
      /\ Up(bus') = Up(bus) \cup {PluginAll}
      /\ Had(bus') = Had(bus) \cup {PluginAll}
      /\ \A x \in Listeners \ {PluginAll} : bus'.handle[x] = bus.handle[x]
      /\ \A x \in Up(bus) : EventOf(x) = EventOf(PluginAll) =>
           bus'.handle[PluginAll] = bus.handle[x]
  BY <1>2, <1>3, OnAdds
<1>5. disposables["plugin"] = <<>> /\ disposables \in [{"audit", "plugin"} -> Seq(Listeners)]
  BY <1>3 DEF PluginHandle, FlowTypeOK
<1>6. /\ disposables'["plugin"] = <<PluginAll>>
      /\ disposables'["audit"] = disposables["audit"]
      /\ disposables' \in [{"audit", "plugin"} -> Seq(Listeners)]
  <2>1. disposables["plugin"] \o <<PluginAll>> = <<PluginAll>> /\ <<PluginAll>> \in Seq(Listeners)
    BY <1>2, <1>5
  <2> QED BY <1>2, <1>5, <2>1
<1>7. FlowTypeOK'
  BY <1>1, <1>6 DEF FlowTypeOK
<1>8. \A o \in Owners, i \in Ids, k \in Kinds, a \in Agents : At(o, i, k, a) # PluginAll
  <2>1. {PluginAll} \in SUBSET Alls
    BY DEF Alls
  <2> QED BY <2>1, AtsAreApart
<1>9. ForwardAll # PluginAll /\ WireAll # PluginAll /\ LogAll # PluginAll /\ AuditAll # PluginAll
  BY DEF ForwardAll, WireAll, LogAll, AuditAll, PluginAll
<1>10. Registered'
  BY <1>1, <1>4, <1>8, <1>9 DEF Registered, Known, Owners
<1>11. Fresh'
  BY <1>1, <1>4, <1>8, <1>9 DEF Fresh, Known, Owners
<1>12. Handles'
  <2>1. OfTransport(Up(bus')) = OfTransport(Up(bus)) /\ OfAudit(Up(bus')) = OfAudit(Up(bus))
    BY <1>4, AllsAre DEF OfTransport, OfAudit
  <2> QED BY <1>1, <1>6, <2>1 DEF Handles
<1>13. PluginHandle'
  <2>1. bus'.handle[PluginAll] = bus'.handle[ForwardAll]
    <3>1. ForwardAll \in Listeners /\ EventOf(ForwardAll) = EventOf(PluginAll)
      BY AllsAre DEF Alls
    <3> QED BY <1>3, <1>4, <1>9, <3>1
  <2> QED BY <1>1, <1>4, <1>6, <2>1 DEF PluginHandle
<1>14. Lived' /\ NoWakeupIsMissed'
  BY <1>1 DEF Lived, NoWakeupIsMissed, Known, FirstOfId
<1> QED BY <1>4, <1>7, <1>10, <1>11, <1>12, <1>13, <1>14
LEMMA AgentsAreNamed ==
  ASSUME FlowInv, NEW a \in Agents
  PROVE  /\ life[a] # "none" => id[a] \in Ids
         /\ watched[a] => id[a] \in Ids
BY DEF FlowInv, FlowTypeOK, Lived, Known

(* The other plugin's handle, called by itself or by the loader.           *)
LEMMA PluginOffKeeps ==
  ASSUME FlowInv, PluginAll \in Had(bus), engine \in {"serving", "unplugging"}
  PROVE  LET b == B!Off(bus, PluginAll)
         IN  /\ WellBus(b)
             /\ Up(b) = Up(bus) \ {PluginAll}
             /\ Had(b) = Had(bus)
             /\ b.handle = bus.handle
<1>1. bus.handle[PluginAll] = bus.handle[ForwardAll]
  BY DEF FlowInv, PluginHandle
<1>2. ForwardAll \in Up(bus)
  BY DEF FlowInv, Registered
<1>3. bus.sets[bus.handle[PluginAll]] # {}
  BY <1>1, <1>2 DEF Up
<1> QED BY <1>3, OffTakes DEF FlowInv

LEMMA PluginLeavesKeeps ==
  ASSUME FlowInv, PluginLeaves
  PROVE  FlowInv'
<1> USE DEF FlowInv
<1>1. engine = "serving" /\ engine' = engine /\ bus' = B!Off(bus, PluginAll)
      /\ cleanups' = cleanups /\ audit' = audit /\ disposables' = disposables
      /\ life' = life /\ id' = id /\ idle' = idle /\ emitted' = emitted /\ sent' = sent
      /\ audited' = audited /\ watched' = watched /\ wait' = wait
  BY DEF PluginLeaves, agentVars, PluginAll
<1>2. /\ WellBus(bus') /\ Up(bus') = Up(bus) \ {PluginAll}
      /\ Had(bus') = Had(bus) /\ bus'.handle = bus.handle
  BY <1>1, PluginOffKeeps DEF PluginHandle
<1>3. \A o \in Owners, i \in Ids, k \in Kinds, a \in Agents : At(o, i, k, a) # PluginAll
  <2>1. {PluginAll} \in SUBSET Alls
    BY DEF Alls
  <2> QED BY <2>1, AtsAreApart
<1>4. ForwardAll # PluginAll /\ WireAll # PluginAll
  BY DEF ForwardAll, WireAll, PluginAll
<1>5. Registered' /\ Fresh'
  BY <1>1, <1>2, <1>3, <1>4, AgentsAreNamed DEF Registered, Fresh, Known, Owners, Kinds
<1>6. Handles'
  <2>1. OfTransport(Up(bus')) = OfTransport(Up(bus)) /\ OfAudit(Up(bus')) = OfAudit(Up(bus))
    BY <1>2, AllsAre DEF OfTransport, OfAudit
  <2> QED BY <1>1, <2>1 DEF Handles
<1>7. PluginHandle' /\ FlowTypeOK'
  BY <1>1, <1>2 DEF PluginHandle, FlowTypeOK
<1>8. Lived' /\ NoWakeupIsMissed'
  BY <1>1 DEF Lived, NoWakeupIsMissed, Known, FirstOfId
<1> QED BY <1>2, <1>5, <1>6, <1>7, <1>8

LEMMA BeginShutdownKeeps ==
  ASSUME FlowInv, BeginShutdown
  PROVE  FlowInv'
<1> USE DEF FlowInv
<1>1. engine = "serving" /\ engine' = "unplugging" /\ bus' = bus
      /\ cleanups' = cleanups /\ audit' = audit /\ disposables' = disposables
      /\ life' = life /\ id' = id /\ idle' = idle /\ emitted' = emitted /\ sent' = sent
      /\ audited' = audited /\ watched' = watched /\ wait' = wait
  BY DEF BeginShutdown, agentVars
<1>2. FlowTypeOK' /\ WellBus(bus') /\ Handles' /\ PluginHandle'
  BY <1>1 DEF FlowTypeOK, Handles, PluginHandle
<1>3. Registered' /\ Fresh'
  BY <1>1 DEF Registered, Fresh, Known
<1>4. Lived' /\ NoWakeupIsMissed'
  BY <1>1 DEF Lived, NoWakeupIsMissed, Known, FirstOfId
<1> QED BY <1>2, <1>3, <1>4

LEMMA DisposePluginKeeps ==
  ASSUME FlowInv, engine = "unplugging", Dispose("plugin")
  PROVE  FlowInv'
<1> USE DEF FlowInv
<1>1. engine' = engine
      /\ cleanups' = cleanups /\ audit' = audit
      /\ life' = life /\ id' = id /\ idle' = idle /\ emitted' = emitted /\ sent' = sent
      /\ audited' = audited /\ watched' = watched /\ wait' = wait
  BY DEF Dispose, agentVars
<1>2. disposables["plugin"] = <<PluginAll>> /\ PluginAll \in Had(bus)
  BY DEF Dispose, PluginHandle
<1>3. bus' = B!Off(bus, PluginAll) /\ disposables' = [disposables EXCEPT !["plugin"] = <<>>]
  <2>1. Head(<<PluginAll>>) = PluginAll /\ Tail(<<PluginAll>>) = <<>>
    OBVIOUS
  <2> QED BY <1>2, <2>1 DEF Dispose
<1>4. /\ WellBus(bus') /\ Up(bus') = Up(bus) \ {PluginAll}
      /\ Had(bus') = Had(bus) /\ bus'.handle = bus.handle
  BY <1>2, <1>3, PluginOffKeeps
<1>5. /\ disposables'["plugin"] = <<>> /\ disposables'["audit"] = disposables["audit"]
      /\ disposables' \in [{"audit", "plugin"} -> Seq(Listeners)]
  BY <1>3 DEF FlowTypeOK
<1>6. \A o \in Owners, i \in Ids, k \in Kinds, a \in Agents : At(o, i, k, a) # PluginAll
  <2>1. {PluginAll} \in SUBSET Alls
    BY DEF Alls
  <2> QED BY <2>1, AtsAreApart
<1>7. ForwardAll # PluginAll /\ WireAll # PluginAll
  BY DEF ForwardAll, WireAll, PluginAll
<1>8. Registered' /\ Fresh'
  BY <1>1, <1>4, <1>6, <1>7 DEF Registered, Fresh, Known, Owners
<1>9. Handles'
  <2>1. OfTransport(Up(bus')) = OfTransport(Up(bus)) /\ OfAudit(Up(bus')) = OfAudit(Up(bus))
    BY <1>4, AllsAre DEF OfTransport, OfAudit
  <2> QED BY <1>1, <1>5, <2>1 DEF Handles
<1>10. PluginHandle' /\ FlowTypeOK'
  BY <1>1, <1>4, <1>5 DEF PluginHandle, FlowTypeOK
<1>11. Lived' /\ NoWakeupIsMissed'
  BY <1>1 DEF Lived, NoWakeupIsMissed, Known, FirstOfId
<1> QED BY <1>4, <1>8, <1>9, <1>10, <1>11

LEMMA DisposeAuditKeeps ==
  ASSUME FlowInv, engine = "unauditing", Dispose("audit")
  PROVE  FlowInv'
<1> USE DEF FlowInv
<1> DEFINE l == Head(disposables["audit"])
<1>1. engine' = engine
      /\ cleanups' = cleanups /\ audit' = audit
      /\ life' = life /\ id' = id /\ idle' = idle /\ emitted' = emitted /\ sent' = sent
      /\ audited' = audited /\ watched' = watched /\ wait' = wait
  BY DEF Dispose, agentVars
<1>2. l \in OfAudit(Up(bus)) /\ Lists(Tail(disposables["audit"]), OfAudit(Up(bus)) \ {l})
  BY ListsTail DEF Dispose, Handles
<1>3. /\ bus' = B!Off(bus, l)
      /\ disposables' = [disposables EXCEPT !["audit"] = Tail(@)]
      /\ l \in Up(bus) /\ l[1] \in {"log", "audit"}
  BY <1>2 DEF Dispose, OfAudit
<1>4. /\ disposables'["audit"] = Tail(disposables["audit"])
      /\ disposables'["plugin"] = disposables["plugin"]
      /\ disposables' \in [{"audit", "plugin"} -> Seq(Listeners)]
  <2>1. Tail(disposables["audit"]) \in Seq(Listeners)
    BY <1>2, ListsAre
  <2> QED BY <1>3, <2>1 DEF FlowTypeOK
<1> HIDE DEF l
<1>5. /\ WellBus(bus') /\ Up(bus') = Up(bus) \ {l}
      /\ Had(bus') = Had(bus) /\ bus'.handle = bus.handle
  <2>1. l \in Had(bus) /\ bus.sets[bus.handle[l]] # {}
    BY <1>3 DEF Up
  <2> QED BY <1>3, <2>1, OffTakes
<1>6. \A o \in {"forward", "wait"}, i \in Ids, k \in Kinds, a \in Agents : At(o, i, k, a) # l
  <2>1. \A o \in Owners, i \in Ids, k \in Kinds, a \in Agents : At(o, i, k, a)[1] = o
    BY AtsAreOf
  <2> QED BY <1>3, <2>1 DEF Owners
<1>7. ForwardAll # l /\ WireAll # l /\ PluginAll # l
  BY <1>3, AllsAre
<1>8. Registered' /\ Fresh'
  BY <1>1, <1>5, <1>6, <1>7 DEF Registered, Fresh, Known
<1>9. Handles'
  <2>1. OfTransport(Up(bus')) = OfTransport(Up(bus)) /\ OfAudit(Up(bus')) = OfAudit(Up(bus)) \ {l}
    BY <1>3, <1>5 DEF OfTransport, OfAudit
  <2> QED BY <1>1, <1>2, <1>4, <2>1 DEF Handles
<1>10. PluginHandle' /\ FlowTypeOK'
  BY <1>1, <1>4, <1>5, <1>7 DEF PluginHandle, FlowTypeOK
<1>11. Lived' /\ NoWakeupIsMissed'
  BY <1>1 DEF Lived, NoWakeupIsMissed, Known, FirstOfId
<1> QED BY <1>5, <1>8, <1>9, <1>10, <1>11

LEMMA DestroyPluginsKeeps ==
  ASSUME FlowInv, DestroyPlugins
  PROVE  FlowInv'
<1>1. CASE engine = "unplugging" /\ Dispose("plugin")
  BY <1>1, DisposePluginKeeps
<1>2. CASE engine = "unauditing" /\ Dispose("audit")
  BY <1>2, DisposeAuditKeeps
<1>3. ASSUME \/ /\ engine = "unplugging" /\ disposables["plugin"] = <<>>
                /\ engine' = "unauditing"
             \/ /\ engine = "unauditing" /\ disposables["audit"] = <<>>
                /\ engine' = "closing",
             UNCHANGED <<audit, bus, cleanups, disposables, agentVars>>
      PROVE  FlowInv'
  <2> USE DEF FlowInv
  <2>1. bus' = bus /\ cleanups' = cleanups /\ audit' = audit /\ disposables' = disposables
        /\ life' = life /\ id' = id /\ idle' = idle /\ emitted' = emitted /\ sent' = sent
        /\ audited' = audited /\ watched' = watched /\ wait' = wait
    BY <1>3 DEF agentVars
  <2>2. FlowTypeOK' /\ WellBus(bus') /\ Handles' /\ PluginHandle'
    BY <1>3, <2>1 DEF FlowTypeOK, Handles, PluginHandle
  <2>3. Registered' /\ Fresh'
    BY <1>3, <2>1 DEF Registered, Fresh, Known
  <2>4. Lived' /\ NoWakeupIsMissed'
    BY <1>3, <2>1 DEF Lived, NoWakeupIsMissed, Known, FirstOfId
  <2> QED BY <2>2, <2>3, <2>4
<1> QED BY <1>1, <1>2, <1>3 DEF DestroyPlugins

LEMMA StopTransportKeeps ==
  ASSUME FlowInv, StopTransport
  PROVE  FlowInv'
<1> USE DEF FlowInv
<1> DEFINE x == OfTransport(Up(bus))
<1>1. engine = "closing" /\ engine' = "stopped" /\ bus' = B!OffEach(bus, cleanups)
      /\ cleanups' = <<>> /\ audit' = audit /\ disposables' = disposables
      /\ life' = life /\ id' = id /\ idle' = idle /\ emitted' = emitted /\ sent' = sent
      /\ audited' = audited /\ watched' = watched /\ wait' = wait
  BY DEF StopTransport, agentVars
<1>2. Lists(cleanups, x) /\ x \subseteq Up(bus)
  BY DEF Handles, OfTransport
<1>3. \A l \in Up(bus) : l \in x <=> l[1] \in {"forward", "wire"}
  BY DEF OfTransport
<1> HIDE DEF x
<1>4. /\ WellBus(bus') /\ Up(bus') = Up(bus) \ x
      /\ Had(bus') = Had(bus) /\ bus'.handle = bus.handle
  BY <1>1, <1>2, ListsAre, OffEachTakes
<1>5. Registered'
  <2>1. /\ \A i \in Ids, k \in Kinds, a \in Agents : At("forward", i, k, a) \notin Up(bus')
        /\ \A i \in Ids, k \in Kinds, a \in Agents :
             At("wait", i, k, a) \in Up(bus') <=> At("wait", i, k, a) \in Up(bus)
        /\ Up(bus') \subseteq Up(bus)
    BY <1>3, <1>4, AtsAre DEF Owners
  <2>2. ForwardAll \notin Up(bus') /\ WireAll \notin Up(bus')
    BY <1>3, <1>4, AllsAre
  <2> QED BY <1>1, <2>1, <2>2 DEF Registered, Known
<1>6. Fresh' /\ FlowTypeOK'
  <2>1. cleanups' \in Seq(Listeners)
    BY <1>1
  <2> QED BY <1>1, <1>4, <2>1 DEF Fresh, FlowTypeOK, Known
<1>7. Handles'
  <2>1. OfTransport(Up(bus')) = {} /\ OfAudit(Up(bus')) = OfAudit(Up(bus))
    BY <1>3, <1>4 DEF OfTransport, OfAudit
  <2> QED BY <1>1, <2>1, ListsNone DEF Handles
<1>8. PluginHandle'
  BY <1>1, <1>4 DEF PluginHandle
<1>9. Lived' /\ NoWakeupIsMissed'
  BY <1>1 DEF Lived, NoWakeupIsMissed, Known, FirstOfId
<1> QED BY <1>4, <1>5, <1>6, <1>7, <1>8, <1>9
LEMMA BuildKeeps ==
  ASSUME FlowInv, NEW a \in Agents, NEW i \in Ids, Build(a, i)
  PROVE  FlowInv'
<1> USE DEF FlowInv
<1>1. /\ life[a] = "none" /\ id[a] = None /\ engine \notin {"new", "stopped"}
      /\ life' = [life EXCEPT ![a] = "built"] /\ id' = [id EXCEPT ![a] = i]
      /\ engine' = engine /\ bus' = bus
      /\ cleanups' = cleanups /\ audit' = audit /\ disposables' = disposables
      /\ idle' = idle /\ emitted' = emitted /\ sent' = sent
      /\ audited' = audited /\ watched' = watched /\ wait' = wait
  BY DEF Build, Lived
<1>2. FlowTypeOK' /\ WellBus(bus') /\ Handles' /\ PluginHandle'
  BY <1>1 DEF FlowTypeOK, Handles, PluginHandle
<1>3. /\ i # None
      /\ \A b \in Agents : b # a => life'[b] = life[b] /\ id'[b] = id[b]
      /\ life'[a] = "built" /\ id'[a] = i
      /\ \A b \in Agents : Known(b)' <=> Known(b)
      /\ ~Known(a) /\ wait[a] = "none" /\ ~watched[a] /\ ~emitted[a]
  BY <1>1, FlowAssumption DEF FlowTypeOK, Known, Lived
<1>4. Registered'
  BY <1>1, <1>3 DEF Registered
<1>5. Fresh'
  BY <1>1, <1>3 DEF Fresh
<1>6. NoWakeupIsMissed'
  BY <1>1, <1>3 DEF NoWakeupIsMissed
<1>7. Lived'
  <2>1. ASSUME NEW b \in Agents, emitted[b], FirstOfId(b)' PROVE FirstOfId(b)
    <3>1. id[b] # None /\ b # a
      BY <1>1, <1>3, <2>1 DEF Lived, Known
    <3> QED BY <1>1, <1>3, <2>1, <3>1 DEF FirstOfId
  <2> QED BY <1>1, <1>3, <2>1 DEF Lived
<1> QED BY <1>1, <1>2, <1>4, <1>5, <1>6, <1>7

LEMMA GoneKeeps ==
  ASSUME FlowInv, NEW a \in Agents, Gone(a)
  PROVE  FlowInv'
<1> USE DEF FlowInv
<1>1. /\ life[a] = "announced"
      /\ life' = [life EXCEPT ![a] = "gone"] /\ idle' = [idle EXCEPT ![a] = FALSE]
      /\ engine' = engine /\ bus' = bus /\ id' = id
      /\ cleanups' = cleanups /\ audit' = audit /\ disposables' = disposables
      /\ emitted' = emitted /\ sent' = sent
      /\ audited' = audited /\ watched' = watched /\ wait' = wait
      /\ engine \notin {"new", "stopped"}
  BY DEF Gone, Running
<1>2. FlowTypeOK' /\ WellBus(bus') /\ Handles' /\ PluginHandle'
  BY <1>1 DEF FlowTypeOK, Handles, PluginHandle
<1>3. /\ \A b \in Agents : b # a => life'[b] = life[b] /\ idle'[b] = idle[b]
      /\ life'[a] = "gone" /\ ~idle'[a]
      /\ \A b \in Agents : Known(b)' <=> Known(b)
  BY <1>1 DEF FlowTypeOK, Known
<1>4. Registered' /\ Fresh'
  BY <1>1, <1>3 DEF Registered, Fresh
<1>5. NoWakeupIsMissed'
  BY <1>1, <1>3 DEF NoWakeupIsMissed
<1>6. Lived'
  BY <1>1, <1>3 DEF Lived, FirstOfId
<1> QED BY <1>1, <1>2, <1>4, <1>5, <1>6

(* Those that an emit of the agent calls.                                  *)
LEMMA CallsAre ==
  ASSUME FlowInv, NEW a \in Agents, id[a] \in Ids, NEW k \in Kinds, NEW o \in Owners
  PROVE  /\ Calls(a, k, o) = {l \in Up(bus) : \E b \in Agents : l = At(o, id[a], k, b)}
         /\ IsFiniteSet(Calls(a, k, o))
         /\ Cardinality(Calls(a, k, o)) \in 0..Cardinality(Agents)
<1> DEFINE i == id[a]
           x == Calls(a, k, o)
<1>1. WellBus(bus) /\ <<i, k>> \in Events /\ Up(bus) \subseteq Listeners
  BY AtsAre DEF FlowInv, Up, Had
<1>2. x = {l \in Up(bus) : EventOf(l) = <<i, k>> /\ l[1] = o}
  BY <1>1, HeardAreUp DEF Calls
<1> HIDE DEF x
<1>3. ASSUME NEW l \in Listeners
      PROVE  EventOf(l) = <<i, k>> /\ l[1] = o <=> \E b \in Agents : l = At(o, i, k, b)
  <2>1. ASSUME EventOf(l) = <<i, k>>, l[1] = o
        PROVE  \E b \in Agents : l = At(o, i, k, b)
    <3>1. CASE l \in Alls
      <4>1. <<i, k>> = Created
        BY <2>1, <3>1, AllsAre
      <4>2. i # None
        BY FlowAssumption
      <4> QED BY <4>1, <4>2 DEF Created
    <3>2. ASSUME NEW p \in Owners, NEW j \in Ids, NEW m \in Kinds, NEW b \in Agents,
                 l = At(p, j, m, b)
          PROVE  l = At(o, i, k, b)
      BY <2>1, <3>2 DEF At, EventOf
    <3> QED BY <3>1, <3>2, ListenersAre
  <2>2. ASSUME NEW b \in Agents, l = At(o, i, k, b)
        PROVE  EventOf(l) = <<i, k>> /\ l[1] = o
    BY <2>2 DEF At, EventOf
  <2> QED BY <2>1, <2>2
<1>4. x = {l \in Up(bus) : \E b \in Agents : l = At(o, i, k, b)}
  BY <1>1, <1>2, <1>3
<1>5. x \subseteq {At(o, i, k, b) : b \in Agents}
  BY <1>4
<1>6. IsFiniteSet(x) /\ Cardinality(x) \in 0..Cardinality(Agents)
  BY <1>5, FewAre
<1> QED BY <1>4, <1>6 DEF x

LEMMA MessageKeeps ==
  ASSUME FlowInv, NEW a \in Agents, Message(a)
  PROVE  FlowInv'
<1> USE DEF FlowInv
<1> DEFINE i == id[a]
           x == Calls(a, "message", "forward")
           y == Calls(a, "message", "audit")
<1>1. /\ life[a] = "announced" /\ engine \notin {"new", "stopped"}
      /\ emitted' = [emitted EXCEPT ![a] = TRUE]
      /\ sent' = [sent EXCEPT ![a] = Cardinality(x)]
      /\ audited' = [audited EXCEPT ![a] = Cardinality(y)]
      /\ engine' = engine /\ bus' = bus /\ id' = id /\ life' = life /\ idle' = idle
      /\ cleanups' = cleanups /\ audit' = audit /\ disposables' = disposables
      /\ watched' = watched /\ wait' = wait
  BY DEF Message, Running
<1>2. i \in Ids /\ "message" \in Kinds /\ "forward" \in Owners /\ "audit" \in Owners
  BY <1>1, AgentsAreNamed DEF Kinds, Owners
<1>3. /\ x = {l \in Up(bus) : \E b \in Agents : l = At("forward", i, "message", b)}
      /\ IsFiniteSet(x) /\ Cardinality(x) \in 0..Cardinality(Agents)
  BY <1>2, CallsAre
<1>4. /\ y = {l \in Up(bus) : \E b \in Agents : l = At("audit", i, "message", b)}
      /\ IsFiniteSet(y) /\ Cardinality(y) \in 0..Cardinality(Agents)
  BY <1>2, CallsAre
<1> HIDE DEF x, y
<1>5. /\ \A b \in Agents : b # a => emitted'[b] = emitted[b] /\ sent'[b] = sent[b]
                                    /\ audited'[b] = audited[b]
      /\ sent'[a] = Cardinality(x) /\ audited'[a] = Cardinality(y)
      /\ FlowTypeOK'
  BY <1>1, <1>3, <1>4 DEF FlowTypeOK
<1>6. At("forward", i, "message", a) \in x
  BY <1>1, <1>2, <1>3 DEF Registered, Known
<1>7. Cardinality(x) >= 1
  <2>1. x # {} /\ Cardinality(x) \in Nat
    BY <1>3, <1>6, FS_CardinalityType
  <2> QED BY <1>3, <2>1, FS_EmptySet
<1>8. watched[a] /\ engine \in {"listening", "auditing", "serving"} => Cardinality(y) >= 1
  <2>1. ASSUME watched[a], engine \in {"listening", "auditing", "serving"} PROVE y # {}
    BY <1>2, <1>4, <2>1 DEF Registered
  <2>2. Cardinality(y) \in Nat
    BY <1>4, FS_CardinalityType
  <2> QED BY <1>4, <2>1, <2>2, FS_EmptySet
<1>9. ASSUME FirstOfId(a) PROVE Cardinality(x) = 1 /\ Cardinality(y) <= 1
  <2>1. ASSUME NEW b \in Agents,
               At("forward", i, "message", b) \in Up(bus) \/ At("audit", i, "message", b) \in Up(bus)
        PROVE  b = a
    <3>1. id[b] = i
      BY <1>2, <2>1 DEF Registered
    <3> QED BY <1>9, <3>1 DEF FirstOfId
  <2>2. x = {At("forward", i, "message", a)}
    BY <1>3, <1>6, <2>1
  <2>3. y \subseteq {At("audit", i, "message", a)}
    BY <1>4, <2>1
  <2>4. \A s : IsFiniteSet({s}) /\ Cardinality({s}) = 1
    BY FS_Singleton
  <2>5. Cardinality(y) <= Cardinality({At("audit", i, "message", a)})
    BY <2>3, <2>4, FS_Subset
  <2> QED BY <2>2, <2>4, <2>5
<1>10. WellBus(bus') /\ Handles' /\ PluginHandle'
  BY <1>1 DEF Handles, PluginHandle
<1>11. Registered' /\ Fresh' /\ NoWakeupIsMissed'
  BY <1>1 DEF Registered, Fresh, Known, NoWakeupIsMissed
<1>12. Lived'
  <2>1. Known(a) /\ \A b \in Agents : (Known(b)' <=> Known(b)) /\ (FirstOfId(b)' <=> FirstOfId(b))
    BY <1>1 DEF Known, FirstOfId
  <2> QED BY <1>1, <1>5, <1>7, <1>8, <1>9, <2>1 DEF Lived
<1> QED BY <1>5, <1>10, <1>11, <1>12
LEMMA WaitersAre ==
  ASSUME FlowInv, NEW a \in Agents, life[a] # "none"
  PROVE  /\ Waiter(a) = At("wait", id[a], "state", a) /\ id[a] \in Ids
         /\ Waiter(a) \in Listeners /\ Waiter(a)[1] = "wait" /\ Waiter(a) \notin Alls
         /\ wait[a] = "none" => Waiter(a) \notin Had(bus)
         /\ Waiter(a) \in Up(bus) <=> wait[a] = "pending"
<1>1. id[a] \in Ids /\ "wait" \in Owners /\ "state" \in Kinds
  BY AgentsAreNamed DEF Owners, Kinds
<1>2. Waiter(a) = At("wait", id[a], "state", a)
  BY DEF Waiter, At
<1>3. Waiter(a) \in Listeners /\ Waiter(a)[1] = "wait" /\ Waiter(a) \notin Alls
  <2>1. \A o \in Owners, i \in Ids, k \in Kinds, b \in Agents : At(o, i, k, b) \notin Alls
    BY AtsAreApart
  <2> QED BY <1>1, <1>2, <2>1, AtsAreOf
<1>4. wait[a] = "none" => Waiter(a) \notin Had(bus)
  BY <1>1, <1>2 DEF FlowInv, Fresh
<1>5. Waiter(a) \in Up(bus) <=> wait[a] = "pending"
  BY <1>1, <1>2 DEF FlowInv, Registered
<1> QED BY <1>1, <1>2, <1>3, <1>4, <1>5

LEMMA WaitForReadyKeeps ==
  ASSUME FlowInv, NEW a \in Agents, WaitForReady(a)
  PROVE  FlowInv'
<1> USE DEF FlowInv
<1>1. /\ life[a] \in {"built", "announced"} /\ wait[a] = "none"
      /\ engine' = engine /\ id' = id /\ life' = life /\ idle' = idle
      /\ cleanups' = cleanups /\ audit' = audit /\ disposables' = disposables
      /\ emitted' = emitted /\ sent' = sent /\ audited' = audited /\ watched' = watched
  BY DEF WaitForReady, Running
<1>2. Lived'
  BY <1>1 DEF Lived, WaitForReady, Known, FirstOfId, FlowTypeOK
<1>3. CASE idle[a]
  <2>1. wait' = [wait EXCEPT ![a] = "ready"] /\ bus' = bus
    BY <1>3 DEF WaitForReady
  <2>2. /\ \A b \in Agents : b # a => wait'[b] = wait[b]
        /\ wait'[a] = "ready" /\ FlowTypeOK'
    BY <1>1, <2>1 DEF FlowTypeOK
  <2>3. WellBus(bus') /\ Handles' /\ PluginHandle' /\ NoWakeupIsMissed'
    BY <1>1, <2>1, <2>2 DEF Handles, PluginHandle, NoWakeupIsMissed
  <2>4. Registered' /\ Fresh'
    BY <1>1, <2>1, <2>2 DEF Registered, Fresh, Known
  <2> QED BY <1>2, <2>2, <2>3, <2>4
<1>4. CASE ~idle[a]
  <2> DEFINE l == Waiter(a)
  <2>1. wait' = [wait EXCEPT ![a] = "pending"] /\ bus' = B!On(bus, l)
    BY <1>4 DEF WaitForReady
  <2>2. /\ \A b \in Agents : b # a => wait'[b] = wait[b]
        /\ wait'[a] = "pending" /\ FlowTypeOK'
    BY <1>1, <2>1 DEF FlowTypeOK
  <2>3. /\ l = At("wait", id[a], "state", a) /\ id[a] \in Ids
        /\ l \in Listeners /\ l[1] = "wait" /\ l \notin Alls /\ l \notin Had(bus)
    BY <1>1, WaitersAre
  <2> HIDE DEF l
  <2>4. /\ WellBus(bus') /\ Up(bus') = Up(bus) \cup {l} /\ Had(bus') = Had(bus) \cup {l}
        /\ \A x \in Listeners \ {l} : bus'.handle[x] = bus.handle[x]
    BY <2>1, <2>3, OnAdds
  <2>5. ASSUME NEW o \in Owners, NEW i \in Ids, NEW k \in Kinds, NEW b \in Agents
        PROVE  At(o, i, k, b) = l <=> o = "wait" /\ i = id[a] /\ k = "state" /\ b = a
    BY <2>3 DEF At
  <2>6. /\ ForwardAll # l /\ WireAll # l /\ LogAll # l /\ AuditAll # l /\ PluginAll # l
    BY <2>3 DEF Alls
  <2>7. Registered'
    <3>1. "forward" \in Owners /\ "wait" \in Owners /\ "audit" \in Owners
      BY DEF Owners
    <3> QED BY <1>1, <2>2, <2>3, <2>4, <2>5, <2>6, <3>1 DEF Registered, Known
  <2>8. Fresh'
    <3>1. "forward" \in Owners /\ "wait" \in Owners /\ "audit" \in Owners
      BY DEF Owners
    <3> QED BY <1>1, <2>2, <2>4, <2>5, <2>6, <3>1 DEF Fresh, Known
  <2>9. Handles'
    <3>1. OfTransport(Up(bus')) = OfTransport(Up(bus)) /\ OfAudit(Up(bus')) = OfAudit(Up(bus))
      BY <2>3, <2>4 DEF OfTransport, OfAudit
    <3> QED BY <1>1, <3>1 DEF Handles
  <2>10. PluginHandle'
    <3>1. ForwardAll \in Listeners \ {l} /\ PluginAll \in Listeners \ {l}
      BY <2>6, AllsAre DEF Alls
    <3> QED BY <1>1, <2>4, <2>6, <3>1 DEF PluginHandle
  <2>11. NoWakeupIsMissed'
    BY <1>1, <1>4, <2>2 DEF NoWakeupIsMissed
  <2> QED BY <1>2, <2>2, <2>4, <2>7, <2>8, <2>9, <2>10, <2>11
<1> QED BY <1>3, <1>4

LEMMA WaitTimeoutKeeps ==
  ASSUME FlowInv, NEW a \in Agents, WaitTimeout(a)
  PROVE  FlowInv'
<1> USE DEF FlowInv
<1> DEFINE l == Waiter(a)
<1>1. /\ wait[a] = "pending" /\ wait' = [wait EXCEPT ![a] = "failed"] /\ bus' = B!Off(bus, l)
      /\ engine' = engine /\ id' = id /\ life' = life /\ idle' = idle
      /\ cleanups' = cleanups /\ audit' = audit /\ disposables' = disposables
      /\ emitted' = emitted /\ sent' = sent /\ audited' = audited /\ watched' = watched
      /\ life[a] # "none"
  BY DEF WaitTimeout, Lived
<1>2. /\ \A b \in Agents : b # a => wait'[b] = wait[b]
      /\ wait'[a] = "failed" /\ FlowTypeOK'
  BY <1>1 DEF FlowTypeOK
<1>3. /\ l = At("wait", id[a], "state", a) /\ id[a] \in Ids
      /\ l \in Listeners /\ l[1] = "wait" /\ l \notin Alls /\ l \in Up(bus)
  BY <1>1, WaitersAre
<1> HIDE DEF l
<1>4. /\ WellBus(bus') /\ Up(bus') = Up(bus) \ {l} /\ Had(bus') = Had(bus)
      /\ bus'.handle = bus.handle
  <2>1. l \in Had(bus) /\ bus.sets[bus.handle[l]] # {}
    BY <1>3 DEF Up
  <2> QED BY <1>1, <2>1, OffTakes
<1>5. ASSUME NEW o \in Owners, NEW i \in Ids, NEW k \in Kinds, NEW b \in Agents
      PROVE  At(o, i, k, b) = l <=> o = "wait" /\ i = id[a] /\ k = "state" /\ b = a
  BY <1>3 DEF At
<1>6. /\ ForwardAll # l /\ WireAll # l /\ LogAll # l /\ AuditAll # l /\ PluginAll # l
  BY <1>3 DEF Alls
<1>7. Registered'
  <2>1. "forward" \in Owners /\ "wait" \in Owners /\ "audit" \in Owners /\ "message" \in Kinds
    BY DEF Owners, Kinds
  <2> QED BY <1>1, <1>2, <1>3, <1>4, <1>5, <1>6, <2>1, AgentsAreNamed DEF Registered, Known
<1>8. Fresh'
  BY <1>1, <1>2, <1>4 DEF Fresh, Known
<1>9. Handles'
  <2>1. OfTransport(Up(bus')) = OfTransport(Up(bus)) /\ OfAudit(Up(bus')) = OfAudit(Up(bus))
    BY <1>3, <1>4 DEF OfTransport, OfAudit
  <2> QED BY <1>1, <2>1 DEF Handles
<1>10. PluginHandle'
  BY <1>1, <1>4, <1>6 DEF PluginHandle
<1>11. NoWakeupIsMissed'
  BY <1>1, <1>2 DEF NoWakeupIsMissed
<1>12. Lived'
  BY <1>1, <1>2 DEF Lived, Known, FirstOfId
<1> QED BY <1>2, <1>4, <1>7, <1>8, <1>9, <1>10, <1>11, <1>12

LEMMA StateKeeps ==
  ASSUME FlowInv, NEW a \in Agents, NEW becomes \in BOOLEAN, State(a, becomes)
  PROVE  FlowInv'
<1> USE DEF FlowInv
<1> DEFINE ended == IF becomes THEN Calls(a, "state", "wait") ELSE {}
           i == id[a]
<1>1. /\ idle' = [idle EXCEPT ![a] = becomes]
      /\ \E order \in InAnyOrder(ended) : bus' = B!OffEach(bus, order)
      /\ wait' = [b \in Agents |-> IF Waiter(b) \in ended THEN "ready" ELSE wait[b]]
      /\ life[a] \in {"built", "announced"}
      /\ engine' = engine /\ id' = id /\ life' = life
      /\ cleanups' = cleanups /\ audit' = audit /\ disposables' = disposables
      /\ emitted' = emitted /\ sent' = sent /\ audited' = audited /\ watched' = watched
  BY DEF State, Running
<1>2. i \in Ids /\ "wait" \in Owners /\ "state" \in Kinds
      /\ "forward" \in Owners /\ "audit" \in Owners /\ "message" \in Kinds
  BY <1>1, AgentsAreNamed DEF Owners, Kinds
<1>3. /\ IsFiniteSet(ended) /\ ended \subseteq Up(bus)
      /\ \A l \in ended : becomes /\ \E b \in Agents : l = At("wait", i, "state", b)
      /\ becomes => \A b \in Agents :
           At("wait", i, "state", b) \in Up(bus) => At("wait", i, "state", b) \in ended
  <2>1. CASE becomes
    <3>1. /\ Calls(a, "state", "wait")
               = {l \in Up(bus) : \E b \in Agents : l = At("wait", i, "state", b)}
          /\ IsFiniteSet(Calls(a, "state", "wait"))
      BY <1>2, CallsAre
    <3> QED BY <2>1, <3>1
  <2>2. CASE ~becomes
    BY <2>2, FS_EmptySet
  <2> QED BY <2>1, <2>2
<1> HIDE DEF ended
<1>4. PICK order \in InAnyOrder(ended) : bus' = B!OffEach(bus, order)
  BY <1>1
<1>5. /\ WellBus(bus') /\ Up(bus') = Up(bus) \ ended /\ Had(bus') = Had(bus)
      /\ bus'.handle = bus.handle
  <2>1. ended \in SUBSET Listeners
    BY <1>3 DEF Up, Had
  <2>2. Lists(order, ended)
    BY <1>3, <2>1, EnumerationsList
  <2> QED BY <1>3, <1>4, <2>2, ListsAre, OffEachTakes
<1>6. ASSUME NEW o \in Owners, NEW j \in Ids, NEW k \in Kinds, NEW b \in Agents,
             At(o, j, k, b) \in ended
      PROVE  o = "wait" /\ j = i /\ k = "state"
  BY <1>2, <1>3, <1>6 DEF At
<1>7. \A l \in ended : l[1] = "wait" /\ l \notin Alls
  <2>1. \A o \in Owners, j \in Ids, k \in Kinds, b \in Agents : At(o, j, k, b) \notin Alls
    BY AtsAreApart
  <2> QED BY <1>2, <1>3, <2>1, AtsAreOf
<1>8. ForwardAll \notin ended /\ WireAll \notin ended
  BY <1>7 DEF Alls
<1>9. ASSUME NEW b \in Agents
      PROVE  /\ wait'[b] = IF Waiter(b) \in ended THEN "ready" ELSE wait[b]
             /\ Waiter(b) \in ended => wait[b] = "pending" /\ becomes
             /\ idle'[b] = IF b = a THEN becomes ELSE idle[b]
  <2>1. ASSUME Waiter(b) \in ended PROVE wait[b] = "pending" /\ becomes
    <3>1. PICK c \in Agents : Waiter(b) = At("wait", i, "state", c)
      BY <1>3, <2>1
    <3>2. id[b] = i /\ b = c
      BY <3>1 DEF Waiter, At
    <3> QED BY <1>2, <1>3, <2>1, <3>1, <3>2 DEF Registered
  <2> QED BY <1>1, <2>1 DEF FlowTypeOK
<1>10. FlowTypeOK'
  BY <1>1, <1>9 DEF FlowTypeOK
<1>11. Registered'
  <2>1. ASSUME NEW j \in Ids, NEW k \in Kinds, NEW b \in Agents
        PROVE  At("wait", j, k, b) \in Up(bus')
                 <=> k = "state" /\ id[b] = j /\ wait'[b] = "pending"
    <3>1. At("wait", j, k, b) \in Up(bus) <=> k = "state" /\ id[b] = j /\ wait[b] = "pending"
      BY DEF Registered
    <3>2. k = "state" /\ id[b] = j => At("wait", j, k, b) = Waiter(b)
      BY DEF At, Waiter
    <3> QED BY <1>5, <1>9, <3>1, <3>2
  <2>2. ASSUME NEW o \in {"forward", "audit"}, NEW j \in Ids, NEW k \in Kinds, NEW b \in Agents
        PROVE  At(o, j, k, b) \in Up(bus') <=> At(o, j, k, b) \in Up(bus)
    BY <1>2, <1>5, <1>6
  <2> QED BY <1>1, <1>2, <1>5, <1>8, <2>1, <2>2, AgentsAreNamed DEF Registered, Known
<1>12. Fresh'
  BY <1>1, <1>5, <1>9 DEF Fresh, Known
<1>13. Handles'
  <2>1. OfTransport(Up(bus')) = OfTransport(Up(bus)) /\ OfAudit(Up(bus')) = OfAudit(Up(bus))
    BY <1>5, <1>7 DEF OfTransport, OfAudit
  <2> QED BY <1>1, <2>1 DEF Handles
<1>14. PluginHandle'
  BY <1>1, <1>5 DEF PluginHandle
<1>15. NoWakeupIsMissed'
  <2>1. ASSUME NEW b \in Agents, wait'[b] = "pending", life[b] # "gone", idle'[b] PROVE FALSE
    <3>1. Waiter(b) \notin ended /\ wait[b] = "pending"
      BY <1>9, <2>1
    <3>2. b = a /\ becomes
      BY <1>9, <2>1, <3>1 DEF NoWakeupIsMissed
    <3>3. Waiter(a) = At("wait", i, "state", a) /\ Waiter(a) \in Up(bus)
      BY <1>1, <3>1, <3>2, WaitersAre
    <3> QED BY <1>3, <3>1, <3>2, <3>3
  <2> QED BY <1>1, <2>1 DEF NoWakeupIsMissed
<1>16. Lived'
  BY <1>1, <1>9 DEF Lived, Known, FirstOfId
<1> QED BY <1>5, <1>10, <1>11, <1>12, <1>13, <1>14, <1>15, <1>16
LEMMA AnnounceKeeps ==
  ASSUME FlowInv, NEW a \in Agents, Announce(a)
  PROVE  FlowInv'
<1> USE DEF FlowInv
<1> DEFINE i == id[a]
           seen == AuditAll \in B!Heard(bus, Created)
           f1 == At("forward", i, "message", a)
           f2 == At("forward", i, "state", a)
           t == At("audit", i, "message", a)
           fs == <<f1, f2>>
           trail == IF seen THEN <<t>> ELSE <<>>
           x == {f1, f2}
           y == IF seen THEN {t} ELSE {}
           wired == B!OnAll(bus, fs)
<1>1. /\ life[a] = "built" /\ engine \notin {"new", "stopped"}
      /\ life' = [life EXCEPT ![a] = "announced"]
      /\ watched' = [watched EXCEPT ![a] = seen]
      /\ bus' = B!OnAll(Wire(bus, a), trail)
      /\ cleanups' = cleanups \o fs
      /\ disposables' = [disposables EXCEPT !["audit"] = @ \o trail]
      /\ engine' = engine /\ audit' = audit /\ id' = id /\ idle' = idle
      /\ emitted' = emitted /\ sent' = sent /\ audited' = audited /\ wait' = wait
  BY DEF Announce, Running, Forwards, AuditAll, At
<1>2. /\ i \in Ids /\ "forward" \in Owners /\ "audit" \in Owners /\ "wait" \in Owners
      /\ "message" \in Kinds /\ "state" \in Kinds
  BY <1>1, AgentsAreNamed DEF Owners, Kinds
<1>3. Wire(bus, a) = wired
  <2>1. WireAll \in B!Heard(bus, Created)
    <3>1. WireAll \in Up(bus)
      BY <1>1 DEF Registered
    <3>2. WireAll \in Alls
      BY DEF Alls
    <3> QED BY <3>1, <3>2, AllsAre, HeardAreUp
  <2> QED BY <2>1 DEF Wire, Forwards, WireAll, At
<1>4. /\ f1 \in Listeners /\ f2 \in Listeners /\ t \in Listeners
      /\ f1 # f2 /\ f1 # t /\ f2 # t
      /\ f1[1] = "forward" /\ f2[1] = "forward" /\ t[1] = "audit"
      /\ x \subseteq Listeners /\ y \subseteq Listeners
  <2>1. f1 # f2 /\ f1 # t /\ f2 # t
    BY DEF At
  <2> QED BY <1>2, <2>1, AtsAreOf
<1>5. ASSUME NEW o \in Owners, NEW j \in Ids, NEW k \in Kinds, NEW b \in Agents
      PROVE  /\ At(o, j, k, b) \in x <=> o = "forward" /\ j = i /\ b = a
             /\ At(o, j, k, b) \in y <=> o = "audit" /\ j = i /\ b = a /\ k = "message" /\ seen
  <2> HIDE DEF seen
  <2> QED BY <1>2 DEF At, Kinds
<1>6. (x \cup y) \cap Alls = {}
  <2>1. \A o \in Owners, j \in Ids, k \in Kinds, b \in Agents : At(o, j, k, b) \notin Alls
    BY AtsAreApart
  <2> QED BY <1>2, <2>1
<1>7. f1 \notin Had(bus) /\ f2 \notin Had(bus) /\ t \notin Had(bus)
  BY <1>1, <1>2 DEF Fresh, Known
<1>8. Lists(fs, x) /\ Lists(trail, y)
  <2>1. Lists(fs, x)
    BY <1>4, ListsTwo
  <2>2. Lists(trail, y)
    BY <1>4, ListsOneOrNone
  <2> QED BY <2>1, <2>2
<1>9. x \cap Had(bus) = {} /\ y \cap (Had(bus) \cup x) = {}
  BY <1>4, <1>7
<1>10. y = {} \/ y = {t}
  OBVIOUS
<1>11. /\ \A l \in x : l[1] = "forward"
       /\ \A l \in y : l[1] = "audit"
  BY <1>4, <1>10
<1> HIDE DEF x, y, fs, trail, seen, wired
<1>12. /\ WellBus(wired) /\ Up(wired) = Up(bus) \cup x /\ Had(wired) = Had(bus) \cup x
       /\ \A l \in Listeners \ x : wired.handle[l] = bus.handle[l]
  BY <1>8, <1>9, ListsAre, OnAllAdds DEF wired
<1>13. /\ WellBus(bus') /\ Up(bus') = Up(wired) \cup y /\ Had(bus') = Had(wired) \cup y
       /\ \A l \in Listeners \ y : bus'.handle[l] = wired.handle[l]
  BY <1>1, <1>3, <1>8, <1>9, <1>12, ListsAre, OnAllAdds
<1>14. /\ disposables'["audit"] = disposables["audit"] \o trail
       /\ disposables'["plugin"] = disposables["plugin"]
       /\ disposables' \in [{"audit", "plugin"} -> Seq(Listeners)]
       /\ cleanups' \in Seq(Listeners)
  <2>1. trail \in Seq(Listeners) /\ fs \in Seq(Listeners)
    BY <1>8, ListsAre
  <2> QED BY <1>1, <2>1 DEF FlowTypeOK
<1>15. /\ \A b \in Agents : b # a => life'[b] = life[b] /\ watched'[b] = watched[b]
       /\ life'[a] = "announced" /\ watched'[a] = seen
       /\ \A b \in Agents : Known(b)' <=> Known(b) \/ b = a
       /\ ~Known(a)
  BY <1>1 DEF FlowTypeOK, Known
<1>16. FlowTypeOK'
  <2>1. seen \in BOOLEAN
    BY DEF seen
  <2> QED BY <1>1, <1>14, <2>1 DEF FlowTypeOK
<1>17. \A l \in Alls : (l \in Up(bus') <=> l \in Up(bus)) /\ (l \in Had(bus') <=> l \in Had(bus))
  BY <1>6, <1>12, <1>13
<1>18. ForwardAll \in Alls /\ WireAll \in Alls /\ LogAll \in Alls /\ AuditAll \in Alls
       /\ PluginAll \in Alls /\ Alls \subseteq Listeners
  BY AllsAre DEF Alls
<1>19. Registered'
  <2>1. ASSUME NEW b \in Agents, NEW j \in Ids, NEW k \in Kinds
        PROVE  /\ At("forward", j, k, b) \in Up(bus')
                    <=> Known(b)' /\ id[b] = j /\ engine # "stopped"
               /\ At("wait", j, k, b) \in Up(bus')
                    <=> k = "state" /\ id[b] = j /\ wait[b] = "pending"
    BY <1>1, <1>2, <1>5, <1>12, <1>13, <1>15 DEF Registered
  <2>2. ASSUME NEW b \in Agents, NEW j \in Ids, NEW k \in Kinds, At("audit", j, k, b) \in Up(bus')
        PROVE  k = "message" /\ id[b] = j /\ watched'[b]
    <3>1. CASE At("audit", j, k, b) \in Up(bus)
      <4>1. k = "message" /\ id[b] = j /\ watched[b]
        BY <3>1 DEF Registered
      <4>2. b # a
        BY <1>15, <4>1 DEF Lived
      <4> QED BY <1>15, <4>1, <4>2
    <3>2. CASE At("audit", j, k, b) \in y
      BY <1>2, <1>5, <1>15, <3>2
    <3> QED BY <1>2, <1>5, <1>12, <1>13, <2>2, <3>1, <3>2
  <2>3. ASSUME engine \in {"listening", "auditing", "serving"}, NEW b \in Agents, watched'[b]
        PROVE  At("audit", id[b], "message", b) \in Up(bus')
    <3>1. CASE b = a
      BY <1>2, <1>5, <1>13, <1>15, <2>3, <3>1
    <3>2. CASE b # a
      BY <1>12, <1>13, <1>15, <2>3, <3>2 DEF Registered
    <3> QED BY <3>1, <3>2
  <2>4. \A l \in {ForwardAll, WireAll} : l \in Up(bus') <=> engine \notin {"new", "stopped"}
    BY <1>17, <1>18 DEF Registered
  <2> QED BY <1>1, <2>1, <2>2, <2>3, <2>4 DEF Registered
<1>20. Fresh'
  <2>1. ASSUME NEW b \in Agents, NEW j \in Ids, NEW k \in Kinds
        PROVE  /\ At("forward", j, k, b) \in Had(bus') => Known(b)'
               /\ At("audit", j, k, b) \in Had(bus') => Known(b)'
               /\ At("wait", j, k, b) \in Had(bus') => wait[b] # "none"
    BY <1>2, <1>5, <1>12, <1>13, <1>15 DEF Fresh
  <2> QED BY <1>1, <1>17, <1>18, <2>1 DEF Fresh
<1>21. Handles'
  <2>1. OfTransport(Up(bus')) = OfTransport(Up(bus)) \cup x
    BY <1>11, <1>12, <1>13 DEF OfTransport
  <2>2. OfAudit(Up(bus')) = OfAudit(Up(bus)) \cup y
    BY <1>11, <1>12, <1>13 DEF OfAudit
  <2>3. OfTransport(Up(bus)) \cap x = {} /\ OfAudit(Up(bus)) \cap y = {}
    BY <1>9 DEF OfTransport, OfAudit, Up
  <2>4. Lists(cleanups', OfTransport(Up(bus')))
    <3>1. Lists(cleanups, OfTransport(Up(bus)))
      BY DEF Handles
    <3> QED BY <1>1, <1>8, <2>1, <2>3, <3>1, ListsBoth
  <2>5. Lists(disposables'["audit"], OfAudit(Up(bus')))
    <3>1. Lists(disposables["audit"], OfAudit(Up(bus)))
      BY DEF Handles
    <3> QED BY <1>8, <1>14, <2>2, <2>3, <3>1, ListsBoth
  <2>6. ASSUME engine \in {"closing", "stopped"} PROVE disposables'["audit"] = <<>>
    <3>1. disposables["audit"] = <<>> /\ Lists(disposables["audit"], OfAudit(Up(bus)))
      BY <2>6 DEF Handles
    <3>2. AuditAll \notin Up(bus)
      BY <3>1, ListsAre, AllsAre DEF OfAudit
    <3>3. ~seen
      BY <1>18, <3>2, AllsAre, HeardAreUp DEF seen
    <3> QED BY <1>14, <3>1, <3>3 DEF trail
  <2> QED BY <1>1, <2>4, <2>5, <2>6 DEF Handles
<1>22. PluginHandle'
  <2>1. \A l \in Alls : bus'.handle[l] = bus.handle[l]
    BY <1>6, <1>12, <1>13, <1>18
  <2> QED BY <1>1, <1>14, <1>17, <1>18, <2>1 DEF PluginHandle
<1>23. NoWakeupIsMissed'
  BY <1>1, <1>15 DEF NoWakeupIsMissed
<1>24. Lived'
  BY <1>1, <1>15 DEF Lived, FirstOfId
<1> QED BY <1>13, <1>16, <1>19, <1>20, <1>21, <1>22, <1>23, <1>24
LEMMA FlowStutterKeeps ==
  ASSUME FlowInv, UNCHANGED flowVars
  PROVE  FlowInv'
<1> USE DEF FlowInv
<1>1. engine' = engine /\ bus' = bus
      /\ cleanups' = cleanups /\ audit' = audit /\ disposables' = disposables
      /\ life' = life /\ id' = id /\ idle' = idle /\ emitted' = emitted /\ sent' = sent
      /\ audited' = audited /\ watched' = watched /\ wait' = wait
  BY DEF flowVars, agentVars
<1>2. FlowTypeOK' /\ WellBus(bus') /\ Handles' /\ PluginHandle'
  BY <1>1 DEF FlowTypeOK, Handles, PluginHandle
<1>3. Registered' /\ Fresh'
  BY <1>1 DEF Registered, Fresh, Known
<1>4. Lived' /\ NoWakeupIsMissed'
  BY <1>1 DEF Lived, NoWakeupIsMissed, Known, FirstOfId
<1> QED BY <1>1, <1>2, <1>3, <1>4

LEMMA FlowInvariant == FlowSpec => []FlowInv
<1>1. FlowInit => FlowInv
  BY InitHasIt
<1>2. FlowInv /\ [FlowNext]_flowVars => FlowInv'
  <2> SUFFICES ASSUME FlowInv, [FlowNext]_flowVars PROVE FlowInv'
    OBVIOUS
  <2>1. CASE StartTransport
    BY <2>1, StartTransportKeeps
  <2>2. CASE LoadAudit
    BY <2>2, LoadAuditKeeps
  <2>3. CASE LoadPlugin
    BY <2>3, LoadPluginKeeps
  <2>4. CASE PluginLeaves
    BY <2>4, PluginLeavesKeeps
  <2>5. CASE BeginShutdown
    BY <2>5, BeginShutdownKeeps
  <2>6. CASE DestroyPlugins
    BY <2>6, DestroyPluginsKeeps
  <2>7. CASE StopTransport
    BY <2>7, StopTransportKeeps
  <2>8. ASSUME NEW a \in Agents, NEW i \in Ids, Build(a, i) PROVE FlowInv'
    BY <2>8, BuildKeeps
  <2>9. ASSUME NEW a \in Agents, Announce(a) PROVE FlowInv'
    BY <2>9, AnnounceKeeps
  <2>10. ASSUME NEW a \in Agents, Message(a) PROVE FlowInv'
    BY <2>10, MessageKeeps
  <2>11. ASSUME NEW a \in Agents, Gone(a) PROVE FlowInv'
    BY <2>11, GoneKeeps
  <2>12. ASSUME NEW a \in Agents, NEW becomes \in BOOLEAN, State(a, becomes) PROVE FlowInv'
    BY <2>12, StateKeeps
  <2>13. ASSUME NEW a \in Agents, WaitForReady(a) PROVE FlowInv'
    BY <2>13, WaitForReadyKeeps
  <2>14. ASSUME NEW a \in Agents, WaitTimeout(a) PROVE FlowInv'
    BY <2>14, WaitTimeoutKeeps
  <2>15. CASE UNCHANGED flowVars
    BY <2>15, FlowStutterKeeps
  <2> QED BY <2>1, <2>2, <2>3, <2>4, <2>5, <2>6, <2>7, <2>8, <2>9, <2>10, <2>11, <2>12,
             <2>13, <2>14, <2>15 DEF FlowNext
<1> QED BY <1>1, <1>2, PTL DEF FlowSpec

(* Every variable has its type, for any number of agents and ids.          *)
THEOREM FlowTypeCorrect == FlowSpec => []FlowTypeOK
<1>1. FlowInv => FlowTypeOK
  BY DEF FlowInv
<1> QED BY <1>1, FlowInvariant, PTL

(* ServiceBus.on and emit: a listener that has not been taken off is in    *)
(* the Set that its event's emit reads.                                    *)
THEOREM ListenersStayHeard == FlowSpec => []ListenersAreHeard
<1>1. FlowInv => ListenersAreHeard
  <2> SUFFICES ASSUME FlowInv, NEW l \in Listeners,
                      bus.handle[l] # None, l \in bus.sets[bus.handle[l]]
               PROVE  l \in B!Heard(bus, EventOf(l))
    BY DEF ListenersAreHeard
  <2>1. l \in Up(bus)
    BY DEF Up, Had
  <2> QED BY <2>1, EventsAre, HeardAreUp DEF FlowInv
<1> QED BY <1>1, FlowInvariant, PTL

(* What an announced agent emits reaches the clients and the trail, once   *)
(* where its id is its own.                                                *)
THEOREM EventsReachTheirListeners == FlowSpec => []EventsArrive
<1>1. FlowInv => EventsArrive
  BY DEF FlowInv, Lived, EventsArrive
<1> QED BY <1>1, FlowInvariant, PTL

(* waitForReady reads the status and adds its listener in one step: no     *)
(* driver waits for an agent that is idle already.                         *)
THEOREM NoWaitMissesItsEvent == FlowSpec => []NoWakeupIsMissed
<1>1. FlowInv => NoWakeupIsMissed
  BY DEF FlowInv
<1> QED BY <1>1, FlowInvariant, PTL

(* A wait that has ended leaves no listener behind, and a daemon that has  *)
(* stopped none at all.                                                    *)
THEOREM TheBusIsLeftClean == FlowSpec => []NothingIsLeftBehind
<1>1. FlowInv => NothingIsLeftBehind
  <2> SUFFICES ASSUME FlowInv, NEW e \in Events, NEW l \in B!Heard(bus, e)
               PROVE  IF l[1] = "wait" THEN wait[l[3]] = "pending" ELSE engine # "stopped"
    BY DEF NothingIsLeftBehind
  <2>1. l \in Up(bus) /\ l \in Listeners
    BY HeardAreUp DEF FlowInv, Up, Had
  <2>2. CASE l \in Alls
    <3>1. l[1] # "wait"
      BY <2>2, AllsAre DEF Alls
    <3>2. ASSUME engine = "stopped" PROVE FALSE
      <4>1. l # ForwardAll /\ l # WireAll
        BY <2>1, <3>2 DEF FlowInv, Registered
      <4>2. OfAudit(Up(bus)) = {}
        BY <3>2, ListsAre DEF FlowInv, Handles
      <4>3. l # LogAll /\ l # AuditAll
        BY <2>1, <4>2, AllsAre DEF OfAudit
      <4>4. l # PluginAll
        BY <2>1, <3>2 DEF FlowInv, PluginHandle
      <4> QED BY <2>2, <4>1, <4>3, <4>4 DEF Alls
    <3> QED BY <3>1, <3>2
  <2>3. ASSUME NEW o \in Owners, NEW i \in Ids, NEW k \in Kinds, NEW a \in Agents,
               l = At(o, i, k, a)
        PROVE  IF l[1] = "wait" THEN wait[l[3]] = "pending" ELSE engine # "stopped"
    <3>1. l[1] = o /\ l[3] = a
      BY <2>3, AtsAreOf
    <3>2. CASE o = "wait"
      BY <2>1, <2>3, <3>1, <3>2 DEF FlowInv, Registered
    <3>3. CASE o = "forward"
      BY <2>1, <2>3, <3>1, <3>3 DEF FlowInv, Registered
    <3>4. ASSUME o = "audit", engine = "stopped" PROVE FALSE
      <4>1. OfAudit(Up(bus)) = {}
        BY <3>4, ListsAre DEF FlowInv, Handles
      <4> QED BY <2>1, <3>1, <3>4, <4>1 DEF OfAudit
    <3> QED BY <3>1, <3>2, <3>3, <3>4 DEF Owners
  <2> QED BY <2>1, <2>2, <2>3, ListenersAre
<1> QED BY <1>1, FlowInvariant, PTL

-----------------------------------------------------------------------------
(* WsController                                                            *)

(* Nobody has the agent before start has resolved.                         *)
Early == start # "resolved" => \A k \in Kills : kill[k] = "new"

(* start and the socket go through the handshake together.                 *)
Handshake ==
  /\ start \in {"new", "binding"} => ws = "none"
  /\ ws = "connecting" <=> start = "connecting"

IInv == TypeOK /\ Early /\ Handshake /\ ExitIsAnnouncedOnce /\ KillIsFinal

LEMMA IInvInit == Init => IInv
<1> SUFFICES ASSUME Init PROVE IInv
  OBVIOUS
<1>1. ~exited /\ exits = 0
  BY DEF Init
<1>2. ExitIsAnnouncedOnce
  BY <1>1 DEF ExitIsAnnouncedOnce
<1>3. Early /\ Handshake /\ KillIsFinal
  BY DEF Init, Early, Handshake, KillIsFinal
<1>4. TypeOK
  <2>1. ready \in BOOLEAN /\ exited \in BOOLEAN /\ crashed \in BOOLEAN
    BY Zenon DEF Init
  <2>2. /\ submit \in [Submits -> {"new", "interrupting", "waiting", "refused",
                                   "accepted", "answered", "rejected"}]
        /\ kill \in [Kills -> {"new", "waiting", "found exited", "done"}]
    BY DEF Init
  <2>3. exits \in 0..2
    BY <1>1
  <2>4. /\ start = "new" /\ server = "none" /\ ws = "none" /\ status = "starting"
    BY Zenon DEF Init
  <2> QED BY <2>1, <2>2, <2>3, <2>4 DEF TypeOK
<1> QED BY <1>2, <1>3, <1>4 DEF IInv

(* What the three ends of the agent have in common.                        *)
LEMMA ClosedOnce ==
  ASSUME IInv, OnConnectionClosed
  PROVE  /\ exited' = TRUE /\ exits' \in 0..2 /\ ExitIsAnnouncedOnce'
         /\ status' \in {"starting", "idle", "busy", "exited"}
<1>1. CASE exited
  <2>1. UNCHANGED <<exited, status, exits>>
    BY <1>1 DEF OnConnectionClosed
  <2>2. exits = 1 /\ exited = TRUE /\ status \in {"starting", "idle", "busy", "exited"}
    BY <1>1 DEF IInv, TypeOK, ExitIsAnnouncedOnce
  <2> QED BY <2>1, <2>2 DEF ExitIsAnnouncedOnce
<1>2. CASE ~exited
  <2>1. exited' = TRUE /\ status' = "exited" /\ exits' = exits + 1
    BY <1>2 DEF OnConnectionClosed
  <2>2. exits = 0
    BY <1>2 DEF IInv, ExitIsAnnouncedOnce
  <2>3. exits' = 1
    BY <2>1, <2>2
  <2> QED BY <2>1, <2>3 DEF ExitIsAnnouncedOnce
<1> QED BY <1>1, <1>2

LEMMA IInvConnection ==
  ASSUME IInv,
         Start \/ ConnectWs \/ ServerMissing \/ Opened \/ ConnectFails \/ Closing \/ Frame
  PROVE  IInv'
<1> USE DEF IInv, TypeOK, Early, Handshake, ExitIsAnnouncedOnce, KillIsFinal
<1>1. CASE Start
  BY <1>1 DEF Start
<1>2. CASE ConnectWs
  BY <1>2 DEF ConnectWs
<1>3. CASE ServerMissing
  BY <1>3 DEF ServerMissing
<1>4. CASE Opened
  BY <1>4 DEF Opened
<1>5. CASE ConnectFails
  BY <1>5 DEF ConnectFails
<1>6. CASE Closing
  BY <1>6 DEF Closing
<1>7. CASE Frame
  BY <1>7 DEF Frame
<1> QED BY <1>1, <1>2, <1>3, <1>4, <1>5, <1>6, <1>7

LEMMA IInvEnd ==
  ASSUME IInv, Closed \/ ServerExits \/ \E k \in Kills : Killed(k)
  PROVE  IInv'
<1> USE DEF IInv, TypeOK, Early, Handshake, KillIsFinal
<1>1. CASE Closed
  BY <1>1, ClosedOnce DEF Closed
<1>2. CASE ServerExits
  BY <1>2, ClosedOnce DEF ServerExits
<1>3. ASSUME NEW k \in Kills, Killed(k) PROVE IInv'
  BY <1>3, ClosedOnce DEF Killed
<1> QED BY <1>1, <1>2, <1>3

LEMMA IInvSubmit ==
  ASSUME IInv, NEW s \in Submits, Submit(s) \/ Interrupted(s) \/ TimerFires(s)
  PROVE  IInv'
<1> USE DEF IInv, TypeOK, Early, Handshake, ExitIsAnnouncedOnce, KillIsFinal
<1>1. CASE Submit(s)
  BY <1>1 DEF Submit, Send
<1>2. CASE Interrupted(s)
  <2>1. Send(s) /\ UNCHANGED <<start, server, ws, ready, exited, status, exits, kill, crashed>>
    BY <1>2 DEF Interrupted
  <2>2. submit' \in [Submits -> {"new", "interrupting", "waiting", "refused",
                                "accepted", "answered", "rejected"}]
    BY <2>1 DEF Send
  <2>3. TypeOK'
    BY <2>1, <2>2
  <2>4. (Early /\ Handshake /\ ExitIsAnnouncedOnce /\ KillIsFinal)'
    BY <2>1
  <2> QED BY <2>3, <2>4
<1>3. CASE TimerFires(s)
  BY <1>3 DEF TimerFires
<1> QED BY <1>1, <1>2, <1>3

LEMMA IInvKill ==
  ASSUME IInv, NEW k \in Kills, Kill(k)
  PROVE  IInv'
BY DEF Kill, IInv, TypeOK, Early, Handshake, ExitIsAnnouncedOnce, KillIsFinal

LEMMA IInvStep == IInv /\ [Next]_vars => IInv'
<1> SUFFICES ASSUME IInv, [Next]_vars PROVE IInv'
  OBVIOUS
<1>1. CASE UNCHANGED vars
  BY <1>1 DEF vars, IInv, TypeOK, Early, Handshake, ExitIsAnnouncedOnce, KillIsFinal
<1>2. CASE Next
  BY <1>2, IInvConnection, IInvEnd, IInvSubmit, IInvKill DEF Next
<1> QED BY <1>1, <1>2

(* The controller's fields keep their types.                               *)
THEOREM WsTypeCorrect == Spec => []TypeOK
<1>1. IInv => TypeOK
  BY DEF IInv
<1> QED BY <1>1, IInvInit, IInvStep, PTL DEF Spec

(* However the ends of server, socket and kill race, one exit is announced. *)
THEOREM WsExitIsAnnouncedOnce == Spec => []ExitIsAnnouncedOnce
<1>1. IInv => ExitIsAnnouncedOnce
  BY DEF IInv
<1> QED BY <1>1, IInvInit, IInvStep, PTL DEF Spec

(* After a kill that found the agent running no connection is open and no  *)
(* server runs unsignalled; once it has returned the agent is exited.      *)
THEOREM WsKillIsFinal == Spec => []KillIsFinal
<1>1. IInv => KillIsFinal
  BY DEF IInv
<1> QED BY <1>1, IInvInit, IInvStep, PTL DEF Spec

-----------------------------------------------------------------------------
(* PluginLoader: one group of plugins                                      *)

(* Who is to come before a plugin comes before it.                         *)
Follows(edges, s) ==
  \A e \in edges : \A i \in DOMAIN s : e[2] = s[i] =>
    \E k \in DOMAIN s : k < i /\ s[k] = e[1]

LEMMA AppendIs ==
  ASSUME NEW S, NEW s \in Seq(S), NEW e \in S
  PROVE  /\ Append(s, e) \in Seq(S) /\ Len(s) \in Nat /\ Len(Append(s, e)) = Len(s) + 1
         /\ Append(s, e)[Len(s) + 1] = e
         /\ \A j \in 1..Len(s) : Append(s, e)[j] = s[j]
<1>1. Len(s) \in Nat /\ Len(Append(s, e)) = Len(s) + 1
  OBVIOUS
<1> QED BY <1>1

LEMMA MinIs ==
  ASSUME NEW T \in SUBSET Nat, T # {}
  PROVE  Min(T) \in T
<1>1. \E x \in T : \A y \in T : x <= y
  BY Least
<1> QED BY <1>1 DEF Min

LEMMA ShiftKeeps ==
  ASSUME NEW group \in SUBSET Nat, NEW edges \in SUBSET (group \X group),
         NEW s \in Seq(group), Once(s), Follows(edges, s)
  PROVE  LET t == Shift(edges, group, s)
         IN  /\ t \in Seq(group) /\ Once(t) /\ Follows(edges, t)
             /\ \/ t = s /\ Ready(edges, group, s) = {}
                \/ Len(t) = Len(s) + 1
<1> DEFINE t == Shift(edges, group, s)
           queue == Ready(edges, group, s)
<1>1. CASE queue = {}
  <2>1. t = s
    BY <1>1 DEF Shift
  <2> QED BY <1>1, <2>1
<1>2. CASE queue # {}
  <2> DEFINE p == Min(queue)
  <2>1. p \in queue
    <3>1. queue \in SUBSET Nat
      BY DEF Ready
    <3> HIDE DEF queue
    <3> QED BY <1>2, <3>1, MinIs
  <2>2. /\ p \in group /\ \A i \in DOMAIN s : s[i] # p
        /\ \A e \in edges : e[2] = p => \E k \in DOMAIN s : s[k] = e[1]
    BY <2>1 DEF Ready, ToSet
  <2>3. t = Append(s, p)
    BY <1>2 DEF Shift
  <2> HIDE DEF p, t, queue
  <2>4. /\ t \in Seq(group) /\ Len(s) \in Nat /\ Len(t) = Len(s) + 1
        /\ t[Len(s) + 1] = p /\ \A j \in 1..Len(s) : t[j] = s[j]
    BY <2>2, <2>3, AppendIs
  <2>5. /\ DOMAIN s = 1..Len(s) /\ DOMAIN t = 1..Len(t)
        /\ \A j \in DOMAIN t : j \in DOMAIN s \/ j = Len(s) + 1
        /\ DOMAIN s \subseteq DOMAIN t
    BY <2>4
  <2>6. \A j \in DOMAIN s : t[j] = s[j]
    BY <2>4, <2>5
  <2>7. Once(t)
    BY <2>2, <2>4, <2>5, <2>6 DEF Once
  <2>8. ASSUME NEW e \in edges, NEW i \in DOMAIN t, e[2] = t[i]
        PROVE  \E k \in DOMAIN t : k < i /\ t[k] = e[1]
    <3>1. CASE i \in DOMAIN s
      <4>1. PICK k \in DOMAIN s : k < i /\ s[k] = e[1]
        BY <2>6, <2>8, <3>1 DEF Follows
      <4> QED BY <2>5, <2>6, <4>1
    <3>2. CASE i = Len(s) + 1
      <4>1. PICK k \in DOMAIN s : s[k] = e[1]
        BY <2>2, <2>4, <2>8, <3>2
      <4>2. k < i
        BY <2>4, <2>5, <3>2, <4>1
      <4> QED BY <2>5, <2>6, <4>1, <4>2
    <3> QED BY <2>5, <3>1, <3>2
  <2>9. Follows(edges, t)
    BY <2>8 DEF Follows
  <2> QED BY <2>4, <2>7, <2>9 DEF t
<1> QED BY <1>1, <1>2 DEF t

LEMMA ShiftsDef ==
  ASSUME NEW edges, NEW group, Cardinality(group) \in Nat
  PROVE  /\ Shifts(edges, group)[0] = <<>>
         /\ \A n \in 1..Cardinality(group) :
              Shifts(edges, group)[n] = Shift(edges, group, Shifts(edges, group)[n - 1])
<1> DEFINE Add(f, n) == IF n = 0 THEN <<>> ELSE Shift(edges, group, f[n - 1])
           Sol(f, m) == f = [n \in 0..m |-> Add(f, n)]
           T == {m \in Nat : \E f : Sol(f, m)}
<1>0. ASSUME NEW f, NEW g, NEW n \in Nat, n # 0 => f[n - 1] = g[n - 1]
      PROVE  Add(f, n) = Add(g, n)
  BY <1>0
<1>1. Shifts(edges, group) = CHOOSE f : Sol(f, Cardinality(group))
  BY DEF Shifts
<1>7. \A f : Add(f, 0) = <<>> /\ \A n \in Nat \ {0} : Add(f, n) = Shift(edges, group, f[n - 1])
  OBVIOUS
<1> HIDE DEF Add
<1>2. 0 \in T
  <2> DEFINE g == [n \in 0..0 |-> Add(<<>>, 0)]
  <2>1. \A n \in 0..0 : Add(g, n) = Add(<<>>, 0)
    BY <1>0
  <2>2. Sol(g, 0)
    BY <2>1
  <2> QED BY <2>2
<1>3. ASSUME NEW m \in T PROVE m + 1 \in T
  <2>1. PICK f : Sol(f, m)
    OBVIOUS
  <2> DEFINE g == [n \in 0..(m + 1) |-> IF n = m + 1 THEN Add(f, m + 1) ELSE f[n]]
  <2>2. ASSUME NEW n \in 0..(m + 1) PROVE g[n] = Add(g, n)
    <3>1. n # 0 => n - 1 \in 0..(m + 1) /\ n - 1 # m + 1
      OBVIOUS
    <3>2. n # 0 => g[n - 1] = f[n - 1]
      BY <3>1
    <3> HIDE DEF g
    <3>3. Add(f, n) = Add(g, n)
      BY <1>0, <3>2
    <3> USE DEF g
    <3>4. CASE n = m + 1
      BY <3>3, <3>4
    <3>5. CASE n # m + 1
      <4>1. n \in 0..m
        BY <3>5
      <4>2. f[n] = Add(f, n)
        BY <2>1, <4>1
      <4>3. g[n] = f[n]
        BY <3>5
      <4> HIDE DEF g
      <4> QED BY <3>3, <4>2, <4>3
    <3> QED BY <3>4, <3>5
  <2>3. g = [n \in 0..(m + 1) |-> Add(g, n)]
    <3>1. g = [n \in 0..(m + 1) |-> g[n]]
      OBVIOUS
    <3> HIDE DEF g
    <3> QED BY <2>2, <3>1
  <2> HIDE DEF g
  <2>4. Sol(g, m + 1)
    BY <2>3
  <2> HIDE DEF Sol
  <2> QED BY <2>4
<1>4. \E f : Sol(f, Cardinality(group))
  <2> HIDE DEF T
  <2>1. T \in SUBSET Nat /\ Cardinality(group) \in 0..Cardinality(group)
    BY DEF T
  <2>2. Cardinality(group) \in T
    BY <1>2, <1>3, <2>1, Induction
  <2> QED BY <2>2 DEF T
<1>5. Sol(Shifts(edges, group), Cardinality(group))
  <2> HIDE DEF Sol
  <2> QED BY <1>1, <1>4
<1>6. \A n \in 0..Cardinality(group) : Shifts(edges, group)[n] = Add(Shifts(edges, group), n)
  BY <1>5
<1> QED BY <1>6, <1>7

(* A sequence without repetition is as long as a set iff it is all of it.  *)
LEMMA EnumeratedWhole ==
  ASSUME NEW S, IsFiniteSet(S), NEW s \in Seq(S), Once(s)
  PROVE  Len(s) = Cardinality(S) <=> ToSet(s) = S
<1>1. Len(s) \in Nat
  OBVIOUS
<1>2. IsFiniteSet(1..Len(s)) /\ Cardinality(1..Len(s)) = Len(s)
  BY <1>1, FS_Interval
<1>3. s \in Injection(1..Len(s), S)
  BY DEF Once, Injection, IsInjective
<1>4. Cardinality(1..Len(s)) = Cardinality(S) <=> s \in Surjection(1..Len(s), S)
  BY <1>3, FS_Injection
<1>5. s \in Surjection(1..Len(s), S) <=> ToSet(s) = S
  BY DEF ToSet, Surjection
<1> QED BY <1>2, <1>4, <1>5

(* What becomes of a group: each of its plugins once, with those that are  *)
(* to come before it before it; who is left over waits for another one.    *)
LEMMA GroupSorted ==
  ASSUME NEW group \in SUBSET Nat, IsFiniteSet(group),
         NEW edges \in SUBSET (group \X group)
  PROVE  LET s == Shifts(edges, group)[Cardinality(group)]
         IN  /\ s \in Seq(group) /\ Once(s) /\ Follows(edges, s)
             /\ Len(s) = Cardinality(group) => ToSet(s) = group
             /\ Len(s) # Cardinality(group) =>
                  \E left \in SUBSET group : left # {} /\
                    \A p \in left : \E e \in edges : e[2] = p /\ e[1] \in left
<1> DEFINE N == Cardinality(group)
           F == Shifts(edges, group)
           Fine(n) == /\ F[n] \in Seq(group) /\ Once(F[n]) /\ Follows(edges, F[n])
                      /\ Len(F[n]) = n \/ Ready(edges, group, F[n]) = {}
           T == {n \in Nat : n <= N => Fine(n)}
<1>1. N \in Nat
  BY FS_CardinalityType
<1>2. F[0] = <<>> /\ \A n \in 1..N : F[n] = Shift(edges, group, F[n - 1])
  BY <1>1, ShiftsDef
<1> HIDE DEF N, F
<1>3. Fine(0)
  BY <1>2 DEF Once, Follows
<1>4. ASSUME NEW n \in Nat, n < N, Fine(n) PROVE Fine(n + 1)
  <2>1. n + 1 \in 1..N /\ (n + 1) - 1 = n
    BY <1>1, <1>4
  <2>2. F[n + 1] = Shift(edges, group, F[n])
    BY <1>2, <2>1
  <2>3. /\ F[n + 1] \in Seq(group) /\ Once(F[n + 1]) /\ Follows(edges, F[n + 1])
        /\ \/ F[n + 1] = F[n] /\ Ready(edges, group, F[n]) = {}
           \/ Len(F[n + 1]) = Len(F[n]) + 1
    <3> DEFINE before == F[n]
    <3>1. before \in Seq(group) /\ Once(before) /\ Follows(edges, before)
      BY <1>4
    <3>2. F[n + 1] = Shift(edges, group, before)
      BY <2>2
    <3> HIDE DEF before, Fine, T
    <3>3. LET t == Shift(edges, group, before)
          IN  /\ t \in Seq(group) /\ Once(t) /\ Follows(edges, t)
              /\ \/ t = before /\ Ready(edges, group, before) = {}
                 \/ Len(t) = Len(before) + 1
      BY <3>1, ShiftKeeps
    <3> QED BY <3>2, <3>3 DEF before
  <2>4. CASE Ready(edges, group, F[n]) = {}
    <3>1. F[n + 1] = F[n]
      BY <2>2, <2>4 DEF Shift
    <3> QED BY <2>3, <2>4, <3>1
  <2>5. CASE Ready(edges, group, F[n]) # {}
    BY <1>4, <2>3, <2>5
  <2> QED BY <2>4, <2>5
<1>5. Fine(N)
  <2>1. 0 \in T
    BY <1>3
  <2>2. \A n \in T : n < N => n + 1 \in T
    <3> HIDE DEF Fine
    <3> QED BY <1>1, <1>4
  <2>3. T \in SUBSET Nat
    OBVIOUS
  <2>4. 0..N \subseteq T
    <3> HIDE DEF T
    <3> QED BY <1>1, <2>1, <2>2, <2>3, Induction
  <2>5. N \in 0..N /\ N <= N
    BY <1>1
  <2> HIDE DEF Fine
  <2> QED BY <2>4, <2>5
<1> DEFINE s == F[N]
<1>6. /\ s \in Seq(group) /\ Once(s) /\ Follows(edges, s)
      /\ Len(s) = N \/ Ready(edges, group, s) = {}
  BY <1>5
<1> HIDE DEF s
<1>7. Len(s) = N <=> ToSet(s) = group
  BY <1>6, EnumeratedWhole DEF N
<1>8. ASSUME Len(s) # N
      PROVE  \E left \in SUBSET group : left # {} /\
               \A p \in left : \E e \in edges : e[2] = p /\ e[1] \in left
  <2> DEFINE left == group \ ToSet(s)
  <2>1. left # {}
    <3>1. ToSet(s) \subseteq group
      BY <1>6 DEF ToSet
    <3> QED BY <1>7, <1>8, <3>1
  <2>2. ASSUME NEW p \in left PROVE \E e \in edges : e[2] = p /\ e[1] \in left
    <3>1. PICK e \in edges : e[2] = p /\ e[1] \notin ToSet(s)
      BY <1>6, <1>8 DEF Ready
    <3>2. e[1] \in group
      OBVIOUS
    <3> QED BY <3>1, <3>2
  <2> QED BY <2>1, <2>2
<1> QED BY <1>6, <1>7, <1>8 DEF s, F, N

-----------------------------------------------------------------------------
(* PluginLoader: group after group                                         *)

LEMMA MaxIs ==
  ASSUME NEW S \in SUBSET Nat, IsFiniteSet(S), S # {}
  PROVE  Max(S) \in S /\ \A y \in S : y <= Max(S)
<1> DEFINE N == Cardinality(S)
<1>1. N \in Nat /\ ExistsBijection(1..N, S)
  BY FS_CardinalityType
<1> HIDE DEF N
<1>2. PICK f \in Bijection(1..N, S) : TRUE
  BY <1>1 DEF ExistsBijection
<1>3. f \in [1..N -> S] /\ \A y \in S : \E i \in 1..N : f[i] = y
  BY <1>2 DEF Bijection, Surjection
<1>10. \A i \in 1..N : f[i] \in Nat
  BY <1>3
<1> DEFINE Highest(m) == \E i \in 1..m : \A j \in 1..m : f[j] <= f[i]
           T == {m \in Nat : m <= N => m = 0 \/ Highest(m)}
<1>4. ASSUME NEW m \in T, m < N PROVE m + 1 \in T
  <2>0. m \in Nat /\ m + 1 \in 1..N
    <3>1. m \in Nat
      OBVIOUS
    <3> HIDE DEF T
    <3> QED BY <1>1, <1>4, <3>1
  <2>1. m + 1 \in 1..N /\ f[m + 1] \in Nat
    BY ONLY <1>10, <2>0
  <2>2. \A j \in 1..(m + 1) : j = m + 1 \/ j \in 1..m
    OBVIOUS
  <2>3. \A j \in 1..m : j \in 1..(m + 1) /\ f[j] \in Nat
    <3>1. \A j \in 1..m : j \in 1..(m + 1) /\ j \in 1..N
      BY ONLY <1>1, <2>0
    <3> QED BY ONLY <1>10, <3>1
  <2>4. CASE m = 0
    <3>1. m + 1 \in 1..(m + 1) /\ \A j \in 1..(m + 1) : f[j] <= f[m + 1]
      BY <2>1, <2>2, <2>4
    <3> QED BY <3>1
  <2>5. CASE m # 0
    <3>1. PICK i \in 1..m : \A j \in 1..m : f[j] <= f[i]
      BY <1>1, <1>4, <2>5
    <3>2. CASE f[m + 1] <= f[i]
      <4>1. \A j \in 1..(m + 1) : f[j] <= f[i]
        BY ONLY <2>2, <3>1, <3>2
      <4>2. i \in 1..(m + 1)
        BY <2>3
      <4>3. Highest(m + 1)
        BY <4>1, <4>2
      <4> HIDE DEF Highest
      <4> QED BY <2>0, <4>3
    <3>3. CASE ~(f[m + 1] <= f[i])
      <4>1. \A j \in 1..(m + 1) : f[j] <= f[m + 1]
        BY <2>1, <2>2, <2>3, <3>1, <3>3
      <4>2. m + 1 \in 1..(m + 1)
        OBVIOUS
      <4> QED BY <4>1, <4>2
    <3> QED BY <3>2, <3>3
  <2> QED BY <2>4, <2>5
<1>5. 0..N \subseteq T
  <2>1. 0 \in T /\ T \in SUBSET Nat
    OBVIOUS
  <2> HIDE DEF T
  <2> QED BY <1>1, <1>4, <2>1, Induction
<1>6. N \in T /\ N # 0
  <2>1. N \in 0..N
    BY <1>1
  <2>2. N # 0
    <3>1. PICK y \in S : TRUE
      OBVIOUS
    <3>2. PICK i \in 1..N : f[i] = y
      BY <1>3
    <3> QED BY <1>1, <3>2
  <2> HIDE DEF T
  <2> QED BY <1>5, <2>1, <2>2
<1>7. Highest(N)
  BY <1>1, <1>6
<1>8. \E x \in S : \A y \in S : x >= y
  BY <1>3, <1>7
<1>9. Max(S) \in S /\ \A y \in S : Max(S) >= y
  <2> HIDE DEF Highest, T
  <2> QED BY <1>8 DEF Max
<1> QED BY <1>9

(* Lower priorities first, and within a priority every hint kept.          *)
Ordered(all, s) ==
  \A i, j \in DOMAIN s : i <= j =>
    /\ all.priority[s[i]] <= all.priority[s[j]]
    /\ all.priority[s[i]] = all.priority[s[j]] =>
         s[j] \notin all.after[s[i]] /\ s[i] \notin all.before[s[j]]

(* Some plugins with priorities (there always are the built-in ones),      *)
(* whatever the hints they give.                                           *)
Plugins(all) ==
  /\ DOMAIN all.priority \in SUBSET Nat /\ IsFiniteSet(DOMAIN all.priority)
  /\ DOMAIN all.priority # {}
  /\ all.priority \in [DOMAIN all.priority -> Nat]

LEMMA TopIs ==
  ASSUME NEW all, Plugins(all)
  PROVE  Top(all) \in Nat /\ \A p \in DOMAIN all.priority : all.priority[p] \in 0..Top(all)
<1> DEFINE P == DOMAIN all.priority
           S == {all.priority[p] : p \in P}
<1>1. all.priority \in Surjection(P, S) /\ IsFiniteSet(P) /\ P # {}
      /\ \A p \in P : all.priority[p] \in Nat
  BY DEF Plugins, Surjection
<1>2. IsFiniteSet(S)
  <2> HIDE DEF P, S
  <2> QED BY <1>1, FS_Surjection
<1>3. S \in SUBSET Nat /\ S # {}
  BY <1>1
<1>4. Max(S) \in S /\ \A y \in S : y <= Max(S)
  <2> HIDE DEF S
  <2> QED BY <1>2, <1>3, MaxIs
<1>5. Top(all) = Max(S)
  BY DEF Top
<1>6. \A p \in P : all.priority[p] \in S /\ all.priority[p] \in Nat
  BY <1>1
<1> HIDE DEF S
<1>7. Top(all) \in Nat /\ \A y \in S : y <= Top(all)
  BY <1>3, <1>4, <1>5
<1> QED BY <1>6, <1>7

LEMMA GroupIs ==
  ASSUME NEW all, Plugins(all), NEW n \in Nat
  PROVE  LET group == Group(all, n)
             t == TopoSort(all, group)
         IN  /\ t \in Seq(group) /\ Once(t) /\ Ordered(all, t)
             /\ ~Circular(all, n) => ToSet(t) = group
             /\ Circular(all, n) =>
                  \E left \in SUBSET group : left # {} /\
                    \A p \in left : \E q \in left : q \in all.after[p] \/ p \in all.before[q]
<1> DEFINE group == Group(all, n)
           edges == Before(all, group)
           t == TopoSort(all, group)
<1>1. group \in SUBSET Nat /\ edges \in SUBSET (group \X group)
  BY DEF Plugins, Group, Before
<1>2. IsFiniteSet(group)
  <2>1. group \in SUBSET DOMAIN all.priority /\ IsFiniteSet(DOMAIN all.priority)
    BY DEF Plugins, Group
  <2> HIDE DEF group
  <2> QED BY <2>1, FS_Subset
<1>3. t = Shifts(edges, group)[Cardinality(group)]
  BY DEF TopoSort
<1>4. /\ \A p \in group : all.priority[p] = n
      /\ \A e \in edges : e[1] \in all.after[e[2]] \/ e[2] \in all.before[e[1]]
      /\ \A p, q \in group : q \in all.after[p] \/ p \in all.before[q] => <<q, p>> \in edges
  BY DEF Group, Before
<1>5. Circular(all, n) <=> Len(t) # Cardinality(group)
  BY DEF Circular
<1> HIDE DEF group, edges, t
<1>6. /\ t \in Seq(group) /\ Once(t) /\ Follows(edges, t)
      /\ Len(t) = Cardinality(group) => ToSet(t) = group
      /\ Len(t) # Cardinality(group) =>
           \E left \in SUBSET group : left # {} /\
             \A p \in left : \E e \in edges : e[2] = p /\ e[1] \in left
  BY <1>1, <1>2, <1>3, GroupSorted
<1>7. Ordered(all, t)
  <2> SUFFICES ASSUME NEW i \in DOMAIN t, NEW j \in DOMAIN t, i <= j
               PROVE  /\ all.priority[t[i]] <= all.priority[t[j]]
                      /\ t[j] \notin all.after[t[i]] /\ t[i] \notin all.before[t[j]]
    BY DEF Ordered
  <2>1. t[i] \in group /\ t[j] \in group /\ i \in Nat /\ j \in Nat
    BY <1>6
  <2>2. all.priority[t[i]] <= all.priority[t[j]]
    BY <1>4, <2>1
  <2>3. ASSUME t[j] \in all.after[t[i]] \/ t[i] \in all.before[t[j]] PROVE FALSE
    <3> DEFINE e == <<t[j], t[i]>>
    <3>1. e \in edges
      BY <1>4, <2>1, <2>3
    <3>2. e[1] = t[j] /\ e[2] = t[i]
      OBVIOUS
    <3> HIDE DEF e
    <3>3. PICK k \in DOMAIN t : k < i /\ t[k] = t[j]
      BY <1>6, <3>1, <3>2 DEF Follows
    <3>4. k = j
      BY <1>6, <3>3 DEF Once
    <3> QED BY <2>1, <3>3, <3>4
  <2> QED BY <2>2, <2>3
<1>8. ASSUME Circular(all, n)
      PROVE  \E left \in SUBSET group : left # {} /\
               \A p \in left : \E q \in left : q \in all.after[p] \/ p \in all.before[q]
  <2>1. PICK left \in SUBSET group : left # {} /\
          \A p \in left : \E e \in edges : e[2] = p /\ e[1] \in left
    BY <1>5, <1>6, <1>8
  <2>2. \A p \in left : \E q \in left : q \in all.after[p] \/ p \in all.before[q]
    BY <1>4, <2>1
  <2> QED BY <2>1, <2>2
<1> QED BY <1>5, <1>6, <1>7, <1>8 DEF group, t

LEMMA SortedDef ==
  ASSUME NEW all, Top(all) + 1 \in Nat
  PROVE  /\ Sorted(all)[0] = <<>>
         /\ \A n \in 1..(Top(all) + 1) :
              Sorted(all)[n] = Sorted(all)[n - 1] \o TopoSort(all, Group(all, n - 1))
<1> DEFINE Add(f, n) == IF n = 0 THEN <<>> ELSE f[n - 1] \o TopoSort(all, Group(all, n - 1))
           Sol(f, m) == f = [n \in 0..m |-> Add(f, n)]
           T == {m \in Nat : \E f : Sol(f, m)}
<1>0. ASSUME NEW f, NEW g, NEW n \in Nat, n # 0 => f[n - 1] = g[n - 1]
      PROVE  Add(f, n) = Add(g, n)
  BY <1>0
<1>1. Sorted(all) = CHOOSE f : Sol(f, (Top(all) + 1))
  BY DEF Sorted
<1>7. \A f : Add(f, 0) = <<>> /\ \A n \in Nat \ {0} : Add(f, n) = f[n - 1] \o TopoSort(all, Group(all, n - 1))
  OBVIOUS
<1> HIDE DEF Add
<1>2. 0 \in T
  <2> DEFINE g == [n \in 0..0 |-> Add(<<>>, 0)]
  <2>1. \A n \in 0..0 : Add(g, n) = Add(<<>>, 0)
    BY <1>0
  <2>2. Sol(g, 0)
    BY <2>1
  <2> QED BY <2>2
<1>3. ASSUME NEW m \in T PROVE m + 1 \in T
  <2>1. PICK f : Sol(f, m)
    OBVIOUS
  <2> DEFINE g == [n \in 0..(m + 1) |-> IF n = m + 1 THEN Add(f, m + 1) ELSE f[n]]
  <2>2. ASSUME NEW n \in 0..(m + 1) PROVE g[n] = Add(g, n)
    <3>1. n # 0 => n - 1 \in 0..(m + 1) /\ n - 1 # m + 1
      OBVIOUS
    <3>2. n # 0 => g[n - 1] = f[n - 1]
      BY <3>1
    <3> HIDE DEF g
    <3>3. Add(f, n) = Add(g, n)
      BY <1>0, <3>2
    <3> USE DEF g
    <3>4. CASE n = m + 1
      BY <3>3, <3>4
    <3>5. CASE n # m + 1
      <4>1. n \in 0..m
        BY <3>5
      <4>2. f[n] = Add(f, n)
        BY <2>1, <4>1
      <4>3. g[n] = f[n]
        BY <3>5
      <4> HIDE DEF g
      <4> QED BY <3>3, <4>2, <4>3
    <3> QED BY <3>4, <3>5
  <2>3. g = [n \in 0..(m + 1) |-> Add(g, n)]
    <3>1. g = [n \in 0..(m + 1) |-> g[n]]
      OBVIOUS
    <3> HIDE DEF g
    <3> QED BY <2>2, <3>1
  <2> HIDE DEF g
  <2>4. Sol(g, m + 1)
    BY <2>3
  <2> HIDE DEF Sol
  <2> QED BY <2>4
<1>4. \E f : Sol(f, (Top(all) + 1))
  <2> HIDE DEF T
  <2>1. T \in SUBSET Nat /\ (Top(all) + 1) \in 0..(Top(all) + 1)
    BY DEF T
  <2>2. (Top(all) + 1) \in T
    BY <1>2, <1>3, <2>1, Induction
  <2> QED BY <2>2 DEF T
<1>5. Sol(Sorted(all), (Top(all) + 1))
  <2> HIDE DEF Sol
  <2> QED BY <1>1, <1>4
<1>6. \A n \in 0..(Top(all) + 1) : Sorted(all)[n] = Add(Sorted(all), n)
  BY <1>5
<1>8. \A n \in 1..(Top(all) + 1) : n \in Nat \ {0} /\ n \in 0..(Top(all) + 1)
  OBVIOUS
<1>9. Sorted(all)[0] = <<>>
  <2>1. 0 \in 0..(Top(all) + 1)
    OBVIOUS
  <2> QED BY <1>6, <1>7, <2>1
<1>10. ASSUME NEW n \in 1..(Top(all) + 1)
       PROVE  Sorted(all)[n] = Sorted(all)[n - 1] \o TopoSort(all, Group(all, n - 1))
  <2>1. Sorted(all)[n] = Add(Sorted(all), n)
    BY <1>6, <1>8
  <2> QED BY <1>7, <1>8, <2>1
<1> QED BY <1>9, <1>10


LEMMA JoinedIs ==
  ASSUME NEW S, NEW s \in Seq(S), NEW t \in Seq(S)
  PROVE  /\ s \o t \in Seq(S) /\ Len(s) \in Nat /\ Len(t) \in Nat
         /\ Len(s \o t) = Len(s) + Len(t)
         /\ \A i \in 1..Len(s) : (s \o t)[i] = s[i]
         /\ \A i \in 1..Len(t) : (s \o t)[Len(s) + i] = t[i]
OBVIOUS

(* Plugins of lower priorities, and plugins of the next.                   *)
Adjacent(all, s, t, n) ==
  /\ s \in Seq(DOMAIN all.priority) /\ Once(s) /\ Ordered(all, s)
  /\ \A p \in ToSet(s) : all.priority[p] < n
  /\ t \in Seq(DOMAIN all.priority) /\ Once(t) /\ Ordered(all, t)
  /\ \A p \in ToSet(t) : all.priority[p] = n

(* A group behind those of lower priorities.                               *)
LEMMA Joined ==
  ASSUME NEW all, Plugins(all), NEW n \in Nat, NEW s, NEW t, Adjacent(all, s, t, n)
  PROVE  /\ s \o t \in Seq(DOMAIN all.priority) /\ Once(s \o t) /\ Ordered(all, s \o t)
         /\ ToSet(s \o t) = ToSet(s) \cup ToSet(t)
<1> DEFINE P == DOMAIN all.priority
           c == s \o t
           pri(p) == all.priority[p]
           fine(p, q) == /\ pri(p) <= pri(q)
                         /\ pri(p) = pri(q) => q \notin all.after[p] /\ p \notin all.before[q]
<1>0. /\ s \in Seq(P) /\ Once(s) /\ Ordered(all, s)
      /\ t \in Seq(P) /\ Once(t) /\ Ordered(all, t)
      /\ \A p \in ToSet(s) : all.priority[p] < n
      /\ \A p \in ToSet(t) : all.priority[p] = n
  BY DEF Adjacent
<1>1. /\ c \in Seq(P) /\ Len(s) \in Nat /\ Len(t) \in Nat /\ Len(c) = Len(s) + Len(t)
      /\ \A i \in 1..Len(s) : c[i] = s[i]
      /\ \A i \in 1..Len(t) : c[Len(s) + i] = t[i]
  BY <1>0, JoinedIs
<1>2. /\ DOMAIN s = 1..Len(s) /\ DOMAIN t = 1..Len(t) /\ DOMAIN c = 1..Len(c)
  BY <1>1
<1> HIDE DEF c
<1>3. ASSUME NEW i \in DOMAIN c
      PROVE  \/ i \in DOMAIN s /\ c[i] = s[i]
             \/ i - Len(s) \in DOMAIN t /\ ~(i <= Len(s)) /\ c[i] = t[i - Len(s)]
  <2>1. CASE i <= Len(s)
    BY <1>1, <1>2, <2>1
  <2>2. CASE ~(i <= Len(s))
    <3>1. i - Len(s) \in 1..Len(t) /\ Len(s) + (i - Len(s)) = i
      BY <1>1, <1>2, <2>2
    <3> QED BY <1>1, <1>2, <2>2, <3>1
  <2> QED BY <2>1, <2>2
<1>4. /\ \A i \in DOMAIN s : i \in DOMAIN c
      /\ \A i \in DOMAIN t : Len(s) + i \in DOMAIN c
  BY <1>1, <1>2
<1>5. /\ \A i \in DOMAIN s : s[i] \in P /\ pri(s[i]) < n /\ pri(s[i]) \in Nat
      /\ \A i \in DOMAIN t : t[i] \in P /\ pri(t[i]) = n
  <2>1. /\ \A i \in DOMAIN s : s[i] \in P /\ s[i] \in ToSet(s)
        /\ \A i \in DOMAIN t : t[i] \in P /\ t[i] \in ToSet(t)
    BY <1>0 DEF ToSet
  <2>2. all.priority \in [P -> Nat]
    BY DEF Plugins
  <2> QED BY <1>0, <2>1, <2>2
<1>6. ASSUME NEW i \in DOMAIN c, NEW j \in DOMAIN c, c[i] = c[j] PROVE i = j
  <2>0. i \in Nat /\ j \in Nat
    BY <1>1, <1>2
  <2>1. CASE i \in DOMAIN s /\ c[i] = s[i]
    <3>1. CASE j \in DOMAIN s /\ c[j] = s[j]
      BY <1>0, <1>6, <2>1, <3>1 DEF Once
    <3>2. CASE j - Len(s) \in DOMAIN t /\ c[j] = t[j - Len(s)]
      <4>1. pri(c[i]) \in Nat /\ pri(c[i]) < n /\ pri(c[i]) = n
        BY <1>5, <1>6, <2>1, <3>2
      <4> QED BY <4>1
    <3> QED BY <1>3, <3>1, <3>2
  <2>2. CASE i - Len(s) \in DOMAIN t /\ c[i] = t[i - Len(s)]
    <3>1. CASE j \in DOMAIN s /\ c[j] = s[j]
      <4>1. pri(c[j]) \in Nat /\ pri(c[j]) < n /\ pri(c[j]) = n
        BY <1>5, <1>6, <2>2, <3>1
      <4> QED BY <4>1
    <3>2. CASE j - Len(s) \in DOMAIN t /\ c[j] = t[j - Len(s)]
      <4>1. i - Len(s) = j - Len(s)
        BY <1>0, <1>6, <2>2, <3>2 DEF Once
      <4> QED BY ONLY <1>1, <2>0, <4>1
    <3> QED BY <1>3, <3>1, <3>2
  <2> QED BY <1>3, <2>1, <2>2
<1>7. ASSUME NEW i \in DOMAIN c, NEW j \in DOMAIN c, i <= j PROVE fine(c[i], c[j])
  <2>0. i \in Nat /\ j \in Nat
    BY <1>1, <1>2
  <2>1. /\ \A k, l \in DOMAIN s : k <= l => fine(s[k], s[l])
        /\ \A k, l \in DOMAIN t : k <= l => fine(t[k], t[l])
    BY <1>0 DEF Ordered
  <2>2. \A p, q : pri(p) \in Nat /\ pri(p) < n /\ pri(q) = n => fine(p, q)
    OBVIOUS
  <2> HIDE DEF fine, pri
  <2>3. CASE i \in DOMAIN s /\ c[i] = s[i]
    <3>1. CASE j \in DOMAIN s /\ c[j] = s[j]
      BY <1>7, <2>1, <2>3, <3>1
    <3>2. CASE j - Len(s) \in DOMAIN t /\ c[j] = t[j - Len(s)]
      BY <1>5, <2>2, <2>3, <3>2
    <3> QED BY <1>3, <3>1, <3>2
  <2>4. CASE i - Len(s) \in DOMAIN t /\ ~(i <= Len(s)) /\ c[i] = t[i - Len(s)]
    <3>1. ~(j \in DOMAIN s)
      BY <1>1, <1>2, <1>7, <2>0, <2>4
    <3>2. j - Len(s) \in DOMAIN t /\ c[j] = t[j - Len(s)]
      BY <1>3, <3>1
    <3>3. i - Len(s) <= j - Len(s)
      BY <1>1, <1>7, <2>0
    <3> QED BY <2>1, <2>4, <3>2, <3>3
  <2> QED BY <1>3, <2>3, <2>4
<1>8. ToSet(c) = ToSet(s) \cup ToSet(t)
  <2>1. ASSUME NEW p \in ToSet(c) PROVE p \in ToSet(s) \cup ToSet(t)
    BY <1>3 DEF ToSet
  <2>2. ASSUME NEW p \in ToSet(s) PROVE p \in ToSet(c)
    BY <1>1, <1>2, <1>4 DEF ToSet
  <2>3. ASSUME NEW p \in ToSet(t) PROVE p \in ToSet(c)
    <3>1. PICK i \in DOMAIN t : t[i] = p
      BY DEF ToSet
    <3>2. c[Len(s) + i] = p /\ Len(s) + i \in DOMAIN c
      BY <1>1, <1>2, <1>4, <3>1
    <3> QED BY <3>2 DEF ToSet
  <2> QED BY <2>1, <2>2, <2>3
<1>9. Once(c)
  BY <1>6 DEF Once
<1>10. Ordered(all, c)
  BY <1>7 DEF Ordered
<1> QED BY <1>1, <1>8, <1>9, <1>10 DEF c

LEMMA SortedIs ==
  ASSUME NEW all, Plugins(all), \A n \in 0..Top(all) : ~Circular(all, n)
  PROVE  LET s == Sorted(all)[Top(all) + 1]
         IN  /\ s \in Seq(DOMAIN all.priority) /\ Once(s) /\ Ordered(all, s)
             /\ ToSet(s) = DOMAIN all.priority
<1> DEFINE P == DOMAIN all.priority
           M == Top(all) + 1
           F == Sorted(all)
           Below(n) == {p \in P : all.priority[p] < n}
           Fine(n) == /\ F[n] \in Seq(P) /\ Once(F[n]) /\ Ordered(all, F[n])
                      /\ ToSet(F[n]) = Below(n)
           T == {n \in Nat : n <= M => Fine(n)}
<1>1. /\ M \in Nat /\ M = Top(all) + 1 /\ Top(all) \in Nat
      /\ \A p \in P : all.priority[p] \in 0..Top(all)
  BY TopIs
<1>2. F[0] = <<>> /\ \A n \in 1..M : F[n] = F[n - 1] \o TopoSort(all, Group(all, n - 1))
  BY <1>1, SortedDef
<1>3. all.priority \in [P -> Nat]
  BY DEF Plugins
<1> HIDE DEF M, F
<1>4. Fine(0)
  BY <1>2, <1>3 DEF Once, Ordered, ToSet
<1>5. ASSUME NEW n \in Nat, n < M, Fine(n) PROVE Fine(n + 1)
  <2> DEFINE group == Group(all, n)
             part == TopoSort(all, group)
  <2>1. n + 1 \in 1..M /\ (n + 1) - 1 = n /\ n \in 0..Top(all)
    BY <1>1, <1>5
  <2>2. /\ part \in Seq(group) /\ Once(part) /\ Ordered(all, part) /\ ToSet(part) = group
    BY <2>1, GroupIs
  <2>3. F[n + 1] = F[n] \o part
    BY <1>2, <2>1
  <2> HIDE DEF part
  <2>4. group \subseteq P /\ \A p \in group : all.priority[p] = n
    BY DEF Group
  <2>5. Below(n + 1) = Below(n) \cup group
    BY <1>3 DEF Group
  <2> HIDE DEF group
  <2>6. part \in Seq(P)
    BY <2>2, <2>4
  <2>7. \A p \in Below(n) : all.priority[p] < n
    OBVIOUS
  <2> HIDE DEF Below
  <2>8. /\ F[n] \o part \in Seq(P) /\ Once(F[n] \o part) /\ Ordered(all, F[n] \o part)
        /\ ToSet(F[n] \o part) = ToSet(F[n]) \cup ToSet(part)
    <3>1. Adjacent(all, F[n], part, n)
      BY <1>5, <2>2, <2>4, <2>6, <2>7 DEF Adjacent
    <3> DEFINE lower == F[n]
    <3>2. Adjacent(all, lower, part, n)
      BY <3>1
    <3> HIDE DEF lower, Fine
    <3>3. /\ lower \o part \in Seq(P) /\ Once(lower \o part) /\ Ordered(all, lower \o part)
          /\ ToSet(lower \o part) = ToSet(lower) \cup ToSet(part)
      BY <3>2, Joined
    <3> QED BY <3>3 DEF lower
  <2> QED BY <1>5, <2>2, <2>3, <2>5, <2>8
<1>6. Fine(M)
  <2>1. 0 \in T
    BY <1>4
  <2>2. \A n \in T : n < M => n + 1 \in T
    <3> HIDE DEF Fine
    <3> QED BY <1>1, <1>5
  <2>3. T \in SUBSET Nat
    OBVIOUS
  <2>4. 0..M \subseteq T
    <3> HIDE DEF T
    <3> QED BY <1>1, <2>1, <2>2, <2>3, Induction
  <2>5. M \in 0..M /\ M <= M
    BY <1>1
  <2> HIDE DEF Fine
  <2> QED BY <2>4, <2>5
<1>7. Below(M) = P
  BY <1>1
<1> HIDE DEF Below
<1> QED BY <1>6, <1>7 DEF F, M

(* Of plugins that wait for each other none can be loaded first.           *)
LEMMA NoOrder ==
  ASSUME NEW all, Plugins(all), NEW n \in Nat, NEW left \in SUBSET Group(all, n), left # {},
         \A p \in left : \E q \in left : q \in all.after[p] \/ p \in all.before[q],
         NEW order \in Seq(DOMAIN all.priority)
  PROVE  ~IsLoadOrder(all, order)
<1> SUFFICES ASSUME IsLoadOrder(all, order) PROVE FALSE
  OBVIOUS
<1>1. \A p \in left : \E i \in DOMAIN order : order[i] = p
  BY DEF IsLoadOrder, ToSet, Group
<1>2. \A p \in left : all.priority[p] = n
  BY DEF Group
<1> DEFINE T == {i \in DOMAIN order : order[i] \in left}
<1>3. T \in SUBSET Nat /\ T # {}
  BY <1>1
<1>4. PICK i \in T : \A j \in T : i <= j
  <2> HIDE DEF T
  <2> QED BY <1>3, Least
<1>5. PICK q \in left : q \in all.after[order[i]] \/ order[i] \in all.before[q]
  BY <1>4
<1>6. PICK j \in DOMAIN order : order[j] = q
  BY <1>1, <1>5
<1>7. i <= j
  BY <1>4, <1>5, <1>6
<1> QED BY <1>2, <1>4, <1>5, <1>6, <1>7 DEF IsLoadOrder

(* "topologically sort within a group ... Throw on circular dependency":   *)
(* whatever the plugins and their hints, sortPlugins returns all of them   *)
(* in an order that keeps the hints, and throws only if there is none.     *)
THEOREM PluginsAreSorted ==
  ASSUME NEW all, Plugins(all)
  PROVE  SortsRight(all)
<1> DEFINE P == DOMAIN all.priority
<1>1. P \in SUBSET Nat /\ IsFiniteSet(P) /\ P # {}
  BY DEF Plugins
<1>2. CASE \E n \in 0..Top(all) : Circular(all, n)
  <2>1. PICK n \in 0..Top(all) : Circular(all, n)
    BY <1>2
  <2>2. n \in Nat
    BY TopIs
  <2>3. PICK left \in SUBSET Group(all, n) : left # {} /\
          \A p \in left : \E q \in left : q \in all.after[p] \/ p \in all.before[q]
    BY <2>1, <2>2, GroupIs
  <2>4. ASSUME NEW order \in SetToSeqs(P) PROVE ~IsLoadOrder(all, order)
    <3>1. Cardinality(P) \in Nat
      BY <1>1, FS_CardinalityType
    <3>2. order \in [1..Cardinality(P) -> P]
      BY DEF SetToSeqs
    <3>3. order \in Seq(P)
      BY <3>1, <3>2
    <3> QED BY <2>2, <2>3, <3>3, NoOrder
  <2>5. SortPlugins(all) = <<>>
    BY <1>2 DEF SortPlugins
  <2> QED BY <2>4, <2>5 DEF SortsRight
<1>3. CASE \A n \in 0..Top(all) : ~Circular(all, n)
  <2> DEFINE s == Sorted(all)[Top(all) + 1]
  <2>1. s \in Seq(P) /\ Once(s) /\ Ordered(all, s) /\ ToSet(s) = P
    BY <1>3, SortedIs
  <2>2. SortPlugins(all) = s
    BY <1>3 DEF SortPlugins
  <2> HIDE DEF s
  <2>3. Len(s) = Cardinality(P)
    BY <1>1, <2>1, EnumeratedWhole
  <2>4. IsLoadOrder(all, s)
    BY <2>1, <2>3 DEF IsLoadOrder, Ordered
  <2>5. s # <<>>
    BY <1>1, <2>1 DEF ToSet
  <2> QED BY <2>2, <2>4, <2>5 DEF SortsRight
<1> QED BY <1>2, <1>3
=============================================================================
