---------------------------- MODULE PluginLoader ----------------------------
(***************************************************************************)
(* The order in which plugins are loaded: sortPlugins and topoSort of      *)
(* src/plugins/loader.ts.                                                  *)
(*                                                                         *)
(* A plugin is a number; numbers compare as the names do, and the numbers  *)
(* of the priorities as the priorities do. The plugins of one daemon are a *)
(* record of functions on them:                                            *)
(*   priority, after, before   (order.*; the last two are sets of plugins) *)
(***************************************************************************)
EXTENDS Naturals, Sequences, SequencesExt

\* The plugins of one priority.
Group(all, n) == {p \in DOMAIN all.priority : all.priority[p] = n}

(* edges: the hints the plugins of the group give of one another. They are *)
(* collected twice over, and a hint across groups both times left out.     *)
Before(all, group) ==
  {e \in group \X group : e[1] \in all.after[e[2]] \/ e[2] \in all.before[e[1]]}

\* The queue: in-degree 0, in the order of the names.
Ready(edges, group, sorted) ==
  {p \in group \ ToSet(sorted) : \A e \in edges : e[2] = p => e[1] \in ToSet(sorted)}

(* Shift the first of the queue, until it is empty.                        *)
Shift(edges, group, sorted) ==
  LET ready == Ready(edges, group, sorted)
  IN IF ready = {} THEN sorted ELSE Append(sorted, Min(ready))

Shifts(edges, group) ==
  LET sorted[n \in 0..Cardinality(group)] ==
        IF n = 0 THEN <<>> ELSE Shift(edges, group, sorted[n - 1])
  IN sorted

TopoSort(all, group) == Shifts(Before(all, group), group)[Cardinality(group)]

(* A group that does not come out whole is an error.                       *)
Circular(all, n) == Len(TopoSort(all, Group(all, n))) # Cardinality(Group(all, n))

Top(all) == Max({all.priority[p] : p \in DOMAIN all.priority})

(* The groups of the priorities below n, one after the other.              *)
Sorted(all) ==
  LET sorted[n \in 0..(Top(all) + 1)] ==
        IF n = 0 THEN <<>> ELSE sorted[n - 1] \o TopoSort(all, Group(all, n - 1))
  IN sorted

(* sortPlugins: group after group; <<>> stands for the error.              *)
SortPlugins(all) ==
  IF \E n \in 0..Top(all) : Circular(all, n)
    THEN <<>> ELSE Sorted(all)[Top(all) + 1]

-----------------------------------------------------------------------------
(* What the order promises                                                 *)

(* Every plugin once, lower priorities first, and within a priority every  *)
(* hint kept.                                                              *)
IsLoadOrder(all, order) ==
  /\ ToSet(order) = DOMAIN all.priority
  /\ Len(order) = Cardinality(DOMAIN all.priority)
  /\ \A i, j \in DOMAIN order : i <= j =>
       LET p == order[i]
           q == order[j]
       IN /\ all.priority[p] <= all.priority[q]
          /\ all.priority[p] = all.priority[q] =>
               q \notin all.after[p] /\ p \notin all.before[q]

(* sortPlugins finds an order that keeps the hints, and throws only when   *)
(* there is none.                                                          *)
SortsRight(all) ==
  IF SortPlugins(all) # <<>> THEN IsLoadOrder(all, SortPlugins(all))
  ELSE \A order \in SetToSeqs(DOMAIN all.priority) : ~IsLoadOrder(all, order)
=============================================================================
