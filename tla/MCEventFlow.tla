---------------------------- MODULE MCEventFlow ----------------------------
(***************************************************************************)
(* EventFlow for TLC; sortPlugins is evaluated for every set of three      *)
(* plugins with two priorities and every relation of hints among them.     *)
(***************************************************************************)
EXTENDS EventFlow, PluginLoader

Symmetry == Permutations(Agents) \cup Permutations(Ids)

Names == {1, 2, 3}

Orders ==
  [priority : [Names -> {0, 10}],
   after    : [Names -> SUBSET Names],
   before   : [Names -> {{}, {1}, {2, 3}}]]

ASSUME OrderAssumption == \A all \in Orders : SortsRight(all)
=============================================================================
