-------------------------- MODULE MCHttpController --------------------------
(* TLC instance of HttpController: the submits are interchangeable.        *)
EXTENDS HttpController, TLC

Symmetry == Permutations(Submits)
=============================================================================
