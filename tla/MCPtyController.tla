--------------------------- MODULE MCPtyController ---------------------------
(***************************************************************************)
(* PtyController for TLC, and the claude parser evaluated on every screen  *)
(* of at most four chunks.                                                 *)
(***************************************************************************)
EXTENDS PtyController, ClaudeChunks, TLC

Symmetry == Permutations(Submits)

P == INSTANCE ClaudeParser WITH Newline <- "newline"

Screens == UNION {[1..n -> Samples] : n \in 1..4}

ASSUME ParserAssumption ==
  \A screen \in Screens :
    /\ P!NoMessageTwice(screen)
    /\ P!NothingPaintedIsLost(screen)
    /\ P!StatusIsShown(screen)
=============================================================================
