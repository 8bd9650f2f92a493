--------------------------- MODULE MCClaudeScreen ---------------------------
(***************************************************************************)
(* ClaudeScreen for TLC, with the sample chunks.                           *)
(***************************************************************************)
EXTENDS ClaudeScreen, ClaudeChunks
=============================================================================
