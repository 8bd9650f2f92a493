---------------------------- MODULE ClaudeScreen ----------------------------
(***************************************************************************)
(* ClaudeParser fed one chunk after another, with what it has published    *)
(* and what was painted behind a marker.                                   *)
(***************************************************************************)
EXTENDS ClaudeParser

CONSTANT Chunks       \* the program may paint

VARIABLES
  parser,
  published,          \* the messages
  painted             \* the texts that stood behind a marker, and whether
                      \* the marker opened its chunk

vars == <<parser, published, painted>>

Init == parser = InitialState /\ published = <<>> /\ painted = {}

Fed(frame) ==
  LET r == Feed(parser, frame)
  IN /\ parser' = r.state
     /\ published' = IF r.message = <<>> THEN published ELSE Append(published, r.message)
     /\ painted' = painted \cup
          IF frame.kind = "marker"
            THEN {[text |-> frame.text, opens |-> OpensChunk(frame)]} ELSE {}

Next == \E frame \in Chunks : Fed(frame)

Spec == Init /\ [][Next]_vars

-----------------------------------------------------------------------------
(* Whatever stood behind a marker that opened its chunk is published or    *)
(* still in the buffer.                                                    *)
OpeningTextIsKept ==
  \A p \in painted : p.opens => Kept(p.text, parser, published)

(* "Extract text after the marker": whatever stood behind any marker is.   *)
TextAfterMarkerIsKept == \A p \in painted : Kept(p.text, parser, published)
=============================================================================
