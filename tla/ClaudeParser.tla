---------------------------- MODULE ClaudeParser ----------------------------
(***************************************************************************)
(* ClaudeParser.feed (src/drivers/claude/parser.ts): how the frames of a   *)
(* screen that is redrawn again and again become messages and a status.    *)
(* PtyController has the same parser with texts reduced to their origin;   *)
(* here a text is a sequence of letters, because a redraw is told from a   *)
(* new message by its beginning.                                           *)
(*                                                                         *)
(* A frame is what the regular expressions find in one chunk:              *)
(*   activity, result, block, prompt   does the expression match?          *)
(*   kind   of the chunk for parseMessage: "empty", "marker" (a message    *)
(*          begins), "status" (it starts with a glyph of the status line)  *)
(*          or "other"                                                     *)
(*   text   behind the marker, and the blanks it takes with it, up to the  *)
(*          status line, or all of "other"                                 *)
(*   before, cut   what stands in front of the marker: text, and is there  *)
(*          a line end or a glyph of the status line after that text?      *)
(* Mode, model, tasks and counts change neither messages nor the status.   *)
(* No message is empty: <<>> stands for undefined where there is none.     *)
(***************************************************************************)
EXTENDS Naturals, Sequences, SequencesExt

CONSTANT Newline

\* The parser's scratch, and the fields of the state it reads and writes.
InitialState ==
  [capturing |-> FALSE, buf |-> <<>>, last |-> <<>>,
   activity |-> FALSE, blocking |-> FALSE, status |-> "starting"]

(* Texts carry no blanks at their ends; joining puts a newline in front.   *)
Trim(text) == IF text # <<>> /\ Head(text) = Newline THEN Tail(text) ELSE text

SameMessage(a, b) == IsPrefix(a, b) \/ IsPrefix(b, a)

Longer(a, b) == IF Len(a) > Len(b) THEN a ELSE b

\* Finalize: what is published, unless it was published last.
Finalized(p) == IF Trim(p.buf) = p.last THEN <<>> ELSE Trim(p.buf)

Published(p, message) == [p EXCEPT !.last = IF message = <<>> THEN @ ELSE message]

-----------------------------------------------------------------------------
(* Only the marker is taken out, and the chunk is read from its beginning: *)
(* what stood in front of it comes first, or is all there is.              *)
FirstText(frame) ==
  Trim(IF frame.cut THEN frame.before ELSE frame.before \o frame.text)

(* "Accumulate-longest": a redraw keeps the longer text, another message   *)
(* pushes the last one out.                                                *)
ParseMarker(p, text) ==
  LET shown == [p EXCEPT !.blocking = FALSE]
  IN IF p.capturing /\ p.buf # <<>>
     THEN IF SameMessage(p.buf, text)
          THEN [state |-> [shown EXCEPT !.buf = Longer(text, p.buf)], message |-> <<>>]
          ELSE [state |-> [Published(shown, Finalized(p)) EXCEPT !.buf = text],
                message |-> Finalized(p)]
     ELSE [state |-> [shown EXCEPT !.buf = text, !.capturing = TRUE], message |-> <<>>]

(* The status line ends a message.                                         *)
ParseStatusLine(p) ==
  IF p.capturing
  THEN [state |-> [Published(p, Finalized(p)) EXCEPT !.capturing = FALSE, !.buf = <<>>],
        message |-> Finalized(p)]
  ELSE [state |-> p, message |-> <<>>]

\* Any other text continues one.
ParseContinuation(p, text) ==
  [state |-> IF p.capturing THEN [p EXCEPT !.buf = @ \o <<Newline>> \o text] ELSE p,
   message |-> <<>>]

ParseMessage(p, frame) ==
  CASE frame.kind = "marker" -> ParseMarker(p, FirstText(frame))
    [] frame.kind = "status" -> ParseStatusLine(p)
    [] frame.kind = "other"  -> ParseContinuation(p, frame.text)

(* A chunk without text ends a message too, unless nothing of it is there. *)
ParseEmpty(p) ==
  IF p.capturing /\ Trim(p.buf) # <<>> THEN ParseStatusLine(p)
  ELSE [state |-> p, message |-> <<>>]

\* parseActivity and parseResult, in this order.
ParseSpinner(p, frame) ==
  [p EXCEPT !.activity = (@ \/ frame.activity) /\ ~frame.result,
            !.blocking = @ /\ ~frame.activity]

ParseBlocking(p, frame) ==
  IF frame.block THEN [p EXCEPT !.blocking = TRUE, !.status = "blocked"] ELSE p

StatusOf(p, frame) ==
  CASE p.activity                  -> "busy"
    [] ~p.activity /\ p.blocking   -> "blocked"
    [] ~p.activity /\ ~p.blocking /\ p.status = "starting" /\ frame.prompt -> "idle"
    [] ~p.activity /\ ~p.blocking /\ p.status = "busy"     -> "idle"
    [] OTHER                       -> p.status

(* feed. When none of the parsers claims a change the state that comes     *)
(* back is the one that went in, whatever was written to the copy.         *)
Feed(p, frame) ==
  IF frame.kind = "empty" THEN ParseEmpty(p)
  ELSE LET r == ParseMessage(ParseSpinner(p, frame), frame)
           next == ParseBlocking(r.state, frame)
           status == StatusOf(next, frame)
           changed == \/ frame.activity \/ frame.result \/ frame.block
                      \/ frame.kind = "marker" \/ (frame.kind = "status" /\ p.capturing)
                      \/ ~next.activity /\ ~next.blocking /\ status # next.status
       IN [state |-> IF changed THEN [next EXCEPT !.status = status]
                     ELSE [p EXCEPT !.capturing = next.capturing, !.buf = next.buf],
           message |-> r.message]

\* A screen, frame after frame: the state, and the messages published.
FeedAll(frames) ==
  FoldLeft(LAMBDA acc, frame :
             LET r == Feed(acc.state, frame)
             IN [state |-> r.state,
                 messages |-> IF r.message = <<>> THEN acc.messages
                              ELSE Append(acc.messages, r.message)],
           [state |-> InitialState, messages |-> <<>>], frames)

-----------------------------------------------------------------------------
(* What the parser promises                                                *)

(* "the same message got emitted once per redraw": no longer, a message is *)
(* not published twice in a row.                                           *)
NoMessageTwice(frames) ==
  LET out == FeedAll(frames).messages
  IN \A i \in DOMAIN out : i > 1 => out[i] # out[i - 1]

(* A text is kept if it is the beginning of a message that was published,  *)
(* or of the buffer.                                                       *)
Kept(text, p, messages) ==
  \/ IsPrefix(text, Trim(p.buf))
  \/ \E j \in DOMAIN messages : IsPrefix(text, messages[j])

OpensChunk(frame) == frame.before = <<>> /\ ~frame.cut

(* "long messages ... got truncated": no longer, if the marker opens its   *)
(* chunk. Whatever stood behind such a marker is kept.                     *)
NothingPaintedIsLost(frames) ==
  LET end == FeedAll(frames)
  IN \A i \in DOMAIN frames :
       frames[i].kind = "marker" /\ OpensChunk(frames[i]) =>
         Kept(frames[i].text, end.state, end.messages)

(* The status follows the screen: busy while the spinner turns, blocked    *)
(* while a question is open.                                               *)
StatusIsShown(frames) ==
  LET p == FeedAll(frames).state
  IN /\ p.activity => p.status = "busy"
     /\ p.blocking /\ ~p.activity => p.status = "blocked"
=============================================================================
