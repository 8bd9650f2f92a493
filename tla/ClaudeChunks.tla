---------------------------- MODULE ClaudeChunks ----------------------------
(***************************************************************************)
(* Chunks of the claude screen for TLC: two messages, one the beginning of *)
(* the other, a third, a continuation, the status line, a question, the    *)
(* prompt, and markers in the middle of a chunk: behind a line end, and    *)
(* behind other text.                                                      *)
(***************************************************************************)

Plain == [activity |-> FALSE, result |-> FALSE, block |-> FALSE, prompt |-> FALSE,
          kind |-> "other", text |-> <<"c">>, before |-> <<>>, cut |-> FALSE]
Marker(text) == [Plain EXCEPT !.kind = "marker", !.text = text]

Samples ==
  { Plain, [Plain EXCEPT !.kind = "empty"], [Plain EXCEPT !.kind = "status"],
    Marker(<<>>), Marker(<<"a">>), Marker(<<"a", "b">>), Marker(<<"c">>),
    [Marker(<<"a">>) EXCEPT !.activity = TRUE],
    [Marker(<<"a">>) EXCEPT !.cut = TRUE],
    [Marker(<<"b">>) EXCEPT !.before = <<"a">>],
    [Plain EXCEPT !.kind = "status", !.activity = TRUE],
    [Plain EXCEPT !.kind = "status", !.result = TRUE],
    [Plain EXCEPT !.block = TRUE], [Plain EXCEPT !.prompt = TRUE] }
=============================================================================
