------------------------------ MODULE Chunker ------------------------------
(***************************************************************************)
(* chunkByLines of the council plugin: a source is cut into chunks of at   *)
(* most maxBytes, after a blank line where there is one. A line is what    *)
(* the cut looks at, its length and whether it is blank; the text of a     *)
(* chunk is the sequence of the numbers of the lines it holds.             *)
(***************************************************************************)
EXTENDS Integers, Sequences

Lines(lengths) == [len : lengths, blank : BOOLEAN]

(* Bytes of the first lines of some, a line feed after each.               *)
Sums(source, lines) ==
  LET sum[n \in 0..Len(lines)] ==
        IF n = 0 THEN 0 ELSE sum[n - 1] + source[lines[n]].len + 1
  IN sum

Bytes(source, lines) == Sums(source, lines)[Len(lines)]

Numbers(source) == [l \in 1..Len(source) |-> l]

\* source.length: no line feed after the last line.
Size(source) == Bytes(source, Numbers(source)) - 1

Chunk(lines, start) ==
  [text |-> lines, startLine |-> start, endLine |-> start + Len(lines) - 1]

(* The chunk that is full becomes one: up to its last blank line, whose    *)
(* successors are carried over, or as it is.                               *)
Flush(st, l) ==
  LET cutAt == IF st.lastBlank > 0 THEN st.lastBlank ELSE Len(st.current)
  IN [chunks    |-> Append(st.chunks, Chunk(SubSeq(st.current, 1, cutAt),
                                            st.startLine)),
      current   |-> SubSeq(st.current, cutAt + 1, Len(st.current)),
      startLine |-> IF st.lastBlank > 0 THEN st.startLine + cutAt ELSE l,
      lastBlank |-> -1]

Push(source, st, l) ==
  LET current == Append(st.current, l)
  IN [st EXCEPT !.current = current,
                !.lastBlank = IF source[l].blank THEN Len(current) ELSE @]

Full(source, maxBytes, st, l) ==
  /\ Bytes(source, st.current) + source[l].len + 1 > maxBytes
  /\ st.current # <<>>

(* The loop: the chunks made and the one under construction after l lines. *)
Scan(source, maxBytes) ==
  LET scan[l \in 0..Len(source)] ==
        IF l = 0
        THEN [chunks |-> <<>>, current |-> <<>>, startLine |-> 1, lastBlank |-> -1]
        ELSE Push(source,
                  IF Full(source, maxBytes, scan[l - 1], l)
                  THEN Flush(scan[l - 1], l) ELSE scan[l - 1],
                  l)
  IN scan

ChunkByLines(source, maxBytes) ==
  LET end == Scan(source, maxBytes)[Len(source)]
  IN IF Size(source) <= maxBytes
     THEN <<Chunk(Numbers(source), 1)>>
     ELSE Append(end.chunks, Chunk(end.current, end.startLine))

-----------------------------------------------------------------------------
(* What the reviewers rely on: together the chunks are the source, line by *)
(* line, and each is announced with the numbers its lines have.            *)
Partition(source, chunks) ==
  /\ chunks # <<>>
  /\ chunks[1].startLine = 1 /\ chunks[Len(chunks)].endLine = Len(source)
  /\ \A k \in 1..Len(chunks) :
       LET c == chunks[k]
       IN /\ c.text # <<>>
          /\ c.endLine = c.startLine + Len(c.text) - 1
          /\ \A j \in 1..Len(c.text) : c.text[j] = c.startLine + j - 1
          /\ k > 1 => c.startLine = chunks[k - 1].endLine + 1

(* A chunk exceeds the limit by less than one line: the tail carried over  *)
(* fits, the line put behind it may not.                                   *)
Overshoot(source, chunks, maxBytes) ==
  \A k \in DOMAIN chunks :
    LET text == chunks[k].text
    IN Bytes(source, SubSeq(text, 1, Len(text) - 1)) <= maxBytes
=============================================================================
