----------------------------- MODULE MCCouncil -----------------------------
(***************************************************************************)
(* Small reviews for TLC. Lines have 1 or 4 characters, a chunk holds 6    *)
(* bytes. The chunker is evaluated for every source of at most 5 lines,    *)
(* the version grades for fields of 0 and 1 and ranges of two terms.       *)
(***************************************************************************)
EXTENDS Council

Text(n) == [len |-> n, blank |-> FALSE]
Blank   == [len |-> 1, blank |-> TRUE]

Sources == UNION {[1..n -> {Text(2), Text(4), Blank}] : n \in 1..5}

ASSUME ChunkerAssumption ==
  \A s \in Sources :
    LET parts == ChunkByLines(s, MaxChunkBytes)
    IN Partition(s, parts) /\ Overshoot(s, parts, MaxChunkBytes)

S == INSTANCE Semver WITH Absent <- None

Versions == [major : 0..1, minor : 0..1, patch : 0..1]

TwoTerms ==
  {<<[matches |-> TRUE, op |-> p, target |-> v], [matches |-> m, op |-> "<", target |-> w]>> :
     p \in S!Operators, m \in BOOLEAN, v \in Versions, w \in Versions}

ASSUME GradeAssumption ==
  /\ \A a, b \in Versions : S!ComparesRight(a, b)
  /\ \A a, b, c \in Versions : \A range \in TwoTerms : S!HasNoHole(range, a, b, c)

Reviewer(d) == [driver |-> d, mode |-> None, ptyOnly |-> FALSE]

File == [mode |-> "file", readable |-> TRUE, source |-> <<Text(1), Blank>>,
         panel |-> <<Reviewer("codex"), Reviewer("ollama")>>,
         chair |-> Reviewer("codex"), noChair |-> FALSE, noChunk |-> FALSE,
         forceInline |-> FALSE, claudePrints |-> TRUE,
         runtimes |-> Runtimes \cup {"pty"}]

\* The tail behind the blank line is carried over, and its chunk is too long.
Long == <<Blank, Text(1), Text(4)>>

MCReviews ==
  { File,
    [File EXCEPT !.readable = FALSE],
    [File EXCEPT !.source = Long, !.noChunk = TRUE],
    [File EXCEPT !.mode = "diff", !.source = <<Blank>>],
    [File EXCEPT !.source = Long \o Long],
    [File EXCEPT !.source = Long],
    [File EXCEPT !.source = Long, !.mode = "diff", !.noChair = TRUE],
    [File EXCEPT !.panel = <<Reviewer("claude"), Reviewer("nobody")>>,
                 !.claudePrints = FALSE, !.chair = Reviewer("claude")],
    [File EXCEPT !.panel = <<[Reviewer("claude") EXCEPT !.ptyOnly = TRUE],
                             [Reviewer("ollama") EXCEPT !.mode = "exec"]>>],
    [File EXCEPT !.panel = <<Reviewer("codex")>>, !.runtimes = {"pty"}] }
=============================================================================
