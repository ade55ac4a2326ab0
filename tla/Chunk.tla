------------------------------- MODULE Chunk --------------------------------
(* internal/seed/chunk.go: how a documentation file, a sequence of lines as *)
(* in Anchor, is cut into chunks and what each chunk carries.               *)
EXTENDS Anchor

CONSTANT targetLines  \* 40 in the source

ASSUME ChunkAssumption == targetLines \in Nat \ {0}

\* Mutant: a subheading does not start a chunk.
AtTopHeading(lines, n) == lines[n].hashes = 1 /\ ~InFence(lines, n)

\* A run of "#" outside a fence starts a chunk, titled or not.
AtHeading(lines, n) == lines[n].hashes > 0 /\ ~InFence(lines, n)

\* Where the buffer that takes in line n was started: at a heading, or after a
\* buffer that was full outside a fence.
Starts(lines) ==
    LET start[n \in 1..Len(lines)] ==
            IF \/ n = 1
               \/ AtHeading(lines, n)
               \/ n - start[n - 1] >= targetLines /\ ~InFence(lines, n - 1)
            THEN n ELSE start[n - 1]
    IN  start

\* The last title seen when the buffer is flushed; a bare "#" keeps the previous.
HeadingAt(lines, n) ==
    LET titled == {m \in DOMAIN TextOpenings(lines) : m <= n}
    IN  IF titled = {} THEN NoName ELSE lines[Max(titled)].title

\* A buffer of blank lines is dropped.
Keeps(lines, first, last) == Words(lines, first, last) # <<>>

\* strings.TrimSpace: the text of a chunk starts and ends with a written line.
Trimmed(lines, first, last) ==
    LET written == {n \in first..last : lines[n].words # <<>>}
    IN  SubSeq(lines, Min(written), Max(written))

\* The chunks in order; a chunk's ordinal is its place, and its byte hash
\* stands for its text.
ChunkFile(lines) ==
    LET start  == Starts(lines)
        end(s) == Max({n \in DOMAIN lines : start[n] = s})
        kept   == {s \in {start[n] : n \in DOMAIN lines} : Keeps(lines, s, end(s))}
    IN  [k \in 1..Cardinality(kept) |->
            LET s == Ascending(kept)[k]
            IN  [lineStart |-> s, lineEnd |-> end(s),
                 heading   |-> HeadingAt(lines, end(s)),
                 anchor    |-> Compute(lines, TextOpenings(lines),
                                  [lineStart |-> s, lineEnd |-> end(s),
                                   byteHash  |-> Trimmed(lines, s, end(s))])]]
=============================================================================
