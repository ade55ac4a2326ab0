------------------------------ MODULE MCMemory ------------------------------
(* Recall for TLC: contents are names of files, which Chunk cuts and Anchor *)
(* resolves; a chunk is the number of the anchor it carries.                *)
EXTENDS Recall, TLC

CONSTANTS targetLines, s1, s2, r1, q1, q2

C == INSTANCE Chunk

Heading(marks, title) ==
    [fence |-> FALSE, hashes |-> marks, title |-> <<title>>, words |-> <<title>>]
Text(word) == [fence |-> FALSE, hashes |-> 0, title |-> <<>>, words |-> <<word>>]

\* Of two sections the first is edited, or the second goes.
Lines == [whole  |-> <<Heading(1, "A"), Text("x"), Heading(2, "B"), Text("y")>>,
          edited |-> <<Heading(1, "A"), Text("z"), Heading(2, "B"), Text("y")>>,
          short  |-> <<Heading(1, "A"), Text("x")>>]

AnchorsOf(v) == [k \in DOMAIN C!ChunkFile(Lines[v]) |-> C!ChunkFile(Lines[v])[k].anchor]
All == SetToSeq(UNION {ToSet(AnchorsOf(v)) : v \in Contents})
Number(a) == CHOOSE n \in DOMAIN All : All[n] = a

AllChunks == DOMAIN All
Cuts == [v \in Contents |-> [k \in DOMAIN AnchorsOf(v) |-> Number(AnchorsOf(v)[k])]]
Bytes == [n \in AllChunks |-> CHOOSE m \in AllChunks : All[m].byteHash = All[n].byteHash]
Stale == [v \in Contents |->
             {n \in AllChunks : C!Expires(C!Resolve(All[n], Lines[v], C!TextOpenings(Lines[v])))}]

ForP == [s \in Seeders |-> "p"]
AsP == [c \in Callers |-> "p"]
\* The words of the query stand where "x" does.
Mentioning == {n \in AllChunks : <<"A", "x">> = All[n].nodeHash}
Near == [arm \in Arms |-> [n \in AllChunks |-> IF n \in Mentioning THEN 1 ELSE 2]]
\* A tool that says nothing, and a console that asks for more than it may and
\* looks less deep than there are rows.
Asking == {[front |-> "mcp", limit |-> 0, depth |-> 0, budget |-> 0],
           [front |-> "console", limit |-> 4, depth |-> 1, budget |-> 0]}
Unit == [n \in AllChunks |-> 1]

\* The rows of files seeded once.
SeededRows ==
    FlattenSeq([k \in 1..Cardinality(Paths) |->
        [n \in DOMAIN Cuts["edited"] |->
            Row([path |-> SetToSeq(Paths)[k], ordinal |-> n, readAt |-> 0,
                 chunk |-> Cuts["edited"][n]], 0, "p")]])

(* The files were seeded before: the recalls find something to read. *)
SeededInit ==
    /\ disk = [p \in Paths |-> "edited"]
    /\ rows = SeededRows
    /\ edits = 0 /\ clock = 0 /\ faults = 0
    /\ seeder = [s \in Seeders |-> NewRun]
    /\ reanchorer = [r \in Reanchorers |-> NewPass]
    /\ caller = [c \in Callers |-> NoRecall] /\ metered = <<>>

SeededSpec == SeededInit /\ [][Next]_vars

\* Bound: the recalls under way and recorded, the edits, the rows written since
\* and the ticks of a behaviour, together.
MaxTogether == 4

\* Between the check of the rate and the record a recall only reads: that two
\* callers search at one time adds nothing to one searching after the other.
Bounded ==
    /\ Cardinality({c \in Callers : ~CallerAt(c, "idle")}) + Len(metered)
           + edits + (Len(rows) - Len(SeededRows)) + clock <= MaxTogether
    /\ Cardinality({c \in Callers : caller[c].pc \in {"dense", "lexical", "load"}}) <= 1

SeederSymmetry == Permutations(Seeders)
CallerSymmetry == Permutations(Callers)
=============================================================================
