------------------------------- MODULE Recall -------------------------------
(***************************************************************************)
(* "cred recall" and the reads of the MCP server and the console, beside   *)
(* the writers of Seed: Service.Recall is a sequence of statements against *)
(* rows that change between them.  Ranking and assembly are Rank, access   *)
(* is Acl, the rate is Limit.  What LoadClaims and the statements after it *)
(* read of a row never changes once it is written, so they are one step.   *)
(***************************************************************************)
EXTENDS Seed, Rank, Acl

L == INSTANCE Limit

CONSTANTS Callers,     \* each runs one recall at a time
          AskedBy,     \* caller -> the principal it asks for
          Mentions,    \* chunks that hold the words of the query
          Distance,    \* arm -> chunk -> how far from the query it ranks
          EfSearch,    \* rows the vector index offers a query (40, under the depth)
          DeadRows,    \* places of those lost to batches rolled back, until a vacuum
          TokensOf,    \* chunk -> the length of its claim and evidence
          Asks,        \* what callers may ask for
          ToolLimit,   \* the limit of a front that was given none (5)
          maxLimit,    \* the highest the console passes on (200)
          DefaultLimit, DefaultCandidateDepth, DefaultTokenBudget,  \* 10, 50, 4000
          RecallCeiling, RecallWindow, MaxPackageClaims,
          MaxRecalls   \* bound: recalls recorded

ASSUME RecallAssumption ==
    /\ IsFiniteSet(Callers)
    /\ Mentions \subseteq Chunks
    /\ Distance \in [Arms -> [Chunks -> Nat]] /\ TokensOf \in [Chunks -> Nat]
    /\ Asks \subseteq [front : {"cli", "mcp", "console"}, limit : Int, depth : Int, budget : Int]
    /\ {ToolLimit, maxLimit, DefaultLimit} \subseteq Nat \ {0}
    /\ {DefaultCandidateDepth, DefaultTokenBudget} \subseteq Nat \ {0}
    /\ {RecallCeiling, MaxPackageClaims} \subseteq Int
    /\ {RecallWindow, EfSearch, DeadRows} \subseteq Nat

VARIABLES caller,   \* per caller: where it is and what it holds
          metered   \* the recalls recorded, in order: who asked, and when

recallVars == <<caller, metered>>
vars == <<seedVars, recallVars>>

\* want is the limit, depth and budget the service works with.
\* When the search begins, born rows are committed and those in closed are over.
NoRecall == [pc |-> "idle", now |-> 0, want |-> NULL, born |-> 0, closed |-> {},
             dense |-> <<>>, lexical |-> <<>>, pkg |-> Empty]

CallerAt(c, pc) == caller[c].pc = pc
CallerBecomes(c, state) == caller' = [caller EXCEPT ![c] = state]

-----------------------------------------------------------------------------
(* What the fronts ask of the service *)

OrElse(given, default) == IF given <= 0 THEN default ELSE given

\* The flags as they are given; their defaults are among Asks.
FromCLI(ask) == [limit |-> ask.limit, depth |-> ask.depth, budget |-> ask.budget]

\* The tool has a limit and nothing else.
FromMCP(ask) == [limit |-> OrElse(ask.limit, ToolLimit), depth |-> 0, budget |-> 0]

FromConsole(ask) ==
    [limit  |-> Min({OrElse(ask.limit, ToolLimit), maxLimit}),
     depth  |-> OrElse(ask.depth, DefaultCandidateDepth),
     budget |-> OrElse(ask.budget, DefaultTokenBudget)]

Asked(ask) ==
    [cli |-> FromCLI(ask), mcp |-> FromMCP(ask), console |-> FromConsole(ask)][ask.front]

\* The service has defaults of its own.
Defaulted(want) ==
    [limit  |-> OrElse(want.limit, DefaultLimit),
     depth  |-> OrElse(want.depth, DefaultCandidateDepth),
     budget |-> OrElse(want.budget, DefaultTokenBudget)]

-----------------------------------------------------------------------------
(* What the store answers *)

\* Which rows the planner lets the vector query look at: all of them, or the few
\* that the approximate index offers.  Which those are is the index's choice;
\* closed claims take up places among them, and only then are they left out.
Offered ==
    {DOMAIN rows} \cup
    {offered \in SUBSET DOMAIN rows :
        /\ Cardinality(offered) <= EfSearch
        /\ Cardinality(offered) >= Min({EfSearch, Len(rows)}) - DeadRows}

\* What an arm may answer: the rows found, nearest first, ties as the database
\* pleases, cut at the depth both arms share.
Answers(arm, found, depth) ==
    {SubSeq(hits, 1, Min({depth, Len(hits)})) :
        hits \in {h \in SetToSeqs(found) : \A k, m \in DOMAIN h : k < m =>
                      Distance[arm][rows[h[k]].chunk] <= Distance[arm][rows[h[m]].chunk]}}

DenseSearch(depth) ==
    UNION {Answers("dense", offered \cap LiveClaims, depth) : offered \in Offered}

\* Mutant: the text is live, so the claim is taken to be.
LexicalByEvidence(depth) ==
    Answers("lexical", {i \in LiveEvidence : rows[i].chunk \in Mentions}, depth)

LexicalSearch(depth) ==
    Answers("lexical", {i \in LiveChunks : rows[i].chunk \in Mentions}, depth)

\* A seeded claim and its one piece of evidence carry the same grant.
LoadClaimACLs(i) == {[principal |-> rows[i].grant, expiresAt |-> 0]}
LoadEvidenceACLs(i) == {[principal |-> rows[i].grant, expiresAt |-> 0]}

\* The evidence of a claim, live or not.
LoadEvidence(i) == <<i>>

\* By identifier, live or not: no row is ever deleted.
LoadClaims(ids) == Picked(ids, {k \in DOMAIN ids : ids[k] \in DOMAIN rows})

\* The claims as Acl sees them.
hydrate(ids) ==
    [k \in DOMAIN LoadClaims(ids) |->
        LET i == LoadClaims(ids)[k]
        IN  [id |-> i, acl |-> LoadClaimACLs(i),
             evidence |-> [n \in DOMAIN LoadEvidence(i) |->
                              LoadEvidenceACLs(LoadEvidence(i)[n])]]]

RecallsInWindow(p, since) ==
    Cardinality({k \in DOMAIN metered : metered[k].principal = p /\ metered[k].at > since})

-----------------------------------------------------------------------------
(* Service.Recall *)

BeginRecall(c) ==
    /\ CallerAt(c, "idle")
    /\ Len(metered) + Cardinality({d \in Callers : ~CallerAt(d, "idle")}) < MaxRecalls
    /\ \E now \in Instants, ask \in Asks :
          /\ ReadClock(now)
          /\ CallerBecomes(c, [NoRecall EXCEPT !.pc = "rate", !.now = now,
                                               !.want = Defaulted(Asked(ask))])
    /\ UNCHANGED <<rows, disk, edits, seeder, reanchorer, faults, metered>>

\* Over the rate the caller is told so at once; the package is capped here.
CheckRate(c) ==
    /\ CallerAt(c, "rate")
    /\ LET n == RecallsInWindow(AskedBy[c], L!WindowStart(caller[c].now, RecallWindow))
       IN  CallerBecomes(c,
               IF L!RecallRate(n, RecallCeiling).allowed
               THEN [caller[c] EXCEPT !.pc = "dense",
                        !.want.limit = L!PackageCap(@, MaxPackageClaims)]
               ELSE NoRecall)
    /\ UNCHANGED <<seedVars, metered>>

SearchDense(c) ==
    /\ CallerAt(c, "dense")
    /\ \E hits \in DenseSearch(caller[c].want.depth) :
          CallerBecomes(c, [caller[c] EXCEPT !.pc = "lexical", !.dense = hits, !.born = Len(rows),
                                                !.closed = DOMAIN rows \ LiveClaims])
    /\ UNCHANGED <<seedVars, metered>>

SearchLexical(c) ==
    /\ CallerAt(c, "lexical")
    /\ \E hits \in LexicalSearch(caller[c].want.depth) :
          CallerBecomes(c, [caller[c] EXCEPT !.pc = "load", !.lexical = hits])
    /\ UNCHANGED <<seedVars, metered>>

\* hydrate, acl.Filter and the assembly: whether a row is still live is not
\* asked again.
LoadAndAssemble(c) ==
    /\ CallerAt(c, "load")
    /\ LET fused  == FuseRRF([dense |-> caller[c].dense, lexical |-> caller[c].lexical])
           allowed == {row.id : row \in
                          ToSet(Filter(hydrate(fused), AskedBy[c], caller[c].now))}
       IN  CallerBecomes(c, [caller[c] EXCEPT !.pc = "record",
               !.pkg = Assemble(fused, allowed, [i \in DOMAIN rows |-> TokensOf[rows[i].chunk]],
                                caller[c].want.limit, caller[c].want.budget)])
    /\ UNCHANGED <<seedVars, metered>>

\* Recorded with the instant the recall began; best effort, so it may be lost.
RecordRecall(c) ==
    /\ CallerAt(c, "record")
    /\ CallerBecomes(c, NoRecall)
    /\ \/ metered' = Append(metered, [principal |-> AskedBy[c], at |-> caller[c].now])
       \/ UNCHANGED metered
    /\ UNCHANGED seedVars

RecallStep == \E c \in Callers :
    \/ BeginRecall(c) \/ CheckRate(c) \/ SearchDense(c) \/ SearchLexical(c)
    \/ LoadAndAssemble(c) \/ RecordRecall(c)

-----------------------------------------------------------------------------
Init ==
    /\ SeedInit
    /\ caller = [c \in Callers |-> NoRecall]
    /\ metered = <<>>

Next == (SeedStep /\ UNCHANGED recallVars) \/ RecallStep

Spec == Init /\ [][Next]_vars

-----------------------------------------------------------------------------
TypeOK ==
    /\ SeedTypeOK
    /\ \A c \in Callers : caller[c].born \in 0..Len(rows)
    /\ \A k \in DOMAIN metered : metered[k].at \in 0..clock

\* The rows a recall answers for: what an arm found, and what holds the words of
\* the query, was there before the search and is believed still - unless the
\* lexical arm was cut at its depth.
Due(x) ==
    ToSet(x.dense) \cup ToSet(x.lexical)
        \cup {i \in LiveChunks : /\ i <= x.born /\ rows[i].chunk \in Mentions
                                 /\ Len(x.lexical) < x.want.depth}

\* "A silent truncation is a lie": a claim that its asker may read and that the
\* recall answers for is in the package, or the package says something was left
\* out, whatever is written and closed between the searches and the load.  What
\* the vector index never offers is nowhere counted.
NothingLostSilently ==
    \A c \in Callers : CallerAt(c, "record") =>
        \A i \in Due(caller[c]) : rows[i].grant = AskedBy[c] =>
            i \in ToSet(caller[c].pkg.claims) \/ caller[c].pkg.omitted > 0



\* The rate is checked when a recall begins and the recall recorded when it
\* ends, under the instant it began: callers overshoot it together by no more
\* than the one recall each has in hand.
RateOvershootBounded ==
    \A c \in Callers :
        RecallsInWindow(AskedBy[c], L!WindowStart(clock, RecallWindow))
            <= RecallCeiling - 1 + Cardinality(Callers)

\* What was forgotten, replaced or expired before a search began is not in its
\* answer, although the evidence of a forgotten claim is still believed.  What is
\* closed during the search may be: it is not asked again.
ClosedStaysOut ==
    \A c \in Callers : ToSet(caller[c].pkg.claims) \cap caller[c].closed = {}
=============================================================================
