-------------------------------- MODULE Rank --------------------------------
(* The pure half of internal/recall: reciprocal rank fusion of the two arms *)
(* and the assembly of the package under a count and a token budget.  An    *)
(* arm is a sequence of claim identifiers, best first, so a rank is an      *)
(* index.  Scores are kept as exact fractions <<numerator, denominator>>.   *)
EXTENDS Order, SequencesExt

RRFConstant == 60
Arms == {"dense", "lexical"}

FoundBy(arms, id) == {a \in Arms : \E r \in DOMAIN arms[a] : arms[a][r] = id}

\* What one arm adds to a score: 1/(k + rank), nothing when it missed the claim.
Share(arm, id) ==
    IF \E r \in DOMAIN arm : arm[r] = id
    THEN <<1, RRFConstant + (CHOOSE r \in DOMAIN arm : arm[r] = id)>>
    ELSE <<0, 1>>

Sum(x, y) == <<x[1] * y[2] + y[1] * x[2], x[2] * y[2]>>
Greater(x, y) == x[1] * y[2] > y[1] * x[2]

\* Mutant: an arm's own scale decides, so only the better rank counts.
BestShare(arms, id) ==
    LET d == Share(arms["dense"], id)
        l == Share(arms["lexical"], id)
    IN  IF Greater(l, d) THEN l ELSE d

Score(arms, id) == Sum(Share(arms["dense"], id), Share(arms["lexical"], id))

\* Higher score first, ties by identifier: a total order.
Before(arms, a, b) ==
    \/ Greater(Score(arms, a), Score(arms, b))
    \/ ~Greater(Score(arms, b), Score(arms, a)) /\ a < b

\* Mutant: only what both arms found.
FuseAgreed(arms) ==
    LET S == ToSet(arms["dense"]) \cap ToSet(arms["lexical"])
    IN  InOrder(S, [x \in S |-> {y \in S : Before(arms, y, x)}])

FuseRRF(arms) ==
    LET S == UNION {ToSet(arms[a]) : a \in Arms}
    IN  InOrder(S, [x \in S |-> {y \in S : Before(arms, y, x)}])

EqualDepth(arms, depth) == \A a \in Arms : Len(arms[a]) <= depth

\* How many of the first n results only one arm could see, for the arm with the
\* most of them.  The share is this over n.
SingleArmCount(arms, fused, n) ==
    LET top == {fused[k] : k \in {k \in DOMAIN fused : k <= n}}
    IN  Max({Cardinality({id \in top : FoundBy(arms, id) = {a}}) : a \in Arms})

Empty == [claims |-> <<>>, used |-> 0, omitted |-> 0]

\* Mutant: the first claim that does not fit ends the package.
TakeUntilFull(pkg, id, authorized, tokens, limit, budget) ==
    IF id \notin authorized THEN pkg
    ELSE IF pkg.omitted > 0 \/ Len(pkg.claims) >= limit \/ pkg.used + tokens[id] > budget
         THEN [pkg EXCEPT !.omitted = @ + 1]
         ELSE [claims |-> Append(pkg.claims, id), used |-> pkg.used + tokens[id],
               omitted |-> pkg.omitted]

\* One candidate: skipped when it is not readable, dropped whole when it does
\* not fit; a later, smaller one may still fit.
Take(pkg, id, authorized, tokens, limit, budget) ==
    IF id \notin authorized THEN pkg
    ELSE IF Len(pkg.claims) >= limit \/ pkg.used + tokens[id] > budget
         THEN [pkg EXCEPT !.omitted = @ + 1]
         ELSE [claims |-> Append(pkg.claims, id), used |-> pkg.used + tokens[id],
               omitted |-> pkg.omitted]

\* The package and what it reports.  Candidates are counted before access is
\* decided, the authorized after.
Assemble(fused, authorized, tokens, limit, budget) ==
    LET after[n \in 0..Len(fused)] ==
            IF n = 0 THEN Empty
            ELSE Take(after[n - 1], fused[n], authorized, tokens, limit, budget)
    IN  after[Len(fused)]
=============================================================================
