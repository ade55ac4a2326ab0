----------------------------- MODULE ClaimStore -----------------------------
(***************************************************************************)
(* The claims table of internal/store/pg and the statements the curation   *)
(* side runs against it.  Each operator that primes "claims" is one SQL    *)
(* statement or one transaction: it is atomic, and its WHERE clause is its *)
(* guard.                                                                  *)
(*                                                                         *)
(* A row stands for the claim together with its evidence, link, grants and *)
(* embedding, which WriteClaim commits in the same transaction.  Instants  *)
(* are natural numbers: only the order of recorded_at and its ties matter  *)
(* to this side, so superseded_at is kept as the flag "live".              *)
(***************************************************************************)
EXTENDS Integers, FiniteSets

CONSTANTS Ids,         \* identifiers gen_random_uuid may draw, ordered as text
          Statements,  \* normalized statement hashes
          Scopes,      \* (scope_kind, scope_value) pairs
          Principals,
          NULL

ASSUME StoreAssumption ==
    /\ Ids \subseteq Nat
    /\ IsFiniteSet(Ids)
    /\ NULL \notin Ids
    /\ NULL \notin {"duplicate", "forgotten", "stale_anchor", "pruned"}

VARIABLE claims  \* the rows, a function from the identifiers in use

Reasons == {"duplicate", "forgotten", "stale_anchor", "pruned"}

Claim == [statement    : Statements,
          scope        : Scopes,
          contributor  : Principals,
          attested     : BOOLEAN,
          recordedAt   : Nat,
          confidence   : Nat,
          live         : BOOLEAN,
          reason       : Reasons \cup {NULL},
          supersededBy : Ids \cup {NULL}]

Live == {i \in DOMAIN claims : claims[i].live}

-----------------------------------------------------------------------------
(* Writing *)

\* WriteClaim commits a new row; a fresh identifier may sort anywhere.
WriteClaim(i, row) ==
    /\ i \in Ids \ DOMAIN claims
    /\ claims' = [j \in DOMAIN claims \cup {i} |->
                      IF j = i THEN row ELSE claims[j]]

\* Accepted claims of a principal in the window, superseded ones included.
ContributionsInWindow(p, since) ==
    Cardinality({i \in DOMAIN claims :
                    claims[i].contributor = p /\ claims[i].recordedAt > since})

-----------------------------------------------------------------------------
(* Exact-hash deduplication *)

\* Live claims sharing a statement hash: scope, kind, contributor and grants
\* are not part of the key.
WithStatement(s) == {i \in Live : claims[i].statement = s}

LiveDuplicateGroups ==
    {g \in {WithStatement(s) : s \in Statements} : Cardinality(g) > 1}

\* Mutant: the tie-break is forgotten, so a tie precedes both ways.
EarlierOrTied(a, b) == claims[a].recordedAt <= claims[b].recordedAt

\* Mutant: the survivor is the latest claim.
Later(a, b) ==
    \/ claims[a].recordedAt > claims[b].recordedAt
    \/ claims[a].recordedAt = claims[b].recordedAt /\ a > b

Earlier(a, b) ==
    \/ claims[a].recordedAt < claims[b].recordedAt
    \/ claims[a].recordedAt = claims[b].recordedAt /\ a < b

\* The survivor of a group: no other member is earlier.
Canonical(g) == {s \in g : \A m \in g \ {s} : Earlier(s, m)}

\* One fold per duplicate of each group.
Folds ==
    {[dup |-> p[1], survivor |-> p[2]] :
        p \in UNION {{q \in g \X Canonical(g) : q[1] # q[2]} :
                        g \in LiveDuplicateGroups}}

\* Mutant: UPDATE ... WHERE id = $1, without "superseded_at IS NULL".
ApplySupersessionUnguarded(dup, survivor) ==
    claims' = [claims EXCEPT ![dup].live = FALSE,
                             ![dup].reason = "duplicate",
                             ![dup].supersededBy = survivor]

\* temporal.Supersede's result, persisted where the row is still live.
ApplySupersession(dup, survivor) ==
    /\ dup \in Live
    /\ claims' = [claims EXCEPT ![dup].live = FALSE,
                                ![dup].reason = "duplicate",
                                ![dup].supersededBy = survivor]

-----------------------------------------------------------------------------
(* Expiry *)

\* Mutant: the same guard dropped.
ExpireClaimUnguarded(i, reason) ==
    /\ i \in DOMAIN claims
    /\ claims' = [claims EXCEPT ![i].live = FALSE, ![i].reason = reason]

\* ForgetClaim and the re-anchoring pass: close with no successor.
ExpireClaim(i, reason) ==
    /\ i \in Live
    /\ claims' = [claims EXCEPT ![i].live = FALSE, ![i].reason = reason]

LiveInScope(sc) == {i \in Live : claims[i].scope = sc}

ScopeClaimCount(sc) == Cardinality(LiveInScope(sc))

\* ORDER BY confidence, recorded_at, id.
LowerValue(a, b) ==
    \/ claims[a].confidence < claims[b].confidence
    \/ claims[a].confidence = claims[b].confidence /\ Earlier(a, b)

\* PruneScope's subquery: the n lowest-value live claims of the scope.
PruneCandidates(sc, n) ==
    {i \in LiveInScope(sc) :
        Cardinality({j \in LiveInScope(sc) : LowerValue(j, i)}) < n}

\* PruneScope's UPDATE.  Its WHERE names only the identifiers the subquery
\* chose: a row that another transaction closed after the statement's snapshot
\* is locked, re-checked against "id IN (...)", and written over.
PruneRows(victims) ==
    claims' = [i \in DOMAIN claims |->
                  IF i \in victims
                  THEN [claims[i] EXCEPT !.live = FALSE, !.reason = "pruned"]
                  ELSE claims[i]]

-----------------------------------------------------------------------------
StoreTypeOK ==
    /\ DOMAIN claims \subseteq Ids
    /\ \A i \in DOMAIN claims : claims[i] \in Claim
=============================================================================
