------------------------------ MODULE Console -------------------------------
(* The console's reads (internal/api over internal/store/pg): the listing   *)
(* and the detail of claims, decided per caller, and the usage page.  A     *)
(* claim is as in Temporal and Acl, with an identifier and a scope; claims  *)
(* is the table, a set.                                                     *)
EXTENDS Acl, SequencesExt

T == INSTANCE Temporal
L == INSTANCE Limit

CONSTANTS defaultLimit, maxLimit  \* 50 and 200 in the source

ASSUME ConsoleAssumption ==
    /\ defaultLimit \in Nat \ {0} /\ maxLimit \in Nat
    /\ defaultLimit <= maxLimit

AnyScope == 0
AnyId == 0

-----------------------------------------------------------------------------
(* Claims *)

\* What the page calls a claim.
statusOf(c, now) ==
    IF \/ ~T!IsOpen(c.recorded)
       \/ ~T!IsOpen(c.valid) /\ now >= c.valid.until
    THEN "expired" ELSE "live"

\* What the WHERE clause asks of liveness.
HasStatus(status, c, now) ==
    \/ status = "all"
    \/ /\ status = "live"
       /\ T!IsOpen(c.recorded) /\ (T!IsOpen(c.valid) \/ c.valid.until > now)
    \/ /\ status = "expired"
       /\ ~T!IsOpen(c.recorded) \/ (~T!IsOpen(c.valid) /\ c.valid.until <= now)

\* An identifier overrides scope and status.
Selects(q, c) ==
    IF q.id # AnyId THEN c.id = q.id
    ELSE q.scope \in {AnyScope, c.scope} /\ HasStatus(q.status, c, q.now)

\* ORDER BY recorded_at DESC, id.
Newer(a, b) ==
    \/ a.recorded.from > b.recorded.from
    \/ a.recorded.from = b.recorded.from /\ a.id < b.id

ListClaims(claims, q) ==
    LET found == {c \in claims : Selects(q, c)}
    IN  InOrder(found, [c \in found |-> {d \in found : Newer(d, c)}])

pageLimit(limit) == IF limit <= 0 THEN defaultLimit ELSE Min({limit, maxLimit})

Page(cs, limit, offset) ==
    SubSeq(cs, Max({offset, 0}) + 1, Min({Max({offset, 0}) + pageLimit(limit), Len(cs)}))

\* Mutant: the page is cut before access is decided.
listClaimsCutFirst(claims, q, p, limit, offset) ==
    Filter(Page(ListClaims(claims, q), limit, offset), p, q.now)

\* Access is decided in Go, and then the page is cut.
listClaims(claims, q, p, limit, offset) ==
    Page(Filter(ListClaims(claims, q), p, q.now), limit, offset)

\* The detail: a claim its asker may not read is not found.
getClaim(claims, id, p, now) ==
    LET found == ListClaims(claims, [id |-> id, scope |-> AnyScope, status |-> "live",
                                     now |-> now])
    IN  IF found # <<>> /\ CanRead(found[1], p, now) THEN {found[1]} ELSE {}

-----------------------------------------------------------------------------
(* Usage *)

\* The page of one principal, from what it used and the policy.
usage(used, policy) ==
    [contribution |-> L!Contribution(used.contributions, policy.quota),
     cost         |-> L!Cost(used.calls, used.tokens, policy.maxCalls, policy.maxTokens),
     recall       |-> L!RecallRate(used.recalls, policy.recallRate)]
=============================================================================
