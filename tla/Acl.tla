-------------------------------- MODULE Acl ---------------------------------
(* internal/acl: who may read a claim, decided in Go on loaded rows.  A     *)
(* grant set is a set of [principal, expiresAt] with 0 for "no expiry"; a   *)
(* claim has its own grants and those of each piece of its evidence.        *)
EXTENDS Order

Active(acl, now) ==
    {g.principal : g \in {g \in acl : g.expiresAt = 0 \/ now < g.expiresAt}}

\* Mutant: the union of the sets.
UnionOfSets(sets, now) == UNION {Active(sets[k], now) : k \in DOMAIN sets}

\* Admitted by every set; the intersection of no set is empty, not universal.
Intersect(sets, now) ==
    IF sets = <<>> THEN {}
    ELSE {p \in Active(sets[1], now) :
             \A k \in DOMAIN sets : p \in Active(sets[k], now)}

\* A claim without evidence is readable by nobody.
Permitted(c, now) ==
    IF c.evidence = <<>> THEN {} ELSE Intersect(<<c.acl>> \o c.evidence, now)

CanRead(c, p, now) == p \in Permitted(c, now)

\* The claims p may read, in the order given.
Filter(cs, p, now) == Picked(cs, {k \in DOMAIN cs : CanRead(cs[k], p, now)})
=============================================================================
