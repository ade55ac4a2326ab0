------------------------------ MODULE Temporal ------------------------------
(* The bi-temporal algebra of internal/temporal: pure functions over        *)
(* half-open intervals [from, until).  Instants are natural numbers and, as *)
(* with time.Time, the zero value stands for "no end".                      *)
EXTENDS Integers, Sequences

NoEnd == 0

Interval == [from : Nat, until : Nat]

Forever(t) == [from |-> t, until |-> NoEnd]

IsOpen(i) == i.until = NoEnd

WellFormed(i) == IsOpen(i) \/ i.from < i.until

Contains(i, t) == i.from <= t /\ (IsOpen(i) \/ t < i.until)

\* Mutant: intervals that only touch are taken to overlap.
OverlapsTouching(a, b) ==
    (IsOpen(a) \/ a.until >= b.from) /\ (IsOpen(b) \/ b.until >= a.from)

Overlaps(a, b) ==
    (IsOpen(a) \/ a.until > b.from) /\ (IsOpen(b) \/ b.until > a.from)

Meets(a, b) == ~IsOpen(a) /\ a.until = b.from

\* Close refuses a closed interval, and an end that does not follow its start.
Closable(i, t) == IsOpen(i) /\ t > i.from
Close(i, t) == [i EXCEPT !.until = t]

\* Both dimensions: true in the world at validAt, known to the system at txAt.
CurrentAt(claims, validAt, txAt) ==
    SelectSeq(claims, LAMBDA c : Contains(c.valid, validAt)
                                 /\ Contains(c.recorded, txAt))

NoValidTimeOverlap(intervals) ==
    \A i, j \in DOMAIN intervals : i < j => ~Overlaps(intervals[i], intervals[j])

\* Mutant: closing clamps where it should refuse.
SupersedableAnyTime(c, successor, t) == successor # c.id /\ IsOpen(c.recorded)

\* Supersede refuses a self-edge, and an instant at which either open interval
\* of the incumbent cannot be closed; it clamps neither.
Supersedable(c, successor, t) ==
    /\ successor # c.id
    /\ Closable(c.recorded, t)
    /\ IsOpen(c.valid) => Closable(c.valid, t)

Supersede(c, successor, t) ==
    [c EXCEPT !.recorded = Close(@, t),
              !.valid = IF IsOpen(@) THEN Close(@, t) ELSE @,
              !.supersededBy = successor]
=============================================================================
