-------------------------- MODULE DecisionsProofs --------------------------
(* Theorems about the pure decisions, for every input and not only those a *)
(* run draws: what is proved of an operator first, then the property.      *)
EXTENDS Decisions, RankProofs

-----------------------------------------------------------------------------
(* The only state is the input drawn *)

\* What is drawn of a kind is one of the inputs of that kind.
Given ==
    /\ input.kind = "spans" => input.case \in Spans
    /\ input.kind = "incumbent" => input.case \in Incumbents
    /\ input.kind = "guarded" => input.case \in Guarded
    /\ input.kind = "retrieved" => input.case \in Retrieved
    /\ input.kind = "package" => input.case \in Packages
    /\ input.kind = "document" => input.case \in Documents
    /\ input.kind = "source" => input.case \in Sources
    /\ input.kind = "ceiling" => input.case \in Ceilings
    /\ input.kind = "answer" => input.case \in Answers
    /\ input.kind = "listing" => input.case \in Listings
    /\ input.kind = "spending" => input.case \in Spendings
    /\ input.kind = "text" => input.case \in Texts

LEMMA GivenInit == Init => Given
  BY DEF Init, NoInput, Given

LEMMA GivenNext == Given /\ [Next]_input => Given'
<1> SUFFICES ASSUME Given, [Next]_input PROVE Given'
  OBVIOUS
<1>1. CASE UNCHANGED input
  BY <1>1 DEF Given
<1>2. CASE DrawInput
  BY <1>2 DEF DrawInput, Draw, Given
<1>3. CASE Drawn
  BY <1>3 DEF Drawn, Given
<1> QED
  BY <1>1, <1>2, <1>3 DEF Next

\* A decision that is right for every input given is right in every state.
LEMMA AlwaysGiven == Spec => []Given
<1> QED
  BY GivenInit, GivenNext, PTL DEF Spec

-----------------------------------------------------------------------------
(* Time *)

\* Of two intervals the later start is in both, if they overlap.
LEMMA OverlapSharesAStart ==
  ASSUME NEW a \in T!Interval, NEW b \in T!Interval, T!WellFormed(a), T!WellFormed(b)
  PROVE  T!Overlaps(a, b) <=>
             LET t == IF a.from <= b.from THEN b.from ELSE a.from
             IN  T!Contains(a, t) /\ T!Contains(b, t)
  BY DEF T!Interval, T!WellFormed, T!Overlaps, T!Contains, T!IsOpen, T!NoEnd

LEMMA SharedInstantOverlaps ==
  ASSUME NEW a \in T!Interval, NEW b \in T!Interval, NEW t \in Nat,
         T!Contains(a, t), T!Contains(b, t)
  PROVE  T!Overlaps(a, b)
  BY DEF T!Interval, T!Overlaps, T!Contains, T!IsOpen, T!NoEnd

LEMMA MeetingIsNoOverlap ==
  ASSUME NEW a \in T!Interval, NEW b \in T!Interval, T!Meets(a, b)
  PROVE  ~T!Overlaps(a, b)
  BY DEF T!Interval, T!Meets, T!Overlaps, T!IsOpen, T!NoEnd

LEMMA SpansShare == Given => OverlapIsSharing
<1> SUFFICES ASSUME Given, input.kind = "spans",
                    T!WellFormed(input.case.a), T!WellFormed(input.case.b)
             PROVE  /\ T!Overlaps(input.case.a, input.case.b) <=>
                           \E t \in Instants : /\ T!Contains(input.case.a, t)
                                               /\ T!Contains(input.case.b, t)
                    /\ T!Meets(input.case.a, input.case.b)
                           => ~T!Overlaps(input.case.a, input.case.b)
  BY DEF OverlapIsSharing
<1> DEFINE a == input.case.a
           b == input.case.b
           t == IF a.from <= b.from THEN b.from ELSE a.from
<1>1. /\ a \in T!Interval /\ b \in T!Interval
      /\ a.from \in Instants /\ b.from \in Instants
      /\ Instants \subseteq Nat
  BY DecisionsAssumption DEF Given
<1>2. t \in Instants
  BY <1>1
<1>3. T!Overlaps(a, b) => T!Contains(a, t) /\ T!Contains(b, t)
  BY <1>1, OverlapSharesAStart
<1>4. ASSUME NEW u \in Instants, T!Contains(a, u), T!Contains(b, u)
      PROVE  T!Overlaps(a, b)
  BY <1>1, <1>4, SharedInstantOverlaps
<1>5. T!Meets(a, b) => ~T!Overlaps(a, b)
  BY <1>1, MeetingIsNoOverlap
<1> QED
  BY <1>2, <1>3, <1>4, <1>5

\* Overlap is having an instant in common (temporal.go, Overlaps): whoever finds
\* no overlap has found that the two were never true together.
THEOREM OverlapShares == Spec => []OverlapIsSharing
<1> QED
  BY AlwaysGiven, SpansShare, PTL

\* Before t the incumbent is known, from t on its successor.
LEMMA HandOver ==
  ASSUME NEW from \in Nat, NEW t \in Nat, t > from, NEW tx \in Nat, tx >= from
  PROVE  T!Contains([from |-> from, until |-> t], tx) # T!Contains(T!Forever(t), tx)
  BY DEF T!Contains, T!IsOpen, T!NoEnd, T!Forever

LEMMA Superseding == Given => SupersedeHandsOver
<1> SUFFICES ASSUME Given, input.kind = "incumbent",
                    T!Supersedable(input.case.claim, "next", input.case.t)
             PROVE  LET old == T!Supersede(input.case.claim, "next", input.case.t)
                        new == T!Forever(input.case.t)
                    IN  /\ T!WellFormed(old.recorded) /\ T!WellFormed(old.valid)
                        /\ \A tx \in Instants : tx >= input.case.claim.recorded.from =>
                               T!Contains(old.recorded, tx) # T!Contains(new, tx)
  BY DEF SupersedeHandsOver
<1> DEFINE c == input.case.claim
           t == input.case.t
           old == T!Supersede(c, "next", t)
<1>1. /\ c \in [id : {c.id}, valid : T!Interval, recorded : T!Interval,
                supersededBy : {c.supersededBy}]
      /\ T!WellFormed(c.valid) /\ t \in Nat /\ Instants \subseteq Nat
  BY DecisionsAssumption DEF Given
<1>2. /\ c.recorded.from \in Nat /\ t > c.recorded.from
      /\ T!IsOpen(c.valid) => t > c.valid.from
  BY <1>1 DEF T!Supersedable, T!Closable, T!Interval
<1>3. /\ old.recorded = [c.recorded EXCEPT !.until = t]
      /\ old.valid = IF T!IsOpen(c.valid) THEN [c.valid EXCEPT !.until = t] ELSE c.valid
  BY <1>1 DEF T!Supersede, T!Close
<1>4. old.recorded = [from |-> c.recorded.from, until |-> t]
  BY <1>1, <1>3 DEF T!Interval
<1>5. T!WellFormed(old.recorded)
  BY <1>2, <1>4 DEF T!WellFormed
<1>6. T!WellFormed(old.valid)
  BY <1>1, <1>2, <1>3 DEF T!WellFormed, T!Interval
<1>7. ASSUME NEW tx \in Instants, tx >= c.recorded.from
      PROVE  T!Contains(old.recorded, tx) # T!Contains(T!Forever(t), tx)
  BY <1>1, <1>2, <1>4, <1>7, HandOver
<1> QED
  BY <1>5, <1>6, <1>7

\* Supersession leaves no gap and no overlap in what was known, and neither of
\* the incumbent's intervals ends before it starts (temporal.go, Supersede).
THEOREM SupersessionHandsOver == Spec => []SupersedeHandsOver
<1> QED
  BY AlwaysGiven, Superseding, PTL

-----------------------------------------------------------------------------
(* Access *)

LEMMA ActiveShrinks ==
  ASSUME NEW S \in SUBSET Grant, NEW now \in Nat, NEW later \in Nat, now <= later
  PROVE  Active(S, later) \subseteq Active(S, now)
  BY DEF Active, Grant

\* Of a list of grant sets, as Permitted builds it.
LEMMA MoreSetsShrink ==
  ASSUME NEW own \in SUBSET Grant, NEW sets \in Seq(SUBSET Grant), NEW more \in SUBSET Grant,
         NEW now \in Nat
  PROVE  Intersect(<<own>> \o Append(sets, more), now) \subseteq Intersect(<<own>> \o sets, now)
<1> DEFINE few == <<own>> \o sets
           many == <<own>> \o Append(sets, more)
<1>1. few \in Seq(SUBSET Grant) /\ many \in Seq(SUBSET Grant)
  OBVIOUS
<1>2. /\ few # <<>> /\ many # <<>>
      /\ DOMAIN few \subseteq DOMAIN many
      /\ \A k \in DOMAIN few : many[k] = few[k]
      /\ 1 \in DOMAIN few
  OBVIOUS
<1> QED
  BY <1>2 DEF Intersect

LEMMA TimeShrinks ==
  ASSUME NEW sets \in Seq(SUBSET Grant), NEW now \in Nat, NEW later \in Nat, now <= later
  PROVE  Intersect(sets, later) \subseteq Intersect(sets, now)
<1>1. \A k \in DOMAIN sets : Active(sets[k], later) \subseteq Active(sets[k], now)
  BY ActiveShrinks
<1>2. sets # <<>> => 1 \in DOMAIN sets
  OBVIOUS
<1> QED
  BY <1>1, <1>2 DEF Intersect

LEMMA Guarding == Given => ReadersOnlyShrink
<1> SUFFICES ASSUME Given, input.kind = "guarded"
             PROVE  LET g == input.case
                        c == g.claim
                    IN  /\ c.evidence # <<>> =>
                               Permitted([c EXCEPT !.evidence = Append(@, g.more)], g.now)
                                   \subseteq Permitted(c, g.now)
                        /\ Permitted(c, g.later) \subseteq Permitted(c, g.now)
  BY DEF ReadersOnlyShrink
<1> DEFINE g == input.case
           c == g.claim
           d == [c EXCEPT !.evidence = Append(@, g.more)]
<1>1. /\ c \in [acl : SUBSET Grant, evidence : Seq(SUBSET Grant)]
      /\ g.more \in SUBSET Grant
      /\ g.now \in Nat /\ g.later \in Nat /\ g.now <= g.later
  BY DecisionsAssumption DEF Given
<1>2. d.acl = c.acl /\ d.evidence = Append(c.evidence, g.more)
  <2> HIDE DEF g
  <2> QED
    BY <1>1
<1>2a. Append(c.evidence, g.more) # <<>>
  BY <1>1, AppendProperties
<1>3. c.evidence # <<>> => Permitted(d, g.now) \subseteq Permitted(c, g.now)
  BY <1>1, <1>2, <1>2a, MoreSetsShrink DEF Permitted
<1>4. <<c.acl>> \o c.evidence \in Seq(SUBSET Grant)
  BY <1>1
<1>5. Permitted(c, g.later) \subseteq Permitted(c, g.now)
  BY <1>1, <1>4, TimeShrinks DEF Permitted
<1> QED
  BY <1>3, <1>5

\* A piece of evidence more, or an instant later, never adds a reader (acl.go,
\* Permitted and Intersect).
THEOREM ReadersShrink == Spec => []ReadersOnlyShrink
<1> QED
  BY AlwaysGiven, Guarding, PTL

-----------------------------------------------------------------------------
(* Limits *)

\* The headroom is the share of the overage that is asked, rounded up.
LEMMA HeadroomIsShare ==
  ASSUME NEW over \in Nat, NEW percent \in Nat
  PROVE  LET room  == L!Headroom(over, percent)
             asked == over * percent
         IN  room \in Nat /\ asked <= 100 * room /\ 100 * room < asked + 100 /\ asked \in Nat
<1>1. over * percent \in Nat
  OBVIOUS
<1> DEFINE product == over * percent
<1>2. product \in Nat
  BY <1>1
<1> HIDE DEF product
<1> DEFINE room == (product + 99) \div 100
<1>3. room \in Nat /\ product <= 100 * room /\ 100 * room < product + 100
  BY <1>2
<1> QED
  BY <1>2, <1>3 DEF L!Headroom, product

LEMMA Pruning == Given => PruneReachesCeiling
<1> SUFFICES ASSUME Given, input.kind = "ceiling", input.case.ceiling > 0
             PROVE  LET x == input.case
                        cut == L!PruneTarget(x.live, x.ceiling, x.percent)
                        below == x.ceiling - (x.live - cut)
                        asked == (x.live - x.ceiling) * x.percent
                    IN  /\ 0 <= cut /\ cut <= x.live
                        /\ x.live <= x.ceiling => cut = 0
                        /\ x.live > x.ceiling =>
                               /\ 0 <= below /\ 100 * below < asked + 100
                               /\ cut < x.live => asked <= 100 * below
  BY DEF PruneReachesCeiling
<1> DEFINE x == input.case
           over == x.live - x.ceiling
           room == L!Headroom(over, x.percent)
<1>1. x.live \in Nat /\ x.ceiling \in Int /\ x.percent \in Nat
  BY DecisionsAssumption DEF Given
<1>2. CASE over <= 0
  <2>1. ~(x.live > x.ceiling) /\ L!PruneTarget(x.live, x.ceiling, x.percent) = 0
    BY <1>1, <1>2 DEF L!PruneTarget
  <2> QED
    BY <1>1, <2>1
<1>3. CASE over > 0
  <2> DEFINE asked == over * x.percent
  <2>1. room \in Nat /\ asked <= 100 * room /\ 100 * room < asked + 100 /\ asked \in Nat
    <3>1. over \in Nat
      BY <1>1, <1>3
    <3> HIDE DEF over
    <3> QED
      BY <1>1, <3>1, HeadroomIsShare
  <2>2. L!PruneTarget(x.live, x.ceiling, x.percent)
            = IF over + room > x.live THEN x.live ELSE over + room
    BY <1>1, <1>3 DEF L!PruneTarget
  <2> DEFINE cut == L!PruneTarget(x.live, x.ceiling, x.percent)
             below == x.ceiling - (x.live - cut)
  <2> HIDE DEF room, asked, cut
  <2>3. CASE over + room > x.live
    <3>1. cut = x.live /\ below = x.ceiling /\ x.ceiling <= room
      BY <1>1, <2>1, <2>2, <2>3 DEF cut
    <3>2. 100 * below < asked + 100
      BY <1>1, <2>1, <3>1
    <3> QED
      BY <1>1, <1>3, <3>1, <3>2 DEF asked, cut
  <2>4. CASE ~(over + room > x.live)
    <3>1. cut = over + room /\ below = room
      BY <1>1, <2>1, <2>2, <2>4 DEF cut
    <3>2. 0 <= cut /\ cut <= x.live /\ 0 <= below /\ 100 * below < asked + 100 /\ asked <= 100 * below
      BY <1>1, <1>3, <2>1, <2>4, <3>1
    <3> QED
      BY <1>1, <1>3, <3>1, <3>2 DEF asked, cut
  <2> QED
    BY <2>3, <2>4
<1> QED
  BY <1>1, <1>2, <1>3

\* Whatever the aggressiveness, a pass that prunes brings the scope down to its
\* ceiling and below it by the share of the overage that the aggressiveness asks,
\* no more, or to nothing when that is all there is (limit.go, PruneTarget).
THEOREM PruningReachesCeiling == Spec => []PruneReachesCeiling
<1> QED
  BY AlwaysGiven, Pruning, PTL

LEMMA HeadroomGranted ==
  ASSUME NEW n \in Nat, NEW used \in Nat, NEW ceiling \in Int,
         L!AtMost(used, ceiling).remaining # L!Unlimited
  PROVE  L!AtMost(used + n, ceiling).allowed <=> n < L!AtMost(used, ceiling).remaining
  BY DEF L!AtMost, L!Unlimited

\* When no call is left, or no token, none is allowed.
LEMMA CostExhausted ==
  ASSUME NEW calls \in Nat, NEW tokens \in Nat, NEW each \in Nat,
         NEW maxCalls \in Int, NEW maxTokens \in Int,
         NEW n \in Nat, n = L!Cost(calls, tokens, maxCalls, maxTokens).remaining,
         NEW spent \in Nat, n = 0 => spent = tokens
  PROVE  ~L!Cost(calls + n, spent, maxCalls, maxTokens).allowed
<1>1. CASE L!AtMost(calls, maxCalls).allowed /\ maxTokens > 0 /\ tokens >= maxTokens
  <2>1. n = 0
    BY <1>1 DEF L!Cost
  <2> QED
    BY <1>1, <2>1 DEF L!Cost
<1>2. CASE ~(L!AtMost(calls, maxCalls).allowed /\ maxTokens > 0 /\ tokens >= maxTokens)
  <2>1. n = L!AtMost(calls, maxCalls).remaining
    BY <1>2 DEF L!Cost
  <2>2. ~L!AtMost(calls + n, maxCalls).allowed
    BY <2>1 DEF L!AtMost, L!Unlimited
  <2> QED
    BY <2>2 DEF L!Cost
<1> QED
  BY <1>1, <1>2

LEMMA Spending == Given => HeadroomIsExact
<1> SUFFICES ASSUME Given, input.kind = "spending" PROVE HeadroomIsExact
  BY DEF HeadroomIsExact
<1> DEFINE u == input.case.used
           p == input.case.policy
           each == input.case.tokens
           page == usage(u, p)
           after(n) == usage([contributions |-> u.contributions + n,
                              recalls |-> u.recalls + n, calls |-> u.calls + n,
                              tokens |-> u.tokens + n * each], p)
<1>1. /\ u \in [contributions : Nat, calls : Nat, tokens : Nat, recalls : Nat]
      /\ p \in [quota : Int, maxCalls : Int, maxTokens : Int, recallRate : Int]
      /\ each \in Nat
  BY DecisionsAssumption DEF Given
<1>2. ASSUME page.contribution.remaining # L!Unlimited,
             NEW n \in 0..(page.contribution.remaining + 1)
      PROVE  after(n).contribution.allowed <=> n < page.contribution.remaining
  <2>1. n \in Nat
    BY <1>1, <1>2 DEF usage, L!Contribution, L!AtMost
  <2> QED
    BY <1>1, <1>2, <2>1, HeadroomGranted DEF usage, L!Contribution
<1>3. ASSUME page.recall.remaining # L!Unlimited,
             NEW n \in 0..(page.recall.remaining + 1)
      PROVE  after(n).recall.allowed <=> n < page.recall.remaining
  <2>1. n \in Nat
    BY <1>1, <1>3 DEF usage, L!RecallRate, L!AtMost
  <2> QED
    BY <1>1, <1>3, <2>1, HeadroomGranted DEF usage, L!RecallRate
<1>4. ASSUME page.cost.remaining # L!Unlimited
      PROVE  ~after(page.cost.remaining).cost.allowed
  <2> DEFINE n == page.cost.remaining
  <2>1. n = L!Cost(u.calls, u.tokens, p.maxCalls, p.maxTokens).remaining
    BY DEF usage
  <2>2. n \in Nat
    BY <1>1, <1>4, <2>1 DEF L!Cost, L!AtMost, L!Unlimited
  <2> HIDE DEF n
  <2>3. u.tokens + n * each \in Nat /\ (n = 0 => u.tokens + n * each = u.tokens)
    <3>1. n * each \in Nat /\ (n = 0 => n * each = 0)
      BY <1>1, <2>2
    <3> DEFINE product == n * each
    <3> HIDE DEF product
    <3>2. u.tokens + product \in Nat /\ (product = 0 => u.tokens + product = u.tokens)
      BY <1>1, <3>1 DEF product
    <3> QED
      BY <3>1, <3>2 DEF product
  <2>4. ~L!Cost(u.calls + n, u.tokens + n * each, p.maxCalls, p.maxTokens).allowed
    BY <1>1, <2>1, <2>2, <2>3, CostExhausted
  <2> QED
    BY <2>4 DEF usage, n
<1> QED
  BY <1>2, <1>3, <1>4 DEF HeadroomIsExact

\* The usage page counts down with what is granted: after as many contributions
\* or recalls as it says are left, and not before, the next is denied (limit.go,
\* atMost and Cost; usage.go, usageResponse).
THEOREM HeadroomExact == Spec => []HeadroomIsExact
<1> QED
  BY AlwaysGiven, Spending, PTL

-----------------------------------------------------------------------------
(* Recall *)

LEMMA Packing == Given => PackageIsFull
<1> SUFFICES ASSUME Given, input.kind = "package" PROVE PackageIsFull
  BY DEF PackageIsFull
<1> DEFINE p == input.case
           pkg == Assemble(p.fused, p.authorized, p.tokens, p.limit, p.budget)
           left == (ToSet(p.fused) \cap p.authorized) \ ToSet(pkg.claims)
           N == Len(p.fused)
<1>1. Assembling(p.fused, p.authorized, p.tokens, p.limit, p.budget)
  <2>1. p \in Packages
    BY DEF Given
  <2> HIDE DEF p
  <2> QED
    BY <2>1, DecisionsAssumption DEF Assembling
<1>2. DOMAIN p.fused = 1..N /\ p.limit \in Nat
  BY <1>1, LenProperties DEF Assembling
<1>3. Accounted(pkg, N, p.fused, p.authorized, p.tokens, p.limit, p.budget)
  BY <1>1, AssembleAccounts
<1> HIDE DEF p, pkg
<1>4. Seen(p.fused, N) = ToSet(p.fused)
  BY <1>2 DEF Seen, ToSet
<1>5. LeftOf(p.fused, N, pkg, p.authorized) = left
  BY <1>4 DEF LeftOf
<1>6. TakenOf(p.fused, N, pkg) = {k \in DOMAIN p.fused : p.fused[k] \in ToSet(pkg.claims)}
  BY <1>2 DEF TakenOf
<1>7. Len(pkg.claims) \in Nat
  BY <1>3, LenProperties DEF Accounted, Package
<1>8. /\ pkg.used <= p.budget /\ Len(pkg.claims) <= p.limit
      /\ pkg.claims = Picked(p.fused, {k \in DOMAIN p.fused : p.fused[k] \in ToSet(pkg.claims)})
      /\ pkg.omitted = Cardinality(left)
      /\ \A id \in left : Len(pkg.claims) = p.limit \/ pkg.used + p.tokens[id] > p.budget
  <2>1. /\ pkg.used <= p.budget /\ Len(pkg.claims) <= p.limit
        /\ pkg.claims = Picked(p.fused, TakenOf(p.fused, N, pkg))
        /\ pkg.omitted = Cardinality(left)
        /\ \A id \in left : Len(pkg.claims) >= p.limit \/ pkg.used + p.tokens[id] > p.budget
    BY <1>3, <1>5 DEF Accounted
  <2>2. Len(pkg.claims) >= p.limit => Len(pkg.claims) = p.limit
    BY <1>2, <1>7, <2>1
  <2> HIDE DEF left
  <2> QED
    BY <1>6, <2>1, <2>2
<1> QED
  BY <1>8 DEF PackageIsFull, p, pkg

\* However many candidates there are and whoever may be told of them, the package
\* keeps its two limits and the order, and leaves out only what would not have
\* fitted, which it counts (recall.go, the loop over the fused candidates).
THEOREM PackagesFull == Spec => []PackageIsFull
<1> QED
  BY AlwaysGiven, Packing, PTL

LEMMA Ranking ==
  ASSUME \A x \in Retrieved, a \in Arms : Len(x[a]) <= RRFConstant + 1, Given
  PROVE  AgreementRanksFirst
<1> SUFFICES ASSUME input.kind = "retrieved" PROVE AgreementRanksFirst
  BY DEF AgreementRanksFirst
<1> DEFINE arms == input.case
           fused == FuseRRF(arms)
           by(k) == FoundBy(arms, fused[k])
<1>1. \A a \in Arms : arms[a] \in Seq(Int) /\ Len(arms[a]) <= 61
  <2>1. arms \in Retrieved
    BY DEF Given
  <2>2. \A x \in Retrieved, a \in Arms : x[a] \in Seq(Int)
    BY DecisionsAssumption
  <2> QED
    BY <2>1, <2>2 DEF RRFConstant
<1> HIDE DEF arms
<1>2. /\ ToSet(fused) = ToSet(arms["dense"]) \cup ToSet(arms["lexical"])
      /\ \A i, j \in DOMAIN fused :
            i < j => fused[i] # fused[j] /\ Before(arms, fused[i], fused[j])
  BY <1>1, FusedSorted
<1> HIDE DEF fused
<1>3. \A k \in DOMAIN fused : by(k) # {}
  <2>1. \A k \in DOMAIN fused : \E a \in Arms : \E r \in DOMAIN arms[a] : arms[a][r] = fused[k]
    BY <1>2 DEF ToSet, Arms
  <2> QED
    BY <2>1 DEF FoundBy
<1>4. ASSUME NEW i \in DOMAIN fused, NEW j \in DOMAIN fused, i < j
      PROVE  ~Greater(Score(arms, fused[j]), Score(arms, fused[i]))
  <2>1. Score(arms, fused[i]) \in Fraction /\ Score(arms, fused[j]) \in Fraction
    BY <1>1, ScoreFraction
  <2>2. Before(arms, fused[i], fused[j])
    BY <1>2, <1>4
  <2> QED
    BY <2>1, <2>2, GreaterOrders DEF Before
<1>5. ASSUME NEW i \in DOMAIN fused, NEW j \in DOMAIN fused, i < j
      PROVE  ~(by(i) # Arms /\ by(j) = Arms)
  BY <1>1, <1>3, <1>4, <1>5, AgreedExceeds
<1>6. ASSUME NEW i \in DOMAIN fused, NEW j \in DOMAIN fused, i < j, by(i) = by(j)
      PROVE  \E a \in by(i) : RankIn(arms[a], fused[i]) <= RankIn(arms[a], fused[j])
  <2> SUFFICES ASSUME \A a \in by(i) :
                          ~(PlaceIn(arms[a], fused[i]) <= PlaceIn(arms[a], fused[j]))
               PROVE  FALSE
    BY DEF RankIn, PlaceIn
  <2>1. ASSUME NEW a \in by(i)
        PROVE  PlaceIn(arms[a], fused[j]) < PlaceIn(arms[a], fused[i])
    <3>1. a \in Arms /\ a \in FoundBy(arms, fused[j])
      BY <1>6 DEF FoundBy
    <3>2. /\ \E r \in DOMAIN arms[a] : arms[a][r] = fused[i]
          /\ \E r \in DOMAIN arms[a] : arms[a][r] = fused[j]
      BY <3>1 DEF FoundBy
    <3>3. arms[a] \in Seq(Int)
      BY <1>1, <3>1
    <3>4. /\ PlaceIn(arms[a], fused[i]) \in 1..Len(arms[a])
          /\ PlaceIn(arms[a], fused[j]) \in 1..Len(arms[a]) /\ Len(arms[a]) \in Nat
      BY <3>2, <3>3, ShareIs
    <3> QED
      BY <3>4
  <2>2. Greater(Score(arms, fused[j]), Score(arms, fused[i]))
    BY <1>1, <1>3, <1>6, <2>1, BetterExceeds
  <2> QED
    BY <1>4, <1>6, <2>2
<1> QED
  BY <1>5, <1>6 DEF AgreementRanksFirst, arms, fused

\* What both arms found precedes what one found, and what no arm ranks lower is
\* not behind, for any number of claims (rrf.go, FuseRRF): down to the depth at
\* which two last ranks still outweigh one first rank, 2/(60 + 61) > 1/(60 + 1).
THEOREM AgreementFirst ==
  ASSUME \A x \in Retrieved, a \in Arms : Len(x[a]) <= RRFConstant + 1
  PROVE  Spec => []AgreementRanksFirst
<1>1. Given => AgreementRanksFirst
  BY Ranking
<1> QED
  BY AlwaysGiven, <1>1, PTL

-----------------------------------------------------------------------------
(* The console *)

LEMMA LesserAndGreater ==
  ASSUME NEW a \in Int, NEW b \in Int
  PROVE  /\ Min({a, b}) = IF a <= b THEN a ELSE b
         /\ Max({a, b}) = IF a <= b THEN b ELSE a
  BY DEF Min, Max

LEMMA PageLimits == ASSUME NEW limit \in Int PROVE pageLimit(limit) \in Nat \ {0}
  BY LesserAndGreater, ConsoleAssumption DEF pageLimit

\* What page shows of cs from offset on, one that is not full being the last.
WindowOn(page, cs, offset, size) ==
    /\ DOMAIN page = {n \in 1..size : offset + n <= Len(cs)}
    /\ \A n \in DOMAIN page : page[n] = cs[offset + n]
    /\ page = <<>> <=> Len(cs) <= offset
    /\ Len(page) < size => Len(cs) <= offset + size

LEMMA PageIsAWindow ==
  ASSUME NEW S, NEW cs \in Seq(S), NEW limit \in Int, NEW offset \in Nat,
         NEW size, size = pageLimit(limit), NEW page, page = Page(cs, limit, offset)
  PROVE  WindowOn(page, cs, offset, size)
<1>1. size \in Nat \ {0}
  BY PageLimits
<1>2. Len(cs) \in Nat
  BY LenProperties
<1> DEFINE last == IF offset + size <= Len(cs) THEN offset + size ELSE Len(cs)
<1>3. Max({offset, 0}) = offset
  BY LesserAndGreater
<1>4. offset + size \in Int
  BY <1>1
<1>5. Min({offset + size, Len(cs)}) = last
  BY <1>2, <1>4, LesserAndGreater
<1>6. page = SubSeq(cs, offset + 1, last)
  BY <1>3, <1>5 DEF Page
<1>7. last \in Nat /\ last <= Len(cs)
  BY <1>1, <1>2
<1>8. page = [n \in 1..(last - offset) |-> cs[offset + n]]
  BY <1>6, <1>7
<1>9. DOMAIN page = 1..(last - offset) /\ \A n \in 1..(last - offset) : page[n] = cs[offset + n]
  BY <1>8
<1> HIDE DEF last
<1>10. last = (IF offset + size <= Len(cs) THEN offset + size ELSE Len(cs))
  BY DEF last
<1>11. DOMAIN page = {n \in 1..size : offset + n <= Len(cs)}
  <2>1. \A n \in Int : n \in 1..(last - offset) <=> n \in 1..size /\ offset + n <= Len(cs)
    BY <1>1, <1>2, <1>10
  <2> QED
    BY <1>9, <2>1
<1>12. Len(page) = IF last <= offset THEN 0 ELSE last - offset
  <2>1. CASE last <= offset
    <3>1. 1..(last - offset) = {}
      BY <1>7, <2>1
    <3>2. page = <<>>
      BY <1>8, <3>1
    <3> QED
      BY <2>1, <3>2, EmptySeq
  <2>2. CASE offset < last
    BY <1>6, <1>7, <2>2
  <2> QED
    BY <1>7, <2>1, <2>2
<1>13. page = <<>> <=> last <= offset
  <2>1. CASE last <= offset
    <3>1. 1..(last - offset) = {}
      BY <1>7, <2>1
    <3> QED
      BY <1>8, <2>1, <3>1
  <2>2. CASE offset < last
    BY <1>7, <1>9, <2>2
  <2> QED
    BY <1>7, <2>1, <2>2
<1>14. last <= offset <=> Len(cs) <= offset
  BY <1>1, <1>2, <1>10
<1>15. Len(page) < size => Len(cs) <= offset + size
  BY <1>1, <1>2, <1>10, <1>12
<1> QED
  BY <1>9, <1>11, <1>13, <1>14, <1>15 DEF WindowOn

\* fs is what p may read of the listing q of claims, sorted.
ListedFor(fs, claims, q, p) ==
    /\ fs \in Seq(claims)
    /\ \A c \in claims : (\E k \in DOMAIN fs : fs[k] = c) <=> (Selects(q, c) /\ CanRead(c, p, q.now))
    /\ \A j, k \in DOMAIN fs : j < k => fs[j] # fs[k] /\ Newer(fs[j], fs[k])

\* A table of claims with what the listing sorts by.
Table(claims) ==
    /\ IsFiniteSet(claims)
    /\ \A c \in claims : c.id \in Int \ {AnyId} /\ c.valid \in T!Interval /\ c.recorded \in T!Interval
    /\ \A c, d \in claims : c.id = d.id => c = d

LEMMA NewerOrders ==
  ASSUME NEW found, Table(found), NEW before,
         before = [c \in found |-> {d \in found : Newer(d, c)}]
  PROVE  Orders(before, found)
<1>1. before \in [found -> SUBSET found]
  OBVIOUS
<1>2. \A c, d \in found : d \in before[c] <=> Newer(d, c)
  OBVIOUS
<1>3. \A c \in found : c.id \in Int /\ c.recorded.from \in Nat
  BY DEF Table, T!Interval
<1>4. \A c, d \in found : c # d => Newer(c, d) \/ Newer(d, c)
  BY <1>3 DEF Newer, Table
<1>5. \A c, d, e \in found : Newer(c, d) /\ Newer(d, e) => Newer(c, e)
  BY <1>3 DEF Newer
<1>6. \A c \in found : ~Newer(c, c)
  BY <1>3 DEF Newer
<1> QED
  BY <1>1, <1>2, <1>4, <1>5, <1>6 DEF Orders

LEMMA ListingSorts ==
  ASSUME NEW claims, Table(claims), NEW q, NEW cs, cs = ListClaims(claims, q)
  PROVE  /\ cs \in Seq(claims)
         /\ \A c \in claims : Selects(q, c) <=> \E k \in DOMAIN cs : cs[k] = c
         /\ \A j, k \in DOMAIN cs : j < k => cs[j] # cs[k] /\ Newer(cs[j], cs[k])
         /\ Len(cs) <= Cardinality(claims)
<1> DEFINE found == {c \in claims : Selects(q, c)}
           before == [c \in found |-> {d \in found : Newer(d, c)}]
<1>1. found \in SUBSET claims
  OBVIOUS
<1>2. cs = InOrder(found, before)
  BY DEF ListClaims
<1>3. \A c, d \in found : d \in before[c] => Newer(d, c)
  OBVIOUS
<1>4. \A c \in claims : Selects(q, c) <=> c \in found
  OBVIOUS
<1>5. before = [c \in found |-> {d \in found : Newer(d, c)}]
  OBVIOUS
<1> HIDE DEF found, before
<1>6. IsFiniteSet(found) /\ Cardinality(found) <= Cardinality(claims)
  BY <1>1, FS_Subset DEF Table
<1>7. Table(found)
  BY <1>1, <1>6 DEF Table
<1>8. Orders(before, found)
  BY <1>5, <1>7, NewerOrders
<1>9. /\ cs \in Seq(found) /\ Len(cs) = Cardinality(found)
      /\ \A x \in found : \E k \in DOMAIN cs : cs[k] = x
      /\ \A i, j \in DOMAIN cs : i < j => cs[i] # cs[j] /\ cs[i] \in before[cs[j]]
  BY <1>2, <1>6, <1>8, InOrderSorts
<1>10. \A k \in DOMAIN cs : cs[k] \in found
  BY <1>9, ElementOfSeq, LenProperties
<1> QED
  BY <1>1, <1>3, <1>4, <1>6, <1>9, <1>10

\* What its asker may read of a listing, in the order of the listing.
LEMMA FilterLists ==
  ASSUME NEW claims, Table(claims), NEW q, NEW p, NEW fs,
         fs = Filter(ListClaims(claims, q), p, q.now)
  PROVE  ListedFor(fs, claims, q, p) /\ Len(fs) <= Cardinality(claims)
<1> DEFINE cs == ListClaims(claims, q)
           places == {k \in DOMAIN cs : CanRead(cs[k], p, q.now)}
<1>1. /\ cs \in Seq(claims)
      /\ \A c \in claims : Selects(q, c) <=> \E k \in DOMAIN cs : cs[k] = c
      /\ \A j, k \in DOMAIN cs : j < k => cs[j] # cs[k] /\ Newer(cs[j], cs[k])
      /\ Len(cs) <= Cardinality(claims)
  BY ListingSorts
<1>2. fs = Picked(cs, places)
  BY DEF Filter
<1>3. \A k \in DOMAIN cs : k \in places <=> CanRead(cs[k], p, q.now)
  OBVIOUS
<1>4. places \subseteq DOMAIN cs
  OBVIOUS
<1> HIDE DEF cs, places
<1>5. DOMAIN cs = 1..Len(cs) /\ Len(cs) \in Nat /\ \A k \in DOMAIN cs : cs[k] \in claims
  BY <1>1, LenProperties, ElementOfSeq
<1>6. IsFiniteSet(places) /\ Cardinality(places) <= Len(cs)
  <2>1. IsFiniteSet(1..Len(cs)) /\ Cardinality(1..Len(cs)) = Len(cs)
    BY <1>5, FS_Interval
  <2> QED
    BY <1>4, <1>5, <2>1, FS_Subset
<1>7. PICK at : Leads(at, cs, places)
  BY <1>4, <1>5, <1>6, PickedInOrder
<1>8. DOMAIN fs = DOMAIN at /\ \A k \in DOMAIN at : at[k] \in places /\ fs[k] = cs[at[k]]
  BY <1>2, <1>7, ElementOfSeq, LenProperties DEF Leads
<1>9. fs \in Seq(claims)
  <2>1. \A k \in DOMAIN fs : fs[k] \in claims
    BY <1>4, <1>5, <1>8
  <2>2. DOMAIN fs = 1..Cardinality(places) /\ Cardinality(places) \in Nat
    BY <1>7, <1>8 DEF Leads
  <2>3. fs = [k \in DOMAIN fs |-> fs[k]]
    BY <1>2 DEF Picked
  <2> QED
    BY <2>1, <2>2, <2>3
<1>10. Len(fs) <= Cardinality(claims)
  <2>1. Len(fs) = Cardinality(places)
    BY <1>7, <1>8, <1>9, LenProperties DEF Leads
  <2>2. Cardinality(claims) \in Nat /\ Cardinality(places) \in Nat
    BY <1>6, FS_CardinalityType DEF Table
  <2> QED
    BY <1>1, <1>5, <1>6, <2>1, <2>2
<1>11. ASSUME NEW c \in claims
       PROVE  (\E k \in DOMAIN fs : fs[k] = c) <=> (Selects(q, c) /\ CanRead(c, p, q.now))
  <2>1. ASSUME NEW k \in DOMAIN fs, fs[k] = c PROVE Selects(q, c) /\ CanRead(c, p, q.now)
    <3>1. at[k] \in DOMAIN cs /\ cs[at[k]] = c /\ CanRead(cs[at[k]], p, q.now)
      BY <1>3, <1>4, <1>8, <2>1
    <3> QED
      BY <1>1, <3>1
  <2>2. ASSUME Selects(q, c), CanRead(c, p, q.now) PROVE \E k \in DOMAIN fs : fs[k] = c
    <3>1. PICK j \in DOMAIN cs : cs[j] = c
      BY <1>1, <2>2
    <3>2. j \in places
      BY <1>3, <2>2, <3>1
    <3>3. PICK k \in DOMAIN at : at[k] = j
      BY <1>7, <3>2 DEF Leads
    <3> QED
      BY <1>8, <3>1, <3>3
  <2> QED
    BY <2>1, <2>2
<1>12. ASSUME NEW j \in DOMAIN fs, NEW k \in DOMAIN fs, j < k
       PROVE  fs[j] # fs[k] /\ Newer(fs[j], fs[k])
  <2>1. at[j] < at[k] /\ at[j] \in DOMAIN cs /\ at[k] \in DOMAIN cs
    BY <1>4, <1>7, <1>8, <1>12 DEF Leads
  <2> QED
    BY <1>1, <1>8, <2>1
<1> QED
  BY <1>9, <1>10, <1>11, <1>12 DEF ListedFor

\* Every place of a listing is on one page.
LEMMA PlaceHasPage ==
  ASSUME NEW size \in Nat \ {0}, NEW m \in Nat \ {0}
  PROVE  \E k \in 0..(m - 1), n \in 1..size : k * size + n = m
<1> DEFINE Enough == {k \in Nat : m <= (k + 1) * size}
<1>1. \A k \in Nat : k * size \in Nat /\ (k + 1) * size = k * size + size /\ k <= k * size
  OBVIOUS
<1>2. m \in Enough
  BY <1>1
<1>3. PICK k \in Enough : \A j \in Enough : k <= j
  BY <1>2, LeastNatural
<1>4. k \in Nat /\ m <= k * size + size
  BY <1>1, <1>3
<1>5. k * size < m
  <2>1. CASE k = 0
    BY <2>1
  <2>2. CASE k # 0
    <3>1. k - 1 \in Nat /\ (k - 1) + 1 = k /\ k - 1 \notin Enough
      BY <1>3, <1>4, <2>2
    <3>2. ~(m <= ((k - 1) + 1) * size)
      BY <3>1
    <3> QED
      BY <1>1, <1>4, <3>1, <3>2
  <2> QED
    BY <2>1, <2>2
<1> HIDE DEF Enough
<1>6. m - k * size \in 1..size /\ k \in 0..(m - 1) /\ k * size + (m - k * size) = m
  BY <1>1, <1>4, <1>5
<1> QED
  BY <1>6

LEMMA LaterPageIsFurther ==
  ASSUME NEW size \in Nat \ {0}, NEW j \in Nat, NEW k \in Nat, j < k
  PROVE  j * size + size <= k * size
<1>1. PICK d \in Nat : k = j + 1 + d
  <2>1. k - j - 1 \in Nat /\ k = j + 1 + (k - j - 1)
    OBVIOUS
  <2> QED
    BY <2>1
<1>2. k * size = j * size + size + d * size /\ d * size \in Nat /\ j * size \in Nat
  BY <1>1
<1> QED
  BY <1>2

\* walk shows what p may read of the listing q of claims, newest first.
Shows(walk, claims, q, p) ==
    /\ \A e \in Entries(walk) : At(walk, e) \in claims
    /\ \A c \in claims : (\E e \in Entries(walk) : At(walk, e) = c)
                            <=> (Selects(q, c) /\ CanRead(c, p, q.now))
    /\ \A d, e \in Entries(walk) :
          ReadBefore(d, e) => At(walk, d) # At(walk, e) /\ Newer(At(walk, d), At(walk, e))

LEMMA WalkShows ==
  ASSUME NEW claims, Table(claims), NEW q, NEW p, NEW limit \in Int
  PROVE  Shows(Walk(claims, q, p, limit), claims, q, p)
<1> DEFINE walk == Walk(claims, q, p, limit)
           fs == Filter(ListClaims(claims, q), p, q.now)
           size == pageLimit(limit)
           N == Cardinality(claims)
<1>1. ListedFor(fs, claims, q, p) /\ Len(fs) <= N
  BY FilterLists
<1>2. N \in Nat /\ size \in Nat \ {0}
  BY FS_CardinalityType, PageLimits DEF Table
<1>3. DOMAIN walk = 0..N /\ \A k \in 0..N : walk[k] = Page(fs, limit, k * size)
  BY DEF Walk, listClaims
<1>4. size = pageLimit(limit)
  OBVIOUS
<1> HIDE DEF walk, fs, size, N
<1>5. fs \in Seq(claims) /\ Len(fs) \in Nat /\ DOMAIN fs = 1..Len(fs)
  BY <1>1, LenProperties DEF ListedFor
<1>6. ASSUME NEW k \in 0..N
      PROVE  /\ k * size \in Nat
             /\ DOMAIN walk[k] = {n \in 1..size : k * size + n <= Len(fs)}
             /\ \A n \in DOMAIN walk[k] : walk[k][n] = fs[k * size + n]
  <2> DEFINE first == k * size  page == walk[k]
  <2>0. first \in Nat
    BY <1>2
  <2>1. page = Page(fs, limit, first)
    BY <1>3
  <2> HIDE DEF first, page
  <2>2. WindowOn(page, fs, first, size)
    BY <1>4, <1>5, <2>0, <2>1, PageIsAWindow
  <2> QED
    BY <2>0, <2>2 DEF first, page, WindowOn
<1>7. ASSUME NEW e \in Entries(walk)
      PROVE  /\ e[1] \in 0..N /\ e[2] \in 1..size /\ e[1] * size \in Nat
             /\ e[1] * size + e[2] \in DOMAIN fs
             /\ At(walk, e) = fs[e[1] * size + e[2]]
  <2>1. PICK k \in 0..N : e \in {k} \X DOMAIN walk[k]
    BY <1>3 DEF Entries
  <2>2. e[1] = k /\ e[2] \in DOMAIN walk[k]
    BY <2>1
  <2>3. /\ k * size \in Nat /\ e[2] \in 1..size /\ k * size + e[2] <= Len(fs)
        /\ walk[k][e[2]] = fs[k * size + e[2]]
    BY <1>6, <2>2
  <2>4. k * size + e[2] \in DOMAIN fs
    BY <1>2, <1>5, <2>3
  <2> QED
    BY <2>2, <2>3, <2>4 DEF At
<1>8. ASSUME NEW m \in DOMAIN fs
      PROVE  \E e \in Entries(walk) : At(walk, e) = fs[m]
  <2>1. m \in Nat \ {0} /\ m <= N
    BY <1>1, <1>2, <1>5
  <2>2. PICK k \in 0..(m - 1), n \in 1..size : k * size + n = m
    BY <1>2, <2>1, PlaceHasPage
  <2>3. k \in 0..N
    BY <1>2, <2>1
  <2>4. n \in DOMAIN walk[k] /\ walk[k][n] = fs[m]
    BY <1>5, <1>6, <2>2, <2>3
  <2>5. <<k, n>> \in Entries(walk)
    BY <1>3, <2>3, <2>4 DEF Entries
  <2> QED
    BY <2>4, <2>5 DEF At
<1>9. \A e \in Entries(walk) : At(walk, e) \in claims
  BY <1>5, <1>7, ElementOfSeq
<1>10. ASSUME NEW c \in claims
       PROVE  (\E e \in Entries(walk) : At(walk, e) = c) <=> (\E m \in DOMAIN fs : fs[m] = c)
  BY <1>7, <1>8
<1>11. ASSUME NEW d \in Entries(walk), NEW e \in Entries(walk), ReadBefore(d, e)
       PROVE  At(walk, d) # At(walk, e) /\ Newer(At(walk, d), At(walk, e))
  <2> DEFINE i == d[1] * size + d[2]  j == e[1] * size + e[2]
  <2>1. i < j
    <3>1. CASE d[1] < e[1]
      <4>1. d[1] * size + size <= e[1] * size
        BY <1>2, <1>7, <3>1, LaterPageIsFurther
      <4> QED
        BY <1>2, <1>7, <4>1
    <3>2. CASE d[1] = e[1] /\ d[2] < e[2]
      BY <1>2, <1>7, <3>2
    <3> QED
      BY <1>11, <3>1, <3>2 DEF ReadBefore
  <2>2. /\ i \in DOMAIN fs /\ j \in DOMAIN fs
        /\ At(walk, d) = fs[i] /\ At(walk, e) = fs[j]
    BY <1>7
  <2> HIDE DEF i, j
  <2> QED
    BY <1>1, <2>1, <2>2 DEF ListedFor
<1>12. \A c \in claims : (\E m \in DOMAIN fs : fs[m] = c) <=> (Selects(q, c) /\ CanRead(c, p, q.now))
  BY <1>1 DEF ListedFor
<1> QED
  BY <1>9, <1>10, <1>11, <1>12 DEF Shows, walk

\* What is looked up by its identifier.
LEMMA DetailFinds ==
  ASSUME NEW claims, Table(claims), NEW c \in claims, NEW p, NEW now
  PROVE  getClaim(claims, c.id, p, now) # {} <=> CanRead(c, p, now)
<1> DEFINE q == [id |-> c.id, scope |-> AnyScope, status |-> "live", now |-> now]
           found == ListClaims(claims, q)
<1>1. \A d \in claims : Selects(q, d) <=> d = c
  BY DEF Selects, Table
<1>2. getClaim(claims, c.id, p, now)
        = IF found # <<>> /\ CanRead(found[1], p, now) THEN {found[1]} ELSE {}
  BY DEF getClaim
<1>10. found = ListClaims(claims, q)
  OBVIOUS
<1> HIDE DEF found, q
<1>3. /\ found \in Seq(claims)
      /\ \A d \in claims : Selects(q, d) <=> \E k \in DOMAIN found : found[k] = d
  BY <1>10, ListingSorts
<1>4. DOMAIN found = 1..Len(found) /\ Len(found) \in Nat
  BY <1>3, LenProperties
<1>5. PICK k \in DOMAIN found : found[k] = c
  BY <1>1, <1>3
<1>6. 1 \in DOMAIN found
  BY <1>4, <1>5
<1>7. found[1] \in claims
  BY <1>3, <1>6, ElementOfSeq
<1>8. found[1] = c
  BY <1>1, <1>3, <1>6, <1>7
<1>9. found # <<>>
  BY <1>4, <1>6, EmptySeq
<1> QED
  BY <1>2, <1>8, <1>9

LEMMA Widened ==
  ASSUME NEW S, NEW q \in [id : {AnyId}, scope : S, status : Statuses, now : Nat],
         NEW w, w = [q EXCEPT !.status = "all", !.scope = AnyScope]
  PROVE  w.id = AnyId /\ w.scope = AnyScope /\ w.status = "all" /\ w.now = q.now
  OBVIOUS

LEMMA Listing == Given => ListingIsComplete
<1> SUFFICES ASSUME Given, input.kind = "listing" PROVE ListingIsComplete
  BY DEF ListingIsComplete
<1> DEFINE x == input.case
           claims == x.claims
           q == x.q
           p == x.principal
           limit == x.limit
           unrestricted == [q EXCEPT !.status = "all", !.scope = AnyScope]
           walk == Walk(claims, q, p, limit)
           all == Walk(claims, unrestricted, p, limit)
           fs == Filter(ListClaims(claims, q), p, q.now)
           size == pageLimit(limit)
<1>1. x \in Listings
  BY DEF Given
<1>2. Table(claims) /\ limit \in Int
  BY <1>1, DecisionsAssumption DEF Table
<1>3. q \in [id : {AnyId}, scope : {q.scope}, status : Statuses, now : Nat]
  BY <1>1, DecisionsAssumption
<1>4. /\ unrestricted.id = AnyId /\ unrestricted.scope = AnyScope
      /\ unrestricted.status = "all" /\ unrestricted.now = q.now
  BY <1>3, Widened
<1>5. Shows(walk, claims, q, p) /\ Shows(all, claims, unrestricted, p)
  BY <1>2, WalkShows
<1>6. ASSUME NEW c \in claims
      PROVE  /\ Selects(q, c) <=> /\ q.scope \in {AnyScope, c.scope}
                                 /\ q.status \in {"all", statusOf(c, q.now)}
             /\ Selects(unrestricted, c) /\ unrestricted.now = q.now
  <2>1. q.id = AnyId /\ q.status \in Statuses /\ q.now \in Nat
    BY <1>3
  <2>2. c.valid \in T!Interval
    BY <1>2 DEF Table
  <2>3. c.valid.until \in Nat
    BY <2>2 DEF T!Interval
  <2>4. q.status \in {"all", statusOf(c, q.now)} <=> HasStatus(q.status, c, q.now)
    BY <2>1, <2>3 DEF Statuses, statusOf, HasStatus
  <2>5. Selects(unrestricted, c) /\ unrestricted.now = q.now
    BY <1>4 DEF Selects, HasStatus
  <2> QED
    BY <2>1, <2>4, <2>5 DEF Selects
<1>7. ListedFor(fs, claims, q, p)
  BY <1>2, FilterLists
<1>8. fs \in Seq(claims) /\ size \in Nat \ {0}
  BY <1>2, <1>7, PageLimits DEF ListedFor
<1>9. \A offset \in Nat : listClaims(claims, q, p, limit, offset) = Page(fs, limit, offset)
  BY DEF listClaims
<1>10. size = pageLimit(limit)
  OBVIOUS
<1>11. \A c \in claims : getClaim(claims, c.id, p, q.now) # {} <=> CanRead(c, p, q.now)
  BY <1>2, DetailFinds
<1>12. Cardinality(claims) \in Nat
  BY <1>2, FS_CardinalityType DEF Table
<1> HIDE DEF fs, walk, all, size, unrestricted
<1>13. ASSUME NEW offset \in 0..Cardinality(claims),
              Len(listClaims(claims, q, p, limit, offset)) < size
       PROVE  listClaims(claims, q, p, limit, offset + size) = <<>>
  <2> DEFINE here == Page(fs, limit, offset)  following == offset + size
             next == Page(fs, limit, following)
  <2>1. offset \in Nat /\ following \in Nat
    BY <1>8, <1>12
  <2>2. here = Page(fs, limit, offset) /\ next = Page(fs, limit, following)
    OBVIOUS
  <2>3. Len(here) < size /\ listClaims(claims, q, p, limit, following) = next
    BY <1>9, <1>13, <2>1
  <2>4. following = offset + size
    OBVIOUS
  <2> HIDE DEF here, next, following
  <2>5. WindowOn(here, fs, offset, size) /\ WindowOn(next, fs, following, size)
    BY <1>2, <1>8, <1>10, <2>1, <2>2, PageIsAWindow
  <2> QED
    BY <2>3, <2>4, <2>5 DEF WindowOn
<1>14. {At(walk, e) : e \in Entries(walk)} =
          {c \in claims : /\ CanRead(c, p, q.now)
                         /\ q.scope \in {AnyScope, c.scope}
                         /\ q.status \in {"all", statusOf(c, q.now)}}
  BY <1>5, <1>6 DEF Shows
<1>15. ASSUME NEW d \in Entries(walk), NEW e \in Entries(walk), ReadBefore(d, e)
       PROVE  /\ At(walk, d) # At(walk, e)
              /\ At(walk, d).recorded.from >= At(walk, e).recorded.from
  <2> DEFINE a == At(walk, d)  b == At(walk, e)
  <2>1. a \in claims /\ b \in claims /\ a # b /\ Newer(a, b)
    BY <1>5, <1>15 DEF Shows
  <2> HIDE DEF a, b
  <2>2. a.recorded.from \in Nat /\ b.recorded.from \in Nat
    BY <1>2, <2>1 DEF Table, T!Interval
  <2>3. a.recorded.from >= b.recorded.from
    BY <2>1, <2>2 DEF Newer
  <2> QED
    BY <2>1, <2>3 DEF a, b
<1>16. ASSUME NEW c \in claims
       PROVE  getClaim(claims, c.id, p, q.now) # {} <=> c \in {At(all, e) : e \in Entries(all)}
  BY <1>5, <1>6, <1>11, <1>16 DEF Shows
<1> QED
  BY <1>13, <1>14, <1>15, <1>16 DEF ListingIsComplete, walk, all, size, unrestricted

\* Whoever walks the pages of a listing sees what they may read of it, once and
\* newest first, for any table and any page size (api/claims.go listClaims;
\* store/pg ListClaims), and a claim is found by its identifier exactly when it
\* is on the page of all.
THEOREM ListingsComplete == Spec => []ListingIsComplete
<1> QED
  BY AlwaysGiven, Listing, PTL

-----------------------------------------------------------------------------
(* What a model proposed *)

\* The places from a to b of s at which a line ends.
Ends(s, a, b) == {n \in a..b : s[n] = NL}

LEMMA EndsCounted ==
  ASSUME NEW s, NEW a \in Int, NEW b \in Int
  PROVE  IsFiniteSet(Ends(s, a, b)) /\ Cardinality(Ends(s, a, b)) \in Nat
<1>1. IsFiniteSet(a..b) /\ Ends(s, a, b) \subseteq a..b
  BY FS_Interval DEF Ends
<1> QED
  BY <1>1, FS_Subset, FS_CardinalityType

\* Line ends are where they were, counted from somewhere else.
LEMMA EndsOfPart ==
  ASSUME NEW S, NEW s \in Seq(S), NEW a \in 1..(Len(s) + 1), NEW b \in (a - 1)..Len(s),
         NEW t, t = SubSeq(s, a, b)
  PROVE  Lines(t) = Cardinality(Ends(s, a, b)) /\ Lines(t) \in Nat
<1> DEFINE there == Ends(s, a, b)
           here == {k \in DOMAIN t : t[k] = NL}
           f == [n \in there |-> n - a + 1]
<1>0. Len(s) \in Nat /\ a \in Nat /\ b \in Int
  BY LenProperties
<1>1. DOMAIN t = 1..(b - a + 1) /\ \A k \in 1..(b - a + 1) : t[k] = s[a + k - 1]
  BY <1>0
<1>2. there = {n \in a..b : s[n] = NL} /\ here = {k \in DOMAIN t : t[k] = NL}
  BY DEF Ends
<1>3. Lines(t) = Cardinality(here)
  BY DEF Lines
<1> HIDE DEF here, there
<1>4. \A n \in there : n \in Int /\ n - a + 1 \in here
  BY <1>0, <1>1, <1>2
<1>5. f \in [there -> here]
  BY <1>4
<1>6. \A m, n \in there : f[m] = f[n] => m = n
  BY <1>0, <1>4
<1>7. \A k \in here : \E n \in there : f[n] = k
  <2> SUFFICES ASSUME NEW k \in here PROVE \E n \in there : f[n] = k
    OBVIOUS
  <2>1. k \in Int /\ a + k - 1 \in there
    BY <1>0, <1>1, <1>2
  <2>2. f[a + k - 1] = k
    BY <1>0, <2>1
  <2> QED
    BY <2>1, <2>2
<1>8. f \in Bijection(there, here)
  BY <1>5, <1>6, <1>7 DEF Bijection, Injection, IsInjective, Surjection
<1>9. IsFiniteSet(there)
  BY <1>0, EndsCounted DEF there
<1>10. Cardinality(here) = Cardinality(there)
  BY <1>8, <1>9, FS_Bijection DEF ExistsBijection
<1> QED
  BY <1>0, <1>3, <1>10, EndsCounted DEF there

\* Up to b there are as many as before a and from a on.
LEMMA EndsAdd ==
  ASSUME NEW s, NEW a \in Nat, NEW b \in Int, a - 1 <= b, a >= 1
  PROVE  Cardinality(Ends(s, 1, b)) = Cardinality(Ends(s, 1, a - 1)) + Cardinality(Ends(s, a, b))
<1> DEFINE B == Ends(s, 1, a - 1)  C == Ends(s, a, b)  A == Ends(s, 1, b)
<1>1. A = B \cup C /\ B \cap C = {}
  BY DEF Ends
<1>2. IsFiniteSet(B) /\ IsFiniteSet(C) /\ Cardinality(B) \in Nat /\ Cardinality(C) \in Nat
  BY EndsCounted
<1> HIDE DEF A, B, C
<1>3. Cardinality(A) = Cardinality(B) + Cardinality(C)
  <2>1. Cardinality(B \cup C) = Cardinality(B) + Cardinality(C) - Cardinality(B \cap C)
    BY <1>2, FS_Union
  <2>2. Cardinality(B \cap C) = 0
    BY <1>1, FS_EmptySet
  <2> QED
    BY <1>1, <1>2, <2>1, <2>2
<1> QED
  BY <1>3 DEF A, B, C

LEMMA LastEnd ==
  ASSUME NEW s, NEW a \in Int, NEW b \in Int, a <= b
  PROVE  Cardinality(Ends(s, a, b)) = Cardinality(Ends(s, a, b - 1)) + (IF s[b] = NL THEN 1 ELSE 0)
<1> DEFINE B == Ends(s, a, b - 1)  A == Ends(s, a, b)
<1>1. A = B \cup (IF s[b] = NL THEN {b} ELSE {}) /\ b \notin B
  BY DEF Ends
<1>2. IsFiniteSet(B) /\ Cardinality(B) \in Nat
  BY EndsCounted
<1> HIDE DEF A, B
<1>3. CASE s[b] = NL
  <2>1. A = B \cup {b} /\ b \notin B
    BY <1>1, <1>3
  <2> QED
    BY <1>2, <1>3, <2>1, FS_AddElement DEF A, B
<1>4. CASE s[b] # NL
  <2>1. A = B
    BY <1>1, <1>4
  <2> QED
    BY <1>2, <1>4, <2>1 DEF A, B
<1> QED
  BY <1>3, <1>4

\* Where a quote stands, its lines are those of the source.
LEMMA QuoteSpansItsLines ==
  ASSUME NEW S, NEW source \in Seq(S), NEW R, NEW quote \in Seq(R), Len(quote) >= 1,
         NEW k \in Occurrences(source, quote)
  PROVE  LineOf(source, k) + Lines(quote)
            = LineOf(source, k + Len(quote) - 1) + (IF Last(quote) = NL THEN 1 ELSE 0)
<1> DEFINE b == k + Len(quote) - 1
           before == Cardinality(Ends(source, 1, k - 1))
           within == Cardinality(Ends(source, k, b))
           upto == Cardinality(Ends(source, 1, b - 1))
           last == IF source[b] = NL THEN 1 ELSE 0
<1>1. Len(source) \in Nat /\ Len(quote) \in Nat
  BY LenProperties
<1>2. k \in Nat /\ k >= 1 /\ b \in Nat /\ b <= Len(source) /\ k <= b
  BY <1>1 DEF Occurrences
<1>3. quote = SubSeq(source, k, b)
  BY DEF Occurrences
<1>4. Lines(quote) = within
  <2>1. k \in 1..(Len(source) + 1) /\ b \in (k - 1)..Len(source)
    BY <1>1, <1>2
  <2> QED
    BY <1>3, <2>1, EndsOfPart
<1>5. Lines(SubSeq(source, 1, k - 1)) = before
  <2>1. 1 \in 1..(Len(source) + 1) /\ k - 1 \in (1 - 1)..Len(source)
    BY <1>1, <1>2
  <2> QED
    BY <2>1, EndsOfPart
<1>6. Lines(SubSeq(source, 1, b - 1)) = upto
  <2>1. 1 \in 1..(Len(source) + 1) /\ b - 1 \in (1 - 1)..Len(source)
    BY <1>1, <1>2
  <2> QED
    BY <2>1, EndsOfPart
<1>7. Last(quote) = source[b]
  <2>1. quote[Len(quote)] = source[b]
    BY <1>1, <1>2, <1>3
  <2> QED
    BY <2>1 DEF Last
<1>8. Cardinality(Ends(source, 1, b)) = before + within
  BY <1>2, EndsAdd
<1>9. Cardinality(Ends(source, 1, b)) = upto + last
  BY <1>2, LastEnd
<1>10. before \in Nat /\ within \in Nat /\ upto \in Nat
  BY <1>2, EndsCounted
<1>11. LineOf(source, k) = 1 + before /\ LineOf(source, b) = 1 + upto
  BY <1>5, <1>6 DEF LineOf
<1> HIDE DEF before, within, upto
<1>12. 1 + before + Lines(quote) = 1 + upto + last
  BY <1>4, <1>8, <1>9, <1>10
<1> QED
  BY <1>7, <1>11, <1>12

Located(e, source, base) ==
    /\ ~Blank(e.text)
    /\ \E i \in Occurrences(source, e.text) :
          /\ e.lineStart - base + 1 = LineOf(source, i)
          /\ e.lineEnd - base + 1 =
                LineOf(source, i + Len(e.text) - 1) + (IF Last(e.text) = NL THEN 1 ELSE 0)

\* What locate returns: words of the source, at the lines where they stand.
LEMMA LocateFinds ==
  ASSUME NEW source, IsText(source), NEW quote, IsText(quote), ~Blank(quote),
         Locatable(source, quote), NEW baseLine \in Int, NEW e, e = locate(source, quote, baseLine),
         NEW base, base = Max({baseLine, 1})
  PROVE  Located(e, source, base)
<1> DEFINE k == Min(Occurrences(source, quote))
<1>1. source \in Seq(ToSet(source)) /\ quote \in Seq(ToSet(quote))
  BY DEF IsText
<1>2. Len(quote) \in Nat /\ Len(source) \in Nat /\ base \in Int
  <2>1. base \in Int
    BY LesserAndGreater
  <2> QED
    BY <1>1, <2>1, LenProperties
<1>3. Len(quote) >= 1
  BY <1>1, <1>2, EmptySeq DEF Locatable
<1>4. k \in Occurrences(source, quote)
  <2> DEFINE found == Occurrences(source, quote)
  <2>1. found # {} /\ found \in SUBSET Nat
    BY <1>2 DEF Locatable, Occurrences
  <2> HIDE DEF found
  <2>2. \E x \in found : \A y \in found : x <= y
    BY <2>1, LeastNatural
  <2>3. k \in found
    BY <2>2 DEF Min, found
  <2> QED
    BY <2>3 DEF found
<1>5. SubSeq(source, k, k + Len(quote) - 1) = quote
  BY <1>4 DEF Occurrences
<1>6. e = [lineStart |-> base + Lines(SubSeq(source, 1, k - 1)),
           lineEnd |-> base + Lines(SubSeq(source, 1, k - 1)) + Lines(quote),
           text |-> quote]
  BY <1>5 DEF locate
<1> HIDE DEF k
<1>7. /\ e.lineStart = base + Lines(SubSeq(source, 1, k - 1))
      /\ e.lineEnd = base + Lines(SubSeq(source, 1, k - 1)) + Lines(quote)
      /\ e.text = quote
  BY <1>6
<1>8. Lines(SubSeq(source, 1, k - 1)) \in Int /\ Lines(quote) \in Int
  <2>1. k \in Int /\ k >= 1 /\ k + Len(quote) - 1 <= Len(source)
    BY <1>2, <1>4 DEF Occurrences
  <2>2. 1 \in 1..(Len(source) + 1) /\ k - 1 \in (1 - 1)..Len(source)
    BY <1>2, <1>3, <2>1
  <2>3. Lines(SubSeq(source, 1, k - 1)) \in Nat
    BY <1>1, <2>2, EndsOfPart
  <2>4. 1 \in 1..(Len(quote) + 1) /\ Len(quote) \in (1 - 1)..Len(quote)
    BY <1>2
  <2>5. quote = SubSeq(quote, 1, Len(quote))
    BY <1>1
  <2>6. Lines(quote) \in Nat
    BY <1>1, <2>4, <2>5, EndsOfPart
  <2> QED
    BY <2>3, <2>6
<1>9. e.lineStart - base + 1 = LineOf(source, k)
  BY <1>2, <1>7, <1>8 DEF LineOf
<1>10. LineOf(source, k) + Lines(quote)
         = LineOf(source, k + Len(quote) - 1) + (IF Last(quote) = NL THEN 1 ELSE 0)
  BY <1>1, <1>3, <1>4, QuoteSpansItsLines
<1>11. e.lineEnd - base + 1 = LineOf(source, k) + Lines(quote)
  BY <1>2, <1>7, <1>8 DEF LineOf
<1> QED
  BY <1>4, <1>7, <1>9, <1>10, <1>11 DEF Located

LEMMA Evidencing == Given => EvidenceIsTheSource
<1> SUFFICES ASSUME Given, input.kind = "answer",
                    NEW k \in DOMAIN Evidence(input.case.source, input.case.cands,
                                              input.case.baseLine)
             PROVE  Located(Evidence(input.case.source, input.case.cands,
                                     input.case.baseLine)[k],
                            input.case.source, Max({input.case.baseLine, 1}))
  BY DEF EvidenceIsTheSource, Located
<1> DEFINE a == input.case
           places == {j \in DOMAIN a.cands : Valid(a.cands[j])}
           kept == Picked(a.cands, places)
           found == {j \in DOMAIN kept : Locatable(a.source, kept[j].quote)}
           written == Picked(kept, found)
           e == Evidence(a.source, a.cands, a.baseLine)[k]
<1>1. a \in Answers
  BY DEF Given
<1>2. /\ IsText(a.source) /\ a.baseLine \in Int /\ a.cands \in Seq(ToSet(a.cands))
      /\ \A j \in DOMAIN a.cands : IsText(a.cands[j].quote)
  BY <1>1, DecisionsAssumption
<1>3. k \in DOMAIN written /\ e = locate(a.source, written[k].quote, a.baseLine)
  BY DEF Evidence, keep
<1>4. /\ \A j \in places : j \in DOMAIN a.cands /\ Valid(a.cands[j])
      /\ \A j \in found : j \in DOMAIN kept /\ Locatable(a.source, kept[j].quote)
      /\ places \subseteq DOMAIN a.cands /\ found \subseteq DOMAIN kept
  OBVIOUS
<1>5. kept = Picked(a.cands, places) /\ written = Picked(kept, found)
  OBVIOUS
<1> HIDE DEF a, places, kept, found, written, e
<1>6. IsFiniteSet(places) /\ places \subseteq Int
  <2>1. DOMAIN a.cands = 1..Len(a.cands) /\ Len(a.cands) \in Nat
    BY <1>2, LenProperties
  <2>2. IsFiniteSet(DOMAIN a.cands) /\ DOMAIN a.cands \subseteq Int
    BY <2>1, FirstNumbers
  <2> QED
    BY <1>4, <2>2, FS_Subset
<1>7. PICK at : Leads(at, a.cands, places)
  BY <1>6, PickedInOrder
<1>8. DOMAIN kept = 1..Cardinality(places) /\ Cardinality(places) \in Nat
      /\ \A j \in DOMAIN kept : at[j] \in places /\ kept[j] = a.cands[at[j]]
  BY <1>5, <1>7, ElementOfSeq, LenProperties DEF Leads
<1>9. IsFiniteSet(found) /\ found \subseteq Int
  <2>1. IsFiniteSet(DOMAIN kept) /\ DOMAIN kept \subseteq Int
    BY <1>8, FirstNumbers
  <2> QED
    BY <1>4, <2>1, FS_Subset
<1>10. PICK from : Leads(from, kept, found)
  BY <1>9, PickedInOrder
<1>11. from[k] \in found /\ written[k] = kept[from[k]]
  BY <1>3, <1>5, <1>10, ElementOfSeq, LenProperties DEF Leads
<1>12. PICK j \in DOMAIN a.cands : written[k] = a.cands[j] /\ Valid(a.cands[j])
  BY <1>4, <1>8, <1>11
<1> DEFINE quote == written[k].quote
<1>13. /\ IsText(quote) /\ ~Blank(quote) /\ Locatable(a.source, quote)
  BY <1>2, <1>4, <1>11, <1>12 DEF Valid
<1>14. e = locate(a.source, quote, a.baseLine)
  BY <1>3
<1> DEFINE source == a.source  baseLine == a.baseLine  base == Max({baseLine, 1})
<1>15. e = locate(source, quote, baseLine) /\ base = Max({baseLine, 1})
  BY <1>14
<1>16. IsText(source) /\ baseLine \in Int /\ Locatable(source, quote)
  BY <1>2, <1>13
<1> HIDE DEF quote, source, baseLine, base
<1>17. Located(e, source, base)
  BY <1>13, <1>15, <1>16, LocateFinds
<1> QED
  BY <1>17 DEF a, e, source, baseLine, base

\* Whatever a model answers, what is written of it quotes the source itself and
\* names the lines where the quote stands (curate/resolve.go locate,
\* curate/execute.go WriteCandidates, nominate Valid).
THEOREM EvidenceQuotes == Spec => []EvidenceIsTheSource
<1> QED
  BY AlwaysGiven, Evidencing, PTL

-----------------------------------------------------------------------------
(* Nodes, and their paths *)

\* Openings as the ladder sees them: finitely many places in a file.
Nodes(opens) == IsFiniteSet(DOMAIN opens) /\ DOMAIN opens \subseteq Int

\* The nodes of other are those of opens moved by f, as deep in each other.
Moved(opens, other, f) ==
    /\ Grows(f, DOMAIN opens)
    /\ DOMAIN other = {f[m] : m \in DOMAIN opens}
    /\ \A m \in DOMAIN opens : other[f[m]].name = opens[m].name
    /\ \A m, n \in DOMAIN opens :
          other[f[m]].level < other[f[n]].level <=> opens[m].level < opens[n].level

\* A node that moved with all the others has the path it had.
LEMMA PathKept ==
  ASSUME NEW opens, Nodes(opens), NEW other, NEW f, Moved(opens, other, f), NEW n \in DOMAIN opens
  PROVE  Path(other, f[n]) = Path(opens, n)
<1> DEFINE S == DOMAIN opens
           R == Chain(opens, n)
           U == Chain(other, f[n])
           s == [m \in DOMAIN opens |-> opens[m].name]
           t == [m \in DOMAIN other |-> other[m].name]
<1>1. IsFiniteSet(S) /\ S \subseteq Int /\ Grows(f, S) /\ R \in SUBSET S
  BY DEF Nodes, Moved, Chain
<1>2. \A x \in S : f[x] \in DOMAIN other /\ f[x] \in Int /\ x \in Int
  BY <1>1 DEF Moved, Grows
<1>3. \A x, y \in S : f[x] < f[y] <=> x < y
  <2> SUFFICES ASSUME NEW x \in S, NEW y \in S PROVE f[x] < f[y] <=> x < y
    OBVIOUS
  <2>1. (x < y => f[x] < f[y]) /\ (y < x => f[y] < f[x])
    BY <1>1 DEF Grows
  <2>2. x < y \/ y < x \/ x = y
    BY <1>2
  <2> QED
    BY <1>2, <2>1, <2>2
<1>4. \A x, y \in S : f[x] <= f[y] <=> x <= y
  <2> SUFFICES ASSUME NEW x \in S, NEW y \in S PROVE f[x] <= f[y] <=> x <= y
    OBVIOUS
  <2>1. (f[x] <= f[y] <=> ~(f[y] < f[x])) /\ (x <= y <=> ~(y < x))
    BY <1>2
  <2> QED
    BY <1>3, <2>1
<1>5. \A x \in S : f[x] \in U <=> x \in R
  <2> SUFFICES ASSUME NEW x \in S PROVE f[x] \in U <=> x \in R
    OBVIOUS
  <2>1. f[x] \in U <=> /\ f[x] <= f[n]
                       /\ \A k \in S : f[x] < f[k] /\ f[k] <= f[n] =>
                              other[f[x]].level < other[f[k]].level
    BY <1>2 DEF Chain, Moved
  <2>2. x \in R <=> /\ x <= n
                    /\ \A k \in S : x < k /\ k <= n => opens[x].level < opens[k].level
    BY DEF Chain
  <2>3. \A k \in S : /\ f[x] < f[k] <=> x < k
                     /\ f[k] <= f[n] <=> k <= n
                     /\ other[f[x]].level < other[f[k]].level <=> opens[x].level < opens[k].level
    BY <1>3, <1>4 DEF Moved
  <2>4. f[x] <= f[n] <=> x <= n
    BY <1>4
  <2> QED
    BY <2>1, <2>2, <2>3, <2>4
<1>6. U \subseteq {f[x] : x \in S}
  BY DEF Chain, Moved
<1>7. U = {f[x] : x \in R}
  <2> HIDE DEF S, R, U
  <2> QED
    BY <1>1, <1>5, <1>6
<1>8. \A x \in R : t[f[x]] = s[x]
  BY <1>1, <1>2 DEF Moved
<1>9. Picked(t, U) = Picked(s, R)
  <2> HIDE DEF S, R, U, s, t
  <2>1. Carried(f, S, R, U)
    BY <1>1, <1>7 DEF Carried
  <2> QED
    BY <1>8, <2>1, PickedImage
<1> QED
  BY <1>9 DEF Path

\* Nodes whose names are texts.
Named(opens) ==
    Nodes(opens) /\ \A n \in DOMAIN opens : IsText(opens[n].name) /\ opens[n].name # <<>>

\* What the names and the paths of some nodes are made of.
Letters(opens) ==
    ToSet(Separator) \cup UNION {ToSet(opens[n].name) : n \in DOMAIN opens}

\* path, made of A, is the text x, or ends in it after a separator.
Ending(path, x, A) ==
    /\ Separator \in Seq(A) /\ path \in Seq(A) /\ x \in Seq(A) \ {<<>>}
    /\ path = x \/ \E front \in Seq(A) : path = front \o (Separator \o x)

\* The separator is a text of three characters.
LEMMA SeparatorText ==
  /\ Separator \in Seq(ToSet(Separator)) /\ Len(Separator) = 3
  /\ Separator[2] # Separator[3]
<1>1. /\ Len(Separator) = 3 /\ Separator[1] = "blank"
      /\ Separator[2] = "gt" /\ Separator[3] = "blank"
  BY DEF Separator
<1>2. {"blank", "gt"} \subseteq ToSet(Separator)
  BY DEF Separator, ToSet
<1>3. \A S : {"blank", "gt"} \subseteq S => Separator \in Seq(S)
  BY DEF Separator
<1> QED
  BY <1>1, <1>2, <1>3

\* Texts joined end in the last of them.
LEMMA JoinedEnds ==
  ASSUME NEW A, Separator \in Seq(A),
         NEW c \in Nat \ {0}, NEW names \in [1..c -> Seq(A)], names[c] # <<>>
  PROVE  Ending(Joined(names), names[c], A)
<1> DEFINE seqs == [k \in 1..c |-> IF k = 1 THEN names[k] ELSE Separator \o names[k]]
           x == names[c]
<1>1. Separator \in Seq(A)
  OBVIOUS
<1>2. seqs \in [1..c -> Seq(A)]
  <2> SUFFICES ASSUME NEW k \in 1..c
               PROVE  (IF k = 1 THEN names[k] ELSE Separator \o names[k]) \in Seq(A)
    OBVIOUS
  <2>1. names[k] \in Seq(A)
    OBVIOUS
  <2>2. Separator \o names[k] \in Seq(A)
    BY <1>1, <2>1, ConcatProperties
  <2> QED
    BY <2>1, <2>2
<1>3. Joined(names) = FlattenSeq(seqs)
  <2>1. DOMAIN names = 1..c
    OBVIOUS
  <2> QED
    BY <2>1 DEF Joined
<1>4. PICK g : Spelt(g, c, seqs, A)
  BY <1>2, Flattening
<1>5. c \in 1..c /\ c - 1 \in 0..c /\ c \in 0..c
  OBVIOUS
<1>6. seqs[c] = IF c = 1 THEN x ELSE Separator \o x
  BY <1>5
<1> HIDE DEF seqs
<1>7. /\ g[c] \in Seq(A) /\ g[c - 1] \in Seq(A) /\ g[0] = <<>>
      /\ g[c] = g[c - 1] \o seqs[c] /\ Joined(names) = g[c]
  BY <1>3, <1>4, <1>5 DEF Spelt
<1>8. x \in Seq(A) \ {<<>>}
  BY <1>5
<1> HIDE DEF x
<1>9. CASE c = 1
  <2>1. g[c] = <<>> \o x
    <3>1. seqs[c] = x /\ c - 1 = 0
      BY <1>6, <1>9
    <3> QED
      BY <1>7, <3>1
  <2>2. <<>> \o x = x
    BY <1>8, ConcatEmptySeq
  <2> QED
    BY <1>1, <1>7, <1>8, <2>1, <2>2 DEF Ending, x
<1>10. CASE c # 1
  <2>1. g[c] = g[c - 1] \o (Separator \o x)
    BY <1>6, <1>7, <1>10
  <2> QED
    BY <1>1, <1>7, <1>8, <2>1 DEF Ending, x
<1> QED
  BY <1>9, <1>10 DEF x

\* A path ends in the name of its node.
LEMMA PathEnds ==
  ASSUME NEW opens, Named(opens), NEW n \in DOMAIN opens
  PROVE  Ending(Path(opens, n), opens[n].name, Letters(opens))
<1> DEFINE A == Letters(opens)
           R == Chain(opens, n)
           c == Cardinality(R)
           s == [m \in DOMAIN opens |-> opens[m].name]
           names == Picked(s, R)
<1>0. Nodes(opens) /\ s[n] = opens[n].name /\ Separator \in Seq(A)
      /\ \A m \in DOMAIN opens : s[m] \in Seq(A) \ {<<>>}
  <2>1. Separator \in Seq(A)
    <3>1. ToSet(Separator) \subseteq A
      BY DEF Letters
    <3> DEFINE B == ToSet(Separator)
    <3> HIDE DEF A, B
    <3> QED
      BY <3>1, SeparatorText, SeqMonotonic DEF B
  <2>2. ASSUME NEW m \in DOMAIN opens PROVE s[m] \in Seq(A) \ {<<>>}
    <3>1. s[m] \in Seq(ToSet(s[m])) /\ s[m] # <<>>
      BY DEF Named, IsText
    <3>2. ToSet(s[m]) \subseteq A
      BY DEF Letters
    <3> HIDE DEF s, A
    <3> QED
      BY <3>1, <3>2, SeqMonotonic
  <2> QED
    BY <2>1, <2>2 DEF Named
<1>1. R \in SUBSET DOMAIN opens /\ n \in R /\ \A m \in R : m <= n
  <2>1. n \in Int /\ n <= n /\ ~ \E k \in DOMAIN opens : n < k /\ k <= n
    <3>1. \A k \in DOMAIN opens : k \in Int /\ n \in Int
      BY <1>0 DEF Nodes
    <3> QED
      BY <3>1
  <2> QED
    BY <2>1 DEF Chain
<1>2. IsFiniteSet(R) /\ R \subseteq Int /\ c \in Nat
  BY <1>0, <1>1, FS_Subset, FS_CardinalityType DEF Nodes
<1>3. {j \in R : j < n} = R \ {n}
  <2>1. \A j \in R : j < n <=> j # n
    BY <1>1, <1>2
  <2> QED
    BY <2>1
<1>4. Cardinality(R \ {n}) = c - 1
  <2> HIDE DEF R
  <2> QED
    BY <1>1, <1>2, FS_RemoveElement
<1>5. Path(opens, n) = Joined(names)
  BY DEF Path
<1> HIDE DEF A, R, s
<1>6. c = Cardinality({j \in R : j < n}) + 1
  BY <1>2, <1>3, <1>4
<1>7. Placed(R, c, n)
  BY <1>1, <1>2, <1>6, AscendingPlace
<1>8. c \in 1..c /\ Ascending(R)[c] = n
  BY <1>7 DEF Placed
<1>9. names = [k \in 1..c |-> s[Ascending(R)[k]]]
  BY DEF Picked, Ascending, InOrder
<1>10. PICK at : Leads(at, s, R)
  BY <1>2, PickedInOrder
<1>11. \A k \in 1..c : at[k] \in R /\ names[k] = s[at[k]]
  BY <1>10, ElementOfSeq, LenProperties DEF Leads
<1> HIDE DEF c, names
<1>12. names[c] = opens[n].name
  BY <1>0, <1>8, <1>9
<1>13. \A k \in 1..c : names[k] \in Seq(A) \ {<<>>}
  BY <1>0, <1>1, <1>11
<1>14. names \in [1..c -> Seq(A)] /\ c \in Nat \ {0} /\ names[c] # <<>>
  <2>1. DOMAIN names = 1..c /\ names = [k \in 1..c |-> names[k]]
    BY <1>9
  <2> QED
    BY <1>2, <1>8, <1>13, <2>1
<1> QED
  BY <1>0, <1>5, <1>12, <1>14, JoinedEnds DEF A

\* Where the characters of what ends a text are, and of the separator before it.
Tailed(path, x) ==
    /\ Len(path) \in Nat /\ Len(x) \in Nat \ {0}
    /\ Len(path) >= Len(x) + 3
    /\ path[Len(path) - Len(x)] = Separator[3]
    /\ path[Len(path) - Len(x) - 1] = Separator[2]
    /\ \A j \in 1..Len(x) : path[Len(path) - Len(x) + j] = x[j]

\* What follows something keeps its order.
LEMMA Behind ==
  ASSUME NEW A, NEW s \in Seq(A), NEW t \in Seq(A), NEW st, st = s \o t
  PROVE  /\ st \in Seq(A) /\ Len(st) = Len(s) + Len(t)
         /\ Len(s) \in Nat /\ Len(t) \in Nat
         /\ \A j \in 1..Len(t) : st[Len(s) + j] = t[j]
<1> DEFINE a == Len(s)
           b == Len(t)
<1>1. a \in Nat /\ b \in Nat
  BY LenProperties
<1>2. /\ st \in Seq(A) /\ Len(st) = a + b
      /\ \A i \in 1..(a + b) : st[i] = IF i <= a THEN s[i] ELSE t[i - a]
  BY ConcatProperties
<1> HIDE DEF a, b
<1>3. \A j \in 1..b : a + j \in 1..(a + b) /\ ~(a + j <= a) /\ (a + j) - a = j
  BY <1>1
<1>4. \A j \in 1..b : st[a + j] = t[j]
  BY <1>2, <1>3
<1> QED
  BY <1>1, <1>2, <1>4 DEF a, b

LEMMA EndingPlaces ==
  ASSUME NEW A, NEW path, NEW x, Ending(path, x, A)
  PROVE  path = x \/ Tailed(path, x)
<1>1. /\ Separator \in Seq(A) /\ x \in Seq(A) /\ x # <<>>
      /\ path = x \/ \E front \in Seq(A) : \E tail : tail = Separator \o x /\ path = front \o tail
  BY DEF Ending
<1>2. ASSUME NEW front \in Seq(A), NEW tail, tail = Separator \o x, path = front \o tail
      PROVE  Tailed(path, x)
  <2> DEFINE a == Len(front)
             b == Len(x)
             d == Len(Separator)
             l == Len(path)
  <2>1. /\ tail \in Seq(A) /\ Len(tail) = d + b /\ b \in Nat /\ d = 3
        /\ \A j \in 1..b : tail[d + j] = x[j]
    <3>1. Separator \in Seq(A) /\ x \in Seq(A) /\ tail = Separator \o x
      BY <1>1, <1>2
    <3>2. d = 3
      BY SeparatorText
    <3>3. /\ tail \in Seq(A) /\ Len(tail) = d + b /\ b \in Nat
          /\ \A j \in 1..b : tail[d + j] = x[j]
      BY <3>1, Behind
    <3> QED
      BY <3>2, <3>3
  <2>2. tail[2] = Separator[2] /\ tail[3] = Separator[3]
    <3>1. \A i \in 1..(d + b) : tail[i] = IF i <= d THEN Separator[i] ELSE x[i - d]
      BY <1>1, <1>2, ConcatProperties
    <3> HIDE DEF d, b
    <3>2. 2 \in 1..(d + b) /\ 3 \in 1..(d + b) /\ 2 <= d /\ 3 <= d
      BY <2>1
    <3> QED
      BY <3>1, <3>2
  <2>3. b # 0
    BY <1>1, EmptySeq
  <2>4. /\ l = a + Len(tail) /\ a \in Nat
        /\ \A j \in 1..Len(tail) : path[a + j] = tail[j]
    <3>1. path = front \o tail /\ tail \in Seq(A)
      BY <1>2, <2>1
    <3> QED
      BY <3>1, Behind
  <2> HIDE DEF a, b, d, l
  <2>5. /\ 2 \in 1..Len(tail) /\ 3 \in 1..Len(tail)
        /\ \A j \in 1..b : 3 + j \in 1..Len(tail) /\ a + (3 + j) = (l - b) + j
    BY <2>1, <2>4
  <2>6. l \in Nat /\ b \in Nat \ {0} /\ l >= b + 3 /\ a + 3 = l - b /\ a + 2 = l - b - 1
    BY <2>1, <2>3, <2>4
  <2>7. path[l - b] = Separator[3] /\ path[l - b - 1] = Separator[2]
    <3>1. path[a + 2] = tail[2] /\ path[a + 3] = tail[3]
      BY <2>4, <2>5
    <3> QED
      BY <2>2, <2>6, <3>1
  <2>8. \A j \in 1..b : path[l - b + j] = x[j]
    BY <2>1, <2>4, <2>5
  <2> QED
    BY <2>6, <2>7, <2>8 DEF Tailed, b, l
<1> QED
  BY <1>1, <1>2

\* One text is the end of another that holds no separator: they are the same.
LEMMA EndingShorter ==
  ASSUME NEW A, NEW path, NEW x, NEW y, Ending(path, x, A), Ending(path, y, A),
         Len(x) <= Len(y), Separator[2] \notin ToSet(y)
  PROVE  x = y
<1> DEFINE l == Len(path)
           a == Len(x)
           b == Len(y)
<1>1. x \in Seq(A) /\ y \in Seq(A) /\ path \in Seq(A)
  BY DEF Ending
<1>2. /\ l \in Nat /\ a \in Nat /\ b \in Nat
      /\ \A j \in 1..b : y[j] # Separator[2]
  <2>1. DOMAIN y = 1..b
    BY <1>1, LenProperties
  <2>2. \A j \in DOMAIN y : y[j] \in ToSet(y)
    BY DEF ToSet
  <2> QED
    BY <1>1, <2>1, <2>2, LenProperties
<1>3. CASE path = x
  <2>1. path = y \/ l >= b + 3
    BY <1>3, EndingPlaces DEF Tailed
  <2> QED
    BY <1>2, <1>3, <2>1
<1>4. CASE path # x
  <2>1. Tailed(path, x)
    BY <1>4, EndingPlaces
  <2>2. /\ l >= a + 3 /\ path[l - a] = Separator[3] /\ path[l - a - 1] = Separator[2]
        /\ \A j \in 1..a : path[l - a + j] = x[j]
    BY <2>1 DEF Tailed
  <2>3. path # y
    <3>1. ASSUME path = y PROVE FALSE
      <4>1. l - a - 1 \in 1..b
        BY <1>2, <2>2, <3>1
      <4> QED
        BY <1>2, <2>2, <3>1, <4>1
    <3> QED
      BY <3>1
  <2>4. Tailed(path, y)
    BY <2>3, EndingPlaces
  <2>5. /\ l >= b + 3 /\ path[l - b] = Separator[3] /\ path[l - b - 1] = Separator[2]
        /\ \A j \in 1..b : path[l - b + j] = y[j]
    BY <2>4 DEF Tailed
  <2> HIDE DEF l, a, b
  <2>6. a = b
    <3>1. ASSUME b = a + 1 PROVE FALSE
      <4>1. l - b = l - a - 1 /\ Separator[3] # Separator[2]
        BY <1>2, <3>1, SeparatorText
      <4> QED
        BY <2>2, <2>5, <4>1
    <3>2. ASSUME b > a + 1 PROVE FALSE
      <4> DEFINE j == b - a - 1
      <4>1. j \in 1..b /\ l - b + j = l - a - 1
        BY <1>2, <3>2
      <4> HIDE DEF j
      <4>2. y[j] = Separator[2]
        BY <2>2, <2>5, <4>1
      <4> QED
        BY <1>2, <4>1, <4>2
    <3>3. a <= b
      BY DEF a, b
    <3> QED
      BY <1>2, <3>1, <3>2, <3>3
  <2>7. \A j \in 1..a : x[j] = y[j]
    BY <2>2, <2>5, <2>6
  <2> QED
    BY <1>1, <2>6, <2>7, SeqEqual DEF a, b
<1> QED
  BY <1>3, <1>4

\* So nodes have different paths if their names differ and hold no separator.
LEMMA PathsDiffer ==
  ASSUME NEW opens, Named(opens), NEW m \in DOMAIN opens, NEW n \in DOMAIN opens,
         opens[m].name # opens[n].name,
         Separator[2] \notin ToSet(opens[m].name), Separator[2] \notin ToSet(opens[n].name)
  PROVE  Path(opens, m) # Path(opens, n)
<1> DEFINE x == opens[m].name
           y == opens[n].name
           path == Path(opens, m)
<1>1. Len(x) \in Nat /\ Len(y) \in Nat
  BY LenProperties DEF Named, IsText
<1>2. Len(x) <= Len(y) \/ Len(y) <= Len(x)
  BY <1>1
<1>3. ASSUME path = Path(opens, n) PROVE FALSE
  <2>1. Ending(path, x, Letters(opens)) /\ Ending(path, y, Letters(opens))
    BY <1>3, PathEnds
  <2>2. Separator[2] \notin ToSet(x) /\ Separator[2] \notin ToSet(y) /\ x # y
    OBVIOUS
  <2> HIDE DEF path, x, y
  <2> QED
    BY <1>2, <2>1, <2>2, EndingShorter
<1> QED
  BY <1>3

-----------------------------------------------------------------------------
(* Sections: from a node to the line above the next *)

\* Openings stand on lines of their file.
Sectioned(lines, opens) ==
    /\ Len(lines) \in Nat /\ DOMAIN opens \subseteq 1..Len(lines)
    /\ \A n \in DOMAIN opens : opens[n].level \in Int

\* They are finitely many numbers.
LEMMA SectionedNodes ==
  ASSUME NEW lines, NEW opens, Sectioned(lines, opens)
  PROVE  Nodes(opens)
<1>1. Len(lines) \in Nat /\ DOMAIN opens \in SUBSET (1..Len(lines))
  BY DEF Sectioned
<1> DEFINE n == Len(lines)
<1> HIDE DEF n
<1>2. IsFiniteSet(1..n) /\ 1..n \subseteq Int
  BY <1>1, FirstNumbers DEF n
<1>3. IsFiniteSet(DOMAIN opens) /\ DOMAIN opens \subseteq Int
  BY <1>1, <1>2, FS_Subset DEF n
<1> QED
  BY <1>3 DEF Nodes

\* e is the last line of the section of n: the next one, if any, opens another.
EndsAt(lines, opens, n, e) ==
    /\ e \in n..Len(lines)
    /\ \A m \in DOMAIN opens : n < m => e < m
    /\ e = Len(lines) \/ e + 1 \in DOMAIN opens

\* That is where the section that starts at a line ends...
LEMMA EndWhere ==
  ASSUME NEW lines, NEW opens, Sectioned(lines, opens), NEW n \in 1..Len(lines)
  PROVE  EndsAt(lines, opens, n, End(lines, opens, n))
<1> DEFINE N == Len(lines)
           B == {m - 1 : m \in {m \in DOMAIN opens : m > n}} \cup {N}
<1>1. N \in Nat /\ n \in Nat /\ n <= N /\ \A m \in DOMAIN opens : m \in Nat /\ m <= N
  BY DEF Sectioned
<1>2. B \in SUBSET Nat /\ B # {}
  BY <1>1
<1>3. PICK e \in B : \A y \in B : e <= y
  <2> HIDE DEF B
  <2> QED
    BY <1>2, LeastNatural
<1>4. End(lines, opens, n) = e
  <2>1. End(lines, opens, n) = CHOOSE x \in B : \A y \in B : x <= y
    BY DEF End, Min
  <2>2. \A x \in B : (\A y \in B : x <= y) => x = e
    <3>1. \A x \in B : x \in Nat
      BY <1>2
    <3> HIDE DEF B
    <3> QED
      BY <1>3, <3>1
  <2> HIDE DEF B
  <2> QED
    BY <1>3, <2>1, <2>2
<1>5. e \in Nat /\ e <= N /\ n <= e
  BY <1>1, <1>3
<1>6. \A m \in DOMAIN opens : n < m => e < m
  <2> SUFFICES ASSUME NEW m \in DOMAIN opens, n < m PROVE e < m
    OBVIOUS
  <2>1. m - 1 \in B /\ m \in Nat
    BY <1>1
  <2>2. e <= m - 1
    BY <1>3, <2>1
  <2> QED
    BY <1>5, <2>1, <2>2
<1>7. e = N \/ e + 1 \in DOMAIN opens
  <2>1. CASE e = N
    BY <2>1
  <2>2. CASE e # N
    <3>1. PICK m \in DOMAIN opens : e = m - 1
      BY <2>2
    <3>2. e + 1 = m
      BY <1>1, <3>1
    <3> QED
      BY <3>2
  <2> QED
    BY <2>1, <2>2
<1> QED
  BY <1>4, <1>5, <1>6, <1>7, <1>1 DEF EndsAt

\* ... and nowhere else.
LEMMA EndOnly ==
  ASSUME NEW lines, NEW opens, Sectioned(lines, opens), NEW n \in 1..Len(lines),
         NEW e, EndsAt(lines, opens, n, e)
  PROVE  End(lines, opens, n) = e
<1> DEFINE d == End(lines, opens, n)
           N == Len(lines)
<1>1. EndsAt(lines, opens, n, d)
  BY EndWhere
<1>2. N \in Nat /\ n \in Nat
  BY DEF Sectioned
<1>3. /\ d \in Int /\ n <= d /\ d <= N /\ (d = N \/ d + 1 \in DOMAIN opens)
      /\ e \in Int /\ n <= e /\ e <= N /\ (e = N \/ e + 1 \in DOMAIN opens)
      /\ \A m \in DOMAIN opens : n < m => d < m /\ e < m
  BY <1>1, <1>2 DEF EndsAt
<1> HIDE DEF d
<1>4. ~(d < e)
  <2>1. ASSUME d < e PROVE FALSE
    <3>1. d + 1 \in DOMAIN opens /\ n < d + 1
      BY <1>2, <1>3, <2>1
    <3>2. e < d + 1
      BY <1>3, <3>1
    <3> QED
      BY <1>3, <2>1, <3>2
  <2> QED
    BY <2>1
<1>5. ~(e < d)
  <2>1. ASSUME e < d PROVE FALSE
    <3>1. e + 1 \in DOMAIN opens /\ n < e + 1
      BY <1>2, <1>3, <2>1
    <3>2. d < e + 1
      BY <1>3, <3>1
    <3> QED
      BY <1>3, <2>1, <3>2
  <2> QED
    BY <2>1
<1>6. d = e
  BY <1>3, <1>4, <1>5
<1> QED
  BY <1>6 DEF d

\* The node that opened last.
Latest(opens, line) ==
    {n \in DOMAIN opens : n <= line /\ \A m \in DOMAIN opens : m <= line => m <= n}

\* A node is the latest at the lines of its section and at no other.
LEMMA LatestInside ==
  ASSUME NEW lines, NEW opens, Sectioned(lines, opens), NEW line \in 1..Len(lines),
         NEW n \in DOMAIN opens
  PROVE  n \in Latest(opens, line) <=> n <= line /\ line <= End(lines, opens, n)
<1> DEFINE e == End(lines, opens, n)
<1>1. Len(lines) \in Nat /\ line \in Nat /\ line <= Len(lines)
      /\ \A m \in DOMAIN opens : m \in Nat /\ m \in 1..Len(lines)
  BY DEF Sectioned
<1>2. EndsAt(lines, opens, n, e)
  BY <1>1, EndWhere
<1>3. /\ e \in Int /\ n <= e /\ e <= Len(lines) /\ (e = Len(lines) \/ e + 1 \in DOMAIN opens)
      /\ \A m \in DOMAIN opens : n < m => e < m
  BY <1>1, <1>2 DEF EndsAt
<1> HIDE DEF e
<1>4. ASSUME n <= line, line <= e, NEW m \in DOMAIN opens, m <= line
      PROVE  m <= n
  <2>1. m \in Int /\ n \in Int
    BY <1>1
  <2>2. n < m => e < m
    BY <1>3
  <2> QED
    BY <1>1, <1>3, <1>4, <2>1, <2>2
<1>5. ASSUME n <= line, ~(line <= e), \A m \in DOMAIN opens : m <= line => m <= n
      PROVE  FALSE
  <2>1. e + 1 \in DOMAIN opens /\ e + 1 <= line
    BY <1>1, <1>3, <1>5
  <2>2. e + 1 <= n
    BY <1>5, <2>1
  <2>3. n \in Int
    BY <1>1
  <2> QED
    BY <1>3, <2>2, <2>3
<1> QED
  BY <1>4, <1>5 DEF Latest, e

\* A line that opens a node is the latest node where it stands.
LEMMA LatestAtNode ==
  ASSUME NEW lines, NEW opens, Sectioned(lines, opens), NEW n \in DOMAIN opens
  PROVE  n \in 1..Len(lines) /\ n \in Latest(opens, n)
<1>1. n \in 1..Len(lines) /\ n \in Nat /\ n <= n
  BY DEF Sectioned
<1> QED
  BY <1>1 DEF Latest

\* One node at most opened last.
LEMMA LatestIsOne ==
  ASSUME NEW lines, NEW opens, Sectioned(lines, opens), NEW line,
         NEW m \in Latest(opens, line), NEW n \in Latest(opens, line)
  PROVE  m = n
<1>1. m \in Nat /\ n \in Nat /\ m <= n /\ n <= m
  BY DEF Latest, Sectioned
<1> QED
  BY <1>1

\* The section a line is in is the one opened last above it.
LEMMA EnclosingLatest ==
  ASSUME NEW lines, NEW opens, Sectioned(lines, opens), NEW line \in 1..Len(lines)
  PROVE  Enclosing(lines, opens, line) = Latest(opens, line)
<1> DEFINE covering == {n \in DOMAIN opens : n <= line /\ line <= End(lines, opens, n)}
<1>1. Len(lines) \in Nat /\ line \in Nat /\ line <= Len(lines)
      /\ \A n \in DOMAIN opens : n \in Nat /\ n \in 1..Len(lines) /\ opens[n].level \in Int
  BY DEF Sectioned
<1>2. \A n \in DOMAIN opens : n \in covering <=> n \in Latest(opens, line)
  BY LatestInside
<1>4. covering = Latest(opens, line)
  BY <1>2 DEF Latest
<1>5. \A m, n \in Latest(opens, line) : m = n
  <2> SUFFICES ASSUME NEW m \in Latest(opens, line), NEW n \in Latest(opens, line) PROVE m = n
    OBVIOUS
  <2>1. m \in Nat /\ n \in Nat /\ m <= n /\ n <= m
    BY <1>1 DEF Latest
  <2> QED
    BY <2>1
<1>6. \A n \in covering : \A m \in covering : opens[m].level <= opens[n].level
  <2> SUFFICES ASSUME NEW n \in covering, NEW m \in covering
               PROVE  opens[m].level <= opens[n].level
    OBVIOUS
  <2>1. m = n
    BY <1>4, <1>5
  <2>2. opens[n].level \in Int
    BY <1>1
  <2> QED
    BY <2>1, <2>2
<1>7. Enclosing(lines, opens, line)
          = {n \in covering : \A m \in covering : opens[m].level <= opens[n].level}
  BY DEF Enclosing
<1> HIDE DEF covering
<1> QED
  BY <1>4, <1>6, <1>7

-----------------------------------------------------------------------------
(* The words of a range of lines *)

\* Lines of words from X.
Written(lines, X) == Len(lines) \in Nat /\ \A k \in 1..Len(lines) : lines[k].words \in Seq(X)

\* What each line has of the words of a range.
Ranged(lines, from, to) ==
    [k \in 1..Len(lines) |-> IF from <= k /\ k <= to THEN lines[k].words ELSE <<>>]

\* A hash flattens them.
LEMMA RangedType ==
  ASSUME NEW lines, NEW X, Written(lines, X), NEW from, NEW to
  PROVE  /\ Ranged(lines, from, to) \in [1..Len(lines) -> Seq(X)]
         /\ Words(lines, from, to) = FlattenSeq(Ranged(lines, from, to))
<1>1. \A k \in 1..Len(lines) : lines[k].words \in Seq(X) /\ <<>> \in Seq(X)
  BY EmptySeq DEF Written
<1> QED
  BY <1>1 DEF Ranged, Words

\* A hash is empty when no line of its range is written.
LEMMA WordsEmpty ==
  ASSUME NEW lines, NEW X, Written(lines, X), NEW from, NEW to
  PROVE  Words(lines, from, to) = <<>> <=>
             \A k \in 1..Len(lines) : from <= k /\ k <= to => lines[k].words = <<>>
<1> DEFINE s == Ranged(lines, from, to)
           n == Len(lines)
<1>1. n \in Nat /\ s \in [1..n -> Seq(X)] /\ Words(lines, from, to) = FlattenSeq(s)
  BY RangedType DEF Written
<1>2. \A k \in 1..n : s[k] = IF from <= k /\ k <= to THEN lines[k].words ELSE <<>>
  BY DEF Ranged
<1> HIDE DEF s, n
<1>3. FlattenSeq(s) = <<>> <=> \A k \in 1..n : s[k] = <<>>
  BY <1>1, FlatEmpty
<1> QED
  BY <1>1, <1>2, <1>3 DEF n

\* One line rewritten.
Rewritten(lines, after, n) ==
    Len(after) = Len(lines) /\ \A k \in 1..Len(lines) : k # n => after[k].words = lines[k].words

\* Then a hash changes exactly when the line is in its range and its words differ.
LEMMA WordsDiffer ==
  ASSUME NEW lines, NEW after, NEW X, Written(lines, X), Written(after, X),
         NEW n \in 1..Len(lines), Rewritten(lines, after, n), NEW from, NEW to
  PROVE  Words(after, from, to) = Words(lines, from, to) <=>
             (from <= n /\ n <= to => after[n].words = lines[n].words)
<1> DEFINE s == Ranged(lines, from, to)
           t == Ranged(after, from, to)
           N == Len(lines)
<1>1. /\ N \in Nat /\ n \in 1..N
      /\ s \in [1..N -> Seq(X)] /\ Words(lines, from, to) = FlattenSeq(s)
      /\ t \in [1..N -> Seq(X)] /\ Words(after, from, to) = FlattenSeq(t)
  BY RangedType DEF Written, Rewritten
<1>2. \A k \in 1..N : /\ s[k] = IF from <= k /\ k <= to THEN lines[k].words ELSE <<>>
                      /\ t[k] = IF from <= k /\ k <= to THEN after[k].words ELSE <<>>
  BY DEF Ranged, Rewritten
<1>3. \A k \in 1..N : k # n => after[k].words = lines[k].words
  BY DEF Rewritten
<1> HIDE DEF s, t, N
<1>4. \A k \in 1..N : k # n => t[k] = s[k]
  BY <1>2, <1>3
<1>5. FlattenSeq(t) = FlattenSeq(s) <=> t[n] = s[n]
  BY <1>1, <1>4, FlatDiffers
<1> QED
  BY <1>1, <1>2, <1>5

\* A blank line more below line p.
Blanked(lines, after, p) ==
    /\ Len(after) = Len(lines) + 1 /\ p \in 0..Len(lines) /\ after[p + 1].words = <<>>
    /\ \A k \in 1..Len(lines) : after[Below(p, k)].words = lines[k].words

\* Then a hash of the moved range is what it was.
LEMMA WordsMove ==
  ASSUME NEW lines, NEW after, NEW X, Written(lines, X), Written(after, X),
         NEW p, Blanked(lines, after, p), NEW from, NEW to, NEW first, NEW last,
         \A k \in 1..Len(lines) :
             first <= Below(p, k) /\ Below(p, k) <= last <=> from <= k /\ k <= to
  PROVE  Words(after, first, last) = Words(lines, from, to)
<1> DEFINE s == Ranged(lines, from, to)
           t == Ranged(after, first, last)
           N == Len(lines)
<1>1. /\ N \in Nat /\ p \in 0..N /\ after[p + 1].words = <<>>
      /\ s \in [1..N -> Seq(X)] /\ Words(lines, from, to) = FlattenSeq(s)
      /\ t \in [1..(N + 1) -> Seq(X)] /\ Words(after, first, last) = FlattenSeq(t)
  BY RangedType DEF Written, Blanked
<1>2. /\ \A k \in 1..N : s[k] = IF from <= k /\ k <= to THEN lines[k].words ELSE <<>>
      /\ \A k \in 1..(N + 1) : t[k] = IF first <= k /\ k <= last THEN after[k].words ELSE <<>>
  BY DEF Ranged, Blanked
<1>3. \A k \in 1..N : after[Below(p, k)].words = lines[k].words
  BY DEF Blanked
<1>4. \A k \in 1..N : Below(p, k) \in 1..(N + 1)
  BY <1>1 DEF Below
<1>5. \A k \in 1..N : first <= Below(p, k) /\ Below(p, k) <= last <=> from <= k /\ k <= to
  OBVIOUS
<1> HIDE DEF s, t, N
<1>6. \A k \in 1..N : t[Below(p, k)] = s[k]
  BY <1>2, <1>3, <1>4, <1>5
<1>7. t[p + 1] = <<>>
  <2>1. p + 1 \in 1..(N + 1)
    BY <1>1
  <2> QED
    BY <1>1, <1>2, <2>1
<1>8. WithEmpty(N, X, s, p, t)
  BY <1>1, <1>6, <1>7 DEF WithEmpty
<1>9. FlattenSeq(t) = FlattenSeq(s)
  BY <1>1, <1>8, FlatWithEmpty
<1> QED
  BY <1>1, <1>9

-----------------------------------------------------------------------------
(* What the ladder says of a file that changed *)

\* The hash of the section of n.
Section(lines, opens, n) == Words(lines, n, End(lines, opens, n))

\* What the anchor of a line stores of the section the line is in.
LEMMA ComputeStores ==
  ASSUME NEW lines, NEW opens, Sectioned(lines, opens), NEW span,
         span.lineStart \in 1..Len(lines), NEW stored, stored = Compute(lines, opens, span)
  PROVE  /\ Latest(opens, span.lineStart) = {} => ~Anchored(stored)
         /\ \A n \in Latest(opens, span.lineStart) :
               stored.symbolPath = Path(opens, n) /\ stored.nodeHash = Section(lines, opens, n)
<1> DEFINE at == Enclosing(lines, opens, span.lineStart)
           c == CHOOSE n \in at : TRUE
<1>1. at = Latest(opens, span.lineStart)
  BY EnclosingLatest
<1>2. /\ stored.symbolPath = IF at = {} THEN <<>> ELSE Path(opens, c)
      /\ stored.nodeHash = IF at = {} THEN <<>> ELSE Words(lines, c, End(lines, opens, c))
  BY DEF Compute
<1>3. at # {} => c \in at
  OBVIOUS
<1> HIDE DEF at, c
<1>4. \A n \in at : c = n /\ at # {}
  BY <1>1, <1>3, LatestIsOne
<1> QED
  BY <1>1, <1>2, <1>4 DEF Anchored, Section

\* A path that leads to one node, wherever it moved, is found there.
LEMMA UniqueFound ==
  ASSUME NEW opens, Nodes(opens), NEW other, NEW f, Moved(opens, other, f),
         NEW n \in Unique(opens), NEW stored, stored.symbolPath = Path(opens, n), NEW after
  PROVE  /\ Locate(stored, after, other).status = "found"
         /\ Locate(stored, after, other).nodeHash = Section(after, other, f[n])
<1>1. n \in DOMAIN opens /\ \A m \in DOMAIN opens : m # n => Path(opens, m) # Path(opens, n)
  BY DEF Unique
<1>2. \A m \in DOMAIN opens : Path(other, f[m]) = Path(opens, m)
  BY PathKept
<1>3. DOMAIN other = {f[m] : m \in DOMAIN opens}
  BY DEF Moved
<1> DEFINE at == Matches(stored, other)
           x == f[n]
           c == CHOOSE y \in at : TRUE
<1>4. at = {x}
  BY <1>1, <1>2, <1>3 DEF Matches
<1>5. Cardinality(at) = 1
  BY <1>4, FS_Singleton
<1>6. c = x
  BY <1>4
<1>7. Locate(stored, after, other) =
          CASE at = {} -> [status |-> "notFound", nodeHash |-> <<>>]
            [] Cardinality(at) > 1 -> [status |-> "ambiguous", nodeHash |-> <<>>]
            [] OTHER -> [status |-> "found", nodeHash |-> Section(after, other, c)]
  BY DEF Locate, Section
<1>8. at # {} /\ ~(Cardinality(at) > 1)
  BY <1>4, <1>5
<1> HIDE DEF at, c, x
<1>9. Locate(stored, after, other) = [status |-> "found", nodeHash |-> Section(after, other, c)]
  BY <1>7, <1>8
<1> QED
  BY <1>6, <1>9 DEF x

\* So the ladder says whether the words of the section are still the same.
LEMMA LadderSays ==
  ASSUME NEW lines, NEW opens, Sectioned(lines, opens), NEW other, NEW f, Moved(opens, other, f),
         NEW span, span.lineStart \in 1..Len(lines), NEW stored, stored = Compute(lines, opens, span),
         NEW n \in Latest(opens, span.lineStart), n \in Unique(opens), NEW after, Named(opens)
  PROVE  Resolve(stored, after, other) =
             IF Section(lines, opens, n) = <<>> THEN "unanchored"
             ELSE IF Section(after, other, f[n]) # Section(lines, opens, n) THEN "semantic-change"
             ELSE "valid"
<1>1. Nodes(opens) /\ n \in DOMAIN opens
  BY SectionedNodes DEF Latest
<1>2. stored.symbolPath = Path(opens, n) /\ stored.nodeHash = Section(lines, opens, n)
  BY ComputeStores
<1>3. /\ Locate(stored, after, other).status = "found"
      /\ Locate(stored, after, other).nodeHash = Section(after, other, f[n])
  BY <1>1, <1>2, UniqueFound
<1>4. stored.symbolPath # <<>>
  <2> DEFINE path == Path(opens, n)
             x == opens[n].name
  <2>1. Ending(path, x, Letters(opens))
    BY <1>1, PathEnds
  <2> HIDE DEF path, x
  <2>2. x # <<>> /\ (path = x \/ Tailed(path, x))
    BY <2>1, EndingPlaces DEF Ending
  <2>3. Tailed(path, x) => Len(path) # 0
    BY DEF Tailed
  <2>4. Len(<<>>) = 0
    OBVIOUS
  <2> QED
    BY <1>2, <2>2, <2>3, <2>4 DEF path
<1> QED
  BY <1>2, <1>3, <1>4 DEF Resolve, Classify, Anchored

-----------------------------------------------------------------------------
(* The files given *)

\* A text of some alphabet is a text of its own characters.
LEMMA TextOf ==
  ASSUME NEW X, NEW s \in Seq(X)
  PROVE  IsText(s) /\ ToSet(s) \subseteq X
<1>1. Len(s) \in Nat /\ s \in [1..Len(s) -> X] /\ DOMAIN s = 1..Len(s)
  BY LenProperties
<1>2. s \in [1..Len(s) -> ToSet(s)]
  BY <1>1 DEF ToSet
<1>3. s \in Seq(ToSet(s))
  BY <1>1, <1>2, SeqDef
<1> QED
  BY <1>1, <1>3 DEF IsText, ToSet

\* A file of the inputs, its words from X.
TextFile(lines, X) ==
    /\ Len(lines) \in Nat /\ DOMAIN lines = 1..Len(lines) /\ Written(lines, X)
    /\ \A k \in DOMAIN lines : /\ lines[k].fence \in BOOLEAN /\ lines[k].hashes \in Nat
                               /\ IsText(lines[k].title)
                               /\ lines[k].hashes > 0 => lines[k].words # <<>>

\* Its headings stand on lines of it.
LEMMA TextSectioned ==
  ASSUME NEW lines, NEW X, TextFile(lines, X)
  PROVE  Sectioned(lines, TextOpenings(lines))
  BY DEF TextFile, Sectioned, TextOpenings

\* They are named.
LEMMA TextNamed ==
  ASSUME NEW lines, NEW X, TextFile(lines, X)
  PROVE  Named(TextOpenings(lines))
<1> DEFINE opens == TextOpenings(lines)
<1>1. Nodes(opens)
  BY TextSectioned, SectionedNodes
<1>2. \A n \in DOMAIN opens : IsText(opens[n].name) /\ opens[n].name # <<>>
  BY DEF TextFile, TextOpenings, NoName
<1> QED
  BY <1>1, <1>2 DEF Named

\* A receiver and a name, joined.
Dot == <<"dot">>
Dotted(receiver, name) == (receiver \o Dot) \o name

\* Where the characters of what is joined are.
DottedAt(text, r, m) ==
    /\ Len(text) = Len(r) + 1 + Len(m)
    /\ \A i \in 1..Len(r) : text[i] = r[i]
    /\ text[Len(r) + 1] = Dot[1]
    /\ \A j \in 1..Len(m) : text[Len(r) + 1 + j] = m[j]

LEMMA DottedPlaces ==
  ASSUME NEW r, IsText(r), NEW m, IsText(m)
  PROVE  IsText(Dotted(r, m)) /\ DottedAt(Dotted(r, m), r, m)
<1> DEFINE A == (ToSet(r) \cup ToSet(m)) \cup ToSet(Dot)
           x == r \o Dot
           y == x \o m
           a == Len(r)
           b == Len(m)
<1>1. Len(Dot) = 1 /\ \A S : ToSet(Dot) \subseteq S => Dot \in Seq(S)
  BY DEF Dot, ToSet
<1>2. ToSet(r) \subseteq A /\ ToSet(m) \subseteq A /\ ToSet(Dot) \subseteq A
  OBVIOUS
<1> HIDE DEF A
<1>3. r \in Seq(A) /\ m \in Seq(A)
  <2> DEFINE B == ToSet(r)
             C == ToSet(m)
  <2>1. r \in Seq(B) /\ m \in Seq(C) /\ B \subseteq A /\ C \subseteq A
    BY <1>2 DEF IsText
  <2> HIDE DEF B, C
  <2> QED
    BY <2>1, SeqMonotonic
<1>4. Dot \in Seq(A)
  BY <1>1, <1>2
<1>5. /\ x \in Seq(A) /\ Len(x) = a + 1 /\ a \in Nat
      /\ \A i \in 1..(a + 1) : x[i] = IF i <= a THEN r[i] ELSE Dot[i - a]
  <2>1. /\ x \in Seq(A) /\ Len(x) = Len(r) + Len(Dot) /\ Len(r) \in Nat
        /\ \A i \in 1..(Len(r) + Len(Dot)) : x[i] = IF i <= Len(r) THEN r[i] ELSE Dot[i - Len(r)]
    BY <1>3, <1>4, ConcatProperties, LenProperties
  <2>2. Len(Dot) = 1
    BY <1>1
  <2> HIDE DEF x
  <2> QED
    BY <2>1, <2>2
<1> HIDE DEF x
<1>6. /\ y \in Seq(A) /\ Len(y) = (a + 1) + b /\ b \in Nat
      /\ \A i \in 1..((a + 1) + b) : y[i] = IF i <= a + 1 THEN x[i] ELSE m[i - (a + 1)]
  <2>1. Len(x) = a + 1 /\ x \in Seq(A) /\ Len(m) \in Nat /\ a \in Nat
    BY <1>3, <1>5, LenProperties
  <2>2. /\ y \in Seq(A) /\ Len(y) = Len(x) + Len(m)
        /\ \A i \in 1..(Len(x) + Len(m)) : y[i] = IF i <= Len(x) THEN x[i] ELSE m[i - Len(x)]
    <3> HIDE DEF a
    <3> QED
      BY <1>3, <2>1, ConcatProperties
  <2> HIDE DEF y, a
  <2> QED
    BY <2>1, <2>2
<1> HIDE DEF y, a, b
<1>7. \A i \in 1..a : y[i] = r[i]
  <2>1. \A i \in 1..a : i \in 1..(a + 1) /\ i \in 1..((a + 1) + b) /\ i <= a /\ i <= a + 1
    BY <1>5, <1>6
  <2> QED
    BY <1>5, <1>6, <2>1
<1>8. y[a + 1] = Dot[1]
  <2>1. a + 1 \in 1..(a + 1) /\ a + 1 \in 1..((a + 1) + b) /\ ~(a + 1 <= a) /\ (a + 1) - a = 1
    BY <1>5, <1>6
  <2> QED
    BY <1>5, <1>6, <2>1
<1>9. \A j \in 1..b : y[a + 1 + j] = m[j]
  <2>1. \A j \in 1..b : /\ (a + 1) + j \in 1..((a + 1) + b) /\ ~((a + 1) + j <= a + 1)
                        /\ ((a + 1) + j) - (a + 1) = j
    BY <1>5, <1>6
  <2> QED
    BY <1>6, <2>1
<1>10. IsText(y)
  BY <1>6, TextOf
<1> QED
  BY <1>6, <1>7, <1>8, <1>9, <1>10 DEF Dotted, DottedAt, x, y, a, b

\* A text that holds neither what names are joined with nor what paths are.
Unjoined(s) == IsText(s) /\ Dot[1] \notin ToSet(s) /\ Separator[2] \notin ToSet(s)

LEMMA UnjoinedPlaces ==
  ASSUME NEW s, Unjoined(s)
  PROVE  /\ s \in Seq(ToSet(s)) /\ Len(s) \in Nat /\ DOMAIN s = 1..Len(s)
         /\ \A i \in 1..Len(s) : s[i] # Dot[1] /\ s[i] # Separator[2]
<1>1. s \in Seq(ToSet(s)) /\ Len(s) \in Nat /\ DOMAIN s = 1..Len(s)
  BY LenProperties DEF Unjoined, IsText
<1>2. \A i \in DOMAIN s : s[i] \in ToSet(s)
  BY DEF ToSet
<1> QED
  BY <1>1, <1>2 DEF Unjoined

\* Joined, such a receiver and such a name make no such name...
LEMMA DottedIsJoined ==
  ASSUME NEW r, Unjoined(r), NEW m, Unjoined(m), NEW n, Unjoined(n)
  PROVE  Dotted(r, m) # n
<1> DEFINE y == Dotted(r, m)
<1>1. DottedAt(y, r, m) /\ Len(r) \in Nat /\ Len(m) \in Nat
  BY DottedPlaces, UnjoinedPlaces DEF Unjoined
<1> HIDE DEF y
<1>2. Len(r) + 1 \in 1..Len(y) /\ y[Len(r) + 1] = Dot[1]
  BY <1>1 DEF DottedAt
<1>3. ASSUME y = n PROVE FALSE
  <2>1. \A i \in 1..Len(y) : y[i] # Dot[1]
    BY <1>3, UnjoinedPlaces
  <2> QED
    BY <1>2, <2>1
<1> QED
  BY <1>3 DEF y

\* ... two such pairs make the same text only if they are the same...
LEMMA DottedReceiver ==
  ASSUME NEW r, Unjoined(r), NEW m, Unjoined(m), NEW q, Unjoined(q), NEW n, Unjoined(n),
         Dotted(r, m) = Dotted(q, n)
  PROVE  ~(Len(r) < Len(q))
<1> DEFINE y == Dotted(r, m)
<1>1. DottedAt(y, r, m) /\ DottedAt(y, q, n) /\ Len(r) \in Nat /\ Len(q) \in Nat
  BY DottedPlaces, UnjoinedPlaces DEF Unjoined
<1> HIDE DEF y
<1>2. y[Len(r) + 1] = Dot[1] /\ \A i \in 1..Len(q) : y[i] = q[i]
  BY <1>1 DEF DottedAt
<1>3. \A i \in 1..Len(q) : q[i] # Dot[1]
  BY UnjoinedPlaces
<1>4. ASSUME Len(r) < Len(q) PROVE FALSE
  <2>1. Len(r) + 1 \in 1..Len(q)
    BY <1>1, <1>4
  <2> QED
    BY <1>2, <1>3, <2>1
<1> QED
  BY <1>4

LEMMA DottedDiffers ==
  ASSUME NEW r, Unjoined(r), NEW m, Unjoined(m), NEW q, Unjoined(q), NEW n, Unjoined(n),
         Dotted(r, m) = Dotted(q, n)
  PROVE  r = q /\ m = n
<1> DEFINE y == Dotted(r, m)
           a == Len(r)
           b == Len(m)
           c == Len(q)
           d == Len(n)
<1>1. DottedAt(y, r, m) /\ DottedAt(y, q, n)
  BY DottedPlaces DEF Unjoined
<1>2. a \in Nat /\ b \in Nat /\ c \in Nat /\ d \in Nat
  BY UnjoinedPlaces
<1>3. ~(a < c) /\ ~(c < a)
  BY DottedReceiver
<1> HIDE DEF y, a, b, c, d
<1>4. /\ Len(y) = a + 1 + b /\ Len(y) = c + 1 + d
      /\ \A i \in 1..a : y[i] = r[i]
      /\ \A i \in 1..c : y[i] = q[i]
      /\ \A j \in 1..b : y[a + 1 + j] = m[j]
      /\ \A j \in 1..d : y[c + 1 + j] = n[j]
  BY <1>1 DEF DottedAt, a, b, c, d
<1>5. a = c /\ b = d
  BY <1>2, <1>3, <1>4
<1>6. (\A i \in 1..a : r[i] = q[i]) /\ (\A j \in 1..b : m[j] = n[j])
  BY <1>4, <1>5
<1>7. /\ r \in [1..a -> ToSet(r)] /\ q \in [1..c -> ToSet(q)]
      /\ m \in [1..b -> ToSet(m)] /\ n \in [1..d -> ToSet(n)]
  BY UnjoinedPlaces, LenProperties DEF a, b, c, d
<1>8. /\ r = [i \in 1..a |-> r[i]] /\ q = [i \in 1..a |-> q[i]]
      /\ m = [j \in 1..b |-> m[j]] /\ n = [j \in 1..b |-> n[j]]
  BY <1>5, <1>7
<1>9. [i \in 1..a |-> r[i]] = [i \in 1..a |-> q[i]] /\ [j \in 1..b |-> m[j]] = [j \in 1..b |-> n[j]]
  BY <1>6
<1> QED
  BY <1>8, <1>9

\* ... and none of them holds what paths are joined with.
LEMMA DottedHolds ==
  ASSUME NEW r, Unjoined(r), NEW m, Unjoined(m)
  PROVE  Separator[2] \notin ToSet(Dotted(r, m))
<1> DEFINE y == Dotted(r, m)
           a == Len(r)
           b == Len(m)
<1>1. IsText(y) /\ DottedAt(y, r, m)
  BY DottedPlaces DEF Unjoined
<1>2. /\ a \in Nat /\ \A i \in 1..a : r[i] # Separator[2]
      /\ b \in Nat /\ \A i \in 1..b : m[i] # Separator[2]
  BY UnjoinedPlaces
<1>3. Dot[1] # Separator[2]
  BY DEF Dot, Separator
<1> HIDE DEF y, a, b
<1>4. DOMAIN y = 1..(a + 1 + b)
  BY <1>1, LenProperties DEF IsText, DottedAt, a, b
<1>5. /\ \A i \in 1..a : y[i] = r[i]
      /\ y[a + 1] = Dot[1]
      /\ \A j \in 1..b : y[a + 1 + j] = m[j]
  BY <1>1 DEF DottedAt, a, b
<1>6. ASSUME NEW i \in DOMAIN y PROVE y[i] # Separator[2]
  <2>1. CASE i <= a
    <3>1. i \in 1..a
      BY <1>2, <1>4, <2>1
    <3> QED
      BY <1>2, <1>5, <3>1
  <2>2. CASE i = a + 1
    BY <1>3, <1>5, <2>2
  <2>3. CASE i > a + 1
    <3> DEFINE j == i - (a + 1)
    <3>1. j \in 1..b /\ a + 1 + j = i
      BY <1>2, <1>4, <2>3
    <3> HIDE DEF j
    <3> QED
      BY <1>2, <1>5, <3>1
  <2> QED
    BY <1>2, <1>4, <2>1, <2>2, <2>3
<1> QED
  BY <1>6 DEF ToSet, y

\* What a line defines is its symbol's name, or its receiver and its name.
LEMMA NameOfSymbol ==
  ASSUME NEW lang, NEW line, NEW m, m = Symbol(lang, line),
         ~matchDef(lang, line).joinReceiver => m.receiver = NoName
  PROVE  DefName(matchDef(lang, line), line) =
             IF m.receiver # NoName THEN Dotted(m.receiver, m.name) ELSE m.name
  BY DEF DefName, Symbol, Dotted, Dot

\* A source file of the inputs, its words from X.
SourceFile(lang, lines, X) ==
    /\ Len(lines) \in Nat /\ DOMAIN lines = 1..Len(lines) /\ Written(lines, X)
    /\ \A k \in DOMAIN lines :
          /\ lines[k] \in [indent : Nat, captures : {lines[k].captures}, words : {lines[k].words}]
          /\ DOMAIN lines[k].captures # {} => lines[k].words # <<>>
          /\ Applicable(lang, lines[k]) # {} =>
                LET m == Symbol(lang, lines[k])
                IN  /\ m \in [name : {m.name}, receiver : {m.receiver}]
                    /\ IsText(m.name) /\ m.name # NoName /\ IsText(m.receiver)
                    /\ ~matchDef(lang, lines[k]).joinReceiver => m.receiver = NoName

\* Its definitions stand on lines of it.
LEMMA CodeSectioned ==
  ASSUME NEW lang, NEW lines, NEW X, SourceFile(lang, lines, X)
  PROVE  Sectioned(lines, CodeOpenings(lang, lines))
  BY DEF SourceFile, Sectioned, CodeOpenings

\* They are named.
LEMMA CodeNamed ==
  ASSUME NEW lang, NEW lines, NEW X, SourceFile(lang, lines, X)
  PROVE  Named(CodeOpenings(lang, lines))
<1> DEFINE opens == CodeOpenings(lang, lines)
<1>1. Nodes(opens)
  BY CodeSectioned, SectionedNodes
<1>2. ASSUME NEW n \in DOMAIN opens PROVE IsText(opens[n].name) /\ opens[n].name # <<>>
  <2> DEFINE line == lines[n]
             m == Symbol(lang, line)
  <2>1. n \in DOMAIN lines /\ Applicable(lang, line) # {}
        /\ opens[n].name = DefName(matchDef(lang, line), line)
    BY DEF CodeOpenings
  <2>2. /\ IsText(m.name) /\ m.name # NoName /\ IsText(m.receiver)
        /\ ~matchDef(lang, line).joinReceiver => m.receiver = NoName
    BY <2>1 DEF SourceFile
  <2>3. DefName(matchDef(lang, line), line) =
            IF m.receiver # NoName THEN Dotted(m.receiver, m.name) ELSE m.name
    BY <2>2, NameOfSymbol
  <2> DEFINE r == m.receiver
             x == m.name
             y == Dotted(r, x)
  <2>4. IsText(y) /\ DottedAt(y, r, x)
    BY <2>2, DottedPlaces
  <2>5. Len(r) \in Nat /\ Len(x) \in Nat
    BY <2>2, LenProperties DEF IsText
  <2>6. y # <<>>
    <3> HIDE DEF y, r, x
    <3>1. Len(y) # 0 /\ Len(<<>>) = 0
      BY <2>4, <2>5 DEF DottedAt
    <3> QED
      BY <3>1
  <2> HIDE DEF m, line, opens
  <2> QED
    BY <2>1, <2>2, <2>3, <2>4, <2>6 DEF NoName
<1> QED
  BY <1>1, <1>2 DEF Named

\* What the words of some lines are made of.
Vocabulary(some) == UNION {ToSet(l.words) : l \in some}

\* A line that is given is written in them.
LEMMA WordsOf ==
  ASSUME NEW some, NEW l \in some, IsText(l.words)
  PROVE  l.words \in Seq(Vocabulary(some))
<1>1. ToSet(l.words) \subseteq Vocabulary(some)
  BY DEF Vocabulary
<1>2. l.words \in Seq(ToSet(l.words))
  BY DEF IsText
<1> DEFINE S == ToSet(l.words)
           U == Vocabulary(some)
           w == l.words
<1>3. w \in Seq(S) /\ S \subseteq U
  BY <1>1, <1>2
<1> HIDE DEF S, U, w
<1>4. w \in Seq(U)
  BY <1>3, SeqMonotonic
<1> QED
  BY <1>4 DEF U, w

\* A text is a sequence of lines of its own.
LEMMA LinesOf ==
  ASSUME NEW lines, IsText(lines)
  PROVE  /\ Len(lines) \in Nat /\ DOMAIN lines = 1..Len(lines)
         /\ \A k \in DOMAIN lines : lines[k] \in ToSet(lines)
  BY LenProperties DEF IsText, ToSet

\* The documents given are files of the kind the lemmas speak of...
LEMMA DocumentGiven ==
  ASSUME NEW x \in Documents
  PROVE  /\ TextFile(x.lines, Vocabulary(ToSet(x.lines) \cup {x.edit}))
         /\ x.edit.words \in Seq(Vocabulary(ToSet(x.lines) \cup {x.edit}))
         /\ x.edit.hashes = 0 /\ ~x.edit.fence
<1> DEFINE some == ToSet(x.lines) \cup {x.edit}
           X == Vocabulary(some)
           lines == x.lines
<1>1. /\ IsText(lines) /\ x.edit.hashes = 0 /\ ~x.edit.fence
      /\ \A l \in some : /\ l.fence \in BOOLEAN /\ l.hashes \in Nat /\ IsText(l.words)
                         /\ IsText(l.title)
                         /\ l.hashes > 0 => l.words # <<>>
  BY DecisionsAssumption
<1>2. /\ Len(lines) \in Nat /\ DOMAIN lines = 1..Len(lines)
      /\ \A k \in DOMAIN lines : lines[k] \in some
  BY <1>1, LinesOf
<1>3. x.edit \in some
  OBVIOUS
<1> HIDE DEF some
<1>4. \A l \in some : l.words \in Seq(X)
  BY <1>1, WordsOf
<1> HIDE DEF X
<1>5. TextFile(lines, X)
  BY <1>1, <1>2, <1>4 DEF TextFile, Written
<1> QED
  BY <1>1, <1>3, <1>4, <1>5 DEF X, some

\* ... and so are the sources.
LEMMA SourceGiven ==
  ASSUME NEW x \in Sources
  PROVE  SourceFile(x.lang, x.lines, Vocabulary(ToSet(x.lines)))
<1> DEFINE some == ToSet(x.lines)
           X == Vocabulary(some)
           lines == x.lines
           lang == x.lang
<1>1. /\ IsText(lines)
      /\ \A l \in some :
            /\ l \in [indent : Nat, captures : {l.captures}, words : {l.words}]
            /\ IsText(l.words)
            /\ DOMAIN l.captures # {} => l.words # <<>>
            /\ Applicable(lang, l) # {} =>
                  LET m == Symbol(lang, l)
                  IN  /\ m \in [name : {m.name}, receiver : {m.receiver}]
                      /\ IsText(m.name) /\ m.name # NoName /\ IsText(m.receiver)
                      /\ ~matchDef(lang, l).joinReceiver => m.receiver = NoName
  BY DecisionsAssumption
<1>2. /\ Len(lines) \in Nat /\ DOMAIN lines = 1..Len(lines)
      /\ \A k \in DOMAIN lines : lines[k] \in some
  BY <1>1, LinesOf
<1> HIDE DEF some
<1>3. \A l \in some : l.words \in Seq(X)
  BY <1>1, WordsOf
<1> HIDE DEF X, lang
<1>4. SourceFile(lang, lines, X)
  BY <1>1, <1>2, <1>3 DEF SourceFile, Written
<1> QED
  BY <1>4 DEF X, some, lang

-----------------------------------------------------------------------------
(* One line of prose for another *)

\* Nodes that stay where they are.
LEMMA NodesStay ==
  ASSUME NEW opens, Nodes(opens), NEW other, DOMAIN other = DOMAIN opens,
         \A m \in DOMAIN opens : other[m].name = opens[m].name,
         \A m, n \in DOMAIN opens : other[m].level < other[n].level <=> opens[m].level < opens[n].level
  PROVE  Moved(opens, other, [m \in DOMAIN opens |-> m])
  BY DEF Moved, Grows, Nodes

\* One line of prose for another.
Edited(lines, after, n, edit, X) ==
    /\ TextFile(lines, X) /\ n \in 1..Len(lines) /\ after = [lines EXCEPT ![n] = edit]
    /\ ~lines[n].fence /\ lines[n].hashes = 0
    /\ ~edit.fence /\ edit.hashes = 0 /\ edit.words \in Seq(X)

\* It opens and closes nothing.
LEMMA EditKeepsOpenings ==
  ASSUME NEW lines, NEW after, NEW n, NEW edit, NEW X, Edited(lines, after, n, edit, X)
  PROVE  /\ TextOpenings(after) = TextOpenings(lines)
         /\ Written(after, X) /\ Rewritten(lines, after, n)
<1> USE DEF Edited
<1>1. /\ Len(lines) \in Nat /\ DOMAIN lines = 1..Len(lines)
      /\ \A k \in DOMAIN lines : lines[k].words \in Seq(X)
  BY DEF TextFile, Written
<1>2. DOMAIN after = DOMAIN lines /\ \A k \in DOMAIN lines : after[k] = IF k = n THEN edit ELSE lines[k]
  BY <1>1
<1>3. Len(after) = Len(lines)
  BY <1>1, <1>2
<1>4. \A k \in DOMAIN lines : /\ after[k].fence <=> lines[k].fence
                              /\ after[k].hashes = lines[k].hashes
                              /\ lines[k].hashes > 0 => after[k] = lines[k]
  BY <1>2
<1>5. \A k \in DOMAIN lines : InFence(after, k) <=> InFence(lines, k)
  <2> SUFFICES ASSUME NEW k \in DOMAIN lines PROVE InFence(after, k) <=> InFence(lines, k)
    OBVIOUS
  <2>1. \A j \in 1..k : j \in DOMAIN lines
    BY <1>1
  <2>2. {j \in 1..k : after[j].fence} = {j \in 1..k : lines[j].fence}
    BY <1>4, <2>1
  <2> QED
    BY <2>2 DEF InFence
<1>6. TextOpenings(after) = TextOpenings(lines)
  <2> DEFINE D == {k \in DOMAIN lines : /\ lines[k].hashes > 0 /\ lines[k].title # NoName
                                        /\ ~InFence(lines, k)}
  <2>1. {k \in DOMAIN after : /\ after[k].hashes > 0 /\ after[k].title # NoName
                              /\ ~InFence(after, k)} = D
    BY <1>2, <1>4, <1>5
  <2>2. \A k \in D : after[k].hashes = lines[k].hashes /\ after[k].title = lines[k].title
    BY <1>4
  <2>3. /\ TextOpenings(lines) = [k \in D |-> [level |-> lines[k].hashes, name |-> lines[k].title]]
        /\ TextOpenings(after) = [k \in D |-> [level |-> after[k].hashes, name |-> after[k].title]]
    BY <2>1 DEF TextOpenings
  <2> HIDE DEF D
  <2> QED
    BY <2>2, <2>3
<1> QED
  BY <1>1, <1>2, <1>3, <1>6 DEF Written, Rewritten

\* What an edit does to the anchor of a section.
LEMMA EditExpires ==
  ASSUME NEW lines, NEW after, NEW n, NEW edit, NEW X, Edited(lines, after, n, edit, X),
         NEW opens, opens = TextOpenings(lines), NEW s \in Unique(opens),
         NEW span, span.lineStart = s, NEW stored, stored = Compute(lines, opens, span)
  PROVE  Expires(Resolve(stored, after, TextOpenings(after))) <=>
             s \in Enclosing(lines, opens, n) /\ after[n].words # lines[n].words
<1>0. TextFile(lines, X) /\ n \in 1..Len(lines)
  BY DEF Edited
<1>1. /\ TextOpenings(after) = opens
      /\ Written(after, X) /\ Rewritten(lines, after, n) /\ Written(lines, X)
  BY <1>0, EditKeepsOpenings DEF TextFile
<1>2. Sectioned(lines, opens) /\ Nodes(opens) /\ s \in DOMAIN opens
  BY <1>0, TextSectioned, SectionedNodes DEF Unique
<1> DEFINE f == [m \in DOMAIN opens |-> m]
           e == End(lines, opens, s)
<1>3. Moved(opens, opens, f) /\ f[s] = s
  BY <1>2, NodesStay
<1>4. s \in 1..Len(lines) /\ s \in Latest(opens, s)
  BY <1>2, LatestAtNode
<1>5. End(after, opens, s) = e
  BY <1>1 DEF End, Rewritten
<1>6. Section(lines, opens, s) = Words(lines, s, e) /\ Section(after, opens, s) = Words(after, s, e)
  BY <1>5 DEF Section
<1>7. e \in Nat /\ s \in Nat /\ s <= e
  <2>1. EndsAt(lines, opens, s, e)
    BY <1>2, <1>4, EndWhere
  <2> QED
    BY <1>2, <1>4, <2>1 DEF EndsAt, Sectioned
<1> HIDE DEF f, e
<1>8. Words(lines, s, e) # <<>>
  <2>1. lines[s].words # <<>>
    BY <1>0, <1>2 DEF TextFile, TextOpenings
  <2> QED
    BY <1>1, <1>4, <1>7, <2>1, WordsEmpty
<1>9. Resolve(stored, after, opens) =
          IF Section(lines, opens, s) = <<>> THEN "unanchored"
          ELSE IF Section(after, opens, f[s]) # Section(lines, opens, s) THEN "semantic-change"
          ELSE "valid"
  BY <1>0, <1>2, <1>3, <1>4, TextNamed, LadderSays
<1>10. Expires(Resolve(stored, after, opens)) <=> Words(after, s, e) # Words(lines, s, e)
  BY <1>3, <1>6, <1>8, <1>9 DEF Expires
<1>11. Words(after, s, e) = Words(lines, s, e) <=> (s <= n /\ n <= e => after[n].words = lines[n].words)
  BY <1>0, <1>1, WordsDiffer
<1>12. s \in Enclosing(lines, opens, n) <=> s <= n /\ n <= e
  BY <1>0, <1>2, EnclosingLatest, LatestInside DEF e
<1> QED
  BY <1>1, <1>10, <1>11, <1>12

\* What EditExpires says of every document and every edit of it.
LEMMA Editing == Given => EditExpiresItsSection
<1> SUFFICES ASSUME Given, input.kind = "document",
                    NEW n \in {n \in DOMAIN input.case.lines :
                                   ~input.case.lines[n].fence /\ input.case.lines[n].hashes = 0},
                    NEW s \in Unique(TextOpenings(input.case.lines))
             PROVE  LET lines == input.case.lines
                        opens == TextOpenings(lines)
                        after  == [lines EXCEPT ![n] = input.case.edit]
                        anchor == Compute(lines, opens, [lineStart |-> s, lineEnd |-> s,
                                                         byteHash |-> <<>>])
                    IN  Expires(Resolve(anchor, after, TextOpenings(after))) <=>
                            /\ s \in Enclosing(lines, opens, n)
                            /\ after[n].words # lines[n].words
  BY DEF EditExpiresItsSection
<1> DEFINE x == input.case
           lines == x.lines
           edit == x.edit
           opens == TextOpenings(lines)
           after == [lines EXCEPT ![n] = edit]
           span == [lineStart |-> s, lineEnd |-> s, byteHash |-> <<>>]
           anchor == Compute(lines, opens, span)
           X == Vocabulary(ToSet(lines) \cup {edit})
<1>1. x \in Documents
  BY DEF Given
<1> HIDE DEF x
<1>2. TextFile(lines, X) /\ edit.words \in Seq(X) /\ edit.hashes = 0 /\ ~edit.fence
  BY <1>1, DocumentGiven
<1>3. n \in DOMAIN lines /\ ~lines[n].fence /\ lines[n].hashes = 0
  BY DEF x
<1> HIDE DEF X
<1>4. Edited(lines, after, n, edit, X)
  BY <1>2, <1>3 DEF Edited, TextFile
<1>5. s \in Unique(opens) /\ opens = TextOpenings(lines) /\ span.lineStart = s
      /\ anchor = Compute(lines, opens, span)
  BY DEF x
<1> HIDE DEF lines, edit, opens, after, span, anchor
<1>6. Expires(Resolve(anchor, after, TextOpenings(after))) <=>
          s \in Enclosing(lines, opens, n) /\ after[n].words # lines[n].words
  BY <1>4, <1>5, EditExpires
<1> QED
  BY <1>6 DEF lines, edit, opens, after, span, anchor, x

\* An edit expires exactly the anchors of the section it is in, and only when it
\* changes words (anchor/text.go, Compute and Resolve; anchor/anchor.go Classify).
THEOREM EditsExpireTheirSection == Spec => []EditExpiresItsSection
<1> QED
  BY AlwaysGiven, Editing, PTL

-----------------------------------------------------------------------------
(* Indentation *)

\* A line indented twice as deep defines what it did.
LEMMA SameDefinition ==
  ASSUME NEW lang, NEW line, line \in [indent : Nat, captures : {line.captures}, words : {line.words}],
         NEW deeper, deeper = [line EXCEPT !.indent = 2 * @]
  PROVE  /\ deeper.indent = 2 * line.indent /\ deeper.words = line.words
         /\ Applicable(lang, deeper) = Applicable(lang, line)
         /\ DefName(matchDef(lang, deeper), deeper) = DefName(matchDef(lang, line), line)
<1>1. /\ deeper.indent = 2 * line.indent /\ deeper.words = line.words
      /\ deeper.captures = line.captures /\ line.indent \in Nat
  OBVIOUS
<1>2. deeper.indent > 0 <=> line.indent > 0
  BY <1>1
<1>3. \A rule : Applies(rule, deeper) <=> Applies(rule, line)
  BY <1>1, <1>2 DEF Applies
<1>4. Applicable(lang, deeper) = Applicable(lang, line)
  BY <1>3 DEF Applicable
<1>5. matchDef(lang, deeper) = matchDef(lang, line)
  BY <1>4 DEF matchDef
<1>6. \A rule : DefName(rule, deeper) = DefName(rule, line)
  BY <1>1 DEF DefName
<1> QED
  BY <1>1, <1>4, <1>5, <1>6

\* Definitions of different symbols have different names.
LEMMA NamesDiffer ==
  ASSUME NEW a, NEW b, Unjoined(a.receiver), Unjoined(a.name), Unjoined(b.receiver), Unjoined(b.name),
         a \in [name : {a.name}, receiver : {a.receiver}],
         b \in [name : {b.name}, receiver : {b.receiver}], a # b,
         NEW x, x = IF a.receiver # NoName THEN Dotted(a.receiver, a.name) ELSE a.name,
         NEW y, y = IF b.receiver # NoName THEN Dotted(b.receiver, b.name) ELSE b.name
  PROVE  x # y /\ Separator[2] \notin ToSet(x) /\ Separator[2] \notin ToSet(y)
<1> DEFINE r == a.receiver
           m == a.name
           q == b.receiver
           n == b.name
<1>1. r # q \/ m # n
  OBVIOUS
<1>2. Unjoined(r) /\ Unjoined(m) /\ Unjoined(q) /\ Unjoined(n)
  OBVIOUS
<1>3. /\ x = IF r # NoName THEN Dotted(r, m) ELSE m
      /\ y = IF q # NoName THEN Dotted(q, n) ELSE n
  OBVIOUS
<1> HIDE DEF r, m, q, n
<1>4. Separator[2] \notin ToSet(x)
  <2>1. Separator[2] \notin ToSet(Dotted(r, m)) /\ Separator[2] \notin ToSet(m)
    BY <1>2, DottedHolds DEF Unjoined
  <2> QED
    BY <1>3, <2>1
<1>5. Separator[2] \notin ToSet(y)
  <2>1. Separator[2] \notin ToSet(Dotted(q, n)) /\ Separator[2] \notin ToSet(n)
    BY <1>2, DottedHolds DEF Unjoined
  <2> QED
    BY <1>3, <2>1
<1>6. /\ Dotted(r, m) = Dotted(q, n) => r = q /\ m = n
      /\ Dotted(r, m) # n /\ Dotted(q, n) # m
  BY <1>2, DottedDiffers, DottedIsJoined
<1>7. x # y
  <2>1. CASE r # NoName /\ q # NoName
    BY <1>1, <1>3, <1>6, <2>1
  <2>2. CASE r # NoName /\ q = NoName
    BY <1>3, <1>6, <2>2
  <2>3. CASE r = NoName /\ q # NoName
    BY <1>3, <1>6, <2>3
  <2>4. CASE r = NoName /\ q = NoName
    BY <1>1, <1>3, <2>4
  <2> QED
    BY <2>1, <2>2, <2>3, <2>4
<1> QED
  BY <1>4, <1>5, <1>7

\* So a symbol that its file defines once has a path of its own, if nobody's name
\* can be mistaken for a path.
LEMMA OnceIsUnique ==
  ASSUME NEW lang, NEW lines, NEW X, SourceFile(lang, lines, X),
         NEW opens, opens = CodeOpenings(lang, lines), NEW n \in DOMAIN opens,
         DefinedOnce(lang, lines, opens, n)
  PROVE  n \in Unique(opens)
<1> DEFINE sym(k) == Symbol(lang, lines[k])
<1>1. Named(opens)
  BY CodeNamed
<1>2. ASSUME NEW k \in DOMAIN opens
      PROVE  /\ sym(k) \in [name : {sym(k).name}, receiver : {sym(k).receiver}]
             /\ Unjoined(sym(k).receiver) /\ Unjoined(sym(k).name)
             /\ opens[k].name = IF sym(k).receiver # NoName
                                THEN Dotted(sym(k).receiver, sym(k).name) ELSE sym(k).name
  <2>1. k \in DOMAIN lines /\ Applicable(lang, lines[k]) # {}
        /\ opens[k].name = DefName(matchDef(lang, lines[k]), lines[k])
    BY DEF CodeOpenings
  <2>2. /\ sym(k) \in [name : {sym(k).name}, receiver : {sym(k).receiver}]
        /\ IsText(sym(k).receiver) /\ IsText(sym(k).name)
        /\ ~matchDef(lang, lines[k]).joinReceiver => sym(k).receiver = NoName
    BY <2>1 DEF SourceFile
  <2>3. (ToSet(sym(k).receiver) \cup ToSet(sym(k).name)) \cap {"dot", "gt"} = {}
    BY DEF DefinedOnce
  <2>4. Dot[1] = "dot" /\ Separator[2] = "gt"
    BY DEF Dot, Separator
  <2>5. {Dot[1], Separator[2]} \cap (ToSet(sym(k).receiver) \cup ToSet(sym(k).name)) = {}
    BY <2>3, <2>4
  <2> DEFINE s == sym(k)
             line == lines[k]
  <2>6. s = Symbol(lang, line)
    OBVIOUS
  <2>7. DefName(matchDef(lang, line), line) =
            IF s.receiver # NoName THEN Dotted(s.receiver, s.name) ELSE s.name
    BY <2>2, <2>6, NameOfSymbol
  <2>8. Unjoined(s.receiver) /\ Unjoined(s.name)
    BY <2>2, <2>5 DEF Unjoined
  <2> QED
    BY <2>1, <2>2, <2>7, <2>8
<1>3. \A k \in DOMAIN opens \ {n} : sym(k) # sym(n)
  BY DEF DefinedOnce
<1> HIDE DEF sym
<1>4. ASSUME NEW k \in DOMAIN opens \ {n} PROVE Path(opens, k) # Path(opens, n)
  <2>1. sym(k) # sym(n)
    BY <1>3
  <2>2. /\ opens[k].name # opens[n].name
        /\ Separator[2] \notin ToSet(opens[k].name) /\ Separator[2] \notin ToSet(opens[n].name)
    BY <1>2, <2>1, NamesDiffer
  <2> QED
    BY <1>1, <2>2, PathsDiffer
<1> QED
  BY <1>4 DEF Unique

\* What reindenting does to the anchor of a definition.
LEMMA ReindentValid ==
  ASSUME NEW lang, NEW lines, NEW X, SourceFile(lang, lines, X),
         NEW after, after = Reindent(lines), NEW opens, opens = CodeOpenings(lang, lines),
         NEW n \in Unique(opens), NEW span, span.lineStart = n, NEW stored, stored = Compute(lines, opens, span)
  PROVE  Resolve(stored, after, CodeOpenings(lang, after)) = "valid"
<1> DEFINE other == CodeOpenings(lang, after)
           f == [m \in DOMAIN opens |-> m]
           e == End(lines, opens, n)
<1>1. /\ Sectioned(lines, opens) /\ Nodes(opens) /\ Named(opens)
      /\ n \in 1..Len(lines) /\ n \in Latest(opens, n)
  <2>1. n \in DOMAIN opens
    BY DEF Unique
  <2> QED
    BY <2>1, CodeSectioned, CodeNamed, SectionedNodes, LatestAtNode
<1>2. /\ Len(lines) \in Nat /\ DOMAIN lines = 1..Len(lines) /\ Written(lines, X)
      /\ \A k \in DOMAIN lines :
            lines[k] \in [indent : Nat, captures : {lines[k].captures}, words : {lines[k].words}]
  BY DEF SourceFile
<1>3. DOMAIN after = DOMAIN lines /\ \A k \in DOMAIN lines : after[k] = [lines[k] EXCEPT !.indent = 2 * @]
  BY DEF Reindent
<1>4. Len(after) = Len(lines)
  BY <1>2, <1>3
<1>5. \A k \in DOMAIN lines :
          /\ after[k].indent = 2 * lines[k].indent /\ after[k].words = lines[k].words
          /\ Applicable(lang, after[k]) = Applicable(lang, lines[k])
          /\ DefName(matchDef(lang, after[k]), after[k]) = DefName(matchDef(lang, lines[k]), lines[k])
  BY <1>2, <1>3, SameDefinition
<1>6. /\ DOMAIN other = DOMAIN opens
      /\ \A k \in DOMAIN opens : /\ k \in DOMAIN lines /\ other[k].name = opens[k].name
                                 /\ other[k].level = 2 * opens[k].level /\ opens[k].level \in Nat
  BY <1>2, <1>3, <1>5 DEF CodeOpenings
<1> HIDE DEF other
<1>7. \A a, b \in DOMAIN opens : other[a].level < other[b].level <=> opens[a].level < opens[b].level
  BY <1>6
<1>8. Moved(opens, other, f) /\ f[n] = n
  <2>1. /\ Nodes(opens) /\ DOMAIN other = DOMAIN opens
        /\ \A m \in DOMAIN opens : other[m].name = opens[m].name
    BY <1>1, <1>6
  <2>2. Moved(opens, other, f)
    BY <1>7, <2>1, NodesStay
  <2> QED
    BY <2>2 DEF Unique
<1>9. n \in DOMAIN opens
  BY DEF Unique
<1>10. Section(after, other, n) = Section(lines, opens, n)
  <2>1. End(after, other, n) = e
    BY <1>4, <1>6 DEF End
  <2>2. Ranged(after, n, e) = Ranged(lines, n, e)
    BY <1>2, <1>4, <1>5 DEF Ranged
  <2> QED
    BY <2>1, <2>2 DEF Section, Words, Ranged
<1>11. e \in Nat /\ n \in Nat /\ n <= e
  <2>1. EndsAt(lines, opens, n, e)
    BY <1>1, EndWhere
  <2> QED
    BY <1>1, <1>2, <2>1 DEF EndsAt
<1>12. Section(lines, opens, n) # <<>>
  <2>1. Applicable(lang, lines[n]) # {}
    BY <1>9 DEF CodeOpenings
  <2>2. DOMAIN lines[n].captures # {}
    BY <2>1 DEF Applicable, Applies
  <2>3. lines[n].words # <<>>
    BY <1>6, <1>9, <2>2 DEF SourceFile
  <2> HIDE DEF e
  <2>4. Words(lines, n, e) # <<>>
    BY <1>1, <1>2, <1>11, <2>3, WordsEmpty
  <2> QED
    BY <2>4 DEF Section, e
<1> HIDE DEF f
<1>13. Resolve(stored, after, other) =
          IF Section(lines, opens, n) = <<>> THEN "unanchored"
          ELSE IF Section(after, other, f[n]) # Section(lines, opens, n) THEN "semantic-change"
          ELSE "valid"
  BY <1>1, <1>8, LadderSays
<1>14. Resolve(stored, after, other) = "valid"
  BY <1>8, <1>10, <1>12, <1>13
<1> QED
  BY <1>14 DEF other

\* What ReindentValid says of every definition of every source.
LEMMA Reindenting == Given => ReindentKeepsAnchors
<1> SUFFICES ASSUME Given, input.kind = "source",
                    NEW n \in DOMAIN CodeOpenings(input.case.lang, input.case.lines),
                    LET lines == input.case.lines
                        lang  == input.case.lang
                        opens == CodeOpenings(lang, lines)
                    IN  n \in Unique(opens) \/ DefinedOnce(lang, lines, opens, n)
             PROVE  LET lines == input.case.lines
                        after == Reindent(lines)
                        lang  == input.case.lang
                        anchor == Compute(lines, CodeOpenings(lang, lines),
                                          [lineStart |-> n, lineEnd |-> n, byteHash |-> <<>>])
                    IN  Resolve(anchor, after, CodeOpenings(lang, after)) = "valid"
  BY DEF ReindentKeepsAnchors
<1> DEFINE x == input.case
           lines == x.lines
           lang == x.lang
           opens == CodeOpenings(lang, lines)
           after == Reindent(lines)
           span == [lineStart |-> n, lineEnd |-> n, byteHash |-> <<>>]
           anchor == Compute(lines, opens, span)
           X == Vocabulary(ToSet(lines))
<1>1. x \in Sources
  BY DEF Given
<1> HIDE DEF x
<1>2. SourceFile(lang, lines, X)
  BY <1>1, SourceGiven
<1>3. n \in DOMAIN opens /\ (n \in Unique(opens) \/ DefinedOnce(lang, lines, opens, n))
  BY DEF x
<1>4. opens = CodeOpenings(lang, lines) /\ span.lineStart = n /\ after = Reindent(lines)
      /\ anchor = Compute(lines, opens, span)
  OBVIOUS
<1> HIDE DEF X, lines, lang, opens, after, span, anchor
<1>5. n \in Unique(opens)
  BY <1>2, <1>3, <1>4, OnceIsUnique
<1>6. Resolve(anchor, after, CodeOpenings(lang, after)) = "valid"
  BY <1>2, <1>4, <1>5, ReindentValid
<1> QED
  BY <1>6 DEF lines, lang, opens, after, span, anchor, x

\* Reformatting a source file keeps valid every anchor whose path is its own, and
\* such is the path of a symbol that the file defines once, if no name in it holds
\* what names are joined with (anchor/code.go, parseDefs and matchDef).
THEOREM ReindentingKeepsAnchors == Spec => []ReindentKeepsAnchors
<1> QED
  BY AlwaysGiven, Reindenting, PTL

-----------------------------------------------------------------------------
(* Chunks *)

\* Where the buffer of each line starts, from the buffer of the line before.
Fills(lines, start) ==
    start = [n \in 1..Len(lines) |->
                IF \/ n = 1
                   \/ AtHeading(lines, n)
                   \/ n - start[n - 1] >= targetLines /\ ~InFence(lines, n - 1)
                THEN n ELSE start[n - 1]]

\* Some function fills them: the recursion of Starts has a solution.
LEMMA FillsExist ==
  ASSUME NEW lines, Len(lines) \in Nat
  PROVE  \E start : Fills(lines, start)
<1> DEFINE N == Len(lines)
           again(k, s) == \/ k = 1
                          \/ AtHeading(lines, k)
                          \/ k - s >= targetLines /\ ~InFence(lines, k - 1)
           turn == [k \in 1..N |-> [s \in Nat |-> IF again(k, s) THEN k ELSE s]]
<1>1. turn \in [1..N -> [Nat -> Nat]]
  OBVIOUS
<1>2. \A k \in 1..N : \A s \in Nat : turn[k][s] = IF again(k, s) THEN k ELSE s
  OBVIOUS
<1> HIDE DEF turn
<1>3. PICK g : Turned(g, N, Nat, 0, turn)
  BY <1>1, TurnsExist
<1>4. /\ g \in [0..N -> Nat]
      /\ \A k \in 1..N : g[k] = IF again(k, g[k - 1]) THEN k ELSE g[k - 1]
  <2>1. \A k \in 1..N : k - 1 \in 0..N
    OBVIOUS
  <2> HIDE DEF again
  <2> QED
    BY <1>2, <1>3, <2>1 DEF Turned
<1> DEFINE h == [k \in 1..N |-> g[k]]
<1>5. \A k \in 1..N : h[k] = IF again(k, h[k - 1]) THEN k ELSE h[k - 1]
  <2> SUFFICES ASSUME NEW k \in 1..N PROVE h[k] = IF again(k, h[k - 1]) THEN k ELSE h[k - 1]
    OBVIOUS
  <2>1. h[k] = IF again(k, g[k - 1]) THEN k ELSE g[k - 1]
    BY <1>4
  <2>2. CASE k = 1
    BY <2>1, <2>2
  <2>3. CASE k # 1
    <3>1. h[k - 1] = g[k - 1]
      BY <2>3
    <3> HIDE DEF again, h
    <3> QED
      BY <2>1, <3>1
  <2> QED
    BY <2>2, <2>3
<1>6. h = [k \in 1..N |-> IF again(k, h[k - 1]) THEN k ELSE h[k - 1]]
  <2>1. h = [k \in 1..N |-> h[k]]
    OBVIOUS
  <2> HIDE DEF h, again
  <2> QED
    BY <1>5, <2>1
<1>7. Fills(lines, h)
  <2> HIDE DEF h
  <2> QED
    BY <1>6 DEF Fills
<1> QED
  BY <1>7

\* A buffer starts at its first line and takes in all up to its last, and no
\* heading after the first line.
Buffered(lines, start) ==
    \A n \in 1..Len(lines) :
        /\ start[n] \in 1..n /\ start[start[n]] = start[n]
        /\ \A j \in 1..n : start[n] < j => start[j] = start[n] /\ ~AtHeading(lines, j)

\* The buffers of the chunker are of that kind.
LEMMA StartsBuffer ==
  ASSUME NEW lines, Len(lines) \in Nat, NEW start, start = Starts(lines)
  PROVE  Buffered(lines, start)
<1> DEFINE N == Len(lines)
<1>1. Fills(lines, start)
  <2>1. Starts(lines) = CHOOSE f : Fills(lines, f)
    BY DEF Starts, Fills
  <2> QED
    BY <2>1, FillsExist
<1>2. \A n \in 1..N :
          start[n] = IF \/ n = 1
                        \/ AtHeading(lines, n)
                        \/ n - start[n - 1] >= targetLines /\ ~InFence(lines, n - 1)
                     THEN n ELSE start[n - 1]
  BY <1>1 DEF Fills
<1> DEFINE Fine(n) == /\ start[n] \in 1..n /\ start[start[n]] = start[n]
                      /\ \A j \in 1..n : start[n] < j => start[j] = start[n] /\ ~AtHeading(lines, j)
<1>3. ASSUME NEW n \in 1..N, n # 1 => Fine(n - 1)
      PROVE  Fine(n)
  <2>1. CASE start[n] = n
    BY <2>1
  <2>2. CASE start[n] # n
    <3>1. n # 1 /\ ~AtHeading(lines, n) /\ start[n] = start[n - 1]
      BY <1>2, <2>2
    <3>2. Fine(n - 1) /\ n - 1 \in 1..N
      BY <1>3, <3>1
    <3>3. start[n] \in 1..n /\ start[start[n]] = start[n]
      BY <3>1, <3>2
    <3>4. ASSUME NEW j \in 1..n, start[n] < j
          PROVE  start[j] = start[n] /\ ~AtHeading(lines, j)
      <4>1. CASE j = n
        BY <3>1, <4>1
      <4>2. CASE j # n
        <5>1. j \in 1..(n - 1)
          BY <4>2
        <5> QED
          BY <3>1, <3>2, <3>4, <5>1
      <4> QED
        BY <4>1, <4>2
    <3> QED
      BY <3>3, <3>4
  <2> QED
    BY <2>1, <2>2
<1> HIDE DEF Fine
<1>4. ASSUME NEW n \in 1..N
      PROVE  Fine(n)
  <2> DEFINE good == {k \in 0..n : k = 0 \/ Fine(k)}
  <2>1. 0 \in good
    OBVIOUS
  <2>2. \A k \in 1..n : k - 1 \in good => k \in good
    <3> SUFFICES ASSUME NEW k \in 1..n, k - 1 \in good PROVE Fine(k)
      OBVIOUS
    <3>1. k # 1 => Fine(k - 1)
      OBVIOUS
    <3>2. k \in 1..N
      OBVIOUS
    <3> QED
      BY <1>3, <3>1, <3>2
  <2>3. n \in good
    <3> HIDE DEF good
    <3> QED
      BY <2>1, <2>2, TurnsKeep
  <2> QED
    BY <2>3
<1> QED
  BY <1>4 DEF Fine, Buffered

\* The last of some lines.
LEMMA LastLine ==
  ASSUME NEW N \in Nat, NEW S \in SUBSET (1..N), S # {}
  PROVE  Max(S) \in S /\ \A x \in S : x <= Max(S)
<1> DEFINE U == {N - x : x \in S}
<1>1. U \in SUBSET Nat /\ U # {}
  <2>1. \A x \in S : x \in 1..N /\ N - x \in Nat
    OBVIOUS
  <2> QED
    BY <2>1
<1>2. PICK y \in U : \A z \in U : y <= z
  <2> HIDE DEF U
  <2> QED
    BY <1>1, LeastNatural
<1>3. PICK m \in S : y = N - m
  OBVIOUS
<1>4. \A x \in S : x <= m
  <2> SUFFICES ASSUME NEW x \in S PROVE x <= m
    OBVIOUS
  <2>1. N - x \in U /\ x \in Int /\ m \in Int
    OBVIOUS
  <2>2. N - m <= N - x
    BY <1>2, <1>3, <2>1
  <2> QED
    BY <2>1, <2>2
<1>5. \A x \in S : x \in Int
  OBVIOUS
<1> DEFINE P(c) == c \in S /\ \A x \in S : c >= x
<1>6. Max(S) = CHOOSE c \in S : \A x \in S : c >= x
  BY DEF Max
<1>7. \A x \in S : m >= x
  BY <1>4, <1>5
<1>8. Max(S) \in S /\ \A x \in S : Max(S) >= x
  BY <1>6, <1>7
<1> QED
  BY <1>5, <1>8

\* The last line of the buffer that starts at s.
LastOf(lines, start, s) == Max({n \in DOMAIN lines : start[n] = s})

\* A line is between the first and the last of its buffer and of no other.
LEMMA BufferSpans ==
  ASSUME NEW lines, Len(lines) \in Nat, DOMAIN lines = 1..Len(lines),
         NEW start, start = Starts(lines),
         NEW m \in DOMAIN lines, NEW s, s = start[m],
         NEW e, e = LastOf(lines, start, s)
  PROVE  /\ s \in DOMAIN lines /\ e \in DOMAIN lines
         /\ \A n \in DOMAIN lines : s <= n /\ n <= e <=> start[n] = s
<1> DEFINE N == Len(lines)
           S == {k \in DOMAIN lines : start[k] = s}
<1>1. Buffered(lines, start)
  BY StartsBuffer
<1>2. s \in 1..m /\ start[s] = s /\ s \in 1..N
  BY <1>1 DEF Buffered
<1>3. S \in SUBSET (1..N) /\ S # {}
  BY <1>2
<1>4. e \in S /\ \A x \in S : x <= e
  <2> HIDE DEF S
  <2>1. Max(S) \in S /\ \A x \in S : x <= Max(S)
    BY <1>3, LastLine
  <2>2. e = Max(S)
    BY DEF S, LastOf
  <2> QED
    BY <2>1, <2>2
<1>5. e \in 1..N /\ start[e] = s
  BY <1>4
<1>6. ASSUME NEW n \in DOMAIN lines, s <= n, n <= e
      PROVE  start[n] = s
  <2>1. n = s \/ (s < n /\ n \in 1..e)
    BY <1>2, <1>5, <1>6
  <2> QED
    BY <1>1, <1>2, <1>5, <2>1 DEF Buffered
<1>7. ASSUME NEW n \in DOMAIN lines, start[n] = s
      PROVE  s <= n /\ n <= e
  <2>1. n \in S /\ n \in 1..N
    BY <1>7
  <2>2. s \in 1..n
    BY <1>1, <1>7, <2>1 DEF Buffered
  <2> QED
    BY <1>4, <2>1, <2>2
<1> QED
  BY <1>2, <1>5, <1>6, <1>7

\* Two lines of one buffer are of one section: no heading stands between them.
LEMMA BufferSection ==
  ASSUME NEW lines, NEW X, TextFile(lines, X), NEW opens, opens = TextOpenings(lines),
         NEW start, Buffered(lines, start), NEW n \in DOMAIN lines, NEW s, s = start[n]
  PROVE  Latest(opens, n) = Latest(opens, s)
<1>1. /\ Len(lines) \in Nat /\ n \in 1..Len(lines)
      /\ \A m \in DOMAIN opens : m \in 1..Len(lines) /\ AtHeading(lines, m)
  BY DEF TextFile, TextOpenings, AtHeading
<1>2. s \in 1..n /\ \A m \in 1..n : s < m => ~AtHeading(lines, m)
  BY <1>1 DEF Buffered
<1>3. \A m \in DOMAIN opens : m <= n <=> m <= s
  <2> SUFFICES ASSUME NEW m \in DOMAIN opens, m <= n PROVE m <= s
    BY <1>1, <1>2
  <2>1. m \in 1..n /\ AtHeading(lines, m)
    BY <1>1
  <2> QED
    BY <1>2, <2>1
<1> QED
  BY <1>3 DEF Latest

\* The chunks that hold line n.
Holding(chunks, n) == {k \in DOMAIN chunks : chunks[k].lineStart <= n /\ n <= chunks[k].lineEnd}

\* Each written line is in one chunk; lines of a chunk are of one section.
OneSection(lines, opens, chunks) ==
    /\ \A k \in DOMAIN chunks : chunks[k].lineStart \in 1..Len(lines)
    /\ \A n \in DOMAIN lines :
          /\ lines[n].words # <<>> => Cardinality(Holding(chunks, n)) = 1
          /\ \A k \in Holding(chunks, n) : Latest(opens, n) = Latest(opens, chunks[k].lineStart)

\* So it is with what the chunker cuts.
LEMMA ChunksHold ==
  ASSUME NEW lines, NEW X, TextFile(lines, X), NEW opens, opens = TextOpenings(lines),
         NEW chunks, chunks = ChunkFile(lines)
  PROVE  OneSection(lines, opens, chunks)
<1> DEFINE N == Len(lines)
           start == Starts(lines)
           end(s) == Max({n \in DOMAIN lines : start[n] = s})
           begun == {start[n] : n \in DOMAIN lines}
           kept == {s \in begun : Keeps(lines, s, end(s))}
           at == Ascending(kept)
<1>1. N \in Nat /\ DOMAIN lines = 1..N /\ Written(lines, X)
  BY DEF TextFile
<1>2. /\ DOMAIN chunks = 1..Cardinality(kept)
      /\ \A k \in DOMAIN chunks : chunks[k].lineStart = at[k] /\ chunks[k].lineEnd = end(at[k])
  BY DEF ChunkFile
<1>3. ASSUME NEW s \in begun
      PROVE  /\ s \in 1..N /\ end(s) \in 1..N
             /\ \A n \in DOMAIN lines : s <= n /\ n <= end(s) <=> start[n] = s
  <2>1. PICK m \in DOMAIN lines : s = start[m]
    OBVIOUS
  <2>2. ASSUME NEW e, e = end(s)
        PROVE  /\ s \in DOMAIN lines /\ e \in DOMAIN lines
               /\ \A n \in DOMAIN lines : s <= n /\ n <= e <=> start[n] = s
    <3> DEFINE f == start
    <3>1. f = Starts(lines) /\ s = f[m] /\ e = LastOf(lines, f, s)
      BY <2>1, <2>2 DEF LastOf
    <3> HIDE DEF f, start
    <3>2. /\ s \in DOMAIN lines /\ e \in DOMAIN lines
          /\ \A n \in DOMAIN lines : s <= n /\ n <= e <=> f[n] = s
      BY <1>1, <3>1, BufferSpans
    <3> QED
      BY <3>2 DEF f
  <2> HIDE DEF end, start, begun
  <2> QED
    BY <1>1, <2>2
<1>4. Buffered(lines, start)
  BY <1>1, StartsBuffer
<1>5. kept \in SUBSET (1..N) /\ kept \subseteq begun
      /\ \A s \in begun : s \in kept <=> Words(lines, s, end(s)) # <<>>
  <2> HIDE DEF start, end, begun
  <2> QED
    BY <1>3 DEF Keeps
<1>6. \A n \in DOMAIN lines : start[n] \in begun
  OBVIOUS
<1> HIDE DEF start, end, begun, kept
<1>7. IsFiniteSet(kept) /\ kept \subseteq Int
  BY <1>1, <1>5, FirstNumbers, FS_Subset
<1>8. Lists(at, kept)
  BY <1>7, AscendingLists DEF Numbers
<1>9. DOMAIN chunks = DOMAIN at /\ \A k \in DOMAIN chunks : at[k] \in kept /\ at[k] \in begun
  BY <1>2, <1>5, <1>8 DEF Lists
<1>10. \A k \in DOMAIN chunks : chunks[k].lineStart \in 1..N
  BY <1>2, <1>3, <1>9
<1>11. ASSUME NEW n \in DOMAIN lines
       PROVE  /\ lines[n].words # <<>> => Cardinality(Holding(chunks, n)) = 1
              /\ \A k \in Holding(chunks, n) : Latest(opens, n) = Latest(opens, chunks[k].lineStart)
  <2> DEFINE of == Holding(chunks, n)
             s == start[n]
  <2>1. of = {k \in DOMAIN at : at[k] = s}
    <3>1. \A k \in DOMAIN chunks : chunks[k].lineStart <= n /\ n <= chunks[k].lineEnd <=> at[k] = s
      BY <1>2, <1>3, <1>9
    <3> QED
      BY <1>9, <3>1 DEF Holding
  <2>2. Latest(opens, n) = Latest(opens, s)
    BY <1>4, BufferSection
  <2>3. \A k \in of : chunks[k].lineStart = s
    BY <1>2, <1>9, <2>1
  <2>4. ASSUME lines[n].words # <<>>
        PROVE  Cardinality(of) = 1
    <3>1. s \in begun /\ s \in Nat /\ end(s) \in 1..N /\ s <= n /\ n <= end(s)
      BY <1>3, <1>6
    <3>2. Words(lines, s, end(s)) # <<>>
      BY <1>1, <2>4, <3>1, WordsEmpty
    <3>3. s \in kept
      BY <1>5, <3>1, <3>2
    <3>4. PICK k \in DOMAIN at : \A j \in DOMAIN at : at[j] = s <=> j = k
      BY <1>8, <3>3 DEF Lists
    <3>5. of = {k}
      BY <2>1, <3>4
    <3> QED
      BY <3>5, FS_Singleton
  <2> HIDE DEF of, s
  <2>5. \A k \in of : Latest(opens, n) = Latest(opens, chunks[k].lineStart)
    BY <2>2, <2>3
  <2> QED
    BY <2>4, <2>5 DEF of
<1> QED
  BY <1>10, <1>11 DEF OneSection

\* Every document is cut like that.
LEMMA Chunking == Given => ChunkHasOneSection
<1> SUFFICES ASSUME Given, input.kind = "document"
             PROVE  ChunkHasOneSection
  BY DEF ChunkHasOneSection
<1> DEFINE x == input.case
           lines == x.lines
           opens == TextOpenings(lines)
           chunks == ChunkFile(lines)
           X == Vocabulary(ToSet(lines) \cup {x.edit})
<1>1. x \in Documents
  BY DEF Given
<1> HIDE DEF x
<1>2. TextFile(lines, X)
  BY <1>1, DocumentGiven
<1>3. opens = TextOpenings(lines) /\ chunks = ChunkFile(lines)
  OBVIOUS
<1> HIDE DEF X, lines, opens, chunks
<1>4. OneSection(lines, opens, chunks)
  BY <1>2, <1>3, ChunksHold
<1>5. DOMAIN lines = 1..Len(lines) /\ Sectioned(lines, opens)
  BY <1>2, <1>3, TextSectioned DEF TextFile
<1>6. \A n \in 1..Len(lines) : Enclosing(lines, opens, n) = Latest(opens, n)
  BY <1>5, EnclosingLatest
<1>7. \A n \in DOMAIN lines :
          /\ lines[n].words # <<>> => Cardinality(Holding(chunks, n)) = 1
          /\ \A k \in Holding(chunks, n) :
                Enclosing(lines, opens, n) = Enclosing(lines, opens, chunks[k].lineStart)
  <2> SUFFICES ASSUME NEW n \in DOMAIN lines, NEW k \in Holding(chunks, n)
               PROVE  Enclosing(lines, opens, n) = Enclosing(lines, opens, chunks[k].lineStart)
    BY <1>4 DEF OneSection
  <2>1. /\ Latest(opens, n) = Latest(opens, chunks[k].lineStart)
        /\ chunks[k].lineStart \in 1..Len(lines)
    BY <1>4 DEF OneSection, Holding
  <2> QED
    BY <1>5, <1>6, <2>1
<1> QED
  BY <1>7 DEF ChunkHasOneSection, Holding, x, lines, opens, chunks

\* The chunker and the anchorer cut a document alike: every written line is in
\* one chunk, and a chunk is of one section (seed/chunk.go, ChunkFile;
\* anchor/text.go, parseHeadings).
THEOREM ChunksHaveOneSection == Spec => []ChunkHasOneSection
<1> QED
  BY AlwaysGiven, Chunking, PTL

-----------------------------------------------------------------------------
(* One blank line more *)

\* One blank line more, below line p.
Inserted(lines, after, p) ==
    /\ Len(lines) \in Nat /\ p \in 0..Len(lines) /\ DOMAIN lines = 1..Len(lines)
    /\ Len(after) = Len(lines) + 1 /\ DOMAIN after = 1..Len(after)
    /\ after[p + 1] = BlankLine
    /\ \A k \in 1..Len(lines) : after[Below(p, k)] = lines[k]

\* InsertBlank does that.
LEMMA InsertInserts ==
  ASSUME NEW lines, IsText(lines), NEW p \in 0..Len(lines), NEW after, after = InsertBlank(lines, p)
  PROVE  Inserted(lines, after, p)
<1> DEFINE S == ToSet(lines) \cup {BlankLine}
           N == Len(lines)
           above == SubSeq(lines, 1, p)
           below == SubSeq(lines, p + 1, N)
<1>1. N \in Nat /\ DOMAIN lines = 1..N /\ p \in Int /\ p \in 0..N /\ \A k \in 1..N : lines[k] \in S
  BY LinesOf
<1> HIDE DEF S
<1>2. above \in Seq(S) /\ Len(above) = p /\ \A k \in 1..p : above[k] = lines[k]
  <2>1. \A k \in 1..p : lines[k] \in S
    BY <1>1
  <2> QED
    BY <1>1, <2>1, SubSeqProperties
<1>3. below \in Seq(S) /\ Len(below) = N - p /\ \A k \in 1..(N - p) : below[k] = lines[p + k]
  <2> DEFINE q == p + 1
  <2>1. q \in Int /\ \A k \in q..N : lines[k] \in S
    BY <1>1
  <2> HIDE DEF q
  <2>2. /\ SubSeq(lines, q, N) \in Seq(S)
        /\ Len(SubSeq(lines, q, N)) = IF q <= N THEN N - q + 1 ELSE 0
        /\ \A k \in 1..(N - q + 1) : SubSeq(lines, q, N)[k] = lines[q + k - 1]
    BY <1>1, <2>1, SubSeqProperties
  <2>3. N - q + 1 = N - p /\ (q <= N \/ N - p = 0) /\ \A k \in 1..(N - p) : q + k - 1 = p + k
    <3> HIDE DEF N
    <3> QED
      BY <1>1 DEF q
  <2>4. Len(SubSeq(lines, q, N)) = N - p
    <3> HIDE DEF N
    <3> QED
      BY <1>1, <2>1, <2>2, <2>3
  <2> QED
    BY <2>2, <2>3, <2>4 DEF q
<1>4. <<BlankLine>> \in Seq(S) /\ Len(<<BlankLine>>) = 1 /\ <<BlankLine>>[1] = BlankLine
  BY DEF S
<1>5. after = (above \o <<BlankLine>>) \o below
  BY DEF InsertBlank
<1> DEFINE blank == <<BlankLine>>
<1> HIDE DEF above, below, blank, N
<1>6. /\ above \o blank \in Seq(S) /\ Len(above \o blank) = p + 1
      /\ \A k \in 1..p : (above \o blank)[k] = lines[k]
      /\ (above \o blank)[p + 1] = BlankLine
  BY <1>1, <1>2, <1>4, ConcatProperties DEF blank
<1>7. /\ after \in Seq(S) /\ Len(after) = N + 1
      /\ \A k \in 1..(p + 1) : after[k] = (above \o blank)[k]
      /\ \A k \in 1..(N - p) : after[p + 1 + k] = below[k]
  BY <1>1, <1>3, <1>5, <1>6, ConcatProperties DEF blank, N
<1>8. DOMAIN after = 1..(N + 1)
  BY <1>7, LenProperties
<1>9. after[p + 1] = BlankLine
  BY <1>1, <1>6, <1>7 DEF N
<1>10. ASSUME NEW k \in 1..N PROVE after[Below(p, k)] = lines[k]
  <2>1. CASE k <= p
    <3>1. k \in 1..p /\ k \in 1..(p + 1) /\ Below(p, k) = k
      BY <1>1, <2>1 DEF Below
    <3> QED
      BY <1>6, <1>7, <3>1
  <2>2. CASE k > p
    <3>1. k - p \in 1..(N - p) /\ p + 1 + (k - p) = k + 1 /\ p + (k - p) = k
      BY <1>1, <2>2
    <3>2. after[k + 1] = lines[k]
      BY <1>3, <1>7, <3>1
    <3> QED
      BY <1>1, <2>2, <3>2 DEF Below
  <2> QED
    BY <1>1, <2>1, <2>2
<1> QED
  BY <1>1, <1>7, <1>8, <1>9, <1>10 DEF Inserted, N

\* The other lines keep their order, and with the blank one they are all.
LEMMA BelowGrows ==
  ASSUME NEW N \in Nat, NEW p \in 0..N
  PROVE  /\ \A k \in 1..N : Below(p, k) \in 1..(N + 1) /\ Below(p, k) # p + 1
         /\ \A j, k \in 1..N : Below(p, j) < Below(p, k) <=> j < k
         /\ \A j \in 1..(N + 1) : j = p + 1 \/ \E k \in 1..N : j = Below(p, k)
<1>1. /\ \A k \in 1..N : Below(p, k) \in 1..(N + 1) /\ Below(p, k) # p + 1
      /\ \A j, k \in 1..N : Below(p, j) < Below(p, k) <=> j < k
  BY DEF Below
<1>2. ASSUME NEW j \in 1..(N + 1), j # p + 1
      PROVE  \E k \in 1..N : j = Below(p, k)
  <2>1. CASE j <= p
    <3>1. j \in 1..N /\ Below(p, j) = j
      BY <2>1 DEF Below
    <3> QED
      BY <3>1
  <2>2. CASE j > p
    <3>1. j - 1 \in 1..N /\ Below(p, j - 1) = j
      BY <1>2, <2>2 DEF Below
    <3> QED
      BY <3>1
  <2> QED
    BY <2>1, <2>2
<1> QED
  BY <1>1, <1>2

\* No fence opens or closes.
LEMMA FencesMove ==
  ASSUME NEW lines, NEW after, NEW p, Inserted(lines, after, p), NEW k \in 1..Len(lines)
  PROVE  InFence(after, Below(p, k)) <=> InFence(lines, k)
<1> DEFINE N == Len(lines)
           R == {j \in 1..k : lines[j].fence}
           U == {j \in 1..Below(p, k) : after[j].fence}
           f == [j \in 1..N |-> Below(p, j)]
<1>1. /\ N \in Nat /\ p \in 0..N /\ k \in 1..N /\ ~after[p + 1].fence
      /\ \A j \in 1..N : after[Below(p, j)] = lines[j]
  BY DEF Inserted, BlankLine
<1>2. /\ \A j \in 1..N : Below(p, j) \in 1..(N + 1) /\ Below(p, j) # p + 1
      /\ \A i, j \in 1..N : Below(p, i) < Below(p, j) <=> i < j
      /\ \A j \in 1..(N + 1) : j = p + 1 \/ \E i \in 1..N : j = Below(p, i)
  BY <1>1, BelowGrows
<1>3. \A j \in 1..N : Below(p, j) \in U <=> j \in R
  <2> SUFFICES ASSUME NEW j \in 1..N PROVE Below(p, j) \in U <=> j \in R
    OBVIOUS
  <2>1. Below(p, j) \in 1..(N + 1) /\ Below(p, k) \in 1..(N + 1) /\ Below(p, k) < Below(p, j) <=> k < j
    BY <1>1, <1>2
  <2>2. Below(p, j) <= Below(p, k) <=> j <= k
    BY <1>1, <1>2
  <2>3. Below(p, j) \in 1..Below(p, k) <=> j \in 1..k
    BY <1>1, <1>2, <2>2
  <2> QED
    BY <1>1, <2>3
<1>4. \A i \in U : \E j \in 1..N : i = Below(p, j)
  <2> SUFFICES ASSUME NEW i \in U PROVE \E j \in 1..N : i = Below(p, j)
    OBVIOUS
  <2>1. i \in 1..(N + 1)
    BY <1>1, <1>2
  <2>2. i # p + 1
    BY <1>1
  <2> QED
    BY <1>2, <2>1, <2>2
<1>5. R \subseteq 1..N
  BY <1>1
<1> HIDE DEF R, U
<1>6. U = {f[j] : j \in R}
  BY <1>3, <1>4, <1>5
<1>7. Grows(f, 1..N)
  BY <1>2 DEF Grows
<1>8. Carried(f, 1..N, R, U)
  <2> HIDE DEF f
  <2> QED
    BY <1>1, <1>5, <1>6, <1>7, FirstNumbers DEF Carried
<1> HIDE DEF f
<1>9. Cardinality(U) = Cardinality(R)
  BY <1>8, ImageCounts
<1> QED
  BY <1>9 DEF InFence, U, R

\* The file is one of the same words.
LEMMA InsertedText ==
  ASSUME NEW lines, NEW X, TextFile(lines, X), NEW after, NEW p, Inserted(lines, after, p)
  PROVE  TextFile(after, X) /\ Written(after, X) /\ Blanked(lines, after, p)
<1>1. /\ Len(lines) \in Nat /\ p \in 0..Len(lines)
      /\ Len(after) = Len(lines) + 1 /\ DOMAIN after = 1..(Len(lines) + 1)
      /\ after[p + 1] = BlankLine
      /\ \A k \in 1..Len(lines) : after[Below(p, k)] = lines[k]
  BY DEF Inserted
<1>2. \A k \in 1..Len(lines) : /\ lines[k].words \in Seq(X)
                               /\ lines[k].fence \in BOOLEAN /\ lines[k].hashes \in Nat
                               /\ IsText(lines[k].title)
                               /\ lines[k].hashes > 0 => lines[k].words # <<>>
  BY DEF TextFile, Written
<1>3. /\ BlankLine.words = <<>> /\ BlankLine.fence \in BOOLEAN /\ BlankLine.hashes = 0
      /\ BlankLine.words \in Seq(X) /\ IsText(BlankLine.title)
  BY EmptySeq DEF BlankLine, NoName, IsText
<1>4. ASSUME NEW j \in 1..(Len(lines) + 1)
      PROVE  /\ after[j].words \in Seq(X)
             /\ after[j].fence \in BOOLEAN /\ after[j].hashes \in Nat
             /\ IsText(after[j].title)
             /\ after[j].hashes > 0 => after[j].words # <<>>
  <2>1. CASE j = p + 1
    <3>1. after[j] = BlankLine /\ ~(BlankLine.hashes > 0) /\ BlankLine.hashes \in Nat
      BY <1>1, <1>3, <2>1
    <3> QED
      BY <1>3, <3>1
  <2>2. CASE j # p + 1
    <3>1. PICK k \in 1..Len(lines) : j = Below(p, k)
      BY <1>1, <2>2, BelowGrows
    <3>2. after[j] = lines[k]
      BY <1>1, <3>1
    <3> QED
      BY <1>2, <3>2
  <2> QED
    BY <2>1, <2>2
<1>5. Written(after, X)
  BY <1>1, <1>4 DEF Written
<1>6. TextFile(after, X)
  BY <1>1, <1>4, <1>5 DEF TextFile
<1>7. Blanked(lines, after, p)
  BY <1>1, <1>3 DEF Blanked
<1> QED
  BY <1>5, <1>6, <1>7

\* Its nodes move down as one.
LEMMA OpeningsMove ==
  ASSUME NEW lines, NEW X, TextFile(lines, X), NEW after, NEW p, Inserted(lines, after, p),
         NEW opens, opens = TextOpenings(lines), NEW other, other = TextOpenings(after),
         NEW f, f = [m \in DOMAIN opens |-> Below(p, m)]
  PROVE  Moved(opens, other, f)
<1> DEFINE N == Len(lines)
<1>1. /\ N \in Nat /\ p \in 0..N /\ DOMAIN lines = 1..N /\ DOMAIN after = 1..(N + 1)
      /\ after[p + 1] = BlankLine
      /\ \A k \in 1..N : after[Below(p, k)] = lines[k]
  BY DEF Inserted
<1>2. /\ \A j \in 1..N : Below(p, j) \in 1..(N + 1) /\ Below(p, j) # p + 1
      /\ \A i, j \in 1..N : Below(p, i) < Below(p, j) <=> i < j
      /\ \A j \in 1..(N + 1) : j = p + 1 \/ \E i \in 1..N : j = Below(p, i)
  BY <1>1, BelowGrows
<1>3. \A k \in 1..N : InFence(after, Below(p, k)) <=> InFence(lines, k)
  BY FencesMove
<1>4. /\ DOMAIN opens = {m \in 1..N : lines[m].hashes > 0 /\ lines[m].title # NoName /\ ~InFence(lines, m)}
      /\ DOMAIN other = {m \in 1..(N + 1) : after[m].hashes > 0 /\ after[m].title # NoName
                                           /\ ~InFence(after, m)}
  BY <1>1 DEF TextOpenings
<1>a. /\ \A m \in DOMAIN opens : opens[m] = [level |-> lines[m].hashes, name |-> lines[m].title]
      /\ \A m \in DOMAIN other : other[m] = [level |-> after[m].hashes, name |-> after[m].title]
  BY <1>1 DEF TextOpenings
<1>5. p + 1 \notin DOMAIN other
  <2>1. ~(BlankLine.hashes > 0)
    BY DEF BlankLine
  <2> QED
    BY <1>1, <1>4, <2>1
<1>6. \A k \in 1..N : Below(p, k) \in DOMAIN other <=> k \in DOMAIN opens
  BY <1>1, <1>2, <1>3, <1>4
<1>7. \A m \in DOMAIN opens : m \in 1..N
  BY <1>4
<1>8. DOMAIN other = {f[m] : m \in DOMAIN opens}
  <2>1. \A j \in DOMAIN other : \E k \in 1..N : j = Below(p, k)
    BY <1>2, <1>4, <1>5
  <2> QED
    BY <1>6, <1>7, <2>1
<1>9. \A m \in DOMAIN opens : other[f[m]] = opens[m]
  <2> SUFFICES ASSUME NEW m \in DOMAIN opens PROVE other[f[m]] = opens[m]
    OBVIOUS
  <2>1. f[m] = Below(p, m) /\ f[m] \in DOMAIN other /\ after[f[m]] = lines[m]
    BY <1>1, <1>6, <1>7
  <2>2. opens[m] = [level |-> lines[m].hashes, name |-> lines[m].title]
    BY <1>a
  <2>3. other[f[m]] = [level |-> after[f[m]].hashes, name |-> after[f[m]].title]
    BY <1>a, <2>1
  <2> QED
    BY <2>1, <2>2, <2>3
<1>10. Grows(f, DOMAIN opens)
  <2>1. \A m \in DOMAIN opens : f[m] \in Int
    BY <1>2, <1>7
  <2>2. \A m, n \in DOMAIN opens : m < n => f[m] < f[n]
    BY <1>2, <1>7
  <2> QED
    BY <2>1, <2>2 DEF Grows
<1> QED
  BY <1>8, <1>9, <1>10 DEF Moved

\* A blank line leaves the words of every section as they are.
LEMMA SectionMoves ==
  ASSUME NEW lines, NEW X, TextFile(lines, X), NEW after, NEW p, Inserted(lines, after, p),
         NEW opens, opens = TextOpenings(lines), NEW other, other = TextOpenings(after),
         NEW f, f = [m \in DOMAIN opens |-> Below(p, m)], NEW n \in DOMAIN opens
  PROVE  Section(after, other, f[n]) = Section(lines, opens, n)
<1> DEFINE N == Len(lines)
           e == End(lines, opens, n)
           a == Below(p, n)
           b == Below(p, e + 1) - 1
<1>1. /\ N \in Nat /\ p \in 0..N /\ Len(after) = N + 1
      /\ Written(lines, X) /\ Written(after, X) /\ Blanked(lines, after, p)
      /\ Sectioned(lines, opens) /\ Sectioned(after, other)
  BY InsertedText, TextSectioned DEF Inserted, TextFile
<1>2. n \in 1..N /\ EndsAt(lines, opens, n, e)
  BY <1>1, LatestAtNode, EndWhere
<1>3. /\ e \in n..N /\ \A m \in DOMAIN opens : m \in 1..N /\ (n < m => e < m)
      /\ e = N \/ e + 1 \in DOMAIN opens
  BY <1>1, <1>2 DEF EndsAt, Sectioned
<1>4. /\ \A m \in DOMAIN opens : Below(p, m) \in DOMAIN other
      /\ \A i \in DOMAIN other : \E m \in DOMAIN opens : i = Below(p, m)
  <2>1. Moved(opens, other, f)
    BY OpeningsMove
  <2> QED
    BY <2>1 DEF Moved
<1> HIDE DEF N, e
<1>5. /\ a \in 1..(N + 1) /\ b \in a..(N + 1) /\ (e = N => b = N + 1) /\ b + 1 = Below(p, e + 1)
      /\ \A k \in 1..N : a <= Below(p, k) /\ Below(p, k) <= b <=> n <= k /\ k <= e
  BY <1>1, <1>2, <1>3 DEF Below
<1>6. ASSUME NEW i \in DOMAIN other, a < i
      PROVE  b < i
  <2>1. PICK m \in DOMAIN opens : i = Below(p, m)
    BY <1>4
  <2>2. n < m
    BY <1>1, <1>2, <1>3, <1>6, <2>1 DEF Below
  <2>3. e < m
    BY <1>3, <2>2
  <2> QED
    BY <1>1, <1>2, <1>3, <2>1, <2>3 DEF Below
<1> HIDE DEF a, b
<1>7. EndsAt(after, other, a, b)
  BY <1>1, <1>3, <1>4, <1>5, <1>6 DEF EndsAt
<1>8. End(after, other, a) = b
  BY <1>1, <1>5, <1>7, EndOnly
<1>9. Words(after, a, b) = Words(lines, n, e)
  BY <1>1, <1>5, WordsMove DEF N
<1> QED
  BY <1>8, <1>9 DEF Section, a, e

\* So no anchor of a line in a section of a unique path expires, nor one of none.
LEMMA BlankExpiresNothing ==
  ASSUME NEW lines, NEW X, TextFile(lines, X), NEW after, NEW p, Inserted(lines, after, p),
         NEW opens, opens = TextOpenings(lines),
         NEW span, span.lineStart \in 1..Len(lines), NEW stored, stored = Compute(lines, opens, span),
         Latest(opens, span.lineStart) \subseteq Unique(opens)
  PROVE  ~Expires(Resolve(stored, after, TextOpenings(after)))
<1> DEFINE other == TextOpenings(after)
           f == [m \in DOMAIN opens |-> Below(p, m)]
<1>1. Sectioned(lines, opens) /\ Moved(opens, other, f)
  BY TextSectioned, OpeningsMove
<1>2. CASE Latest(opens, span.lineStart) = {}
  <2>1. ~Anchored(stored)
    BY <1>1, <1>2, ComputeStores
  <2> QED
    BY <2>1 DEF Resolve, Classify, Expires
<1>3. CASE Latest(opens, span.lineStart) # {}
  <2>1. PICK n \in Latest(opens, span.lineStart) : n \in Unique(opens)
    BY <1>3
  <2>2. Section(after, other, f[n]) = Section(lines, opens, n)
    <3>1. n \in DOMAIN opens /\ other = TextOpenings(after) /\ f = [m \in DOMAIN opens |-> Below(p, m)]
      BY DEF Latest
    <3> HIDE DEF other, f
    <3> QED
      BY <3>1, SectionMoves
  <2> HIDE DEF other, f
  <2>3. Resolve(stored, after, other) =
            IF Section(lines, opens, n) = <<>> THEN "unanchored"
            ELSE IF Section(after, other, f[n]) # Section(lines, opens, n) THEN "semantic-change"
            ELSE "valid"
    BY <1>1, <2>1, TextNamed, LadderSays
  <2>4. Resolve(stored, after, other) \in {"unanchored", "valid"}
    BY <2>2, <2>3
  <2> QED
    BY <2>4 DEF Expires, other
<1> QED
  BY <1>2, <1>3

\* The anchor of a chunk is that of its first line.
LEMMA ChunkAnchors ==
  ASSUME NEW lines, NEW k \in DOMAIN ChunkFile(lines), NEW chunk, chunk = ChunkFile(lines)[k]
  PROVE  \E span : /\ span.lineStart = chunk.lineStart
                   /\ chunk.anchor = Compute(lines, TextOpenings(lines), span)
<1>1. \E s, e, h, t : chunk = [lineStart |-> s, lineEnd |-> e, heading |-> h,
                 anchor |-> Compute(lines, TextOpenings(lines),
                                [lineStart |-> s, lineEnd |-> e, byteHash |-> t])]
  BY DEF ChunkFile
<1>2. PICK s, e, h, t : chunk = [lineStart |-> s, lineEnd |-> e, heading |-> h,
                 anchor |-> Compute(lines, TextOpenings(lines),
                                [lineStart |-> s, lineEnd |-> e, byteHash |-> t])]
  BY <1>1
<1> DEFINE span == [lineStart |-> s, lineEnd |-> e, byteHash |-> t]
<1>3. span.lineStart = chunk.lineStart /\ chunk.anchor = Compute(lines, TextOpenings(lines), span)
  BY <1>2
<1> QED
  BY <1>3

\* Wherever the blank line is put into any of the documents.
LEMMA Formatting == Given => FormattingKeepsAnchors
<1> SUFFICES ASSUME Given, input.kind = "document",
                    NEW n \in 0..Len(input.case.lines),
                    NEW k \in DOMAIN ChunkFile(input.case.lines),
                    Enclosing(input.case.lines, TextOpenings(input.case.lines),
                              ChunkFile(input.case.lines)[k].lineStart)
                        \subseteq Unique(TextOpenings(input.case.lines))
             PROVE  LET after == InsertBlank(input.case.lines, n)
                    IN  ~Expires(Resolve(ChunkFile(input.case.lines)[k].anchor, after,
                                         TextOpenings(after)))
  BY DEF FormattingKeepsAnchors
<1> DEFINE x == input.case
           lines == x.lines
           opens == TextOpenings(lines)
           chunks == ChunkFile(lines)
           chunk == chunks[k]
           after == InsertBlank(lines, n)
           X == Vocabulary(ToSet(lines) \cup {x.edit})
<1>1. x \in Documents
  BY DEF Given
<1>2. n \in 0..Len(lines) /\ k \in DOMAIN chunks
      /\ Enclosing(lines, opens, chunk.lineStart) \subseteq Unique(opens)
  OBVIOUS
<1> HIDE DEF x
<1>3. TextFile(lines, X) /\ IsText(lines)
  BY <1>1, DocumentGiven, DecisionsAssumption
<1>4. /\ opens = TextOpenings(lines) /\ chunks = ChunkFile(lines) /\ chunk = chunks[k]
      /\ after = InsertBlank(lines, n)
  OBVIOUS
<1> HIDE DEF X, lines, opens, chunks, chunk, after
<1>5. Inserted(lines, after, n)
  BY <1>2, <1>3, <1>4, InsertInserts
<1>6. chunk.lineStart \in 1..Len(lines)
  <2>1. OneSection(lines, opens, chunks)
    BY <1>3, <1>4, ChunksHold
  <2> QED
    BY <1>2, <1>4, <2>1 DEF OneSection
<1>7. PICK span : span.lineStart = chunk.lineStart /\ chunk.anchor = Compute(lines, opens, span)
  <2>1. \E span : /\ span.lineStart = chunk.lineStart
                  /\ chunk.anchor = Compute(lines, TextOpenings(lines), span)
    BY <1>2, <1>4, ChunkAnchors
  <2> QED
    BY <1>4, <2>1
<1>8. Latest(opens, span.lineStart) \subseteq Unique(opens)
  <2>1. Sectioned(lines, opens)
    BY <1>3, <1>4, TextSectioned
  <2> QED
    BY <1>2, <1>6, <1>7, <2>1, EnclosingLatest
<1> DEFINE stored == chunk.anchor
<1>9. stored = Compute(lines, opens, span) /\ span.lineStart \in 1..Len(lines)
  BY <1>6, <1>7
<1> HIDE DEF stored
<1>10. ~Expires(Resolve(stored, after, TextOpenings(after)))
  BY <1>3, <1>4, <1>5, <1>8, <1>9, BlankExpiresNothing
<1> QED
  BY <1>10 DEF stored, chunk, chunks, lines, after, x

\* A blank line, wherever it is put in, expires no anchor of a chunk whose section
\* has a path of its own (anchor/text.go Resolve, seed/chunk.go).
THEOREM FormattingKeeps == Spec => []FormattingKeepsAnchors
<1> QED
  BY AlwaysGiven, Formatting, PTL

-----------------------------------------------------------------------------
(* Normalizing *)

\* The characters of a text are those at its places.
LEMMA TextPlaces ==
  ASSUME NEW s, IsText(s)
  PROVE  /\ Len(s) \in Nat /\ DOMAIN s = 1..Len(s)
         /\ \A k \in 1..Len(s) : s[k] \in ToSet(s)
BY LenProperties DEF IsText, ToSet

\* Short texts.
LEMMA ShortTexts ==
  /\ IsText(<<>>) /\ ToSet(<<>>) = {} /\ Len(<<>>) = 0
  /\ \A r : IsText(<<r>>) /\ ToSet(<<r>>) = {r} /\ Len(<<r>>) = 1 /\ <<r>>[1] = r
<1>1. IsText(<<>>) /\ ToSet(<<>>) = {} /\ Len(<<>>) = 0
  BY EmptySeq DEF IsText, ToSet
<1>2. ASSUME NEW r
      PROVE  IsText(<<r>>) /\ ToSet(<<r>>) = {r} /\ Len(<<r>>) = 1 /\ <<r>>[1] = r
  <2>1. <<r>> \in Seq({r}) /\ Len(<<r>>) = 1 /\ DOMAIN <<r>> = 1..1 /\ <<r>>[1] = r
    OBVIOUS
  <2>2. ToSet(<<r>>) = {r}
    <3>1. \A k \in 1..1 : k = 1
      OBVIOUS
    <3> QED
      BY <2>1, <3>1 DEF ToSet
  <2> QED
    BY <2>1, <2>2 DEF IsText
<1> QED
  BY <1>1, <1>2

\* Texts of three characters.
LEMMA PaddedTexts ==
  ASSUME NEW a, NEW r, NEW b
  PROVE  /\ IsText(<<a, r, b>>) /\ ToSet(<<a, r, b>>) = {a, r, b}
         /\ Len(<<a, r, b>>) = 3
         /\ <<a, r, b>>[1] = a /\ <<a, r, b>>[2] = r /\ <<a, r, b>>[3] = b
<1> DEFINE t == <<a, r, b>>
<1>1. t \in Seq({a, r, b}) /\ Len(t) = 3 /\ DOMAIN t = 1..3 /\ t[1] = a /\ t[2] = r /\ t[3] = b
  OBVIOUS
<1>2. \A k : k \in 1..3 <=> k = 1 \/ k = 2 \/ k = 3
  OBVIOUS
<1> HIDE DEF t
<1>3. ToSet(t) = {a, r, b}
  BY <1>1, <1>2 DEF ToSet
<1>4. IsText(t)
  BY <1>1, <1>3 DEF IsText
<1> QED
  BY <1>1, <1>3, <1>4 DEF t

\* One text for every character of s.
Spreads(ss, s) ==
    /\ IsText(s) /\ ss = [k \in DOMAIN s |-> ss[k]]
    /\ \A k \in DOMAIN s : IsText(ss[k])

\* The texts are all of one alphabet.
LEMMA SpreadTyped ==
  ASSUME NEW s, NEW ss, Spreads(ss, s)
  PROVE  \E X : Len(s) \in Nat /\ DOMAIN s = 1..Len(s) /\ ss \in [1..Len(s) -> Seq(X)]
<1> DEFINE X == UNION {ToSet(ss[k]) : k \in DOMAIN s}
<1>1. Len(s) \in Nat /\ DOMAIN s = 1..Len(s)
  BY TextPlaces DEF Spreads
<1>2. ASSUME NEW k \in DOMAIN s
      PROVE  ss[k] \in Seq(X)
  <2>1. ss[k] \in Seq(ToSet(ss[k]))
    BY DEF Spreads, IsText
  <2>2. ToSet(ss[k]) \subseteq X
    OBVIOUS
  <2> HIDE DEF X
  <2> QED
    BY <2>1, <2>2, SeqMonotonic
<1>3. ss = [k \in DOMAIN s |-> ss[k]]
  BY DEF Spreads
<1> HIDE DEF X
<1>4. ss \in [DOMAIN s -> Seq(X)]
  BY <1>2, <1>3
<1> QED
  BY <1>1, <1>4

\* What no character turns into is not in the text they turn into.
LEMMA SpreadAvoids ==
  ASSUME NEW s, NEW ss, Spreads(ss, s), NEW bad,
         \A k \in DOMAIN s : ToSet(ss[k]) \cap bad = {}
  PROVE  IsText(FlattenSeq(ss)) /\ ToSet(FlattenSeq(ss)) \cap bad = {}
<1>1. PICK X : Len(s) \in Nat /\ DOMAIN s = 1..Len(s) /\ ss \in [1..Len(s) -> Seq(X)]
  BY SpreadTyped
<1>2. FlattenSeq(ss) \in Seq(X)
  BY <1>1, FlatLaid
<1>3. \A p \in DOMAIN FlattenSeq(ss) :
         \E k \in 1..Len(s) : \E j \in DOMAIN ss[k] : FlattenSeq(ss)[p] = ss[k][j]
  BY <1>1, FlatElements
<1>4. ASSUME NEW r \in ToSet(FlattenSeq(ss)) \cap bad
      PROVE  FALSE
  <2>1. PICK p \in DOMAIN FlattenSeq(ss) : r = FlattenSeq(ss)[p]
    BY DEF ToSet
  <2>2. PICK k \in 1..Len(s) : \E j \in DOMAIN ss[k] : r = ss[k][j]
    BY <1>3, <2>1
  <2>3. r \in ToSet(ss[k])
    BY <2>2 DEF ToSet
  <2> QED
    BY <1>1, <2>3
<1> QED
  BY <1>2, <1>4, TextOf

\* Every ideograph stands between blanks, or where the text begins or ends.
Flanked(s) ==
    \A p \in DOMAIN s : s[p] \in cjkRanges =>
        /\ p = 1 \/ s[p - 1] = Space
        /\ p = Len(s) \/ s[p + 1] = Space

\* What leaves blanks and ideographs where they are and makes no more of these.
LEMMA SpreadFlanked ==
  ASSUME NEW s, NEW ss, Spreads(ss, s), Flanked(s),
         \A k \in DOMAIN s :
            /\ s[k] = Space => ss[k] = <<Space>>
            /\ s[k] \in cjkRanges => Len(ss[k]) = 1
            /\ s[k] \notin cjkRanges => ToSet(ss[k]) \cap cjkRanges = {}
  PROVE  Flanked(FlattenSeq(ss))
<1> DEFINE n == Len(s)
           t == FlattenSeq(ss)
<1>1. PICK X : n \in Nat /\ DOMAIN s = 1..n /\ ss \in [1..n -> Seq(X)]
  BY SpreadTyped
<1>2. t \in Seq(X)
  BY <1>1, FlatLaid
<1>3. PICK o : Laid(o, n, ss, t)
  BY <1>1, FlatLaid
<1> HIDE DEF n, t
<1>4. /\ o \in [0..n -> Nat] /\ o[0] = 0 /\ Len(t) = o[n]
      /\ \A k \in 1..n : /\ o[k] = o[k - 1] + Len(ss[k]) /\ o[k] <= o[n]
                         /\ \A j \in 1..Len(ss[k]) : t[o[k - 1] + j] = ss[k][j]
      /\ \A p \in 1..o[n] : \E k \in 1..n : o[k - 1] < p /\ p <= o[k]
  BY <1>3 DEF Laid
<1>5. \A k \in 0..n : o[k] \in Nat
  BY <1>4
<1>6. ASSUME NEW k \in 1..n, s[k] = Space
      PROVE  o[k] = o[k - 1] + 1 /\ t[o[k]] = Space
  <2>1. ss[k] = <<Space>> /\ Len(<<Space>>) = 1 /\ <<Space>>[1] = Space
    BY <1>1, <1>6, ShortTexts
  <2>2. 1 \in 1..Len(ss[k])
    BY <2>1
  <2>3. o[k] = o[k - 1] + Len(ss[k]) /\ t[o[k - 1] + 1] = ss[k][1]
    BY <1>4, <2>2
  <2> QED
    BY <2>1, <2>3
<1>7. ASSUME NEW p \in DOMAIN t, t[p] \in cjkRanges
      PROVE  (p = 1 \/ t[p - 1] = Space) /\ (p = Len(t) \/ t[p + 1] = Space)
  <2>1. n \in 0..n /\ o[n] \in Nat /\ p \in 1..o[n] /\ p \in Nat
    <3>1. n \in 0..n
      BY <1>1
    <3>2. p \in 1..Len(t)
      BY <1>2, LenProperties
    <3> QED
      BY <1>4, <1>5, <3>1, <3>2
  <2>2. PICK k \in 1..n : o[k - 1] < p /\ p <= o[k]
    BY <1>4, <2>1
  <2>3. k - 1 \in 0..n /\ k \in 0..n /\ o[k - 1] \in Nat /\ o[k] \in Nat
        /\ o[k] = o[k - 1] + Len(ss[k])
    <3>1. k - 1 \in 0..n /\ k \in 0..n
      BY <1>1
    <3> QED
      BY <1>4, <1>5, <3>1
  <2> DEFINE j == p - o[k - 1]
  <2>4. /\ ss[k] \in Seq(X) /\ Len(ss[k]) \in Nat /\ DOMAIN ss[k] = 1..Len(ss[k])
    BY <1>1, LenProperties
  <2>5. j \in 1..Len(ss[k]) /\ o[k - 1] + j = p
    BY <2>1, <2>2, <2>3, <2>4
  <2>6. ss[k][j] \in cjkRanges
    <3> HIDE DEF j
    <3>1. t[o[k - 1] + j] = ss[k][j]
      BY <1>4, <2>5
    <3> QED
      BY <1>7, <2>5, <3>1
  <2>7. s[k] \in cjkRanges
    <3>1. ss[k][j] \in ToSet(ss[k])
      BY <2>4, <2>5 DEF ToSet
    <3> QED
      BY <1>1, <2>6, <3>1
  <2>8. Len(ss[k]) = 1
    BY <1>1, <2>7
  <2>9. p = o[k - 1] + 1 /\ o[k] = p
    BY <2>3, <2>5, <2>8
  <2>10. (k = 1 \/ s[k - 1] = Space) /\ (k = n \/ s[k + 1] = Space)
    BY <1>1, <2>7 DEF Flanked, n
  <2>11. p = 1 \/ t[p - 1] = Space
    <3>1. CASE k = 1
      <4>1. o[k - 1] = 0
        BY <1>4, <3>1
      <4> QED
        BY <2>9, <4>1
    <3>2. CASE k # 1
      <4>1. k - 1 \in 1..n /\ s[k - 1] = Space
        BY <1>1, <2>10, <3>2
      <4>2. t[o[k - 1]] = Space
        BY <1>6, <4>1
      <4>3. p - 1 = o[k - 1]
        BY <2>3, <2>9
      <4> QED
        BY <4>2, <4>3
    <3> QED
      BY <3>1, <3>2
  <2>12. p = Len(t) \/ t[p + 1] = Space
    <3>1. CASE k = n
      BY <1>4, <2>9, <3>1
    <3>2. CASE k # n
      <4>1. k + 1 \in 1..n /\ s[k + 1] = Space /\ (k + 1) - 1 = k
        BY <1>1, <2>10, <3>2
      <4>2. o[k + 1] = o[(k + 1) - 1] + 1 /\ t[o[k + 1]] = Space
        BY <1>6, <4>1
      <4>3. o[k + 1] = p + 1
        BY <2>9, <4>1, <4>2
      <4> QED
        BY <4>2, <4>3
    <3> QED
      BY <3>1, <3>2
  <2> QED
    BY <2>11, <2>12
<1>8. Flanked(t)
  BY <1>7 DEF Flanked
<1> QED
  BY <1>8 DEF t

\* What the stages leave.
Clean(s) ==
    IsText(s) /\ ToSet(s) \cap (controlRanges \cup (whitespaceRanges \ {Space})) = {}
Decomposed(s) ==
    IsText(s) /\ Flanked(s) /\ ToSet(s) \cap (controlRanges \cup DOMAIN NFD) = {}
Stripped(s) ==
    IsText(s) /\ Flanked(s)
    /\ ToSet(s) \cap (controlRanges \cup DOMAIN NFD \cup nonspacingMarkRanges) = {}
Normal(s) ==
    IsText(s) /\ Flanked(s)
    /\ ToSet(s) \cap (controlRanges \cup nonspacingMarkRanges \cup DOMAIN lowerMap) = {}

\* cleanText leaves no control character and no white space but the blank.
LEMMA CleanTextCleans ==
  ASSUME NEW s, IsText(s)
  PROVE  Clean(cleanText(s))
<1> DEFINE turned(r) == IF r \in controlRanges THEN <<>>
                        ELSE IF r \in whitespaceRanges THEN <<Space>> ELSE <<r>>
           ss == [k \in DOMAIN s |-> turned(s[k])]
           bad == controlRanges \cup (whitespaceRanges \ {Space})
<1>1. cleanText(s) = FlattenSeq(ss)
  BY DEF cleanText, Map
<1>2. ASSUME NEW r
      PROVE  IsText(turned(r)) /\ ToSet(turned(r)) \cap bad = {}
  <2>1. Space \notin bad
    BY TablesAssumption
  <2>2. CASE r \in controlRanges
    BY <2>2, ShortTexts
  <2>3. CASE r \notin controlRanges /\ r \in whitespaceRanges
    <3>1. turned(r) = <<Space>>
      BY <2>3
    <3> HIDE DEF turned, bad
    <3> QED
      BY <2>1, <3>1, ShortTexts
  <2>4. CASE r \notin controlRanges /\ r \notin whitespaceRanges
    <3>1. turned(r) = <<r>> /\ r \notin bad
      BY <2>4
    <3> HIDE DEF turned, bad
    <3> QED
      BY <3>1, ShortTexts
  <2> QED
    BY <2>2, <2>3, <2>4
<1>3. \A k \in DOMAIN s : ss[k] = turned(s[k])
  OBVIOUS
<1>4. ss = [k \in DOMAIN s |-> ss[k]]
  OBVIOUS
<1> HIDE DEF ss, turned, bad
<1>5. Spreads(ss, s) /\ \A k \in DOMAIN s : ToSet(ss[k]) \cap bad = {}
  BY <1>2, <1>3, <1>4 DEF Spreads
<1>6. IsText(FlattenSeq(ss)) /\ ToSet(FlattenSeq(ss)) \cap bad = {}
  BY <1>5, SpreadAvoids
<1> QED
  BY <1>1, <1>6 DEF Clean, bad

\* padCJK puts every ideograph between blanks.
LEMMA PadCJKFlanks ==
  ASSUME NEW s, Clean(s)
  PROVE  Clean(padCJK(s)) /\ Flanked(padCJK(s))
<1> DEFINE turned(r) == IF r \in cjkRanges THEN <<Space, r, Space>> ELSE <<r>>
           ss == [k \in DOMAIN s |-> turned(s[k])]
           bad == controlRanges \cup (whitespaceRanges \ {Space})
           t == FlattenSeq(ss)
           n == Len(s)
<1>1. padCJK(s) = t
  BY DEF padCJK, Map
<1>2. \A r : IsText(turned(r)) /\ ToSet(turned(r)) \subseteq {Space, r}
  <2> SUFFICES ASSUME NEW r PROVE IsText(turned(r)) /\ ToSet(turned(r)) \subseteq {Space, r}
    OBVIOUS
  <2> QED
    BY ShortTexts, PaddedTexts
<1>3. \A k \in DOMAIN s : ss[k] = turned(s[k])
  OBVIOUS
<1>4. ss = [k \in DOMAIN s |-> ss[k]]
  OBVIOUS
<1>5. \A r : /\ r \in cjkRanges => turned(r) = <<Space, r, Space>>
             /\ r \notin cjkRanges => turned(r) = <<r>>
  OBVIOUS
<1> HIDE DEF ss, turned
<1>6. Spreads(ss, s)
  BY <1>2, <1>3, <1>4 DEF Spreads, Clean
<1>7. IsText(t) /\ ToSet(t) \cap bad = {}
  <2>1. \A k \in DOMAIN s : s[k] \notin bad /\ Space \notin bad
    BY TablesAssumption DEF Clean, ToSet
  <2>2. \A k \in DOMAIN s : ToSet(ss[k]) \cap bad = {}
    BY <1>2, <1>3, <2>1
  <2> HIDE DEF bad
  <2> QED
    BY <1>6, <2>2, SpreadAvoids
<1>8. PICK X : n \in Nat /\ DOMAIN s = 1..n /\ ss \in [1..n -> Seq(X)]
  BY <1>6, SpreadTyped
<1>9. PICK o : Laid(o, n, ss, t)
  BY <1>8, FlatLaid
<1>10. t \in Seq(X)
  BY <1>8, FlatLaid
<1> HIDE DEF t, n
<1>11. /\ o \in [0..n -> Nat] /\ o[0] = 0 /\ Len(t) = o[n]
       /\ \A k \in 1..n : /\ o[k] = o[k - 1] + Len(ss[k]) /\ o[k] <= o[n]
                          /\ \A j \in 1..Len(ss[k]) : t[o[k - 1] + j] = ss[k][j]
       /\ \A p \in 1..o[n] : \E k \in 1..n : o[k - 1] < p /\ p <= o[k]
  BY <1>9 DEF Laid
<1>12. ASSUME NEW p \in DOMAIN t, t[p] \in cjkRanges
       PROVE  (p = 1 \/ t[p - 1] = Space) /\ (p = Len(t) \/ t[p + 1] = Space)
  <2>1. n \in 0..n /\ p \in 1..o[n] /\ p \in Nat
    <3>1. n \in 0..n
      BY <1>8
    <3>2. p \in 1..Len(t)
      BY <1>10, LenProperties
    <3> QED
      BY <1>11, <3>1, <3>2
  <2>2. PICK k \in 1..n : o[k - 1] < p /\ p <= o[k]
    BY <1>11, <2>1
  <2>3. o[k - 1] \in Nat /\ o[k] = o[k - 1] + Len(ss[k])
    <3>1. k - 1 \in 0..n
      BY <1>8
    <3> QED
      BY <1>11, <3>1
  <2>4. \A j \in 1..Len(ss[k]) : t[o[k - 1] + j] = ss[k][j]
    BY <1>11
  <2>5. ss[k] = turned(s[k])
    BY <1>3, <1>8
  <2>6. CASE s[k] \in cjkRanges
    <3>1. /\ ss[k] = <<Space, s[k], Space>> /\ Len(ss[k]) = 3
          /\ ss[k][1] = Space /\ ss[k][2] = s[k] /\ ss[k][3] = Space
      BY <1>5, <2>5, <2>6, PaddedTexts
    <3>2. t[o[k - 1] + 1] = Space /\ t[o[k - 1] + 3] = Space
      BY <2>4, <3>1
    <3>3. p = o[k - 1] + 1 \/ p = o[k - 1] + 2 \/ p = o[k - 1] + 3
      BY <2>1, <2>2, <2>3, <3>1
    <3>4. p = o[k - 1] + 2
      BY <1>12, <3>2, <3>3, TablesAssumption
    <3>5. p - 1 = o[k - 1] + 1 /\ p + 1 = o[k - 1] + 3
      BY <2>3, <3>4
    <3> QED
      BY <3>2, <3>5
  <2>7. CASE s[k] \notin cjkRanges
    <3>1. ss[k] = <<s[k]>> /\ Len(ss[k]) = 1 /\ ss[k][1] = s[k]
      BY <1>5, <2>5, <2>7, ShortTexts
    <3>2. t[o[k - 1] + 1] = s[k]
      BY <2>4, <3>1
    <3>3. p = o[k - 1] + 1
      BY <2>1, <2>2, <2>3, <3>1
    <3> QED
      BY <1>12, <2>7, <3>2, <3>3
  <2> QED
    BY <2>6, <2>7
<1>13. Flanked(t)
  BY <1>12 DEF Flanked
<1>14. Clean(t)
  BY <1>7 DEF Clean
<1> QED
  BY <1>1, <1>13, <1>14

\* Decomposition (the NFD of normalize) leaves them there and leaves nothing to
\* decompose.
LEMMA DecomposingKeeps ==
  ASSUME NEW s, Clean(s), Flanked(s)
  PROVE  Decomposed(Map(s, LAMBDA r : IF r \in DOMAIN NFD THEN NFD[r] ELSE <<r>>))
<1> DEFINE turned(r) == IF r \in DOMAIN NFD THEN NFD[r] ELSE <<r>>
           ss == [k \in DOMAIN s |-> turned(s[k])]
           bad == controlRanges \cup DOMAIN NFD
<1>1. Map(s, LAMBDA r : IF r \in DOMAIN NFD THEN NFD[r] ELSE <<r>>) = FlattenSeq(ss)
  BY DEF Map
<1>2. ASSUME NEW r, r \notin controlRanges, r \notin whitespaceRanges \ {Space}
      PROVE  /\ IsText(turned(r)) /\ ToSet(turned(r)) \cap bad = {}
             /\ r = Space => turned(r) = <<Space>>
             /\ r \in cjkRanges => Len(turned(r)) = 1
             /\ r \notin cjkRanges => ToSet(turned(r)) \cap cjkRanges = {}
  <2>1. CASE r \in DOMAIN NFD
    <3>1. r # Space /\ r \in DOMAIN NFD \ whitespaceRanges
      BY <1>2, <2>1, TablesAssumption
    <3>2. turned(r) = NFD[r]
      BY <2>1
    <3>3. /\ NFD[r] \in Seq(ToSet(NFD[r]))
          /\ ToSet(NFD[r]) \cap (controlRanges \cup DOMAIN NFD) = {}
          /\ IF r \in cjkRanges THEN Len(NFD[r]) = 1 ELSE ToSet(NFD[r]) \cap cjkRanges = {}
      BY <3>1, TablesAssumption
    <3> HIDE DEF turned
    <3> QED
      BY <3>1, <3>2, <3>3 DEF IsText
  <2>2. CASE r \notin DOMAIN NFD
    <3>1. turned(r) = <<r>>
      BY <2>2
    <3> HIDE DEF turned
    <3>2. IsText(<<r>>) /\ ToSet(<<r>>) = {r} /\ Len(<<r>>) = 1
      BY ShortTexts
    <3> QED
      BY <1>2, <2>2, <3>1, <3>2
  <2> QED
    BY <2>1, <2>2
<1>3. \A k \in DOMAIN s : /\ s[k] \notin controlRanges /\ s[k] \notin whitespaceRanges \ {Space}
                          /\ ss[k] = turned(s[k])
  BY DEF Clean, ToSet
<1>4. ss = [k \in DOMAIN s |-> ss[k]]
  OBVIOUS
<1> HIDE DEF ss, turned, bad
<1>5. Spreads(ss, s) /\ \A k \in DOMAIN s : ToSet(ss[k]) \cap bad = {}
  BY <1>2, <1>3, <1>4 DEF Spreads, Clean
<1>6. IsText(FlattenSeq(ss)) /\ ToSet(FlattenSeq(ss)) \cap bad = {}
  BY <1>5, SpreadAvoids
<1>7. \A k \in DOMAIN s :
         /\ s[k] = Space => ss[k] = <<Space>>
         /\ s[k] \in cjkRanges => Len(ss[k]) = 1
         /\ s[k] \notin cjkRanges => ToSet(ss[k]) \cap cjkRanges = {}
  BY <1>2, <1>3
<1>8. Flanked(FlattenSeq(ss))
  BY <1>5, <1>7, SpreadFlanked
<1>9. Decomposed(FlattenSeq(ss))
  BY <1>6, <1>8 DEF Decomposed, bad
<1> QED
  BY <1>1, <1>9

\* Dropping the marks does too.
LEMMA StrippingKeeps ==
  ASSUME NEW s, Decomposed(s)
  PROVE  Stripped(Map(s, LAMBDA r : IF r \in nonspacingMarkRanges THEN <<>> ELSE <<r>>))
<1> DEFINE turned(r) == IF r \in nonspacingMarkRanges THEN <<>> ELSE <<r>>
           ss == [k \in DOMAIN s |-> turned(s[k])]
           bad == controlRanges \cup DOMAIN NFD \cup nonspacingMarkRanges
<1>1. Map(s, LAMBDA r : IF r \in nonspacingMarkRanges THEN <<>> ELSE <<r>>) = FlattenSeq(ss)
  BY DEF Map
<1>2. ASSUME NEW r, r \notin controlRanges, r \notin DOMAIN NFD
      PROVE  /\ IsText(turned(r)) /\ ToSet(turned(r)) \cap bad = {}
             /\ r = Space => turned(r) = <<Space>>
             /\ r \in cjkRanges => Len(turned(r)) = 1
             /\ r \notin cjkRanges => ToSet(turned(r)) \cap cjkRanges = {}
  <2>1. CASE r \in nonspacingMarkRanges
    <3>1. turned(r) = <<>>
      BY <2>1
    <3>2. r # Space /\ r \notin cjkRanges
      BY <2>1, TablesAssumption
    <3> HIDE DEF turned
    <3> QED
      BY <3>1, <3>2, ShortTexts
  <2>2. CASE r \notin nonspacingMarkRanges
    <3>1. turned(r) = <<r>>
      BY <2>2
    <3> HIDE DEF turned
    <3>2. IsText(<<r>>) /\ ToSet(<<r>>) = {r} /\ Len(<<r>>) = 1
      BY ShortTexts
    <3> QED
      BY <1>2, <2>2, <3>1, <3>2
  <2> QED
    BY <2>1, <2>2
<1>3. \A k \in DOMAIN s : /\ s[k] \notin controlRanges /\ s[k] \notin DOMAIN NFD
                          /\ ss[k] = turned(s[k])
  BY DEF Decomposed, ToSet
<1>4. ss = [k \in DOMAIN s |-> ss[k]]
  OBVIOUS
<1> HIDE DEF ss, turned, bad
<1>5. Spreads(ss, s) /\ \A k \in DOMAIN s : ToSet(ss[k]) \cap bad = {}
  BY <1>2, <1>3, <1>4 DEF Spreads, Decomposed
<1>6. IsText(FlattenSeq(ss)) /\ ToSet(FlattenSeq(ss)) \cap bad = {}
  BY <1>5, SpreadAvoids
<1>7. \A k \in DOMAIN s :
         /\ s[k] = Space => ss[k] = <<Space>>
         /\ s[k] \in cjkRanges => Len(ss[k]) = 1
         /\ s[k] \notin cjkRanges => ToSet(ss[k]) \cap cjkRanges = {}
  BY <1>2, <1>3
<1>8. Flanked(FlattenSeq(ss))
  BY <1>5, <1>7, SpreadFlanked DEF Decomposed
<1>9. Stripped(FlattenSeq(ss))
  BY <1>6, <1>8 DEF Stripped, bad
<1> QED
  BY <1>1, <1>9

\* So does lowercase, which leaves nothing to lower.
LEMMA LowercaseKeeps ==
  ASSUME NEW s, Stripped(s)
  PROVE  Normal(lowercase(s))
<1> DEFINE turned(r) == IF r \in DOMAIN lowerMap THEN lowerMap[r] ELSE <<r>>
           ss == [k \in DOMAIN s |-> turned(s[k])]
           bad == controlRanges \cup nonspacingMarkRanges \cup DOMAIN lowerMap
<1>1. lowercase(s) = FlattenSeq(ss)
  BY DEF lowercase, Map
<1>2. ASSUME NEW r, r \notin controlRanges, r \notin DOMAIN NFD, r \notin nonspacingMarkRanges
      PROVE  /\ IsText(turned(r)) /\ ToSet(turned(r)) \cap bad = {}
             /\ r = Space => turned(r) = <<Space>>
             /\ r \in cjkRanges => Len(turned(r)) = 1
             /\ r \notin cjkRanges => ToSet(turned(r)) \cap cjkRanges = {}
  <2>1. CASE r \in DOMAIN lowerMap
    <3>1. r # Space /\ r \in DOMAIN lowerMap \ DOMAIN NFD /\ r \notin cjkRanges
      BY <1>2, <2>1, TablesAssumption
    <3>2. turned(r) = lowerMap[r]
      BY <2>1
    <3>3. /\ lowerMap[r] \in Seq(ToSet(lowerMap[r]))
          /\ ToSet(lowerMap[r]) \cap (controlRanges \cup nonspacingMarkRanges
                                         \cup cjkRanges \cup DOMAIN lowerMap) = {}
      BY <3>1, TablesAssumption
    <3> HIDE DEF turned
    <3> QED
      BY <3>1, <3>2, <3>3 DEF IsText
  <2>2. CASE r \notin DOMAIN lowerMap
    <3>1. turned(r) = <<r>>
      BY <2>2
    <3> HIDE DEF turned
    <3>2. IsText(<<r>>) /\ ToSet(<<r>>) = {r} /\ Len(<<r>>) = 1
      BY ShortTexts
    <3> QED
      BY <1>2, <2>2, <3>1, <3>2
  <2> QED
    BY <2>1, <2>2
<1>3. \A k \in DOMAIN s : /\ s[k] \notin controlRanges /\ s[k] \notin DOMAIN NFD
                          /\ s[k] \notin nonspacingMarkRanges /\ ss[k] = turned(s[k])
  BY DEF Stripped, ToSet
<1>4. ss = [k \in DOMAIN s |-> ss[k]]
  OBVIOUS
<1> HIDE DEF ss, turned, bad
<1>5. Spreads(ss, s) /\ \A k \in DOMAIN s : ToSet(ss[k]) \cap bad = {}
  BY <1>2, <1>3, <1>4 DEF Spreads, Stripped
<1>6. IsText(FlattenSeq(ss)) /\ ToSet(FlattenSeq(ss)) \cap bad = {}
  BY <1>5, SpreadAvoids
<1>7. \A k \in DOMAIN s :
         /\ s[k] = Space => ss[k] = <<Space>>
         /\ s[k] \in cjkRanges => Len(ss[k]) = 1
         /\ s[k] \notin cjkRanges => ToSet(ss[k]) \cap cjkRanges = {}
  BY <1>2, <1>3
<1>8. Flanked(FlattenSeq(ss))
  BY <1>5, <1>7, SpreadFlanked DEF Stripped
<1>9. Normal(FlattenSeq(ss))
  BY <1>6, <1>8 DEF Normal, bad
<1> QED
  BY <1>1, <1>9

\* What the words are made of has been through all the stages.
LEMMA NormalizeNormal ==
  ASSUME NEW s, IsText(s)
  PROVE  Normal(normalize(s))
<1>1. Clean(padCJK(cleanText(s))) /\ Flanked(padCJK(cleanText(s)))
  BY CleanTextCleans, PadCJKFlanks
<1>2. Stripped(stripAccents(padCJK(cleanText(s))))
  BY <1>1, DecomposingKeeps, StrippingKeeps DEF stripAccents
<1> QED
  BY <1>2, LowercaseKeeps DEF normalize

-----------------------------------------------------------------------------
(* Splitting into words *)

\* A punctuation character or a stretch without one, free of white space.
WordOf(w, s) ==
    \E a, b \in 1..Len(s) :
        /\ a <= b /\ w = SubSeq(s, a, b)
        /\ \A i \in a..b : s[i] \notin whitespaceRanges
        /\ a = b \/ \A i \in a..b : s[i] \notin punctRanges

\* What the loop over the characters does.
Flushed(acc) == IF acc.cur = <<>> THEN acc.words ELSE Append(acc.words, acc.cur)
Read(acc, r) ==
    IF r \in whitespaceRanges THEN [words |-> Flushed(acc), cur |-> <<>>]
    ELSE IF r \in punctRanges THEN [words |-> Append(Flushed(acc), <<r>>), cur |-> <<>>]
    ELSE [acc EXCEPT !.cur = Append(@, r)]

\* The words read so far and the one begun.
Reading(X) == [words : Seq(Seq(X)), cur : Seq(X)]

\* The word begun at character k, and the words before it.
Begun(acc, s, k) ==
    /\ \A w \in ToSet(acc.words) : WordOf(w, s)
    /\ \E a \in 1..(k + 1) :
          /\ acc.cur = SubSeq(s, a, k)
          /\ \A i \in a..k : s[i] \notin whitespaceRanges \cup punctRanges

\* One character read keeps the types.
LEMMA ReadTyped ==
  ASSUME NEW X, NEW acc \in Reading(X), NEW r \in X
  PROVE  Flushed(acc) \in Seq(Seq(X)) /\ Read(acc, r) \in Reading(X)
<1>1. acc.words \in Seq(Seq(X)) /\ acc.cur \in Seq(X)
  BY DEF Reading
<1>2. Flushed(acc) \in Seq(Seq(X))
  BY <1>1, AppendProperties DEF Flushed
<1>3. <<>> \in Seq(X) /\ <<r>> \in Seq(X)
  OBVIOUS
<1>4. CASE r \in whitespaceRanges
  BY <1>2, <1>3, <1>4 DEF Read, Reading
<1>5. CASE r \notin whitespaceRanges /\ r \in punctRanges
  <2>1. Append(Flushed(acc), <<r>>) \in Seq(Seq(X))
    BY <1>2, <1>3, AppendProperties
  <2>2. Read(acc, r) = [words |-> Append(Flushed(acc), <<r>>), cur |-> <<>>]
    BY <1>5 DEF Read
  <2> QED
    BY <1>2, <1>3, <2>1, <2>2 DEF Reading
<1>6. CASE r \notin whitespaceRanges /\ r \notin punctRanges
  <2>1. Append(acc.cur, r) \in Seq(X)
    BY <1>1, AppendProperties
  <2>2. Read(acc, r) = [acc EXCEPT !.cur = Append(acc.cur, r)]
    BY <1>6 DEF Read
  <2> QED
    BY <1>2, <2>1, <2>2 DEF Reading
<1> QED
  BY <1>2, <1>4, <1>5, <1>6

\* The word begun is one when it is ended.
LEMMA FlushedWords ==
  ASSUME NEW s, IsText(s), NEW X, NEW acc \in Reading(X), NEW k \in 0..Len(s), Begun(acc, s, k)
  PROVE  \A w \in ToSet(Flushed(acc)) : WordOf(w, s)
<1>1. acc.words \in Seq(Seq(X)) /\ acc.cur \in Seq(X) /\ Len(s) \in Nat
  BY TextPlaces DEF Reading
<1>2. PICK a \in 1..(k + 1) :
         /\ acc.cur = SubSeq(s, a, k)
         /\ \A i \in a..k : s[i] \notin whitespaceRanges \cup punctRanges
  BY DEF Begun
<1>3. CASE acc.cur = <<>>
  BY <1>3 DEF Begun, Flushed
<1>4. CASE acc.cur # <<>>
  <2>1. Flushed(acc) = Append(acc.words, acc.cur)
    BY <1>4 DEF Flushed
  <2>2. ToSet(Flushed(acc)) = ToSet(acc.words) \cup {acc.cur}
    BY <1>1, <2>1, ToSetAppend
  <2>3. a <= k
    <3>1. a \in Int /\ k \in Int
      BY <1>1
    <3>2. k < a => SubSeq(s, a, k) = <<>>
      BY <3>1, SubSeqEmpty
    <3> QED
      BY <1>2, <1>4, <3>1, <3>2
  <2>4. a \in 1..Len(s) /\ k \in 1..Len(s)
    BY <1>1, <2>3
  <2>5. WordOf(acc.cur, s)
    BY <1>2, <2>3, <2>4 DEF WordOf
  <2> QED
    BY <2>2, <2>5 DEF Begun
<1> QED
  BY <1>3, <1>4

\* One character read keeps what is said of the words.
LEMMA ReadBegins ==
  ASSUME NEW s, IsText(s), NEW X, X = ToSet(s), NEW acc \in Reading(X), NEW k \in 1..Len(s),
         Begun(acc, s, k - 1)
  PROVE  Begun(Read(acc, s[k]), s, k)
<1> DEFINE r == s[k]
           read == Read(acc, r)
<1>1. /\ acc.words \in Seq(Seq(X)) /\ acc.cur \in Seq(X) /\ Len(s) \in Nat /\ r \in X
      /\ s \in Seq(X) /\ k - 1 \in 0..Len(s) /\ k \in Nat
  BY TextPlaces DEF Reading, IsText
<1>2. Flushed(acc) \in Seq(Seq(X)) /\ \A w \in ToSet(Flushed(acc)) : WordOf(w, s)
  BY <1>1, ReadTyped, FlushedWords
<1>3. PICK a \in 1..((k - 1) + 1) :
         /\ acc.cur = SubSeq(s, a, k - 1)
         /\ \A i \in a..(k - 1) : s[i] \notin whitespaceRanges \cup punctRanges
  BY DEF Begun
<1>4. ASSUME read.cur = <<>>, \A w \in ToSet(read.words) : WordOf(w, s)
      PROVE  Begun(read, s, k)
  <2>1. k + 1 \in 1..(k + 1) /\ k < k + 1 /\ k + 1 \in Int /\ k \in Int
    BY <1>1
  <2>2. SubSeq(s, k + 1, k) = <<>>
    BY <2>1, SubSeqEmpty
  <2>3. \A i \in (k + 1)..k : s[i] \notin whitespaceRanges \cup punctRanges
    BY <2>1
  <2> HIDE DEF read
  <2> QED
    BY <1>4, <2>1, <2>2, <2>3 DEF Begun
<1>5. CASE r \in whitespaceRanges
  <2>1. read.words = Flushed(acc) /\ read.cur = <<>>
    BY <1>5 DEF Read
  <2> HIDE DEF read
  <2> QED
    BY <1>2, <1>4, <2>1 DEF read
<1>6. CASE r \notin whitespaceRanges /\ r \in punctRanges
  <2>1. read.words = Append(Flushed(acc), <<r>>) /\ read.cur = <<>>
    BY <1>6 DEF Read
  <2>2. <<r>> \in Seq(X)
    BY <1>1
  <2>3. ToSet(read.words) = ToSet(Flushed(acc)) \cup {<<r>>}
    <3> DEFINE one == <<r>>
               words == Flushed(acc)
    <3>0. one \in Seq(X) /\ words \in Seq(Seq(X))
      BY <1>2, <2>2
    <3> HIDE DEF read, r, one, words
    <3>1. ToSet(Append(words, one)) = ToSet(words) \cup {one}
      BY <3>0, ToSetAppend
    <3> USE DEF one, words
    <3> QED
      BY <2>1, <3>1
  <2>4. WordOf(<<r>>, s)
    <3>1. SubSeq(s, k, k) = <<r>>
      <4>1. SubSeq(s, k, k) = SubSeq(s, k, k - 1) \o <<s[k]>>
        BY <1>1, SubSeqRecursiveSecond
      <4>2. SubSeq(s, k, k - 1) = <<>>
        BY <1>1, SubSeqEmpty
      <4>3. <<>> \o <<s[k]>> = <<s[k]>>
        OBVIOUS
      <4> QED
        BY <4>1, <4>2, <4>3
    <3>2. \A i \in k..k : i = k
      BY <1>1
    <3> HIDE DEF r
    <3> QED
      BY <1>1, <1>6, <3>1, <3>2 DEF WordOf, r
  <2>5. \A w \in ToSet(read.words) : WordOf(w, s)
    BY <1>2, <2>3, <2>4
  <2> QED
    BY <1>4, <2>1, <2>5
<1>7. CASE r \notin whitespaceRanges /\ r \notin punctRanges
  <2>1. read.words = acc.words /\ read.cur = Append(acc.cur, r)
    BY <1>7 DEF Read, Reading
  <2>2. a \in 1..k /\ a \in 1..Len(s) /\ k \in a..Len(s)
    BY <1>1
  <2>3. SubSeq(s, a, k) = SubSeq(s, a, k - 1) \o <<r>>
    BY <1>1, <2>2, SubSeqRecursiveSecond
  <2>4. Append(acc.cur, r) = acc.cur \o <<r>>
    BY <1>1, AppendIsConcat
  <2>5. \A i \in a..k : s[i] \notin whitespaceRanges \cup punctRanges
    <3>1. \A i \in a..k : i \in a..(k - 1) \/ i = k
      BY <1>1
    <3> QED
      BY <1>3, <1>7, <3>1
  <2>6. a \in 1..(k + 1)
    BY <1>1
  <2> HIDE DEF read, r
  <2>7. read.cur = SubSeq(s, a, k)
    BY <1>3, <2>1, <2>3, <2>4
  <2> QED
    BY <2>1, <2>5, <2>6, <2>7 DEF Begun, read, r
<1> QED
  BY <1>5, <1>6, <1>7

\* The loop over all the characters.
Loop(f, s) ==
    f = [k \in 0..Len(s) |->
            IF k = 0 THEN [words |-> <<>>, cur |-> <<>>] ELSE Read(f[k - 1], s[k])]

\* Everything the splitter yields is a word of the text.
LEMMA PreTokenizeWords ==
  ASSUME NEW s, IsText(s)
  PROVE  /\ IsText(preTokenize(s))
         /\ \A w \in ToSet(preTokenize(s)) : WordOf(w, s)
<1> DEFINE n == Len(s)
           X == ToSet(s)
           S == Reading(X)
           base == [words |-> <<>>, cur |-> <<>>]
           turn == [k \in 1..n |-> [acc \in S |-> Read(acc, s[k])]]
           f == CHOOSE f : Loop(f, s)
<1>1. preTokenize(s) = Flushed(f[n])
  BY DEF preTokenize, Loop, Flushed, Read
<1>2. n \in Nat /\ \A k \in 1..n : s[k] \in X
  BY TextPlaces
<1>3. base \in S
  BY EmptySeq DEF Reading
<1> HIDE DEF X, n
<1>4. turn \in [1..n -> [S -> S]]
  BY <1>2, ReadTyped
<1>5. \A k \in 1..n : \A acc \in S : turn[k][acc] = Read(acc, s[k])
  OBVIOUS
<1> HIDE DEF S, turn, base
<1>6. PICK g : Turned(g, n, S, base, turn)
  BY <1>2, <1>3, <1>4, TurnsExist
<1>7. /\ g \in [0..n -> S] /\ g[0] = base
      /\ \A k \in 1..n : k - 1 \in 0..n /\ g[k] = Read(g[k - 1], s[k])
  <2>1. \A k \in 1..n : k - 1 \in 0..n
    BY <1>2
  <2> QED
    BY <1>5, <1>6, <2>1 DEF Turned
<1>8. Loop(g, s)
  <2>1. \A k \in 0..n : k # 0 => k \in 1..n
    BY <1>2
  <2>2. \A k \in 0..n : g[k] = IF k = 0 THEN base ELSE Read(g[k - 1], s[k])
    BY <1>7, <2>1
  <2>3. g = [k \in 0..n |-> g[k]]
    BY <1>7
  <2> QED
    BY <2>2, <2>3 DEF Loop, base, n
<1>9. Loop(f, s)
  BY <1>8
<1> HIDE DEF f
<1>10. /\ f[0] = base
       /\ \A k \in 1..n : f[k] = Read(f[k - 1], s[k])
  <2>1. 0 \in 0..n /\ \A k \in 1..n : k \in 0..n /\ k # 0
    BY <1>2
  <2> QED
    BY <1>9, <2>1 DEF Loop, base, n
<1> DEFINE good == {k \in 0..n : f[k] \in S /\ Begun(f[k], s, k)}
<1>11. 0 \in good
  <2>1. base.words = <<>> /\ base.cur = <<>>
    BY DEF base
  <2>2. SubSeq(s, 1, 0) = <<>> /\ 1 \in 1..(0 + 1) /\ \A i \in 1..0 : FALSE
    BY SubSeqEmpty
  <2>3. ToSet(<<>>) = {}
    BY ShortTexts
  <2>4. Begun(base, s, 0)
    BY <2>1, <2>2, <2>3 DEF Begun
  <2> QED
    BY <1>2, <1>3, <1>10, <2>4
<1>12. ASSUME NEW k \in 1..n, k - 1 \in good
       PROVE  k \in good
  <2>1. f[k - 1] \in S /\ Begun(f[k - 1], s, k - 1) /\ s[k] \in X /\ k \in 1..Len(s)
    BY <1>2, <1>12 DEF n
  <2>2. f[k] = Read(f[k - 1], s[k])
    BY <1>10
  <2>3. Begun(f[k], s, k)
    BY <2>1, <2>2, ReadBegins DEF S, X
  <2>4. f[k] \in S
    BY <2>1, <2>2, ReadTyped DEF S
  <2> QED
    BY <1>2, <2>3, <2>4
<1>13. f[n] \in S /\ Begun(f[n], s, n)
  <2>1. n \in good
    <3> HIDE DEF good
    <3> QED
      BY <1>2, <1>11, <1>12, TurnsKeep
  <2> QED
    BY <2>1
<1>14. n \in 0..Len(s)
  BY <1>2 DEF n
<1>15. \A w \in ToSet(Flushed(f[n])) : WordOf(w, s)
  BY <1>13, <1>14, FlushedWords DEF S
<1>16. Flushed(f[n]) \in Seq(Seq(X))
  <2>1. f[n].words \in Seq(Seq(X)) /\ f[n].cur \in Seq(X)
    BY <1>13 DEF S, Reading
  <2> QED
    BY <2>1, AppendProperties DEF Flushed
<1>17. IsText(Flushed(f[n]))
  BY <1>16, TextOf
<1> QED
  BY <1>1, <1>15, <1>17

\* A word of a normal text is normal, and what stands alone is alone in it.
Wordly(w) ==
    /\ IsText(w) /\ w # <<>>
    /\ ToSet(w) \cap (controlRanges \cup whitespaceRanges
                         \cup nonspacingMarkRanges \cup DOMAIN lowerMap) = {}
    /\ ToSet(w) \cap (punctRanges \cup cjkRanges) # {} => Len(w) = 1

\* A word of a normal text, which flanked ideographs break as punctuation does.
LEMMA NormalWords ==
  ASSUME NEW s, Normal(s), NEW w, WordOf(w, s)
  PROVE  Wordly(w)
<1>1. PICK a \in 1..Len(s), b \in 1..Len(s) :
         /\ a <= b /\ w = SubSeq(s, a, b)
         /\ \A i \in a..b : s[i] \notin whitespaceRanges
         /\ a = b \/ \A i \in a..b : s[i] \notin punctRanges
  BY DEF WordOf
<1>2. /\ Len(s) \in Nat /\ DOMAIN s = 1..Len(s) /\ a \in Nat /\ b \in Nat
      /\ \A k \in 1..Len(s) : s[k] \in ToSet(s)
  BY <1>1, TextPlaces DEF Normal
<1>3. \A i \in a..b : i \in 1..Len(s) /\ s[i] \in ToSet(s)
  BY <1>2
<1>4. /\ w \in Seq(ToSet(s)) /\ Len(w) = b - a + 1
      /\ \A i \in 1..(b - a + 1) : w[i] = s[a + i - 1]
  BY <1>1, <1>2, <1>3, SubSeqProperties
<1>5. IsText(w) /\ DOMAIN w = 1..Len(w)
  BY <1>4, TextOf, LenProperties
<1>6. ASSUME NEW r \in ToSet(w)
      PROVE  \E i \in a..b : r = s[i]
  <2>1. PICK j \in DOMAIN w : r = w[j]
    BY <1>6 DEF ToSet
  <2>2. j \in 1..(b - a + 1)
    BY <1>4, <1>5
  <2>3. w[j] = s[a + j - 1]
    BY <1>4, <2>2
  <2>4. a + j - 1 \in a..b
    BY <1>2, <2>2
  <2> QED
    BY <2>1, <2>3, <2>4
<1>7. w # <<>>
  <2>1. Len(w) # 0
    BY <1>1, <1>2, <1>4
  <2> QED
    BY <2>1, EmptySeq
<1>8. ToSet(w) \cap (controlRanges \cup whitespaceRanges
                        \cup nonspacingMarkRanges \cup DOMAIN lowerMap) = {}
  BY <1>1, <1>3, <1>6 DEF Normal
<1>9. ASSUME ToSet(w) \cap (punctRanges \cup cjkRanges) # {}
      PROVE  a = b
  <2> SUFFICES ASSUME a # b PROVE FALSE
    OBVIOUS
  <2>1. PICK i \in a..b : s[i] \in punctRanges \cup cjkRanges
    BY <1>6, <1>9
  <2>2. s[i] \in cjkRanges /\ i \in 1..Len(s) /\ i \in Nat
    BY <1>1, <1>2, <1>3, <2>1
  <2>3. (i = 1 \/ s[i - 1] = Space) /\ (i = Len(s) \/ s[i + 1] = Space)
    BY <1>2, <2>2 DEF Normal, Flanked
  <2>4. CASE i # a
    <3>1. i - 1 \in a..b /\ i # 1
      BY <1>2, <2>1, <2>2, <2>4
    <3> QED
      BY <1>1, <2>3, <3>1, TablesAssumption
  <2>5. CASE i = a
    <3>1. i + 1 \in a..b /\ i # Len(s)
      <4>1. a <= b /\ a # b /\ a \in Nat /\ b \in Nat /\ b <= Len(s) /\ Len(s) \in Nat
        BY <1>1, <1>2
      <4> QED
        BY <2>5, <4>1
    <3> QED
      BY <1>1, <2>3, <3>1, TablesAssumption
  <2> QED
    BY <2>4, <2>5
<1>10. ToSet(w) \cap (punctRanges \cup cjkRanges) # {} => Len(w) = 1
  BY <1>2, <1>4, <1>9
<1> QED
  BY <1>5, <1>7, <1>8, <1>10 DEF Wordly

-----------------------------------------------------------------------------
(* Recursion that skips *)

\* What holds at the end and is carried from every later place to an earlier one
\* holds everywhere.
LEMMA BackwardsHolds ==
  ASSUME NEW n \in Nat, NEW good, n + 1 \in good,
         \A k \in 1..n : (\A j \in (k + 1)..(n + 1) : j \in good) => k \in good
  PROVE  \A k \in 1..(n + 1) : k \in good
<1> DEFINE tails == {m \in 0..n : \A j \in (n + 1 - m)..(n + 1) : j \in good}
<1>1. 0 \in tails
  <2>1. \A j \in (n + 1 - 0)..(n + 1) : j = n + 1
    OBVIOUS
  <2> QED
    BY <2>1
<1>2. ASSUME NEW m \in 1..n, m - 1 \in tails
      PROVE  m \in tails
  <2> DEFINE k == n + 1 - m
  <2>1. k \in 1..n /\ k + 1 = n + 1 - (m - 1) /\ m \in 0..n
    OBVIOUS
  <2>2. \A j \in (k + 1)..(n + 1) : j \in good
    BY <1>2, <2>1
  <2>3. k \in good
    BY <2>1, <2>2
  <2>4. \A j \in k..(n + 1) : j = k \/ j \in (k + 1)..(n + 1)
    BY <2>1
  <2> QED
    BY <2>1, <2>2, <2>3, <2>4
<1>3. n \in tails
  <2> HIDE DEF tails
  <2> QED
    BY <1>1, <1>2, TurnsKeep
<1> QED
  BY <1>3

\* A function of the places up to n, each from a later one.
Continued(f, n, S, base, next, glue) ==
    /\ f \in [1..(n + 1) -> S] /\ f[n + 1] = base
    /\ \A k \in 1..n : f[k] = glue[k][f[next[k]]]

\* Such a function exists: recursion may skip ahead, as greedy matching does.
LEMMA ContinuationsExist ==
  ASSUME NEW n \in Nat, NEW S, NEW base \in S, NEW next,
         \A k \in 1..n : next[k] \in (k + 1)..(n + 1),
         NEW glue \in [1..n -> [S -> S]]
  PROVE  \E f : Continued(f, n, S, base, next, glue)
<1> DEFINE P == [1..(n + 1) -> S]
           at(m) == n + 1 - m
           turn == [m \in 1..n |-> [t \in P |->
                        [t EXCEPT ![at(m)] = glue[at(m)][t[next[at(m)]]]]]]
           start == [k \in 1..(n + 1) |-> base]
<1>1. start \in P
  OBVIOUS
<1>2. ASSUME NEW m \in 1..n, NEW t \in P
      PROVE  /\ at(m) \in 1..n /\ next[at(m)] \in (at(m) + 1)..(n + 1)
             /\ next[at(m)] \in 1..(n + 1) /\ next[at(m)] # at(m)
             /\ turn[m][t] \in P
             /\ turn[m][t][at(m)] = glue[at(m)][t[next[at(m)]]]
             /\ \A k \in 1..(n + 1) : k # at(m) => turn[m][t][k] = t[k]
  <2>1. at(m) \in 1..n /\ at(m) \in 1..(n + 1)
    OBVIOUS
  <2>2. next[at(m)] \in (at(m) + 1)..(n + 1)
    BY <2>1
  <2>3. next[at(m)] \in 1..(n + 1) /\ next[at(m)] # at(m)
    BY <2>1, <2>2
  <2>4. glue[at(m)] \in [S -> S]
    BY <2>1
  <2>5. glue[at(m)][t[next[at(m)]]] \in S
    BY <2>3, <2>4
  <2>6. turn[m][t] = [t EXCEPT ![at(m)] = glue[at(m)][t[next[at(m)]]]]
    OBVIOUS
  <2> HIDE DEF at, turn
  <2> QED
    BY <2>1, <2>2, <2>3, <2>5, <2>6
<1>3. turn \in [1..n -> [P -> P]]
  <2>1. \A m \in 1..n : turn[m] = [t \in P |-> turn[m][t]]
    OBVIOUS
  <2>2. \A m \in 1..n : \A t \in P : turn[m][t] \in P
    BY <1>2
  <2>3. turn = [m \in 1..n |-> turn[m]]
    OBVIOUS
  <2> HIDE DEF turn, P
  <2>4. \A m \in 1..n : turn[m] \in [P -> P]
    BY <2>1, <2>2
  <2> QED
    BY <2>3, <2>4
<1> HIDE DEF turn, start
<1>4. PICK g : Turned(g, n, P, start, turn)
  <2> HIDE DEF P
  <2> QED
    BY <1>1, <1>3, TurnsExist
<1>5. g \in [0..n -> P] /\ g[0] = start /\ \A m \in 1..n : g[m] = turn[m][g[m - 1]]
  BY <1>4 DEF Turned
<1> DEFINE done(m) == /\ g[m] \in P /\ g[m][n + 1] = base
                      /\ \A k \in (n + 1 - m)..n : g[m][k] = glue[k][g[m][next[k]]]
           good == {m \in 0..n : done(m)}
<1>6. 0 \in good
  <2>1. \A k \in (n + 1 - 0)..n : FALSE
    OBVIOUS
  <2>2. g[0][n + 1] = base
    BY <1>5 DEF start
  <2> QED
    BY <1>1, <1>5, <2>1, <2>2
<1>7. ASSUME NEW m \in 1..n, m - 1 \in good
      PROVE  m \in good
  <2>1. done(m - 1)
    BY <1>7
  <2> DEFINE t == g[m - 1]
             u == g[m]
             a == n + 1 - m
  <2>2. /\ t \in P /\ t[n + 1] = base
        /\ \A k \in (n + 1 - (m - 1))..n : t[k] = glue[k][t[next[k]]]
    BY <2>1
  <2>3. u = turn[m][t]
    BY <1>5
  <2>4. /\ a \in 1..n /\ next[a] \in 1..(n + 1) /\ next[a] # a
        /\ u \in P /\ u[a] = glue[a][t[next[a]]]
        /\ \A k \in 1..(n + 1) : k # a => u[k] = t[k]
    <3> HIDE DEF t, u, P, turn
    <3>1. a = at(m)
      OBVIOUS
    <3> QED
      BY <1>2, <2>2, <2>3, <3>1
  <2> HIDE DEF t, u, a, P
  <2>5. u[n + 1] = base
    BY <2>2, <2>4
  <2>6. ASSUME NEW k \in (n + 1 - m)..n
        PROVE  u[k] = glue[k][u[next[k]]]
    <3>1. k \in 1..n /\ k \in a..n /\ k \in 1..(n + 1) /\ a \in 1..n
      BY <2>4 DEF a
    <3>2. next[k] \in (k + 1)..(n + 1)
      BY <3>1
    <3>3. next[k] \in 1..(n + 1) /\ next[k] # a
      BY <3>1, <3>2
    <3>4. u[next[k]] = t[next[k]]
      BY <2>4, <3>3
    <3>5. CASE k = a
      BY <2>4, <3>4, <3>5
    <3>6. CASE k # a
      <4>1. k \in (n + 1 - (m - 1))..n
        BY <3>1, <3>6 DEF a
      <4> QED
        BY <2>2, <2>4, <3>1, <3>4, <3>6, <4>1
    <3> QED
      BY <3>5, <3>6
  <2>7. done(m)
    BY <2>4, <2>5, <2>6 DEF u
  <2> QED
    BY <2>7
<1>8. done(n)
  <2>1. n \in good
    <3> HIDE DEF good
    <3> QED
      BY <1>6, <1>7, TurnsKeep
  <2> QED
    BY <2>1
<1>9. Continued(g[n], n, S, base, next, glue)
  <2>1. \A k \in 1..n : k \in (n + 1 - n)..n
    OBVIOUS
  <2> QED
    BY <1>8, <2>1 DEF Continued
<1> QED
  BY <1>9

\* Of finitely many numbers one is the greatest.
LEMMA MaxIs ==
  ASSUME NEW n \in Nat, NEW M \in SUBSET (0..n), M # {}
  PROVE  Max(M) \in M /\ \A y \in M : y <= Max(M)
<1>6. \A y \in M : y \in 0..n /\ y \in Int
  <2>1. \A y \in 0..n : y \in Int
    OBVIOUS
  <2> QED
    BY <2>1
<1> DEFINE U == {n - x : x \in M}
<1>1. U \in SUBSET Nat /\ U # {}
  <2>1. \A x \in M : n - x \in Nat
    BY <1>6
  <2>2. U # {}
    OBVIOUS
  <2> QED
    BY <2>1, <2>2
<1>2. PICK u \in U : \A y \in U : u <= y
  <2> HIDE DEF U
  <2> QED
    BY <1>1, LeastNatural
<1>3. PICK x \in M : u = n - x
  BY <1>2
<1>4. \A y \in M : x >= y
  <2> SUFFICES ASSUME NEW y \in M PROVE x >= y
    OBVIOUS
  <2>1. n - y \in U
    OBVIOUS
  <2>2. n - x <= n - y
    <3> HIDE DEF U
    <3> QED
      BY <1>2, <1>3, <2>1
  <2>3. x \in 0..n /\ y \in 0..n
    OBVIOUS
  <2> QED
    BY <2>2, <2>3
<1>5. Max(M) \in M /\ \A y \in M : Max(M) >= y
  BY <1>4 DEF Max
<1> HIDE DEF U
<1> QED
  BY <1>5, <1>6

-----------------------------------------------------------------------------
(* Pieces *)

\* A piece, and the one that spells characters k to end of the word.
Piece(X) == [inner : BOOLEAN, text : Seq(X)]
PieceTo(word, k, end) == [inner |-> k > 1, text |-> SubSeq(word, k, end)]

\* The tokens greedy matching yields from each character of the word on.
From(f, word) ==
    f = [start \in 1..(Len(word) + 1) |->
            IF start > Len(word) THEN <<>>
            ELSE IF MatchesAt(word, start) = {} THEN <<unkToken>>
            ELSE <<PieceTo(word, start, Max(MatchesAt(word, start)))>>
                    \o f[Max(MatchesAt(word, start)) + 1]]

\* What the pieces are written as.
TextsOf(q) == [j \in DOMAIN q |-> q[j].text]

\* One of the pieces that spell the word from character k on.
PieceOf(p, word, first) ==
    /\ p \in vocab /\ p.inner = ~first
    /\ \E a, b \in 1..Len(word) : a <= b /\ p.text = SubSeq(word, a, b)

\* The pieces spell the word from character k on, unless one is the unknown token.
Pieced(q, word, k, X) ==
    /\ q \in Seq(Piece(X))
    /\ unkToken \notin ToSet(q) =>
          /\ FlattenSeq(TextsOf(q)) = SubSeq(word, k, Len(word))
          /\ \A j \in DOMAIN q : PieceOf(q[j], word, k = 1 /\ j = 1)

\* The longest match is a match.
LEMMA MatchLongest ==
  ASSUME NEW word, IsText(word), NEW k \in 1..Len(word), MatchesAt(word, k) # {}
  PROVE  LET end == Max(MatchesAt(word, k))
         IN  /\ end \in k..Len(word) /\ PieceTo(word, k, end) \in vocab
             /\ \A n \in MatchesAt(word, k) : n <= end
<1> DEFINE M == MatchesAt(word, k)
<1>1. Len(word) \in Nat
  BY TextPlaces
<1>2. M \in SUBSET (0..Len(word)) /\ M # {}
  <2>1. \A n \in M : n \in k..Len(word)
    BY DEF MatchesAt
  <2>2. \A n \in k..Len(word) : n \in 0..Len(word)
    BY <1>1
  <2> HIDE DEF M
  <2>3. M \in SUBSET (0..Len(word))
    BY <2>1, <2>2
  <2> QED
    BY <2>3 DEF M
<1>3. Max(M) \in M /\ \A y \in M : y <= Max(M)
  <2> HIDE DEF M
  <2> QED
    BY <1>1, <1>2, MaxIs
<1> QED
  BY <1>3 DEF MatchesAt, PieceTo

\* One element before the others.
LEMMA OneBefore ==
  ASSUME NEW P, NEW x \in P, NEW q \in Seq(P)
  PROVE  /\ <<x>> \o q \in Seq(P) /\ Len(<<x>> \o q) = Len(q) + 1
         /\ DOMAIN (<<x>> \o q) = 1..(Len(q) + 1)
         /\ ToSet(<<x>> \o q) = {x} \cup ToSet(q)
         /\ (<<x>> \o q)[1] = x
         /\ \A j \in 1..Len(q) : (<<x>> \o q)[j + 1] = q[j]
<1>1. /\ <<x>> \in Seq(P) /\ Len(<<x>>) = 1 /\ <<x>>[1] = x
      /\ Len(q) \in Nat /\ DOMAIN q = 1..Len(q)
  BY LenProperties
<1>2. \A one \in Seq(P) : Len(one) = 1 =>
         /\ one \o q \in Seq(P) /\ Len(one \o q) = 1 + Len(q)
         /\ \A i \in 1..(1 + Len(q)) : (one \o q)[i] = IF i <= 1 THEN one[i] ELSE q[i - 1]
  BY ConcatProperties
<1> DEFINE one == <<x>>
           t == one \o q
<1>3. one \in Seq(P) /\ Len(one) = 1 /\ one[1] = x
  BY <1>1
<1> HIDE DEF one
<1>4. /\ t \in Seq(P) /\ Len(t) = 1 + Len(q)
      /\ \A i \in 1..(1 + Len(q)) : t[i] = IF i <= 1 THEN one[i] ELSE q[i - 1]
  BY <1>2, <1>3
<1>5. DOMAIN t = 1..(1 + Len(q))
  BY <1>4, LenProperties
<1> HIDE DEF t
<1>6. t[1] = x /\ 1 \in DOMAIN t /\ \A j \in 1..Len(q) : t[j + 1] = q[j] /\ j + 1 \in DOMAIN t
  BY <1>1, <1>3, <1>4, <1>5
<1>7. \A i \in DOMAIN t : i # 1 => i - 1 \in 1..Len(q) /\ t[i] = q[i - 1]
  BY <1>1, <1>4, <1>5
<1>8. ToSet(t) = {x} \cup ToSet(q)
  BY <1>1, <1>6, <1>7 DEF ToSet
<1> QED
  BY <1>1, <1>4, <1>5, <1>6, <1>8 DEF t, one

\* A piece before pieces.
LEMMA PieceBefore ==
  ASSUME NEW X, NEW p \in Piece(X), NEW q \in Seq(Piece(X))
  PROVE  FlattenSeq(TextsOf(<<p>> \o q)) = p.text \o FlattenSeq(TextsOf(q))
<1> DEFINE t == <<p>> \o q
           head == <<p.text>>
           ts == TextsOf(q)
           hs == head \o ts
<1>1. /\ DOMAIN t = 1..(Len(q) + 1) /\ t[1] = p /\ \A j \in 1..Len(q) : t[j + 1] = q[j]
      /\ Len(q) \in Nat
  BY OneBefore, LenProperties
<1> HIDE DEF t
<1>2. p.text \in Seq(X)
  BY DEF Piece
<1>3. ts \in Seq(Seq(X)) /\ Len(ts) = Len(q) /\ \A j \in 1..Len(q) : ts[j] = q[j].text
  <2>0. DOMAIN q = 1..Len(q) /\ Len(q) \in Nat
    BY LenProperties
  <2>1. \A j \in 1..Len(q) : q[j].text \in Seq(X)
    <3>1. \A j \in 1..Len(q) : q[j] \in Piece(X)
      BY ElementOfSeq
    <3> QED
      BY <3>1 DEF Piece
  <2>2. ts = [j \in 1..Len(q) |-> q[j].text]
    BY <2>0 DEF TextsOf
  <2> HIDE DEF ts
  <2>3. ts \in [1..Len(q) -> Seq(X)]
    BY <2>1, <2>2
  <2>4. ts \in Seq(Seq(X))
    BY <2>0, <2>3, SeqDef
  <2>5. DOMAIN ts = 1..Len(q) /\ DOMAIN ts = 1..Len(ts) /\ Len(ts) \in Nat
    BY <2>3, <2>4, LenProperties
  <2> QED
    BY <2>0, <2>2, <2>4, <2>5
<1> HIDE DEF ts
<1>4. /\ hs \in Seq(Seq(X)) /\ DOMAIN hs = 1..(Len(q) + 1) /\ hs[1] = p.text
      /\ \A j \in 1..Len(q) : hs[j + 1] = q[j].text
  <2> DEFINE x == p.text
  <2>1. x \in Seq(X) /\ ts \in Seq(Seq(X))
    BY <1>2, <1>3
  <2> HIDE DEF x
  <2>2. /\ <<x>> \o ts \in Seq(Seq(X)) /\ DOMAIN (<<x>> \o ts) = 1..(Len(ts) + 1)
        /\ (<<x>> \o ts)[1] = x
        /\ \A j \in 1..Len(ts) : (<<x>> \o ts)[j + 1] = ts[j]
    BY <2>1, OneBefore
  <2>3. hs = <<x>> \o ts
    BY DEF x
  <2> HIDE DEF hs
  <2> QED
    BY <1>3, <2>2, <2>3 DEF x
<1> HIDE DEF hs
<1>5. TextsOf(t) = hs
  <2>1. TextsOf(t) = [i \in 1..(Len(q) + 1) |-> t[i].text]
    BY <1>1 DEF TextsOf
  <2>2. hs = [i \in 1..(Len(q) + 1) |-> hs[i]]
    BY <1>4, LenProperties
  <2>3. \A i \in 1..(Len(q) + 1) : t[i].text = hs[i]
    <3> SUFFICES ASSUME NEW i \in 1..(Len(q) + 1) PROVE t[i].text = hs[i]
      OBVIOUS
    <3>1. CASE i = 1
      BY <1>1, <1>4, <3>1
    <3>2. CASE i # 1
      <4>1. i - 1 \in 1..Len(q) /\ (i - 1) + 1 = i
        BY <1>1, <3>2
      <4>2. t[(i - 1) + 1] = q[i - 1] /\ hs[(i - 1) + 1] = q[i - 1].text
        BY <1>1, <1>4, <4>1
      <4> QED
        BY <4>1, <4>2
    <3> QED
      BY <3>1, <3>2
  <2> QED
    BY <2>1, <2>2, <2>3
<1>6. head \in Seq(Seq(X)) /\ FlattenSeq(head) = p.text
  BY <1>2, FlatOne
<1>7. FlattenSeq(hs) = FlattenSeq(head) \o FlattenSeq(ts)
  <2> HIDE DEF head
  <2> QED
    BY <1>3, <1>6, FlatConcat DEF hs
<1> QED
  BY <1>5, <1>6, <1>7 DEF t, ts

\* Greedily or not: the pieces found spell what they were cut from.
LEMMA FromPieces ==
  ASSUME NEW word, IsText(word), NEW X, ToSet(word) \subseteq X, unkToken \in Piece(X)
  PROVE  LET f == CHOOSE f : From(f, word)
         IN  /\ From(f, word)
             /\ \A k \in 1..(Len(word) + 1) : Pieced(f[k], word, k, X)
<1> DEFINE n == Len(word)
           S == Seq(Piece(X))
           none(k) == MatchesAt(word, k) = {}
           end(k) == Max(MatchesAt(word, k))
           next == [k \in 1..n |-> IF none(k) THEN k + 1 ELSE end(k) + 1]
           glue == [k \in 1..n |-> [q \in S |->
                       IF none(k) THEN <<unkToken>> ELSE <<PieceTo(word, k, end(k))>> \o q]]
           f == CHOOSE f : From(f, word)
<1>1. n \in Nat /\ word \in Seq(X)
  BY TextPlaces, SeqMonotonic DEF IsText
<1>2. ASSUME NEW k \in 1..n, ~none(k)
      PROVE  /\ end(k) \in k..n /\ PieceTo(word, k, end(k)) \in vocab
             /\ PieceTo(word, k, end(k)) \in Piece(X)
             /\ end(k) + 1 \in (k + 1)..(n + 1) /\ end(k) + 1 \in 1..(n + 1)
  <2>1. end(k) \in k..n /\ PieceTo(word, k, end(k)) \in vocab
    BY <1>2, MatchLongest
  <2>2. \A i \in k..end(k) : word[i] \in X
    <3>1. \A i \in 1..n : word[i] \in X
      BY <1>1, ElementOfSeq
    <3>2. \A i \in k..end(k) : i \in 1..n
      BY <1>1, <2>1
    <3> QED
      BY <3>1, <3>2
  <2>3. k \in Int /\ end(k) \in Int
    BY <1>1, <2>1
  <2>4. SubSeq(word, k, end(k)) \in Seq(X)
    <3> DEFINE e == end(k)
    <3>1. e \in Int /\ \A i \in k..e : word[i] \in X
      BY <2>2, <2>3
    <3> HIDE DEF e
    <3>2. SubSeq(word, k, e) \in Seq(X)
      BY <2>3, <3>1, SubSeqProperties
    <3> QED
      BY <3>2 DEF e
  <2>5. PieceTo(word, k, end(k)) \in Piece(X)
    BY <2>4 DEF PieceTo, Piece
  <2> QED
    BY <1>1, <2>1, <2>5
<1>3. \A k \in 1..n : next[k] \in (k + 1)..(n + 1)
  <2> SUFFICES ASSUME NEW k \in 1..n PROVE next[k] \in (k + 1)..(n + 1)
    OBVIOUS
  <2>1. CASE none(k)
    <3>1. next[k] = k + 1
      BY <2>1
    <3> HIDE DEF next
    <3> QED
      BY <1>1, <3>1
  <2>2. CASE ~none(k)
    <3>1. next[k] = end(k) + 1
      BY <2>2
    <3> HIDE DEF next
    <3> QED
      BY <1>2, <2>2, <3>1
  <2> QED
    BY <2>1, <2>2
<1>4. ASSUME NEW k \in 1..n, NEW q \in S
      PROVE  (IF none(k) THEN <<unkToken>> ELSE <<PieceTo(word, k, end(k))>> \o q) \in S
  <2>1. <<unkToken>> \in S
    OBVIOUS
  <2>2. CASE ~none(k)
    <3>1. \A p \in Piece(X) : <<p>> \o q \in S
      BY OneBefore
    <3> QED
      BY <1>2, <2>2, <3>1
  <2> QED
    BY <2>1, <2>2
<1>5. glue \in [1..n -> [S -> S]]
  BY <1>4
<1>6. /\ \A k \in 1..n : next[k] = IF none(k) THEN k + 1 ELSE end(k) + 1
      /\ \A k \in 1..n : \A q \in S : glue[k][q] =
             IF none(k) THEN <<unkToken>> ELSE <<PieceTo(word, k, end(k))>> \o q
  OBVIOUS
<1>7. <<>> \in S
  BY EmptySeq
<1> HIDE DEF next, glue, S, n
<1>8. PICK h : Continued(h, n, S, <<>>, next, glue)
  BY <1>1, <1>3, <1>5, <1>7, ContinuationsExist
<1>9. /\ h \in [1..(n + 1) -> S] /\ h[n + 1] = <<>>
      /\ \A k \in 1..n : h[k] = glue[k][h[next[k]]]
  BY <1>8 DEF Continued
<1>10. \A k \in 1..(n + 1) :
          h[k] = IF k > n THEN <<>> ELSE IF none(k) THEN <<unkToken>>
                 ELSE <<PieceTo(word, k, end(k))>> \o h[end(k) + 1]
  <2> SUFFICES ASSUME NEW k \in 1..(n + 1)
               PROVE  h[k] = IF k > n THEN <<>> ELSE IF none(k) THEN <<unkToken>>
                             ELSE <<PieceTo(word, k, end(k))>> \o h[end(k) + 1]
    OBVIOUS
  <2>1. CASE k > n
    <3>1. k = n + 1
      BY <1>1, <2>1
    <3> QED
      BY <1>9, <2>1, <3>1
  <2>2. CASE ~(k > n)
    <3>1. k \in 1..n
      BY <1>1, <2>2
    <3>2. next[k] \in 1..(n + 1)
      BY <1>1, <1>3, <3>1
    <3>3. h[next[k]] \in S
      BY <1>9, <3>2
    <3>4. h[k] = glue[k][h[next[k]]]
      BY <1>9, <3>1
    <3>5. h[k] = IF none(k) THEN <<unkToken>>
                 ELSE <<PieceTo(word, k, end(k))>> \o h[next[k]]
      BY <1>6, <3>1, <3>3, <3>4
    <3>6. ~none(k) => next[k] = end(k) + 1
      BY <1>6, <3>1
    <3> HIDE DEF end, none
    <3> QED
      BY <2>2, <3>5, <3>6
  <2> QED
    BY <2>1, <2>2
<1>11. From(h, word)
  <2>1. h = [k \in 1..(n + 1) |-> h[k]]
    BY <1>9
  <2> QED
    BY <1>10, <2>1 DEF From, n
<1>12. From(f, word)
  BY <1>11
<1> HIDE DEF f
<1>13. \A k \in 1..(n + 1) :
          f[k] = IF k > n THEN <<>> ELSE IF none(k) THEN <<unkToken>>
                 ELSE <<PieceTo(word, k, end(k))>> \o f[end(k) + 1]
  <2>1. f = [k \in 1..(n + 1) |->
                IF k > n THEN <<>> ELSE IF none(k) THEN <<unkToken>>
                ELSE <<PieceTo(word, k, end(k))>> \o f[end(k) + 1]]
    BY <1>12 DEF From, n
  <2> HIDE DEF none, end
  <2> QED
    BY <2>1
<1> DEFINE good == {k \in 1..(n + 1) : Pieced(f[k], word, k, X)}
<1>14. n + 1 \in good
  <2>1. n + 1 \in 1..(n + 1) /\ n + 1 > n
    BY <1>1
  <2>2. f[n + 1] = <<>>
    BY <1>13, <2>1
  <2>3. SubSeq(word, n + 1, n) = <<>>
    BY <1>1, SubSeqEmpty
  <2>4. TextsOf(<<>>) = <<>> /\ FlattenSeq(<<>>) = <<>> /\ DOMAIN <<>> = {}
    BY EmptySeq DEF TextsOf, FlattenSeq
  <2>5. Pieced(<<>>, word, n + 1, X)
    BY <1>7, <2>3, <2>4 DEF Pieced, S, n
  <2> QED
    BY <2>1, <2>2, <2>5
<1>15. ASSUME NEW k \in 1..n, \A j \in (k + 1)..(n + 1) : j \in good
       PROVE  k \in good
  <2>1. k \in 1..(n + 1) /\ ~(k > n)
    BY <1>1
  <2>2. CASE none(k)
    <3>1. f[k] = <<unkToken>>
      BY <1>13, <2>1, <2>2
    <3>2. unkToken \in ToSet(<<unkToken>>) /\ <<unkToken>> \in Seq(Piece(X))
      BY ShortTexts
    <3>3. Pieced(<<unkToken>>, word, k, X)
      BY <3>2 DEF Pieced
    <3> QED
      BY <2>1, <3>1, <3>3
  <2>3. CASE ~none(k)
    <3> DEFINE e == end(k)
               p == PieceTo(word, k, e)
               q == f[e + 1]
    <3>1. /\ e \in k..n /\ p \in vocab /\ p \in Piece(X)
          /\ e + 1 \in (k + 1)..(n + 1)
      BY <1>2, <2>3
    <3>2. f[k] = <<p>> \o q
      BY <1>13, <2>1, <2>3
    <3>3. Pieced(q, word, e + 1, X)
      BY <1>15, <3>1
    <3>4. p.text = SubSeq(word, k, e) /\ p.inner = (k > 1)
      BY DEF PieceTo
    <3> HIDE DEF e, p, q, none, end
    <3>5. q \in Seq(Piece(X)) /\ Len(q) \in Nat /\ DOMAIN q = 1..Len(q)
      BY <3>3, LenProperties DEF Pieced
    <3> DEFINE pq == <<p>> \o q
    <3>6. /\ pq \in Seq(Piece(X)) /\ Len(pq) = Len(q) + 1
          /\ ToSet(pq) = {p} \cup ToSet(q) /\ pq[1] = p
          /\ \A j \in 1..Len(q) : pq[j + 1] = q[j]
          /\ FlattenSeq(TextsOf(pq)) = p.text \o FlattenSeq(TextsOf(q))
      <4> DEFINE P == Piece(X)
      <4>1. p \in P /\ q \in Seq(P)
        BY <3>1, <3>5
      <4>2. FlattenSeq(TextsOf(pq)) = p.text \o FlattenSeq(TextsOf(q))
        BY <3>1, <3>5, PieceBefore
      <4> HIDE DEF P
      <4>3. /\ pq \in Seq(P) /\ Len(pq) = Len(q) + 1
            /\ ToSet(pq) = {p} \cup ToSet(q) /\ pq[1] = p
            /\ \A j \in 1..Len(q) : pq[j + 1] = q[j]
        BY <4>1, OneBefore
      <4> QED
        BY <4>2, <4>3 DEF P
    <3> HIDE DEF pq
    <3>7. DOMAIN pq = 1..(Len(q) + 1)
      BY <3>6, LenProperties
    <3>8. ASSUME unkToken \notin ToSet(pq)
          PROVE  /\ FlattenSeq(TextsOf(pq)) = SubSeq(word, k, n)
                 /\ \A j \in DOMAIN pq : PieceOf(pq[j], word, k = 1 /\ j = 1)
      <4>1. /\ FlattenSeq(TextsOf(q)) = SubSeq(word, e + 1, n)
            /\ \A j \in DOMAIN q : PieceOf(q[j], word, e + 1 = 1 /\ j = 1)
        BY <3>3, <3>6, <3>8 DEF Pieced, n
      <4>2. SubSeq(word, k, e) \o SubSeq(word, e + 1, n) = SubSeq(word, k, n)
        <5>1. k \in 1..(n + 1) /\ e \in (k - 1)..n /\ n \in e..n
          BY <1>1, <3>1
        <5> QED
          BY <1>1, <5>1, ConcatAdjacentSubSeq DEF n
      <4>3. ASSUME NEW j \in DOMAIN pq
            PROVE  PieceOf(pq[j], word, k = 1 /\ j = 1)
        <5>1. CASE j = 1
          <6>1. k \in 1..n /\ e \in 1..n /\ k <= e
            BY <1>1, <3>1
          <6>2. p.inner = ~(k = 1)
            BY <1>1, <3>4
          <6>3. PieceOf(p, word, k = 1)
            BY <3>1, <3>4, <6>1, <6>2 DEF PieceOf, n
          <6> QED
            BY <3>6, <5>1, <6>3
        <5>2. CASE j # 1
          <6>1. j - 1 \in 1..Len(q) /\ (j - 1) + 1 = j
            BY <3>5, <3>7, <5>2
          <6>2. pq[j] = q[j - 1]
            BY <3>6, <6>1
          <6>3. PieceOf(q[j - 1], word, e + 1 = 1 /\ j - 1 = 1)
            BY <3>5, <4>1, <6>1
          <6>4. e + 1 # 1
            BY <1>1, <3>1
          <6>5. PieceOf(q[j - 1], word, FALSE)
            BY <6>3, <6>4
          <6> QED
            BY <5>2, <6>2, <6>5
        <5> QED
          BY <5>1, <5>2
      <4> QED
        BY <3>4, <3>6, <4>1, <4>2, <4>3
    <3>9. Pieced(pq, word, k, X)
      BY <3>6, <3>8 DEF Pieced, n
    <3> QED
      BY <2>1, <3>2, <3>9 DEF pq
  <2> QED
    BY <2>2, <2>3
<1>16. \A k \in 1..(n + 1) : k \in good
  <2> HIDE DEF good
  <2> QED
    BY <1>1, <1>14, <1>15, BackwardsHolds
<1>17. \A k \in 1..(Len(word) + 1) : Pieced(f[k], word, k, X)
  BY <1>16 DEF n
<1> QED
  BY <1>12, <1>17 DEF f

\* What is said of the tokens of a word.
Spells(word, pieces) ==
    /\ pieces # <<unkToken>> =>
           /\ FlattenSeq([k \in DOMAIN pieces |-> pieces[k].text]) = word
           /\ \A k \in DOMAIN pieces :
                  /\ pieces[k] \in vocab /\ pieces[k].inner = (k > 1)
                  /\ pieces[k].text \notin ToSet(addedTokens)
    /\ (Token(word) \in vocab /\ Len(word) <= maxInputCharsPerWord) =>
           pieces = <<Token(word)>>

\* The written form of a special token.
LEMMA AddedTokens ==
  /\ Len(addedTokens) = 5 /\ DOMAIN addedTokens = 1..5
  /\ \A k \in 1..5 : \E name : addedTokens[k] = <<"[", name, "]">>
<1>1. DOMAIN addedTokens = 1..5
  BY DEF addedTokens
<1>2. addedTokens \in Seq({addedTokens[k] : k \in 1..5})
  <2>1. addedTokens \in [1..5 -> {addedTokens[k] : k \in 1..5}]
    BY DEF addedTokens
  <2> QED
    BY <2>1, SeqDef
<1>3. Len(addedTokens) \in Nat /\ DOMAIN addedTokens = 1..Len(addedTokens)
  BY <1>2, LenProperties
<1>4. Len(addedTokens) = 5
  BY <1>1, <1>3
<1>5. \A k \in 1..5 : \E name : addedTokens[k] = <<"[", name, "]">>
  BY DEF addedTokens
<1> QED
  BY <1>1, <1>4, <1>5

\* appendWordPieces spells the word, or yields the unknown token.
LEMMA WordIsSpelt ==
  ASSUME NEW word, Wordly(word)
  PROVE  Spells(word, appendWordPieces(word)) /\ appendWordPieces(word) \in Seq(vocab \cup {unkToken})
<1> DEFINE n == Len(word)
           f == CHOOSE f : From(f, word)
           X == ToSet(word) \cup ToSet(unkToken.text)
           pieces == appendWordPieces(word)
<1>1. pieces = IF n > maxInputCharsPerWord \/ unkToken \in ToSet(f[1]) THEN <<unkToken>> ELSE f[1]
  BY DEF appendWordPieces, From, PieceTo
<1>2. IsText(word) /\ n \in Nat /\ DOMAIN word = 1..n /\ word # <<>>
      /\ \A k \in 1..n : word[k] \in ToSet(word)
  BY TextPlaces DEF Wordly
<1>3. unkToken \in Piece(X)
  <2>1. PICK name : addedTokens[2] = <<"[", name, "]">>
    BY AddedTokens
  <2>2. unkToken.text = addedTokens[2] /\ unkToken = [inner |-> FALSE, text |-> addedTokens[2]]
    BY DEF unkToken, Token
  <2>3. IsText(unkToken.text)
    BY <2>1, <2>2, PaddedTexts
  <2>4. unkToken.text \in Seq(X)
    BY <2>3, SeqMonotonic DEF IsText
  <2> HIDE DEF X
  <2> QED
    BY <2>2, <2>4 DEF Piece
<1>4. From(f, word) /\ \A k \in 1..(n + 1) : Pieced(f[k], word, k, X)
  BY <1>2, <1>3, FromPieces
<1>5. Pieced(f[1], word, 1, X)
  <2>1. 1 \in 1..(n + 1)
    BY <1>2
  <2> HIDE DEF f, X
  <2> QED
    BY <1>4, <2>1
<1> HIDE DEF f, X, pieces
<1>6. ASSUME pieces # <<unkToken>>
      PROVE  /\ FlattenSeq([k \in DOMAIN pieces |-> pieces[k].text]) = word
             /\ \A k \in DOMAIN pieces :
                    /\ pieces[k] \in vocab /\ pieces[k].inner = (k > 1)
                    /\ pieces[k].text \notin ToSet(addedTokens)
  <2>1. pieces = f[1] /\ unkToken \notin ToSet(f[1])
    BY <1>1, <1>6
  <2>2. /\ pieces \in Seq(Piece(X))
        /\ FlattenSeq(TextsOf(pieces)) = SubSeq(word, 1, n)
        /\ \A j \in DOMAIN pieces : PieceOf(pieces[j], word, 1 = 1 /\ j = 1)
    BY <1>5, <2>1 DEF Pieced
  <2>3. SubSeq(word, 1, n) = word
    BY <1>2, SubSeqFull DEF IsText
  <2>4. ASSUME NEW k \in DOMAIN pieces
        PROVE  /\ pieces[k] \in vocab /\ pieces[k].inner = (k > 1)
               /\ pieces[k].text \notin ToSet(addedTokens)
    <3>1. PieceOf(pieces[k], word, 1 = 1 /\ k = 1) /\ k \in Nat /\ k >= 1
      BY <2>2, LenProperties
    <3>2. pieces[k] \in vocab /\ pieces[k].inner = (k > 1)
      BY <3>1 DEF PieceOf
    <3>3. PICK a \in 1..n, b \in 1..n : a <= b /\ pieces[k].text = SubSeq(word, a, b)
      BY <3>1 DEF PieceOf
    <3>4. /\ Len(pieces[k].text) = b - a + 1
          /\ \A i \in 1..(b - a + 1) : pieces[k].text[i] = word[a + i - 1]
      <4>1. \A i \in a..b : word[i] \in ToSet(word)
        BY <1>2
      <4>2. a \in Int /\ b \in Int
        BY <1>2
      <4> QED
        BY <3>3, <4>1, <4>2, SubSeqProperties
    <3>5. ASSUME pieces[k].text \in ToSet(addedTokens)
          PROVE  FALSE
      <4>1. PICK m \in 1..5 : pieces[k].text = addedTokens[m]
        BY <3>5, AddedTokens DEF ToSet
      <4>2. PICK name : pieces[k].text = <<"[", name, "]">>
        BY <4>1, AddedTokens
      <4>3. Len(pieces[k].text) = 3 /\ pieces[k].text[1] = "["
        BY <4>2, PaddedTexts
      <4>4. b - a + 1 = 3 /\ word[a] = "["
        BY <1>2, <3>3, <3>4, <4>3
      <4>5. "[" \in ToSet(word) \cap punctRanges
        BY <1>2, <4>4, TablesAssumption
      <4>6. n = 1
        BY <4>5 DEF Wordly
      <4> QED
        BY <1>2, <4>4, <4>6
    <3> QED
      BY <3>2, <3>5
  <2> QED
    BY <2>2, <2>3, <2>4 DEF TextsOf
<1>7. ASSUME Token(word) \in vocab, n <= maxInputCharsPerWord
      PROVE  pieces = <<Token(word)>>
  <2>1. n >= 1 /\ 1 \in 1..n /\ n \in 1..n /\ 1 \in 1..(n + 1)
    <3>1. n # 0
      BY <1>2, EmptySeq DEF IsText
    <3> QED
      BY <1>2, <3>1
  <2>2. SubSeq(word, 1, n) = word
    BY <1>2, SubSeqFull DEF IsText
  <2>0. ~(1 > 1)
    OBVIOUS
  <2>3. n \in MatchesAt(word, 1)
    <3>1. [inner |-> 1 > 1, text |-> SubSeq(word, 1, n)] = Token(word)
      <4>1. (1 > 1) = FALSE
        BY <2>0
      <4> QED
        BY <2>2, <4>1, Zenon DEF Token
    <3> QED
      BY <1>7, <2>1, <3>1 DEF MatchesAt
  <2>4. Max(MatchesAt(word, 1)) = n
    <3> DEFINE e == Max(MatchesAt(word, 1))
    <3>1. e \in 1..n /\ n <= e
      BY <1>2, <2>1, <2>3, MatchLongest
    <3> HIDE DEF e, n
    <3>2. e = n
      BY <1>2, <3>1
    <3> QED
      BY <3>2 DEF e
  <2>5. f[1] = <<PieceTo(word, 1, n)>> \o f[n + 1] /\ f[n + 1] = <<>>
    <3>1. \A k \in 1..(n + 1) :
             f[k] = IF k > n THEN <<>> ELSE IF MatchesAt(word, k) = {} THEN <<unkToken>>
                    ELSE <<PieceTo(word, k, Max(MatchesAt(word, k)))>>
                            \o f[Max(MatchesAt(word, k)) + 1]
      BY <1>4 DEF From
    <3>2. n + 1 \in 1..(n + 1) /\ n + 1 > n /\ ~(1 > n)
      BY <1>2, <2>1
    <3>3. MatchesAt(word, 1) # {}
      BY <2>3
    <3> QED
      BY <2>1, <2>4, <3>1, <3>2, <3>3
  <2>6. PieceTo(word, 1, n) = Token(word)
    <3>1. (1 > 1) = FALSE
      BY <2>0
    <3> QED
      BY <2>2, <3>1, Zenon DEF PieceTo, Token
  <2>7. f[1] = <<Token(word)>>
    <3>1. <<Token(word)>> \o <<>> = <<Token(word)>>
      <4>1. <<Token(word)>> \in Seq({Token(word)})
        OBVIOUS
      <4> QED
        BY <4>1, ConcatEmptySeq
    <3> QED
      BY <2>5, <2>6, <3>1
  <2>8. ToSet(f[1]) = {Token(word)}
    BY <2>7, ShortTexts
  <2>9. ~(n > maxInputCharsPerWord)
    BY <1>2, <1>7, WordPieceAssumption
  <2> QED
    BY <1>1, <2>7, <2>8, <2>9
<1>8. pieces \in Seq(vocab \cup {unkToken})
  <2> DEFINE V == vocab \cup {unkToken}
  <2>1. CASE pieces = <<unkToken>>
    <3>1. unkToken \in V
      OBVIOUS
    <3> HIDE DEF V
    <3>2. <<unkToken>> \in Seq(V)
      BY <3>1
    <3> QED
      BY <2>1, <3>2 DEF V
  <2>2. CASE pieces # <<unkToken>>
    <3>1. pieces = f[1]
      BY <1>1, <2>2
    <3>2. pieces \in Seq(Piece(X))
      BY <1>5, <3>1 DEF Pieced
    <3>3. IsText(pieces)
      BY <3>2, TextOf
    <3>4. ToSet(pieces) \subseteq V
      BY <1>6, <2>2 DEF ToSet
    <3> HIDE DEF V
    <3>5. pieces \in Seq(V)
      BY <3>3, <3>4, SeqMonotonic DEF IsText
    <3> QED
      BY <3>5 DEF V
  <2> QED
    BY <2>1, <2>2
<1> QED
  BY <1>6, <1>7, <1>8 DEF Spells, pieces

-----------------------------------------------------------------------------
(* Sums over sequences *)

\* As many ones, so that sums are lengths.
Ones(m) == [i \in 1..m |-> 1]

\* What the elements of q weigh together.
Total(w, q) == Len(FlattenSeq([j \in DOMAIN q |-> Ones(w[q[j]])]))

\* Their number.
LEMMA OnesType ==
  ASSUME NEW m \in Nat
  PROVE  Ones(m) \in Seq({1}) /\ Len(Ones(m)) = m /\ (Ones(m) = <<>> => m = 0)
<1>1. Ones(m) \in [1..m -> {1}] /\ DOMAIN Ones(m) = 1..m
  BY DEF Ones
<1>2. Ones(m) \in Seq({1})
  BY <1>1, SeqDef
<1>3. Len(Ones(m)) \in Nat /\ DOMAIN Ones(m) = 1..Len(Ones(m))
  BY <1>2, LenProperties
<1>4. Len(Ones(m)) = m
  BY <1>1, <1>3
<1>5. Ones(m) = <<>> => m = 0
  BY <1>4, EmptySeq
<1> QED
  BY <1>2, <1>4, <1>5

\* The types of what is summed.
LEMMA WeighedType ==
  ASSUME NEW P, NEW w \in [P -> Nat], NEW q \in Seq(P)
  PROVE  /\ Len(q) \in Nat /\ DOMAIN q = 1..Len(q)
         /\ \A j \in 1..Len(q) : q[j] \in P /\ w[q[j]] \in Nat
         /\ [j \in DOMAIN q |-> Ones(w[q[j]])] \in [1..Len(q) -> Seq({1})]
<1>1. Len(q) \in Nat /\ DOMAIN q = 1..Len(q) /\ \A j \in 1..Len(q) : q[j] \in P
  BY LenProperties, ElementOfSeq
<1>2. \A j \in 1..Len(q) : w[q[j]] \in Nat
  BY <1>1
<1>3. \A j \in 1..Len(q) : Ones(w[q[j]]) \in Seq({1})
  BY <1>2, OnesType
<1> QED
  BY <1>1, <1>2, <1>3

\* A total is a number.
LEMMA TotalType ==
  ASSUME NEW P, NEW w \in [P -> Nat], NEW q \in Seq(P)
  PROVE  /\ Total(w, q) \in Nat
         /\ FlattenSeq([j \in DOMAIN q |-> Ones(w[q[j]])]) \in Seq({1})
<1> DEFINE ws == [j \in DOMAIN q |-> Ones(w[q[j]])]
<1>1. Len(q) \in Nat /\ ws \in [1..Len(q) -> Seq({1})]
  BY WeighedType
<1> HIDE DEF ws
<1>2. FlattenSeq(ws) \in Seq({1})
  BY <1>1, FlatLaid
<1>3. Len(FlattenSeq(ws)) \in Nat
  BY <1>2, LenProperties
<1> QED
  BY <1>2, <1>3 DEF Total, ws

\* The running sum.
Summed(o, w, q) ==
    /\ o \in [0..Len(q) -> Nat] /\ o[0] = 0
    /\ \A k \in 1..Len(q) : o[k] = o[k - 1] + w[q[k]]
    /\ o[Len(q)] = Total(w, q)

\* A running sum ends in the total.
LEMMA SumsExist ==
  ASSUME NEW P, NEW w \in [P -> Nat], NEW q \in Seq(P)
  PROVE  \E o : Summed(o, w, q)
<1> DEFINE ws == [j \in DOMAIN q |-> Ones(w[q[j]])]
           n == Len(q)
<1>1. /\ n \in Nat /\ DOMAIN q = 1..n /\ ws \in [1..n -> Seq({1})]
      /\ \A j \in 1..n : q[j] \in P /\ w[q[j]] \in Nat
  BY WeighedType
<1>2. \A k \in 1..n : ws[k] = Ones(w[q[k]])
  BY <1>1
<1>3. Total(w, q) = Len(FlattenSeq(ws))
  BY DEF Total
<1> HIDE DEF ws, n
<1>4. PICK o : Laid(o, n, ws, FlattenSeq(ws))
  BY <1>1, FlatLaid
<1>5. ASSUME NEW k \in 1..n
      PROVE  o[k] = o[k - 1] + w[q[k]]
  <2>1. Len(ws[k]) = w[q[k]]
    BY <1>1, <1>2, OnesType
  <2> QED
    BY <1>4, <2>1 DEF Laid
<1>6. Summed(o, w, q)
  BY <1>3, <1>4, <1>5 DEF Laid, Summed, n
<1> QED
  BY <1>6

\* Any running sum ends in the total.
LEMMA SumIsTotal ==
  ASSUME NEW P, NEW w \in [P -> Nat], NEW q \in Seq(P), NEW o, o[0] = 0,
         \A k \in 1..Len(q) : o[k] = o[k - 1] + w[q[k]]
  PROVE  o[Len(q)] = Total(w, q)
<1>1. PICK h : Summed(h, w, q)
  BY SumsExist
<1>2. Len(q) \in Nat
  BY LenProperties
<1> DEFINE good == {k \in 0..Len(q) : o[k] = h[k]}
<1>3. 0 \in good
  BY <1>1, <1>2 DEF Summed
<1>4. ASSUME NEW k \in 1..Len(q), k - 1 \in good
      PROVE  k \in good
  <2>1. h[k] = h[k - 1] + w[q[k]]
    BY <1>1 DEF Summed
  <2>2. o[k - 1] = h[k - 1] /\ k \in 0..Len(q)
    BY <1>2, <1>4
  <2>3. o[k] = h[k]
    BY <2>1, <2>2
  <2> QED
    BY <2>2, <2>3
<1>5. Len(q) \in good
  <2> HIDE DEF good
  <2> QED
    BY <1>2, <1>3, <1>4, TurnsKeep
<1> QED
  BY <1>1, <1>5 DEF Summed

\* Nothing weighs nothing.
LEMMA TotalNothing ==
  ASSUME NEW P, NEW w \in [P -> Nat]
  PROVE  Total(w, <<>>) = 0
<1>1. <<>> \in Seq(P) /\ Len(<<>>) = 0
  BY EmptySeq
<1>2. PICK o : Summed(o, w, <<>>)
  BY <1>1, SumsExist
<1> QED
  BY <1>1, <1>2 DEF Summed

\* One element weighs what it weighs.
LEMMA TotalOne ==
  ASSUME NEW P, NEW w \in [P -> Nat], NEW x \in P
  PROVE  Total(w, <<x>>) = w[x]
<1> DEFINE q == <<x>>
<1>1. q \in Seq(P) /\ Len(q) = 1 /\ q[1] = x
  OBVIOUS
<1> HIDE DEF q
<1>2. PICK o : Summed(o, w, q)
  BY <1>1, SumsExist
<1>3. 1 \in 1..Len(q) /\ 1 - 1 = 0
  BY <1>1
<1>4. o[1] = o[1 - 1] + w[q[1]] /\ o[0] = 0 /\ o[1] = Total(w, q)
  BY <1>1, <1>2, <1>3 DEF Summed
<1>5. w[x] \in Nat
  OBVIOUS
<1> QED
  BY <1>1, <1>3, <1>4, <1>5 DEF q

\* What is written one after the other weighs what both do.
LEMMA TotalConcat ==
  ASSUME NEW P, NEW w \in [P -> Nat], NEW q \in Seq(P), NEW r \in Seq(P)
  PROVE  Total(w, q \o r) = Total(w, q) + Total(w, r)
<1> DEFINE n == Len(q)
           m == Len(r)
           qr == q \o r
<1>1. n \in Nat /\ m \in Nat
  BY LenProperties
<1>2. /\ qr \in Seq(P) /\ Len(qr) = n + m
      /\ \A k \in 1..(n + m) : qr[k] = IF k <= n THEN q[k] ELSE r[k - n]
  BY ConcatProperties
<1>3. PICK g : Summed(g, w, q)
  BY SumsExist
<1>4. PICK h : Summed(h, w, r)
  BY SumsExist
<1>5. /\ g \in [0..n -> Nat] /\ g[0] = 0 /\ g[n] = Total(w, q)
      /\ \A k \in 1..n : g[k] = g[k - 1] + w[q[k]]
  BY <1>3 DEF Summed
<1>6. /\ h \in [0..m -> Nat] /\ h[0] = 0 /\ h[m] = Total(w, r)
      /\ \A k \in 1..m : h[k] = h[k - 1] + w[r[k]]
  BY <1>4 DEF Summed
<1>7. \A k \in 1..m : w[r[k]] \in Nat
  BY WeighedType
<1> HIDE DEF n, m, qr
<1> DEFINE f == [k \in 0..(n + m) |-> IF k <= n THEN g[k] ELSE g[n] + h[k - n]]
<1>8. g[n] \in Nat
  BY <1>1, <1>5
<1>9. \A j \in 0..m : f[n + j] = g[n] + h[j]
  <2> SUFFICES ASSUME NEW j \in 0..m PROVE f[n + j] = g[n] + h[j]
    OBVIOUS
  <2>1. n + j \in 0..(n + m) /\ (n + j) - n = j /\ (n + j <= n => j = 0)
    BY <1>1
  <2>2. CASE j = 0
    BY <1>1, <1>6, <1>8, <2>1, <2>2
  <2>3. CASE j # 0
    BY <2>1, <2>3
  <2> QED
    BY <2>2, <2>3
<1>10. \A k \in 0..n : f[k] = g[k]
  BY <1>1
<1> HIDE DEF f
<1>11. f[0] = 0 /\ f[n + m] = g[n] + h[m]
  BY <1>1, <1>5, <1>9, <1>10
<1>12. ASSUME NEW k \in 1..(n + m)
       PROVE  f[k] = f[k - 1] + w[qr[k]]
  <2>1. CASE k <= n
    <3>1. k \in 1..n /\ k - 1 \in 0..n /\ k \in 0..n
      BY <1>1, <2>1
    <3> QED
      BY <1>2, <1>5, <1>10, <2>1, <3>1
  <2>2. CASE ~(k <= n)
    <3> DEFINE j == k - n
    <3>1. j \in 1..m /\ j - 1 \in 0..m /\ j \in 0..m /\ k = n + j /\ k - 1 = n + (j - 1)
      BY <1>1, <2>2
    <3>2. qr[k] = r[j]
      BY <1>2, <2>2
    <3> HIDE DEF j
    <3>3. f[k] = g[n] + h[j] /\ f[k - 1] = g[n] + h[j - 1]
      BY <1>9, <3>1
    <3>4. h[j] = h[j - 1] + w[r[j]] /\ h[j - 1] \in Nat /\ w[r[j]] \in Nat
      BY <1>6, <1>7, <3>1
    <3> QED
      BY <1>8, <3>2, <3>3, <3>4
  <2> QED
    BY <2>1, <2>2
<1>13. f[Len(qr)] = Total(w, qr)
  <2>1. qr \in Seq(P) /\ f[0] = 0 /\ \A k \in 1..Len(qr) : f[k] = f[k - 1] + w[qr[k]]
    BY <1>2, <1>11, <1>12
  <2> QED
    BY <2>1, SumIsTotal
<1> QED
  BY <1>2, <1>5, <1>6, <1>11, <1>13 DEF qr

\* Each part weighs what its place does.
Matched(seqs, w, P, refs, v, Q) ==
    /\ w \in [P -> Nat] /\ v \in [Q -> Nat] /\ refs \in Seq(Q)
    /\ seqs \in [1..Len(refs) -> Seq(P)]
    /\ \A k \in 1..Len(refs) : Total(w, seqs[k]) = v[refs[k]]

\* Then the parts together weigh what their places do.
LEMMA TotalFlat ==
  ASSUME NEW P, NEW w, NEW Q, NEW v, NEW refs, NEW seqs, Matched(seqs, w, P, refs, v, Q)
  PROVE  FlattenSeq(seqs) \in Seq(P) /\ Total(w, FlattenSeq(seqs)) = Total(v, refs)
<1> USE DEF Matched
<1> DEFINE n == Len(refs)
<1>1. n \in Nat
  BY LenProperties
<1>2. PICK g : Spelt(g, n, seqs, P)
  BY <1>1, Flattening
<1>3. /\ g \in [0..n -> Seq(P)] /\ g[0] = <<>> /\ FlattenSeq(seqs) = g[n]
      /\ \A k \in 1..n : g[k] = g[k - 1] \o seqs[k]
  BY <1>2 DEF Spelt
<1> DEFINE o == [k \in 0..n |-> Total(w, g[k])]
<1>4. o[0] = 0 /\ o[n] = Total(w, FlattenSeq(seqs))
  BY <1>1, <1>3, TotalNothing
<1>5. ASSUME NEW k \in 1..n
      PROVE  o[k] = o[k - 1] + v[refs[k]]
  <2>1. k - 1 \in 0..n /\ k \in 0..n
    BY <1>1
  <2>2. g[k - 1] \in Seq(P) /\ seqs[k] \in Seq(P) /\ g[k] = g[k - 1] \o seqs[k]
    BY <1>3, <2>1
  <2>3. Total(w, g[k]) = Total(w, g[k - 1]) + Total(w, seqs[k])
    BY <2>2, TotalConcat
  <2>4. Total(w, seqs[k]) = v[refs[k]]
    OBVIOUS
  <2>5. o[k] = Total(w, g[k]) /\ o[k - 1] = Total(w, g[k - 1])
    BY <2>1
  <2> HIDE DEF o
  <2> QED
    BY <2>3, <2>4, <2>5
<1> HIDE DEF o
<1>6. o[n] = Total(v, refs)
  BY <1>4, <1>5, SumIsTotal
<1>7. g[n] \in Seq(P)
  BY <1>1, <1>3
<1> QED
  BY <1>3, <1>4, <1>6, <1>7

\* What weighs nothing has no part that weighs anything.
LEMMA TotalZero ==
  ASSUME NEW P, NEW w \in [P -> Nat], NEW q \in Seq(P), Total(w, q) = 0
  PROVE  \A j \in DOMAIN q : w[q[j]] = 0
<1> DEFINE ws == [j \in DOMAIN q |-> Ones(w[q[j]])]
           n == Len(q)
<1>1. /\ n \in Nat /\ DOMAIN q = 1..n /\ ws \in [1..n -> Seq({1})]
      /\ \A j \in 1..n : q[j] \in P /\ w[q[j]] \in Nat
  BY WeighedType
<1>2. \A k \in 1..n : ws[k] = Ones(w[q[k]])
  BY <1>1
<1>3. Len(FlattenSeq(ws)) = 0 /\ FlattenSeq(ws) \in Seq({1})
  BY TotalType DEF Total
<1>4. FlattenSeq(ws) = <<>>
  BY <1>3, EmptySeq
<1> HIDE DEF ws, n
<1>5. \A k \in 1..n : ws[k] = <<>>
  BY <1>1, <1>4, FlatEmpty
<1> QED
  BY <1>1, <1>2, <1>5, OnesType

\* How often x is in q.
Singles(w, x, P) == w = [y \in P |-> IF y = x THEN 1 ELSE 0]

\* With those weights the total is the number of places that hold x.
LEMMA TotalCounts ==
  ASSUME NEW P, NEW q \in Seq(P), NEW x, NEW w, Singles(w, x, P)
  PROVE  Total(w, q) = Cardinality({k \in DOMAIN q : q[k] = x})
<1> USE DEF Singles
<1> DEFINE n == Len(q)
           at(m) == {k \in 1..m : q[k] = x}
           o == [m \in 0..n |-> Cardinality(at(m))]
<1>1. n \in Nat /\ DOMAIN q = 1..n /\ w \in [P -> Nat] /\ \A j \in 1..n : q[j] \in P
  BY LenProperties, ElementOfSeq
<1>2. ASSUME NEW m \in 0..n
      PROVE  IsFiniteSet(at(m)) /\ Cardinality(at(m)) \in Nat
  <2>1. IsFiniteSet(1..m) /\ at(m) \subseteq 1..m
    BY FirstNumbers
  <2> QED
    BY <2>1, FS_Subset, FS_CardinalityType
<1>3. o[0] = 0
  <2>1. at(0) = {}
    OBVIOUS
  <2> QED
    BY <1>1, <2>1, FS_EmptySet
<1>4. ASSUME NEW m \in 1..n
      PROVE  o[m] = o[m - 1] + w[q[m]]
  <2>1. m - 1 \in 0..n /\ m \in 0..n
    BY <1>1
  <2>2. IsFiniteSet(at(m - 1)) /\ Cardinality(at(m - 1)) \in Nat
    BY <1>2, <2>1
  <2>3. m \notin at(m - 1)
    OBVIOUS
  <2>4. \A k : k \in 1..m <=> k \in 1..(m - 1) \/ k = m
    OBVIOUS
  <2>5. CASE q[m] = x
    <3>1. at(m) = at(m - 1) \cup {m}
      BY <2>4, <2>5
    <3>2. Cardinality(at(m - 1) \cup {m}) = Cardinality(at(m - 1)) + 1
      BY <2>2, <2>3, FS_AddElement
    <3>3. w[q[m]] = 1
      BY <1>1, <2>5
    <3> HIDE DEF at
    <3> QED
      BY <2>1, <3>1, <3>2, <3>3
  <2>6. CASE q[m] # x
    <3>1. at(m) = at(m - 1)
      BY <2>4, <2>6
    <3>2. w[q[m]] = 0
      BY <1>1, <2>6
    <3> HIDE DEF at
    <3> QED
      BY <2>1, <2>2, <3>1, <3>2
  <2> QED
    BY <2>5, <2>6
<1>5. o[n] = Cardinality({k \in DOMAIN q : q[k] = x})
  BY <1>1
<1> HIDE DEF o
<1>6. o[n] = Total(w, q)
  BY <1>1, <1>3, <1>4, SumIsTotal
<1> QED
  BY <1>5, <1>6

-----------------------------------------------------------------------------
(* Occurrences of special tokens *)

\* The shape of a special token: a name between brackets.
Bracketed(t) ==
    /\ IsText(t) /\ Len(t) = 3 /\ t[1] = "[" /\ t[3] = "]"
    /\ t[2] # "[" /\ t[2] # "]" /\ ToSet(t) = {"[", t[2], "]"}

\* How often t stands in u.
Frequency(u, t) == Cardinality(Occurrences(u, t))

\* All five have that shape.
LEMMA TokensBracketed ==
  \A t \in ToSet(addedTokens) : Bracketed(t)
<1> SUFFICES ASSUME NEW t \in ToSet(addedTokens) PROVE Bracketed(t)
  OBVIOUS
<1>1. PICK k \in 1..5 : t = addedTokens[k]
  BY AddedTokens DEF ToSet
<1>2. PICK name : t = <<"[", name, "]">> /\ name \in {"PAD", "UNK", "CLS", "SEP", "MASK"}
  BY <1>1 DEF addedTokens
<1>3. name # "[" /\ name # "]"
  BY <1>2
<1> QED
  BY <1>2, <1>3, PaddedTexts DEF Bracketed

\* A token occurs where its three characters stand.
LEMMA OccursWhere ==
  ASSUME NEW X, NEW u \in Seq(X), NEW t, Bracketed(t), NEW k
  PROVE  k \in Occurrences(u, t) <=>
            k \in 1..(Len(u) - 2) /\ u[k] = t[1] /\ u[k + 1] = t[2] /\ u[k + 2] = t[3]
<1>1. Len(u) \in Nat /\ Len(t) = 3 /\ \A i \in 1..Len(u) : u[i] \in X
  BY LenProperties, ElementOfSeq DEF Bracketed
<1>2. Len(u) - Len(t) + 1 = Len(u) - 2
  BY <1>1
<1>3. ASSUME k \in 1..(Len(u) - 2)
      PROVE  SubSeq(u, k, k + 3 - 1) = t <=> u[k] = t[1] /\ u[k + 1] = t[2] /\ u[k + 2] = t[3]
  <2> DEFINE Y == X \cup ToSet(t)
             v == SubSeq(u, k, k + 2)
  <2>1. k \in Int /\ k + 2 \in Int /\ k + 3 - 1 = k + 2 /\ k <= k + 2 /\ (k + 2) - k + 1 = 3
    BY <1>1, <1>3
  <2>2. \A i \in k..(k + 2) : u[i] \in Y
    BY <1>1, <1>3
  <2>3. t \in Seq(Y)
    BY SeqMonotonic DEF Bracketed, IsText
  <2> HIDE DEF Y
  <2>4. /\ v \in Seq(Y) /\ Len(v) = 3
        /\ \A i \in 1..3 : v[i] = u[k + i - 1]
    BY <2>1, <2>2, SubSeqProperties
  <2>5. k + 1 - 1 = k /\ k + 2 - 1 = k + 1 /\ k + 3 - 1 = k + 2
    BY <2>1
  <2>6. v[1] = u[k] /\ v[2] = u[k + 1] /\ v[3] = u[k + 2]
    <3>1. 1 \in 1..3 /\ 2 \in 1..3 /\ 3 \in 1..3
      OBVIOUS
    <3>2. v[1] = u[k + 1 - 1] /\ v[2] = u[k + 2 - 1] /\ v[3] = u[k + 3 - 1]
      BY <2>4, <3>1
    <3> HIDE DEF v
    <3> QED
      BY <2>5, <3>2
  <2> HIDE DEF v
  <2>7. v = t <=> v[1] = t[1] /\ v[2] = t[2] /\ v[3] = t[3]
    <3>1. ASSUME v[1] = t[1], v[2] = t[2], v[3] = t[3]
          PROVE  v = t
      <4>1. \A i \in 1..3 : v[i] = t[i]
        <5>1. \A i \in 1..3 : i = 1 \/ i = 2 \/ i = 3
          OBVIOUS
        <5> QED
          BY <3>1, <5>1
      <4> QED
        BY <1>1, <2>3, <2>4, <4>1, SeqEqual
    <3> QED
      BY <3>1
  <2> QED
    BY <2>1, <2>6, <2>7 DEF v
<1>4. k \in Occurrences(u, t) <=>
         k \in 1..(Len(u) - 2) /\ SubSeq(u, k, k + 3 - 1) = t
  BY <1>1, <1>2 DEF Occurrences
<1> QED
  BY <1>3, <1>4

\* It is a number.
LEMMA OccurrencesFinite ==
  ASSUME NEW X, NEW u \in Seq(X), NEW t, Bracketed(t)
  PROVE  /\ IsFiniteSet(Occurrences(u, t)) /\ Frequency(u, t) \in Nat
         /\ Occurrences(u, t) \subseteq 1..Len(u)
         /\ Frequency(u, t) = 0 <=> Occurrences(u, t) = {}
<1>1. Len(u) \in Nat
  BY LenProperties
<1>2. Occurrences(u, t) \subseteq 1..Len(u)
  <2>1. \A k \in Occurrences(u, t) : k \in 1..(Len(u) - 2)
    BY OccursWhere
  <2> QED
    BY <1>1, <2>1
<1>3. IsFiniteSet(1..Len(u))
  BY <1>1, FirstNumbers
<1>4. IsFiniteSet(Occurrences(u, t))
  BY <1>2, <1>3, FS_Subset
<1> QED
  BY <1>2, <1>4, FS_CardinalityType, FS_EmptySet DEF Frequency

\* No token stands across a place before which one ends or after which one begins.
Cleft(x, y) ==
    (y # <<>> /\ y[1] = "[") \/ (x # <<>> /\ x[Len(x)] = "]")

\* So what stands in both stands in one or in the other.
LEMMA FrequencyAdds ==
  ASSUME NEW X, NEW x \in Seq(X), NEW y \in Seq(X), NEW t, Bracketed(t), Cleft(x, y)
  PROVE  Frequency(x \o y, t) = Frequency(x, t) + Frequency(y, t)
<1> DEFINE n == Len(x)
           m == Len(y)
           u == x \o y
           A == Occurrences(x, t)
           B == Occurrences(y, t)
           f == [k \in B |-> n + k]
           C == {n + k : k \in B}
<1>1. n \in Nat /\ m \in Nat
  BY LenProperties
<1>2. /\ u \in Seq(X) /\ Len(u) = n + m
      /\ \A k \in 1..(n + m) : u[k] = IF k <= n THEN x[k] ELSE y[k - n]
  BY ConcatProperties
<1>13. Len(u) = n + m
  BY <1>2
<1>3. /\ IsFiniteSet(A) /\ IsFiniteSet(B) /\ A \subseteq 1..n /\ B \subseteq 1..m
      /\ Cardinality(A) \in Nat /\ Cardinality(B) \in Nat
  BY OccurrencesFinite, FS_CardinalityType
<1>4. t[1] = "[" /\ t[3] = "]" /\ t[2] # "[" /\ t[2] # "]"
  BY DEF Bracketed
<1>5. (m >= 1 /\ y[1] = "[") \/ (n >= 1 /\ x[n] = "]")
  BY <1>1, EmptySeq DEF Cleft
<1>6. /\ \A k : k \in Occurrences(u, t) <=>
              k \in 1..(Len(u) - 2) /\ u[k] = t[1] /\ u[k + 1] = t[2] /\ u[k + 2] = t[3]
      /\ \A k : k \in A <=>
              k \in 1..(Len(x) - 2) /\ x[k] = t[1] /\ x[k + 1] = t[2] /\ x[k + 2] = t[3]
      /\ \A k : k \in B <=>
              k \in 1..(Len(y) - 2) /\ y[k] = t[1] /\ y[k + 1] = t[2] /\ y[k + 2] = t[3]
  BY <1>2, OccursWhere
<1> HIDE DEF u, A, B, n, m
<1>7. \A k \in 1..n : u[k] = x[k]
  BY <1>1, <1>2
<1>8. \A k \in 1..m : u[n + k] = y[k]
  <2> SUFFICES ASSUME NEW k \in 1..m PROVE u[n + k] = y[k]
    OBVIOUS
  <2>1. n + k \in 1..(n + m) /\ ~(n + k <= n) /\ (n + k) - n = k
    BY <1>1
  <2> QED
    BY <1>2, <2>1
<1>9. ASSUME NEW k
      PROVE  k \in Occurrences(u, t) <=> k \in A \/ k \in C
  <2>1. ASSUME k \in A
        PROVE  k \in Occurrences(u, t)
    <3>1. k \in 1..(n - 2) /\ x[k] = t[1] /\ x[k + 1] = t[2] /\ x[k + 2] = t[3]
      BY <1>6, <2>1 DEF n
    <3>2. k \in 1..(Len(u) - 2) /\ k \in 1..n /\ k + 1 \in 1..n /\ k + 2 \in 1..n
      <4>1. k \in Int /\ 1 <= k /\ k <= n - 2
        BY <1>1, <3>1
      <4>2. Len(u) - 2 = n + m - 2
        BY <1>1, <1>13
      <4>3. k <= n + m - 2 /\ n + m - 2 \in Int /\ k <= n /\ k + 1 <= n /\ k + 2 <= n
        BY <1>1, <4>1
      <4> QED
        BY <1>1, <4>1, <4>2, <4>3
    <3>3. u[k] = t[1] /\ u[k + 1] = t[2] /\ u[k + 2] = t[3]
      BY <1>7, <3>1, <3>2
    <3> QED
      BY <1>6, <3>2, <3>3
  <2>2. ASSUME k \in C
        PROVE  k \in Occurrences(u, t)
    <3>1. PICK j \in B : k = n + j
      BY <2>2
    <3>2. j \in 1..(m - 2) /\ y[j] = t[1] /\ y[j + 1] = t[2] /\ y[j + 2] = t[3]
      BY <1>6 DEF m
    <3>3. /\ k \in 1..(Len(u) - 2) /\ j \in 1..m /\ j + 1 \in 1..m /\ j + 2 \in 1..m
          /\ k + 1 = n + (j + 1) /\ k + 2 = n + (j + 2)
      <4>1. j \in Int /\ 1 <= j /\ j <= m - 2
        BY <1>1, <3>2
      <4>2. Len(u) - 2 = n + m - 2
        BY <1>1, <1>13
      <4>3. n + j <= n + m - 2 /\ 1 <= n + j /\ n + j \in Int /\ n + m - 2 \in Int
        BY <1>1, <4>1
      <4> QED
        BY <1>1, <3>1, <4>1, <4>2, <4>3
    <3>4. u[k] = t[1] /\ u[k + 1] = t[2] /\ u[k + 2] = t[3]
      BY <1>8, <3>1, <3>2, <3>3
    <3> QED
      BY <1>6, <3>3, <3>4
  <2>3. ASSUME k \in Occurrences(u, t)
        PROVE  k \in A \/ k \in C
    <3>1. k \in 1..(n + m - 2) /\ u[k] = t[1] /\ u[k + 1] = t[2] /\ u[k + 2] = t[3]
      <4>1. k \in 1..(Len(u) - 2) /\ u[k] = t[1] /\ u[k + 1] = t[2] /\ u[k + 2] = t[3]
        BY <1>6, <2>3
      <4>2. Len(u) - 2 = n + m - 2
        BY <1>1, <1>13
      <4> QED
        BY <4>1, <4>2
    <3>2. CASE k + 2 <= n
      <4>1. k \in 1..(n - 2) /\ k \in 1..n /\ k + 1 \in 1..n /\ k + 2 \in 1..n
        BY <1>1, <3>1, <3>2
      <4> QED
        BY <1>6, <1>7, <3>1, <4>1 DEF n
    <3>3. CASE k > n
      <4> DEFINE j == k - n
      <4>1. /\ j \in 1..(m - 2) /\ j \in 1..m /\ j + 1 \in 1..m /\ j + 2 \in 1..m
            /\ k = n + j /\ k + 1 = n + (j + 1) /\ k + 2 = n + (j + 2)
        BY <1>1, <3>1, <3>3
      <4> HIDE DEF j
      <4>2. u[k] = y[j] /\ u[k + 1] = y[j + 1] /\ u[k + 2] = y[j + 2]
        BY <1>8, <4>1
      <4>3. j \in B
        BY <1>6, <3>1, <4>1, <4>2 DEF m
      <4> QED
        BY <4>1, <4>3
    <3>4. CASE k <= n /\ n < k + 2
      <4>1. n = k \/ n = k + 1
        BY <1>1, <3>1, <3>4
      <4>2. n \in 1..n /\ 1 \in 1..m
        BY <1>1, <3>1, <3>4
      <4>3. u[n] = x[n] /\ u[n + 1] = y[1]
        BY <1>7, <1>8, <4>2
      <4>4. CASE y[1] = "["
        <5>1. n + 1 = k + 1 \/ n + 1 = k + 2
          BY <1>1, <3>1, <4>1
        <5> QED
          BY <1>4, <3>1, <4>3, <4>4, <5>1
      <4>5. CASE x[n] = "]"
        BY <1>4, <3>1, <4>1, <4>3, <4>5
      <4> QED
        BY <1>5, <4>4, <4>5
    <3> QED
      BY <1>1, <3>1, <3>2, <3>3, <3>4
  <2> QED
    BY <2>1, <2>2, <2>3
<1>10. Occurrences(u, t) = A \cup C
  <2> HIDE DEF C
  <2> QED
    BY <1>9
<1>11. A \cap C = {}
  <2>1. \A k \in B : n + k \notin 1..n
    BY <1>1, <1>3
  <2> QED
    BY <1>3, <2>1
<1>12. IsFiniteSet(C) /\ Cardinality(C) = Cardinality(B)
  <2>1. Carried(f, B, B, C)
    <3>1. B \subseteq Int
      BY <1>1, <1>3
    <3>2. Grows(f, B)
      BY <1>1, <3>1 DEF Grows
    <3>3. C = {f[k] : k \in B}
      OBVIOUS
    <3> HIDE DEF f, C
    <3> QED
      BY <1>3, <3>1, <3>2, <3>3 DEF Carried
  <2> HIDE DEF f, C
  <2> QED
    BY <2>1, ImageCounts
<1> HIDE DEF C
<1>15. Cardinality(A \cup C) = Cardinality(A) + Cardinality(C) - Cardinality(A \cap C)
  BY <1>3, <1>12, FS_Union
<1>14. Cardinality(A \cap C) = 0
  BY <1>11, FS_EmptySet
<1> QED
  BY <1>3, <1>10, <1>12, <1>15, <1>14 DEF Frequency, u, A, B

\* A token is in another only if it is that one.
LEMMA FrequencySelf ==
  ASSUME NEW s, Bracketed(s), NEW t, Bracketed(t)
  PROVE  Frequency(s, t) = IF s = t THEN 1 ELSE 0
<1>1. /\ s \in Seq(ToSet(s)) /\ Len(s) = 3 /\ t \in Seq(ToSet(t)) /\ Len(t) = 3
      /\ s[1] = "[" /\ s[3] = "]" /\ t[1] = "[" /\ t[3] = "]"
  BY DEF Bracketed, IsText
<1>2. \A k : k \in Occurrences(s, t) <=>
         k \in 1..(3 - 2) /\ s[k] = t[1] /\ s[k + 1] = t[2] /\ s[k + 2] = t[3]
  BY <1>1, OccursWhere
<1>3. s[2] = t[2] => s = t
  <2> SUFFICES ASSUME s[2] = t[2] PROVE s = t
    OBVIOUS
  <2> DEFINE Y == ToSet(s) \cup ToSet(t)
  <2>1. s \in Seq(Y) /\ t \in Seq(Y)
    BY <1>1, SeqMonotonic
  <2>2. \A i \in 1..3 : i = 1 \/ i = 2 \/ i = 3
    OBVIOUS
  <2>3. \A i \in 1..3 : s[i] = t[i]
    BY <1>1, <2>2
  <2> HIDE DEF Y
  <2> QED
    BY <1>1, <2>1, <2>3, SeqEqual
<1>4. \A k : k \in Occurrences(s, t) <=> k = 1 /\ s = t
  <2> SUFFICES ASSUME NEW k PROVE k \in Occurrences(s, t) <=> k = 1 /\ s = t
    OBVIOUS
  <2>1. k \in 1..(3 - 2) <=> k = 1
    OBVIOUS
  <2>2. s[1 + 1] = s[2] /\ s[1 + 2] = s[3]
    OBVIOUS
  <2> QED
    BY <1>1, <1>2, <1>3, <2>1, <2>2
<1>5. CASE s = t
  <2>1. Occurrences(s, t) = {1}
    BY <1>4, <1>5
  <2> QED
    BY <1>5, <2>1, FS_Singleton DEF Frequency
<1>6. CASE s # t
  <2>1. Occurrences(s, t) = {}
    BY <1>4, <1>6
  <2> QED
    BY <1>6, <2>1, FS_EmptySet DEF Frequency
<1> QED
  BY <1>5, <1>6

-----------------------------------------------------------------------------
(* Cutting a text at a token *)

\* The segments of an alphabet.
Segs(X) == [special : BOOLEAN, text : Seq(X)]

\* How often t stands in a segment.
Weight(t, X) ==
    [g \in Segs(X) |-> IF g.special THEN IF g.text = t THEN 1 ELSE 0 ELSE Frequency(g.text, t)]

\* The segments r of the text s: none but tok is special, no plain one contains tok,
\* and each token is in them as often as in s.
Cut(r, s, tok, X) ==
    /\ r \in Seq(Segs(X))
    /\ \A g \in ToSet(r) : IF g.special THEN g.text = tok ELSE Frequency(g.text, tok) = 0
    /\ \A t \in ToSet(addedTokens) : Total(Weight(t, X), r) = Frequency(s, t)

\* It is a number.
LEMMA WeightType ==
  ASSUME NEW X, NEW t, Bracketed(t)
  PROVE  Weight(t, X) \in [Segs(X) -> Nat]
<1>1. ASSUME NEW g \in Segs(X)
      PROVE  (IF g.special THEN IF g.text = t THEN 1 ELSE 0 ELSE Frequency(g.text, t)) \in Nat
  <2>1. g.text \in Seq(X)
    BY DEF Segs
  <2>2. Frequency(g.text, t) \in Nat
    BY <2>1, OccurrencesFinite
  <2> QED
    BY <2>2
<1> QED
  BY <1>1 DEF Weight

\* One segment: a plain one without the token, or the token.
LEMMA CutOne ==
  ASSUME NEW X, NEW s \in Seq(X), NEW tok \in ToSet(addedTokens), NEW g \in Segs(X),
         \/ g = PlainText(s) /\ Frequency(s, tok) = 0
         \/ g = Special(tok) /\ s = tok
  PROVE  Cut(<<g>>, s, tok, X)
<1>1. <<g>> \in Seq(Segs(X)) /\ ToSet(<<g>>) = {g}
  <2> DEFINE S == Segs(X)
  <2>1. g \in S
    OBVIOUS
  <2> HIDE DEF S
  <2>2. <<g>> \in Seq(S)
    BY <2>1
  <2> QED
    BY <2>2, ShortTexts DEF S
<1>2. /\ PlainText(s).special = FALSE /\ PlainText(s).text = s
      /\ Special(tok).special = TRUE /\ Special(tok).text = tok
  BY DEF PlainText, Special
<1>3. IF g.special THEN g.text = tok ELSE Frequency(g.text, tok) = 0
  BY <1>2
<1>4. ASSUME NEW t \in ToSet(addedTokens)
      PROVE  Total(Weight(t, X), <<g>>) = Frequency(s, t)
  <2>1. Bracketed(t) /\ Bracketed(tok)
    BY TokensBracketed
  <2>2. Total(Weight(t, X), <<g>>) = Weight(t, X)[g]
    <3> DEFINE S == Segs(X)
    <3>1. Weight(t, X) \in [S -> Nat] /\ g \in S
      BY <2>1, WeightType
    <3> HIDE DEF S
    <3> QED
      BY <3>1, TotalOne
  <2>3. Weight(t, X)[g] = IF g.special THEN IF g.text = t THEN 1 ELSE 0 ELSE Frequency(g.text, t)
    BY DEF Weight
  <2>4. CASE g = PlainText(s)
    BY <1>2, <2>2, <2>3, <2>4
  <2>5. CASE g = Special(tok) /\ s = tok
    <3>1. Frequency(tok, t) = IF tok = t THEN 1 ELSE 0
      BY <2>1, FrequencySelf
    <3> QED
      BY <1>2, <2>2, <2>3, <2>5, <3>1
  <2> QED
    BY <2>4, <2>5
<1> QED
  BY <1>1, <1>3, <1>4 DEF Cut

\* No segment.
LEMMA CutNothing ==
  ASSUME NEW X, NEW tok
  PROVE  Cut(<<>>, <<>>, tok, X)
<1>1. <<>> \in Seq(Segs(X)) /\ ToSet(<<>>) = {} /\ <<>> \in Seq(X) /\ Len(<<>>) = 0
  BY EmptySeq, ShortTexts
<1>2. ASSUME NEW t \in ToSet(addedTokens)
      PROVE  Total(Weight(t, X), <<>>) = Frequency(<<>>, t)
  <2>1. Bracketed(t)
    BY TokensBracketed
  <2>2. Total(Weight(t, X), <<>>) = 0
    BY <2>1, WeightType, TotalNothing
  <2>3. Occurrences(<<>>, t) = {}
    <3>1. Occurrences(<<>>, t) \subseteq 1..0
      BY <1>1, <2>1, OccurrencesFinite
    <3> QED
      BY <3>1
  <2> QED
    BY <2>2, <2>3, FS_EmptySet DEF Frequency
<1> QED
  BY <1>1, <1>2 DEF Cut

\* The elements of two sequences.
LEMMA BothElements ==
  ASSUME NEW S, NEW q \in Seq(S), NEW r \in Seq(S)
  PROVE  ToSet(q \o r) = ToSet(q) \cup ToSet(r)
<1> DEFINE n == Len(q)
           m == Len(r)
           qr == q \o r
<1>1. n \in Nat /\ m \in Nat /\ DOMAIN q = 1..n /\ DOMAIN r = 1..m
  BY LenProperties
<1>2. /\ qr \in Seq(S) /\ Len(qr) = n + m
      /\ \A k \in 1..(n + m) : qr[k] = IF k <= n THEN q[k] ELSE r[k - n]
  BY ConcatProperties
<1>3. DOMAIN qr = 1..(n + m)
  BY <1>2, LenProperties
<1> HIDE DEF n, m, qr
<1>4. \A k \in 1..n : k \in 1..(n + m) /\ qr[k] = q[k]
  BY <1>1, <1>2
<1>5. ASSUME NEW k \in 1..m
      PROVE  n + k \in 1..(n + m) /\ qr[n + k] = r[k]
  <2>1. n + k \in 1..(n + m) /\ ~(n + k <= n) /\ (n + k) - n = k
    BY <1>1
  <2> QED
    BY <1>2, <2>1
<1>6. \A k \in 1..(n + m) : k \in 1..n \/ \E j \in 1..m : k = n + j
  <2> SUFFICES ASSUME NEW k \in 1..(n + m), k \notin 1..n PROVE k - n \in 1..m /\ k = n + (k - n)
    OBVIOUS
  <2> QED
    BY <1>1
<1>7. ToSet(q) \cup ToSet(r) \subseteq ToSet(qr)
  BY <1>1, <1>3, <1>4, <1>5 DEF ToSet
<1>8. ToSet(qr) \subseteq ToSet(q) \cup ToSet(r)
  <2> SUFFICES ASSUME NEW k \in 1..(n + m) PROVE qr[k] \in ToSet(q) \cup ToSet(r)
    BY <1>3 DEF ToSet
  <2>1. CASE k \in 1..n
    BY <1>1, <1>4, <2>1 DEF ToSet
  <2>2. CASE k \notin 1..n
    <3>1. PICK j \in 1..m : k = n + j
      BY <1>6, <2>2
    <3> QED
      BY <1>1, <1>5, <3>1 DEF ToSet
  <2> QED
    BY <2>1, <2>2
<1> QED
  BY <1>7, <1>8 DEF qr

\* What is cut in two places where no token stands across.
LEMMA CutTwice ==
  ASSUME NEW X, NEW tok, NEW x \in Seq(X), NEW y \in Seq(X), Cleft(x, y),
         NEW q, Cut(q, x, tok, X), NEW r, Cut(r, y, tok, X)
  PROVE  Cut(q \o r, x \o y, tok, X)
<1>1. q \in Seq(Segs(X)) /\ r \in Seq(Segs(X))
  BY DEF Cut
<1>2. q \o r \in Seq(Segs(X)) /\ ToSet(q \o r) = ToSet(q) \cup ToSet(r)
  <2> DEFINE S == Segs(X)
  <2>1. q \in Seq(S) /\ r \in Seq(S)
    BY <1>1
  <2> HIDE DEF S
  <2>2. q \o r \in Seq(S) /\ ToSet(q \o r) = ToSet(q) \cup ToSet(r)
    BY <2>1, BothElements, ConcatProperties
  <2> QED
    BY <2>2 DEF S
<1>3. ASSUME NEW t \in ToSet(addedTokens)
      PROVE  Total(Weight(t, X), q \o r) = Frequency(x \o y, t)
  <2>1. Bracketed(t)
    BY TokensBracketed
  <2>2. Total(Weight(t, X), q \o r) = Total(Weight(t, X), q) + Total(Weight(t, X), r)
    BY <1>1, <2>1, WeightType, TotalConcat
  <2>3. Frequency(x \o y, t) = Frequency(x, t) + Frequency(y, t)
    BY <2>1, FrequencyAdds
  <2> QED
    BY <2>2, <2>3 DEF Cut
<1> QED
  BY <1>2, <1>3 DEF Cut

-----------------------------------------------------------------------------
(* Cutting it at every occurrence *)

\* Where tok stands in s from k on.
Hits(s, tok, k) ==
    {m \in k..Len(s) : m + Len(tok) - 1 <= Len(s) /\ SubSeq(s, m, m + Len(tok) - 1) = tok}

\* What the cutter finds from each character on.
Cutting(f, s, tok) ==
    f = [k \in 1..(Len(s) + 1) |->
            IF k > Len(s) THEN <<>>
            ELSE IF Hits(s, tok, k) = {} THEN <<PlainText(SubSeq(s, k, Len(s)))>>
            ELSE (IF Min(Hits(s, tok, k)) > k
                  THEN <<PlainText(SubSeq(s, k, Min(Hits(s, tok, k)) - 1))>> ELSE <<>>)
                 \o <<Special(tok)>> \o f[Min(Hits(s, tok, k)) + Len(tok)]]

\* The first of these.
LEMMA HitsOccur ==
  ASSUME NEW X, NEW s \in Seq(X), NEW tok, Bracketed(tok), NEW k \in 1..Len(s)
  PROVE  /\ Hits(s, tok, k) = {m \in Occurrences(s, tok) : m >= k}
         /\ Hits(s, tok, k) # {} =>
               LET hit == Min(Hits(s, tok, k))
               IN  /\ hit \in k..(Len(s) - 2) /\ SubSeq(s, hit, hit + 2) = tok
                   /\ \A m \in Hits(s, tok, k) : hit <= m
<1> DEFINE n == Len(s)
           H == Hits(s, tok, k)
<1>1. n \in Nat /\ Len(tok) = 3
  BY LenProperties DEF Bracketed
<1>2. ASSUME NEW m \in Int
      PROVE  /\ m + Len(tok) - 1 <= n <=> m <= n - 2
             /\ m + Len(tok) - 1 = m + 2 /\ n - Len(tok) + 1 = n - 2
  BY <1>1
<1>3. H = {m \in Occurrences(s, tok) : m >= k}
  <2>1. \A m : m \in H <=> m \in k..n /\ m <= n - 2 /\ SubSeq(s, m, m + 2) = tok
    <3>1. \A m : m \in H <=> m \in k..n /\ m + Len(tok) - 1 <= n
                               /\ SubSeq(s, m, m + Len(tok) - 1) = tok
      BY DEF Hits
    <3>2. k..n \subseteq Int
      BY <1>1
    <3> HIDE DEF n, H
    <3> QED
      BY <1>2, <3>1, <3>2
  <2>2. \A m : m \in Occurrences(s, tok) <=> m \in 1..(n - 2) /\ SubSeq(s, m, m + 2) = tok
    <3>1. \A m : m \in Occurrences(s, tok) <=>
                   m \in 1..(n - Len(tok) + 1) /\ SubSeq(s, m, m + Len(tok) - 1) = tok
      BY DEF Occurrences
    <3>2. n - Len(tok) + 1 = n - 2 /\ 1..(n - 2) \subseteq Int
      BY <1>1
    <3> HIDE DEF n
    <3> QED
      BY <1>2, <3>1, <3>2
  <2>3. \A m : m \in k..n /\ m <= n - 2 <=> m \in 1..(n - 2) /\ m >= k
    BY <1>1
  <2> HIDE DEF H, n
  <2>4. \A m : m \in H <=> m \in {j \in Occurrences(s, tok) : j >= k}
    BY <2>1, <2>2, <2>3
  <2> QED
    BY <2>4
<1>4. ASSUME H # {}
      PROVE  /\ Min(H) \in H /\ \A m \in H : Min(H) <= m
  <2>1. H \in SUBSET Nat
    BY <1>1 DEF Hits
  <2> HIDE DEF H
  <2>2. PICK x \in H : \A y \in H : x <= y
    BY <1>4, <2>1, LeastNatural
  <2> QED
    BY <2>2 DEF Min
<1>5. ASSUME H # {}
      PROVE  Min(H) \in k..(n - 2) /\ SubSeq(s, Min(H), Min(H) + 2) = tok
  <2> DEFINE hit == Min(H)
  <2>1. hit \in H
    BY <1>4, <1>5
  <2> HIDE DEF hit
  <2>2. hit \in k..n /\ hit + Len(tok) - 1 <= n /\ SubSeq(s, hit, hit + Len(tok) - 1) = tok
    BY <2>1 DEF Hits
  <2>3. hit + Len(tok) - 1 = hit + 2
    BY <1>1, <2>2
  <2>4. hit \in k..(n - 2) /\ SubSeq(s, hit, hit + 2) = tok
    BY <1>1, <2>2, <2>3
  <2> QED
    BY <2>4 DEF hit
<1> QED
  BY <1>3, <1>4, <1>5

\* The loop has a value.
LEMMA CuttingExists ==
  ASSUME NEW X, NEW s \in Seq(X), NEW tok \in Seq(X), Bracketed(tok)
  PROVE  \E f \in [1..(Len(s) + 1) -> Seq(Segs(X))] : Cutting(f, s, tok)
<1> DEFINE n == Len(s)
           S == Seq(Segs(X))
           none(k) == Hits(s, tok, k) = {}
           hit(k) == Min(Hits(s, tok, k))
           next == [k \in 1..n |-> IF none(k) THEN n + 1 ELSE hit(k) + Len(tok)]
           before(k) == IF hit(k) > k THEN <<PlainText(SubSeq(s, k, hit(k) - 1))>> ELSE <<>>
           rest(k) == <<PlainText(SubSeq(s, k, n))>>
           glue == [k \in 1..n |-> [r \in S |->
                      IF none(k) THEN rest(k) ELSE before(k) \o <<Special(tok)>> \o r]]
<1>1. n \in Nat /\ Len(tok) = 3
  BY LenProperties DEF Bracketed
<1>2. ASSUME NEW k \in 1..n
      PROVE  next[k] \in (k + 1)..(n + 1)
  <2>1. CASE none(k)
    <3>1. next[k] = n + 1
      BY <2>1
    <3> QED
      BY <1>1, <3>1
  <2>2. CASE ~none(k)
    <3>1. hit(k) \in k..(n - 2)
      BY <2>2, HitsOccur
    <3>2. next[k] = hit(k) + Len(tok)
      BY <2>2
    <3> HIDE DEF next, hit, none
    <3> QED
      BY <1>1, <3>1, <3>2
  <2> QED
    BY <2>1, <2>2
<1>3. \A x \in Seq(X) : <<PlainText(x)>> \in S
  <2>1. \A x \in Seq(X) : PlainText(x) \in Segs(X)
    BY DEF PlainText, Segs
  <2> HIDE DEF n
  <2> DEFINE P == Segs(X)
  <2>2. \A x \in Seq(X) : PlainText(x) \in P
    BY <2>1
  <2> HIDE DEF P
  <2> QED
    BY <2>2 DEF P
<1>4. <<Special(tok)>> \in S /\ <<>> \in S
  <2>1. Special(tok) \in Segs(X)
    BY DEF Special, Segs
  <2> DEFINE P == Segs(X)
  <2>2. Special(tok) \in P
    BY <2>1
  <2> HIDE DEF P
  <2>3. <<Special(tok)>> \in Seq(P) /\ <<>> \in Seq(P)
    BY <2>2
  <2> QED
    BY <2>3 DEF P
<1>5. ASSUME NEW k \in 1..n
      PROVE  /\ rest(k) \in S
             /\ ~none(k) => before(k) \in S
  <2>1. SubSeq(s, k, n) \in Seq(X)
    <3>1. \A i \in k..n : s[i] \in X
      BY <1>1, ElementOfSeq
    <3>2. k \in Int /\ n \in Int
      BY <1>1
    <3> QED
      BY <3>1, <3>2, SubSeqProperties
  <2>2. ASSUME ~none(k)
        PROVE  SubSeq(s, k, hit(k) - 1) \in Seq(X)
    <3>1. hit(k) \in k..(n - 2)
      BY <2>2, HitsOccur
    <3> HIDE DEF hit
    <3>2. hit(k) - 1 \in Int /\ k \in Int /\ \A i \in k..(hit(k) - 1) : i \in 1..n
      BY <1>1, <3>1
    <3>3. \A i \in k..(hit(k) - 1) : s[i] \in X
      BY <3>2, ElementOfSeq
    <3> QED
      BY <3>2, <3>3, SubSeqProperties
  <2>3. rest(k) \in S
    BY <1>3, <2>1
  <2>4. ~none(k) => before(k) \in S
    BY <1>3, <1>4, <2>2
  <2> QED
    BY <2>3, <2>4
<1>6. ASSUME NEW k \in 1..n, NEW r \in S
      PROVE  /\ glue[k][r] = IF none(k) THEN rest(k) ELSE before(k) \o <<Special(tok)>> \o r
             /\ glue[k][r] \in S
  <2>1. glue[k][r] = IF none(k) THEN rest(k) ELSE before(k) \o <<Special(tok)>> \o r
    OBVIOUS
  <2>2. ASSUME ~none(k)
        PROVE  before(k) \o <<Special(tok)>> \o r \in S
    <3> DEFINE b == before(k)
               o == <<Special(tok)>>
    <3>1. b \in S /\ o \in S
      BY <1>4, <1>5, <2>2
    <3> HIDE DEF b, o
    <3>2. b \o o \in S
      BY <3>1, ConcatProperties
    <3>3. (b \o o) \o r \in S
      BY <3>2, ConcatProperties
    <3> QED
      BY <3>3 DEF b, o
  <2> QED
    BY <1>5, <2>1, <2>2
<1>7. glue \in [1..n -> [S -> S]]
  <2>1. \A k \in 1..n : glue[k] = [r \in S |-> glue[k][r]]
    OBVIOUS
  <2>2. glue = [k \in 1..n |-> glue[k]]
    OBVIOUS
  <2>3. \A k \in 1..n : \A r \in S : glue[k][r] \in S
    BY <1>6
  <2> HIDE DEF glue, S
  <2>4. \A k \in 1..n : glue[k] \in [S -> S]
    BY <2>1, <2>3
  <2> QED
    BY <2>2, <2>4
<1> HIDE DEF glue, next, S
<1>8. PICK f : Continued(f, n, S, <<>>, next, glue)
  <2> HIDE DEF n
  <2> QED
    BY <1>1, <1>2, <1>4, <1>7, ContinuationsExist
<1>9. /\ f \in [1..(n + 1) -> S] /\ f[n + 1] = <<>>
      /\ \A k \in 1..n : f[k] = glue[k][f[next[k]]]
  BY <1>8 DEF Continued
<1>10. ASSUME NEW k \in 1..(n + 1)
       PROVE  f[k] = IF k > n THEN <<>> ELSE IF none(k) THEN rest(k)
                     ELSE before(k) \o <<Special(tok)>> \o f[hit(k) + Len(tok)]
  <2>1. CASE k > n
    <3>1. k = n + 1
      BY <1>1, <2>1
    <3> QED
      BY <1>9, <2>1, <3>1
  <2>2. CASE ~(k > n)
    <3>1. k \in 1..n
      BY <1>1, <2>2
    <3>2. next[k] \in 1..(n + 1)
      <4>1. next[k] \in (k + 1)..(n + 1)
        BY <1>2, <3>1
      <4> QED
        BY <1>1, <3>1, <4>1
    <3>3. f[next[k]] \in S
      BY <1>9, <3>2
    <3>4. f[k] = glue[k][f[next[k]]]
      BY <1>9, <3>1
    <3>5. f[k] = IF none(k) THEN rest(k)
                 ELSE before(k) \o <<Special(tok)>> \o f[next[k]]
      BY <1>6, <3>1, <3>3, <3>4
    <3>6. ~none(k) => next[k] = hit(k) + Len(tok)
      BY <3>1 DEF next
    <3> HIDE DEF hit, none, before, rest
    <3> QED
      BY <2>2, <3>5, <3>6
  <2> QED
    BY <2>1, <2>2
<1>11. Cutting(f, s, tok)
  <2>1. f = [k \in 1..(n + 1) |-> f[k]]
    BY <1>9
  <2>2. f = [k \in 1..(n + 1) |->
                IF k > n THEN <<>> ELSE IF none(k) THEN rest(k)
                ELSE before(k) \o <<Special(tok)>> \o f[hit(k) + Len(tok)]]
    <3> HIDE DEF n, hit, none, before, rest
    <3> QED
      BY <1>10, <2>1
  <2> QED
    BY <2>2 DEF Cutting
<1> QED
  BY <1>9, <1>11 DEF S

\* A token that stands nowhere from k on.
LEMMA TailHas ==
  ASSUME NEW X, NEW s \in Seq(X), NEW tok, Bracketed(tok), NEW a \in 1..Len(s), NEW b,
         b \in (a - 1)..Len(s),
         \A m \in Occurrences(s, tok) : m >= a => m + 2 > b
  PROVE  SubSeq(s, a, b) \in Seq(X) /\ Frequency(SubSeq(s, a, b), tok) = 0
<1> DEFINE v == SubSeq(s, a, b)
<1>1. Len(s) \in Nat /\ a \in Int /\ b \in Int /\ \A i \in a..b : s[i] \in X
  BY LenProperties, ElementOfSeq
<1>2. /\ v \in Seq(X) /\ Len(v) = IF a <= b THEN b - a + 1 ELSE 0
      /\ \A i \in 1..(b - a + 1) : v[i] = s[a + i - 1]
  BY <1>1, SubSeqProperties
<1> HIDE DEF v
<1>3. ASSUME NEW j, j \in Occurrences(v, tok)
      PROVE  FALSE
  <2>1. j \in 1..(Len(v) - 2) /\ v[j] = tok[1] /\ v[j + 1] = tok[2] /\ v[j + 2] = tok[3]
    BY <1>2, <1>3, OccursWhere
  <2> DEFINE m == a + j - 1
  <2>2. Len(v) = b - a + 1 /\ j \in Int /\ 1 <= j /\ j <= b - a - 1
    BY <1>1, <1>2, <2>1
  <2>3. /\ j \in 1..(b - a + 1) /\ j + 1 \in 1..(b - a + 1) /\ j + 2 \in 1..(b - a + 1)
        /\ m \in 1..(Len(s) - 2) /\ m >= a /\ m + 2 <= b /\ m + 2 \in Int
        /\ a + j - 1 = m /\ a + (j + 1) - 1 = m + 1 /\ a + (j + 2) - 1 = m + 2
    BY <1>1, <2>2
  <2> HIDE DEF m
  <2>4. s[m] = tok[1] /\ s[m + 1] = tok[2] /\ s[m + 2] = tok[3]
    BY <1>2, <2>1, <2>3
  <2>5. m \in Occurrences(s, tok)
    BY <2>3, <2>4, OccursWhere
  <2> QED
    BY <1>1, <2>3, <2>5
<1>4. Frequency(v, tok) = 0
  BY <1>2, <1>3, OccurrencesFinite
<1> QED
  BY <1>2, <1>4 DEF v

\* A text without the token is a segment.
LEMMA CutPlain ==
  ASSUME NEW X, NEW s \in Seq(X), NEW tok \in ToSet(addedTokens), Frequency(s, tok) = 0
  PROVE  Cut(<<PlainText(s)>>, s, tok, X)
<1> DEFINE g == PlainText(s)
<1>1. g \in Segs(X)
  BY DEF PlainText, Segs
<1>2. \/ g = PlainText(s) /\ Frequency(s, tok) = 0
      \/ g = Special(tok) /\ s = tok
  OBVIOUS
<1> HIDE DEF g
<1>3. Cut(<<g>>, s, tok, X)
  BY <1>1, <1>2, CutOne
<1> QED
  BY <1>3 DEF g

\* What the cutter finds from the first character on is the text cut.
LEMMA CuttingCuts ==
  ASSUME NEW X, NEW s \in Seq(X), NEW tok \in ToSet(addedTokens), tok \in Seq(X),
         NEW f, Cutting(f, s, tok)
  PROVE  Cut(f[1], s, tok, X)
<1> DEFINE n == Len(s)
           none(k) == Hits(s, tok, k) = {}
           hit(k) == Min(Hits(s, tok, k))
           before(k) == IF hit(k) > k THEN <<PlainText(SubSeq(s, k, hit(k) - 1))>> ELSE <<>>
<1>1. Bracketed(tok) /\ Len(tok) = 3 /\ n \in Nat /\ tok[1] = "[" /\ tok[3] = "]"
  BY TokensBracketed, LenProperties DEF Bracketed
<1>4. \A k \in 1..(n + 1) :
          f[k] = IF k > n THEN <<>>
                 ELSE IF none(k) THEN <<PlainText(SubSeq(s, k, n))>>
                 ELSE before(k) \o <<Special(tok)>> \o f[hit(k) + Len(tok)]
  <2>1. f = [k \in 1..(n + 1) |->
                IF k > n THEN <<>>
                ELSE IF none(k) THEN <<PlainText(SubSeq(s, k, n))>>
                ELSE before(k) \o <<Special(tok)>> \o f[hit(k) + Len(tok)]]
    BY DEF Cutting
  <2> HIDE DEF none, hit, before, n
  <2> QED
    BY <2>1
<1> DEFINE good == {k \in 1..(n + 1) : Cut(f[k], SubSeq(s, k, n), tok, X)}
<1>5. n + 1 \in good
  <2>1. n + 1 \in 1..(n + 1) /\ n + 1 > n
    BY <1>1
  <2>2. f[n + 1] = <<>>
    BY <1>4, <2>1
  <2>3. SubSeq(s, n + 1, n) = <<>>
    BY <1>1, SubSeqEmpty
  <2> QED
    BY <2>1, <2>2, <2>3, CutNothing
<1>6. ASSUME NEW k \in 1..n, \A j \in (k + 1)..(n + 1) : j \in good
      PROVE  k \in good
  <2>1. k \in 1..(n + 1) /\ ~(k > n) /\ n \in (k - 1)..n /\ k \in Int
    BY <1>1
  <2>2. /\ Hits(s, tok, k) = {m \in Occurrences(s, tok) : m >= k}
        /\ ~none(k) => /\ hit(k) \in k..(n - 2) /\ SubSeq(s, hit(k), hit(k) + 2) = tok
                       /\ \A m \in Hits(s, tok, k) : hit(k) <= m
    BY <1>1, HitsOccur
  <2>3. CASE none(k)
    <3> DEFINE v == SubSeq(s, k, n)
    <3>1. \A m \in Occurrences(s, tok) : m >= k => m + 2 > n
      BY <2>2, <2>3
    <3>2. v \in Seq(X) /\ Frequency(v, tok) = 0
      BY <1>1, <2>1, <3>1, TailHas
    <3> HIDE DEF v
    <3>4. Cut(<<PlainText(v)>>, v, tok, X)
      BY <3>2, CutPlain
    <3>5. f[k] = <<PlainText(v)>>
      BY <1>4, <2>1, <2>3 DEF v
    <3> QED
      BY <2>1, <3>4, <3>5 DEF v
  <2>4. CASE ~none(k)
    <3> DEFINE h == hit(k)
               x == SubSeq(s, k, h - 1)
               z == SubSeq(s, h + 3, n)
    <3>1. /\ h \in k..(n - 2) /\ SubSeq(s, h, h + 2) = tok
          /\ \A m \in Occurrences(s, tok) : m >= k => h <= m
      BY <2>2, <2>4
    <3> HIDE DEF h
    <3>2. /\ h - 1 \in (k - 1)..n /\ h + 3 \in (k + 1)..(n + 1) /\ h + 2 \in (h - 1)..n
          /\ h \in 1..(n + 1) /\ k \in 1..(n + 1) /\ n \in (h + 2)..n /\ n \in (h - 1)..n
          /\ h + 3 \in 1..(n + 1) /\ (h - 1) + 1 = h /\ (h + 2) + 1 = h + 3 /\ h \in Int
          /\ h - 1 \in Int /\ h + 3 \in Int /\ n \in Int
      BY <1>1, <3>1
    <3>3. x \in Seq(X) /\ Frequency(x, tok) = 0
      <4>1. \A m \in Occurrences(s, tok) : m >= k => m + 2 > h - 1
        <5>1. \A m \in Occurrences(s, tok) : m \in Int
          BY <1>1, OccurrencesFinite
        <5> QED
          BY <3>1, <3>2, <5>1
      <4> QED
        BY <1>1, <3>2, <4>1, TailHas
    <3>4. z \in Seq(X)
      <4>1. \A i \in (h + 3)..n : s[i] \in X
        BY <1>1, <3>2, ElementOfSeq
      <4> QED
        BY <3>2, <4>1, SubSeqProperties
    <3>5. SubSeq(s, h, n) = tok \o z
      BY <1>1, <3>1, <3>2, ConcatAdjacentSubSeq
    <3>6. SubSeq(s, k, n) = x \o (tok \o z)
      <4>1. SubSeq(s, k, h - 1) \o SubSeq(s, (h - 1) + 1, n) = SubSeq(s, k, n)
        BY <1>1, <3>2, ConcatAdjacentSubSeq
      <4> QED
        BY <3>2, <3>5, <4>1
    <3>7. Cut(f[h + 3], z, tok, X)
      BY <1>6, <3>2
    <3>8. f[k] = before(k) \o <<Special(tok)>> \o f[h + 3]
      BY <1>1, <1>4, <2>1, <2>4 DEF h
    <3> HIDE DEF x, z
    <3> DEFINE b == before(k)
               o == <<Special(tok)>>
               r == f[h + 3]
    <3>9. Cut(b, x, tok, X)
      <4>1. CASE h > k
        <5>1. b = <<PlainText(x)>>
          BY <4>1 DEF x, h
        <5> QED
          BY <3>3, <5>1, CutPlain
      <4>2. CASE ~(h > k)
        <5>1. b = <<>>
          BY <4>2 DEF h
        <5>2. x = <<>>
          <6>1. h - 1 < k
            BY <2>1, <3>2, <4>2
          <6>2. SubSeq(s, k, h - 1) = <<>>
            BY <2>1, <3>2, <6>1, SubSeqEmpty
          <6> QED
            BY <6>2 DEF x
        <5> QED
          BY <5>1, <5>2, CutNothing
      <4> QED
        BY <4>1, <4>2
    <3>10. Cut(o, tok, tok, X)
      <4>1. Special(tok) \in Segs(X)
        BY DEF Special, Segs
      <4> QED
        BY <4>1, CutOne
    <3> HIDE DEF b, o, r, good
    <3>11. Cut(o \o r, tok \o z, tok, X)
      <4>1. tok # <<>>
        BY <1>1, ShortTexts
      <4>2. Cleft(tok, z)
        BY <1>1, <4>1 DEF Cleft
      <4> QED
        BY <3>4, <3>7, <3>10, <4>2, CutTwice DEF r
    <3>12. Cut(b \o (o \o r), x \o (tok \o z), tok, X)
      <4>1. /\ tok \o z \in Seq(X) /\ Len(tok \o z) = Len(tok) + Len(z)
            /\ \A i \in 1..(Len(tok) + Len(z)) :
                  (tok \o z)[i] = IF i <= Len(tok) THEN tok[i] ELSE z[i - Len(tok)]
        BY <3>4, ConcatProperties
      <4>4. Len(z) \in Nat /\ 1 \in 1..(3 + Len(z)) /\ 1 <= 3 /\ 3 + Len(z) # 0
        BY <3>4, LenProperties
      <4>2. tok \o z # <<>> /\ (tok \o z)[1] = "["
        BY <1>1, <4>1, <4>4, EmptySeq
      <4>3. Cleft(x, tok \o z)
        BY <4>2 DEF Cleft
      <4> QED
        BY <3>3, <3>9, <3>11, <4>1, <4>3, CutTwice
    <3>13. b \o o \o r = b \o (o \o r)
      <4> DEFINE P == Segs(X)
      <4>1. b \in Seq(P) /\ o \in Seq(P) /\ r \in Seq(P)
        BY <3>7, <3>9, <3>10 DEF Cut, r
      <4> HIDE DEF P
      <4> QED
        BY <4>1, ConcatAssociative
    <3> QED
      BY <2>1, <3>6, <3>8, <3>12, <3>13 DEF b, o, r, good
  <2> QED
    BY <2>3, <2>4
<1>7. \A k \in 1..(n + 1) : k \in good
  <2> HIDE DEF good
  <2> QED
    BY <1>1, <1>5, <1>6, BackwardsHolds
<1>8. SubSeq(s, 1, n) = s /\ 1 \in 1..(n + 1)
  BY <1>1, SubSeqFull
<1> QED
  BY <1>7, <1>8

\* SplitOn is that cutter (wordpiece splitOnAddedTokens, one token).
LEMMA SplitOnCuts ==
  ASSUME NEW X, NEW seg, seg.text \in Seq(X), NEW tok \in ToSet(addedTokens), tok \in Seq(X)
  PROVE  Cut(SplitOn(seg, tok), seg.text, tok, X)
<1> DEFINE f == CHOOSE f : Cutting(f, seg.text, tok)
<1>1. SplitOn(seg, tok) = f[1]
  BY DEF SplitOn, Cutting, Hits
<1>2. Cutting(f, seg.text, tok)
  BY TokensBracketed, CuttingExists
<1> HIDE DEF f
<1>3. Cut(f[1], seg.text, tok, X)
  BY <1>2, CuttingCuts
<1> QED
  BY <1>1, <1>3

\* The segments q of text once it is cut around the first k tokens.
Divided(q, text, k, X) ==
    /\ q \in Seq(Segs(X))
    /\ \A g \in ToSet(q) :
          IF g.special THEN g.text \in ToSet(addedTokens)
          ELSE \A i \in 1..k : Frequency(g.text, addedTokens[i]) = 0
    /\ \A t \in ToSet(addedTokens) : Total(Weight(t, X), q) = Frequency(text, t)

\* Cutting the plain segments around the next one.
CutAround(q, tok) == [j \in DOMAIN q |-> IF q[j].special THEN <<q[j]>> ELSE SplitOn(q[j], tok)]

\* Each of them is cut, and the special ones are kept.
LEMMA CutsAround ==
  ASSUME NEW X, NEW tok \in ToSet(addedTokens), tok \in Seq(X), NEW q \in Seq(Segs(X))
  PROVE  LET seqs == CutAround(q, tok)
         IN  /\ FlattenSeq(seqs) \in Seq(Segs(X))
             /\ seqs \in [1..Len(q) -> Seq(Segs(X))]
             /\ \A j \in 1..Len(q) :
                   /\ q[j].special => seqs[j] = <<q[j]>>
                   /\ ~q[j].special => Cut(seqs[j], q[j].text, tok, X)
<1> DEFINE n == Len(q)
           seqs == CutAround(q, tok)
           S == Segs(X)
<1>1. n \in Nat /\ DOMAIN q = 1..n /\ \A j \in 1..n : q[j] \in S
  BY LenProperties, ElementOfSeq
<1>2. ASSUME NEW j \in 1..n
      PROVE  /\ q[j].special => seqs[j] = <<q[j]>>
             /\ ~q[j].special => Cut(seqs[j], q[j].text, tok, X)
             /\ seqs[j] \in Seq(S)
  <2>1. seqs[j] = IF q[j].special THEN <<q[j]>> ELSE SplitOn(q[j], tok)
    BY <1>1 DEF CutAround
  <2>2. q[j] \in S /\ q[j].text \in Seq(X)
    BY <1>1 DEF Segs
  <2>3. <<q[j]>> \in Seq(S)
    <3> HIDE DEF S
    <3> QED
      BY <2>2
  <2>4. Cut(SplitOn(q[j], tok), q[j].text, tok, X)
    BY <2>2, SplitOnCuts
  <2>5. SplitOn(q[j], tok) \in Seq(S)
    BY <2>4 DEF Cut
  <2> HIDE DEF seqs, S
  <2> QED
    BY <2>1, <2>3, <2>4, <2>5
<1>3. seqs \in [1..n -> Seq(S)]
  <2>1. seqs = [j \in 1..n |-> seqs[j]]
    BY <1>1 DEF CutAround
  <2> HIDE DEF seqs, S
  <2> QED
    BY <1>2, <2>1
<1>4. FlattenSeq(seqs) \in Seq(S)
  <2> HIDE DEF S, n, seqs
  <2> QED
    BY <1>1, <1>3, FlatLaid
<1> QED
  BY <1>2, <1>3, <1>4

\* One more token.
LEMMA DividesOnce ==
  ASSUME NEW X, NEW text, NEW k \in 1..5, addedTokens[k] \in Seq(X),
         NEW q, Divided(q, text, k - 1, X)
  PROVE  Divided(FlattenSeq(CutAround(q, addedTokens[k])), text, k, X)
<1> DEFINE tok == addedTokens[k]
           n == Len(q)
           seqs == CutAround(q, tok)
           S == Segs(X)
<1>1. /\ q \in Seq(S) /\ n \in Nat /\ DOMAIN q = 1..n
      /\ \A j \in 1..n : q[j] \in S /\ q[j] \in ToSet(q)
  BY LenProperties, ElementOfSeq DEF Divided, ToSet
<1>2. tok \in ToSet(addedTokens) /\ \A i \in 1..5 : addedTokens[i] \in ToSet(addedTokens)
  BY AddedTokens DEF ToSet
<1>4. /\ FlattenSeq(seqs) \in Seq(S) /\ seqs \in [1..n -> Seq(S)]
      /\ \A j \in 1..n :
            /\ q[j].special => seqs[j] = <<q[j]>>
            /\ ~q[j].special => Cut(seqs[j], q[j].text, tok, X)
  BY <1>1, <1>2, CutsAround
<1>3. \A j \in 1..n : seqs[j] \in Seq(S)
  BY <1>4
<1>9. seqs \in [1..n -> Seq(S)]
  BY <1>4
<1> HIDE DEF seqs
<1>5. ASSUME NEW t \in ToSet(addedTokens)
      PROVE  Total(Weight(t, X), FlattenSeq(seqs)) = Frequency(text, t)
  <2>1. Weight(t, X) \in [S -> Nat]
    BY TokensBracketed, WeightType
  <2>2. ASSUME NEW j \in 1..n
        PROVE  Total(Weight(t, X), seqs[j]) = Weight(t, X)[q[j]]
    <3>1. CASE q[j].special
      <4>1. seqs[j] = <<q[j]>> /\ q[j] \in S
        BY <1>1, <1>4, <3>1
      <4> HIDE DEF S
      <4> QED
        BY <2>1, <4>1, TotalOne
    <3>2. CASE ~q[j].special
      <4>1. Total(Weight(t, X), seqs[j]) = Frequency(q[j].text, t)
        BY <1>4, <3>2 DEF Cut
      <4>2. Weight(t, X)[q[j]] = Frequency(q[j].text, t)
        BY <1>1, <3>2 DEF Weight
      <4> QED
        BY <4>1, <4>2
    <3> QED
      BY <3>1, <3>2
  <2>3. Total(Weight(t, X), FlattenSeq(seqs)) = Total(Weight(t, X), q)
    <3> DEFINE w == Weight(t, X)
    <3> HIDE DEF S, w
    <3>1. Matched(seqs, w, S, q, w, S)
      BY <1>1, <1>9, <2>1, <2>2 DEF Matched, n, w
    <3>2. Total(w, FlattenSeq(seqs)) = Total(w, q)
      BY <3>1, TotalFlat
    <3> QED
      BY <3>2 DEF w
  <2> QED
    BY <2>3 DEF Divided
<1>7. ASSUME NEW g \in ToSet(FlattenSeq(seqs))
      PROVE  IF g.special THEN g.text \in ToSet(addedTokens)
             ELSE \A i \in 1..k : Frequency(g.text, addedTokens[i]) = 0
  <2>1. PICK j \in 1..n : g \in ToSet(seqs[j])
    <3>1. PICK p \in DOMAIN FlattenSeq(seqs) : g = FlattenSeq(seqs)[p]
      BY DEF ToSet
    <3> HIDE DEF S, n
    <3>2. PICK j \in 1..n : \E i \in DOMAIN seqs[j] : FlattenSeq(seqs)[p] = seqs[j][i]
      BY <1>1, <1>9, FlatElements
    <3> QED
      BY <3>1, <3>2 DEF ToSet
  <2>2. CASE q[j].special
    <3>1. seqs[j] = <<q[j]>> /\ ToSet(<<q[j]>>) = {q[j]}
      BY <1>4, <2>2, ShortTexts
    <3>2. g = q[j]
      BY <2>1, <3>1
    <3> QED
      BY <1>1, <2>2, <3>2 DEF Divided
  <2>3. CASE ~q[j].special
    <3>1. Cut(seqs[j], q[j].text, tok, X)
      BY <1>4, <2>3
    <3>2. IF g.special THEN g.text = tok ELSE Frequency(g.text, tok) = 0
      BY <2>1, <3>1 DEF Cut
    <3>3. ASSUME ~g.special, NEW i \in 1..k
          PROVE  Frequency(g.text, addedTokens[i]) = 0
      <4>1. CASE i = k
        BY <3>2, <3>3, <4>1
      <4>2. CASE i # k
        <5> DEFINE t == addedTokens[i]
                   w == Weight(t, X)
        <5>1. i \in 1..(k - 1) /\ t \in ToSet(addedTokens)
          BY <1>2, <4>2
        <5>2. Frequency(q[j].text, t) = 0
          BY <1>1, <2>3, <5>1 DEF Divided
        <5>3. Total(w, seqs[j]) = 0
          BY <3>1, <5>1, <5>2 DEF Cut
        <5>4. w \in [S -> Nat]
          BY <5>1, TokensBracketed, WeightType
        <5>5. seqs[j] \in Seq(S)
          BY <1>3
        <5>6. PICK m \in DOMAIN seqs[j] : g = seqs[j][m]
          BY <2>1 DEF ToSet
        <5>7. w[g] = 0 /\ g \in S
          <6> HIDE DEF S, w
          <6> QED
            BY <5>3, <5>4, <5>5, <5>6, TotalZero, ElementOfSeq, LenProperties
        <5> QED
          BY <3>3, <5>7 DEF Weight
      <4> QED
        BY <4>1, <4>2
    <3> QED
      BY <1>2, <3>2, <3>3
  <2> QED
    BY <2>2, <2>3
<1> QED
  BY <1>4, <1>5, <1>7 DEF Divided, seqs

\* What the loop over the tokens does.
Around(f, text) ==
    f = [k \in 0..Len(addedTokens) |->
            IF k = 0 THEN <<PlainText(text)>> ELSE FlattenSeq(CutAround(f[k - 1], addedTokens[k]))]

\* All five.
LEMMA DividesAll ==
  ASSUME NEW X, NEW text \in Seq(X), \A t \in ToSet(addedTokens) : t \in Seq(X),
         NEW f, Around(f, text)
  PROVE  Divided(f[5], text, 5, X)
<1>1. \A k \in 0..5 : f[k] = IF k = 0 THEN <<PlainText(text)>>
                             ELSE FlattenSeq(CutAround(f[k - 1], addedTokens[k]))
  BY AddedTokens DEF Around
<1>2. \A i \in 1..5 : addedTokens[i] \in ToSet(addedTokens)
  BY AddedTokens DEF ToSet
<1> DEFINE good == {k \in 0..5 : Divided(f[k], text, k, X)}
<1>3. 0 \in good
  <2> DEFINE g == PlainText(text)
             S == Segs(X)
  <2>1. g \in S /\ ~g.special /\ g.text = text
    BY DEF Segs, PlainText
  <2>2. ASSUME NEW t \in ToSet(addedTokens)
        PROVE  Total(Weight(t, X), <<g>>) = Frequency(text, t)
    <3>1. Weight(t, X) \in [S -> Nat]
      BY TokensBracketed, WeightType
    <3>2. Weight(t, X)[g] = Frequency(text, t)
      BY <2>1 DEF Weight
    <3> HIDE DEF S, g
    <3> QED
      BY <2>1, <3>1, <3>2, TotalOne
  <2>3. <<g>> \in Seq(S) /\ ToSet(<<g>>) = {g}
    <3> HIDE DEF S, g
    <3> QED
      BY <2>1, ShortTexts
  <2>4. \A i \in 1..0 : FALSE
    OBVIOUS
  <2> HIDE DEF g
  <2>5. Divided(<<g>>, text, 0, X)
    BY <2>1, <2>2, <2>3, <2>4 DEF Divided
  <2>6. f[0] = <<g>>
    BY <1>1 DEF g
  <2> QED
    BY <2>5, <2>6
<1>4. ASSUME NEW k \in 1..5, k - 1 \in good
      PROVE  k \in good
  <2>1. Divided(f[k - 1], text, k - 1, X)
    BY <1>4
  <2>2. f[k] = FlattenSeq(CutAround(f[k - 1], addedTokens[k])) /\ k \in 0..5
    BY <1>1
  <2>3. addedTokens[k] \in Seq(X)
    BY <1>2
  <2>4. Divided(f[k], text, k, X)
    BY <2>1, <2>2, <2>3, DividesOnce
  <2> QED
    BY <2>2, <2>4
<1>5. 5 \in good
  <2> HIDE DEF good
  <2> QED
    BY <1>3, <1>4, TurnsKeep
<1> QED
  BY <1>5

\* So splitOnAddedTokens finds each special token as often as it stands in the text.
LEMMA SplitDivides ==
  ASSUME NEW text, IsText(text)
  PROVE  \E X : Divided(splitOnAddedTokens(text), text, 5, X)
<1> DEFINE f == CHOOSE f : Around(f, text)
           X == ToSet(text) \cup UNION {ToSet(t) : t \in ToSet(addedTokens)}
<1>1. splitOnAddedTokens(text) = f[5]
  BY AddedTokens DEF splitOnAddedTokens, Around, Map, CutAround
<1>2. text \in Seq(X)
  BY SeqMonotonic DEF IsText
<1>3. \A t \in ToSet(addedTokens) : t \in Seq(X)
  <2> SUFFICES ASSUME NEW t \in ToSet(addedTokens) PROVE t \in Seq(X)
    OBVIOUS
  <2>1. t \in Seq(ToSet(t))
    BY TokensBracketed DEF Bracketed, IsText
  <2> QED
    BY <2>1, SeqMonotonic
<1> HIDE DEF X
<1>4. \E h : Around(h, text)
  <2> DEFINE S == Seq(Segs(X))
             turn == [k \in 1..5 |-> [q \in S |-> FlattenSeq(CutAround(q, addedTokens[k]))]]
             base == <<PlainText(text)>>
  <2>1. base \in S
    <3> DEFINE P == Segs(X)
    <3>1. PlainText(text) \in P
      BY <1>2 DEF PlainText, Segs
    <3> HIDE DEF P
    <3>2. <<PlainText(text)>> \in Seq(P)
      BY <3>1
    <3> QED
      BY <3>2 DEF P
  <2>2. \A k \in 1..5, q \in S :
           /\ FlattenSeq(CutAround(q, addedTokens[k])) \in S
           /\ turn[k][q] = FlattenSeq(CutAround(q, addedTokens[k]))
    <3>1. \A k \in 1..5 : addedTokens[k] \in ToSet(addedTokens)
      BY AddedTokens DEF ToSet
    <3> QED
      BY <1>3, <3>1, CutsAround
  <2>3. turn \in [1..5 -> [S -> S]]
    <3> HIDE DEF S
    <3> QED
      BY <2>2
  <2> HIDE DEF turn, S, base
  <2>4. PICK h : Turned(h, 5, S, base, turn)
    BY <2>1, <2>3, TurnsExist
  <2>5. /\ h \in [0..5 -> S] /\ h[0] = base
        /\ \A k \in 1..5 : h[k] = turn[k][h[k - 1]]
    BY <2>4 DEF Turned
  <2>6. ASSUME NEW k \in 1..5
        PROVE  h[k] = FlattenSeq(CutAround(h[k - 1], addedTokens[k]))
    <3>1. h[k - 1] \in S
      BY <2>5
    <3> QED
      BY <2>2, <2>5, <3>1
  <2>7. \A k \in 0..5 : h[k] = IF k = 0 THEN base
                                ELSE FlattenSeq(CutAround(h[k - 1], addedTokens[k]))
    BY <2>5, <2>6
  <2>8. h = [k \in 0..5 |-> IF k = 0 THEN base
                           ELSE FlattenSeq(CutAround(h[k - 1], addedTokens[k]))]
    BY <2>5, <2>7
  <2> QED
    BY <2>8, AddedTokens DEF Around, base
<1>5. Around(f, text)
  BY <1>4
<1> HIDE DEF f
<1>6. Divided(f[5], text, 5, X)
  BY <1>2, <1>3, <1>5, DividesAll
<1> QED
  BY <1>1, <1>6

\* Every input given.
LEMMA Spelling == Given => PiecesSpellTheirWord
<1> SUFFICES ASSUME Given, input.kind = "text",
                    NEW seg \in ToSet(splitOnAddedTokens(input.case)), ~seg.special,
                    NEW word \in ToSet(preTokenize(normalize(seg.text)))
             PROVE  LET pieces == appendWordPieces(word)
                        alone  == punctRanges \cup cjkRanges
                    IN  /\ ToSet(word) \cap (controlRanges \cup whitespaceRanges
                               \cup nonspacingMarkRanges \cup DOMAIN lowerMap) = {}
                        /\ word # <<>> /\ (ToSet(word) \cap alone # {} => Len(word) = 1)
                        /\ pieces # <<unkToken>> =>
                               /\ FlattenSeq([k \in DOMAIN pieces |-> pieces[k].text]) = word
                               /\ \A k \in DOMAIN pieces :
                                      /\ pieces[k] \in vocab /\ pieces[k].inner = (k > 1)
                                      /\ pieces[k].text \notin ToSet(addedTokens)
                        /\ (Token(word) \in vocab /\ Len(word) <= maxInputCharsPerWord) =>
                               pieces = <<Token(word)>>
  BY DEF PiecesSpellTheirWord
<1>1. IsText(input.case)
  BY DecisionsAssumption DEF Given
<1>2. IsText(seg.text)
  <2>1. PICK X : Divided(splitOnAddedTokens(input.case), input.case, 5, X)
    BY <1>1, SplitDivides
  <2>2. seg \in Segs(X)
    <3> DEFINE S == Segs(X)
               q == splitOnAddedTokens(input.case)
    <3>1. q \in Seq(S) /\ \A j \in DOMAIN q : q[j] \in S
      BY <2>1, LenProperties, ElementOfSeq DEF Divided
    <3> HIDE DEF S
    <3>2. seg \in S
      BY <3>1 DEF ToSet
    <3> QED
      BY <3>2 DEF S
  <2> QED
    BY <2>2, TextOf DEF Segs
<1>3. Wordly(word)
  <2> DEFINE s == normalize(seg.text)
  <2>1. Normal(s)
    BY <1>2, NormalizeNormal
  <2>2. IsText(s)
    BY <2>1 DEF Normal
  <2> HIDE DEF s
  <2>3. WordOf(word, s)
    BY <2>2, PreTokenizeWords DEF s
  <2> QED
    BY <2>1, <2>3, NormalWords
<1>4. Spells(word, appendWordPieces(word))
  BY <1>3, WordIsSpelt
<1> QED
  BY <1>3, <1>4 DEF Wordly, Spells

\* Unless it is the unknown token, what a word is encoded as spells the word, piece
\* by piece, with pieces of the vocabulary, and none of them is written as a special
\* token; a word the vocabulary holds is one piece (wordpiece.go appendWordPieces).
THEOREM PiecesSpell == Spec => []PiecesSpellTheirWord
<1> QED
  BY AlwaysGiven, Spelling, PTL

-----------------------------------------------------------------------------
(* What is appended one after the other *)

\* Everything a text may be encoded as.
Pieces == vocab \cup {unkToken} \cup {Token(t) : t \in ToSet(addedTokens)}

\* Of one segment.
UnitsOf(seg) ==
    IF seg.special THEN <<<<Token(seg.text)>>>>
    ELSE [k \in DOMAIN preTokenize(normalize(seg.text)) |->
             appendWordPieces(preTokenize(normalize(seg.text))[k])]

\* The piece tok, counted.
Being(tok) == [p \in Pieces |-> IF p = Token(tok) THEN 1 ELSE 0]

\* The special tokens are pieces, each of one text.
LEMMA SpecialPieces ==
  /\ unkToken \in Pieces /\ clsToken \in Pieces /\ sepToken \in Pieces
  /\ \A t \in ToSet(addedTokens) : Token(t) \in Pieces
  /\ \A t, u : Token(t) = Token(u) => t = u
<1>1. \A i \in 1..5 : addedTokens[i] \in ToSet(addedTokens)
  BY AddedTokens DEF ToSet
<1>2. addedTokens[3] \in ToSet(addedTokens) /\ addedTokens[4] \in ToSet(addedTokens)
  BY <1>1
<1>3. \A t, u : Token(t) = Token(u) => t = u
  <2>1. \A t : Token(t).text = t
    BY DEF Token
  <2> QED
    BY <2>1
<1> QED
  BY <1>2, <1>3 DEF Pieces, clsToken, sepToken

\* A word's tokens are never a special one.
LEMMA WordPiecesPlain ==
  ASSUME NEW word, Wordly(word)
  PROVE  /\ appendWordPieces(word) \in Seq(Pieces)
         /\ \A tok \in ToSet(addedTokens) \ {unkToken.text} :
               Token(tok) \notin ToSet(appendWordPieces(word))
<1> DEFINE pieces == appendWordPieces(word)
           V == vocab \cup {unkToken}
<1>1. Spells(word, pieces) /\ pieces \in Seq(V)
  BY WordIsSpelt
<1> HIDE DEF pieces
<1>2. pieces \in Seq(Pieces)
  <2>1. V \subseteq Pieces
    BY DEF Pieces
  <2> HIDE DEF V
  <2> QED
    BY <1>1, <2>1, SeqMonotonic
<1>3. ASSUME NEW tok \in ToSet(addedTokens) \ {unkToken.text}, Token(tok) \in ToSet(pieces)
      PROVE  FALSE
  <2>1. Token(tok).text = tok
    BY DEF Token
  <2>2. CASE pieces = <<unkToken>>
    <3>1. Token(tok) = unkToken
      BY <1>3, <2>2, ShortTexts
    <3> QED
      BY <2>1, <3>1
  <2>3. CASE pieces # <<unkToken>>
    <3>1. PICK k \in DOMAIN pieces : pieces[k] = Token(tok)
      BY <1>3 DEF ToSet
    <3>2. pieces[k].text \notin ToSet(addedTokens)
      BY <1>1, <2>3 DEF Spells
    <3> QED
      BY <2>1, <3>1, <3>2
  <2> QED
    BY <2>2, <2>3
<1> QED
  BY <1>2, <1>3 DEF pieces

\* The words of a plain segment.
LEMMA PlainUnits ==
  ASSUME NEW seg, IsText(seg.text), ~seg.special
  PROVE  /\ UnitsOf(seg) \in Seq(Seq(Pieces))
         /\ \A k \in DOMAIN UnitsOf(seg) :
               \A tok \in ToSet(addedTokens) \ {unkToken.text} :
                  Token(tok) \notin ToSet(UnitsOf(seg)[k])
<1> DEFINE s == normalize(seg.text)
           words == preTokenize(s)
           units == UnitsOf(seg)
<1>1. Normal(s) /\ IsText(s)
  BY NormalizeNormal DEF Normal
<1>2. units = [k \in DOMAIN words |-> appendWordPieces(words[k])]
  BY DEF UnitsOf
<1> HIDE DEF s, units
<1>3. IsText(words) /\ \A w \in ToSet(words) : Wordly(w)
  BY <1>1, PreTokenizeWords, NormalWords
<1> HIDE DEF words
<1>4. Len(words) \in Nat /\ DOMAIN words = 1..Len(words) /\ \A k \in 1..Len(words) : Wordly(words[k])
  BY <1>3, TextPlaces
<1>5. \A k \in 1..Len(words) :
         /\ appendWordPieces(words[k]) \in Seq(Pieces)
         /\ \A tok \in ToSet(addedTokens) \ {unkToken.text} :
               Token(tok) \notin ToSet(appendWordPieces(words[k]))
  BY <1>4, WordPiecesPlain
<1>6. units \in [1..Len(words) -> Seq(Pieces)]
  BY <1>2, <1>4, <1>5
<1>7. units \in Seq(Seq(Pieces))
  BY <1>4, <1>6, SeqDef
<1>8. \A k \in DOMAIN units : k \in 1..Len(words) /\ units[k] = appendWordPieces(words[k])
  BY <1>2, <1>4
<1> QED
  BY <1>5, <1>7, <1>8 DEF units

\* A segment has as many of a special token as it counts for.
LEMMA UnitsCount ==
  ASSUME NEW X, NEW seg \in Segs(X),
         IF seg.special THEN seg.text \in ToSet(addedTokens)
         ELSE \A i \in 1..5 : Frequency(seg.text, addedTokens[i]) = 0
  PROVE  /\ UnitsOf(seg) \in Seq(Seq(Pieces))
         /\ \A tok \in ToSet(addedTokens) \ {unkToken.text} :
               Total(Being(tok), FlattenSeq(UnitsOf(seg))) = Weight(tok, X)[seg]
<1> DEFINE P == Pieces
           units == UnitsOf(seg)
<1>1. ASSUME NEW tok \in ToSet(addedTokens)
      PROVE  Being(tok) \in [P -> Nat] /\ Being(tok) = [p \in P |-> IF p = Token(tok) THEN 1 ELSE 0]
  BY DEF Being
<1>2. CASE seg.special
  <2> DEFINE p == Token(seg.text)
  <2>1. p \in P /\ units = <<<<p>>>>
    BY <1>2, SpecialPieces DEF UnitsOf
  <2> HIDE DEF p, P
  <2>2. <<p>> \in Seq(P)
    BY <2>1
  <2>3. <<<<p>>>> \in Seq(Seq(P)) /\ FlattenSeq(<<<<p>>>>) = <<p>>
    <3> DEFINE q == <<p>>
               Q == Seq(P)
    <3>1. q \in Q
      BY <2>2
    <3>2. FlattenSeq(<<q>>) = q
      <4> HIDE DEF q
      <4> QED
        BY <3>1, FlatOne
    <3>3. <<q>> \in Seq(Q)
      <4> HIDE DEF q, Q
      <4> QED
        BY <3>1
    <3> QED
      BY <3>2, <3>3
  <2>4. ASSUME NEW tok \in ToSet(addedTokens)
        PROVE  Total(Being(tok), <<p>>) = Weight(tok, X)[seg]
    <3>1. Total(Being(tok), <<p>>) = Being(tok)[p]
      BY <1>1, <2>1, TotalOne
    <3>2. Being(tok)[p] = IF p = Token(tok) THEN 1 ELSE 0
      BY <1>1, <2>1
    <3>3. p = Token(tok) <=> seg.text = tok
      BY SpecialPieces DEF p
    <3>4. Weight(tok, X)[seg] = IF seg.text = tok THEN 1 ELSE 0
      BY <1>2 DEF Weight
    <3> QED
      BY <3>1, <3>2, <3>3, <3>4
  <2> QED
    BY <2>1, <2>3, <2>4 DEF P
<1>3. CASE ~seg.special
  <2>1. IsText(seg.text)
    BY TextOf DEF Segs
  <2>2. /\ units \in Seq(Seq(P))
        /\ \A k \in DOMAIN units :
              \A tok \in ToSet(addedTokens) \ {unkToken.text} : Token(tok) \notin ToSet(units[k])
    BY <1>3, <2>1, PlainUnits
  <2> HIDE DEF units, P
  <2>3. Len(units) \in Nat /\ DOMAIN units = 1..Len(units) /\ units \in [1..Len(units) -> Seq(P)]
    BY <2>2, LenProperties, SeqDef
  <2> DEFINE all == FlattenSeq(units)
  <2>4. all \in Seq(P)
    BY <2>3, FlatLaid
  <2>5. ASSUME NEW tok \in ToSet(addedTokens) \ {unkToken.text}
        PROVE  Total(Being(tok), all) = Weight(tok, X)[seg]
    <3>1. ASSUME NEW j \in DOMAIN all, all[j] = Token(tok)
          PROVE  FALSE
      <4>1. PICK k \in 1..Len(units) : \E i \in DOMAIN units[k] : all[j] = units[k][i]
        BY <2>3, FlatElements
      <4>2. Token(tok) \in ToSet(units[k])
        BY <3>1, <4>1 DEF ToSet
      <4> QED
        BY <2>2, <2>3, <4>2
    <3>2. {j \in DOMAIN all : all[j] = Token(tok)} = {}
      BY <3>1
    <3>3. Total(Being(tok), all) = Cardinality({j \in DOMAIN all : all[j] = Token(tok)})
      <4> DEFINE x == Token(tok)
                 w == Being(tok)
      <4>1. Singles(w, x, P)
        BY DEF Singles, Being, P
      <4> HIDE DEF all, x, w
      <4>2. Total(w, all) = Cardinality({j \in DOMAIN all : all[j] = x})
        BY <2>4, <4>1, TotalCounts
      <4> QED
        BY <4>2 DEF x, w
    <3>4. Total(Being(tok), all) = 0
      BY <3>2, <3>3, FS_EmptySet
    <3>5. PICK i \in 1..5 : tok = addedTokens[i]
      BY AddedTokens DEF ToSet
    <3>6. Weight(tok, X)[seg] = 0
      BY <1>3, <3>5 DEF Weight
    <3> QED
      BY <3>4, <3>6
  <2> QED
    BY <2>2, <2>5 DEF all, units, P
<1> QED
  BY <1>2, <1>3

\* Every special token written in a text stands in its tokens as often.
LEMMA UnitsOfText ==
  ASSUME NEW text, IsText(text)
  PROVE  /\ Units(text) \in Seq(Seq(Pieces))
         /\ \A tok \in ToSet(addedTokens) \ {unkToken.text} :
               Total(Being(tok), FlattenSeq(Units(text))) = Frequency(text, tok)
<1> DEFINE segs == splitOnAddedTokens(text)
           n == Len(segs)
           seqs == [k \in DOMAIN segs |-> UnitsOf(segs[k])]
           P == Pieces
<1>1. PICK X : Divided(segs, text, 5, X)
  BY SplitDivides
<1> DEFINE S == Segs(X)
<1>2. Units(text) = FlattenSeq(seqs)
  BY DEF Units, Map, UnitsOf
<1> HIDE DEF segs
<1>3. /\ segs \in Seq(S) /\ n \in Nat /\ DOMAIN segs = 1..n
      /\ \A k \in 1..n : segs[k] \in S /\ segs[k] \in ToSet(segs)
  BY <1>1, LenProperties, ElementOfSeq DEF Divided, ToSet
<1>4. \A k \in 1..n :
         /\ UnitsOf(segs[k]) \in Seq(Seq(P))
         /\ \A tok \in ToSet(addedTokens) \ {unkToken.text} :
               Total(Being(tok), FlattenSeq(UnitsOf(segs[k]))) = Weight(tok, X)[segs[k]]
  <2> SUFFICES ASSUME NEW k \in 1..n
               PROVE  /\ UnitsOf(segs[k]) \in Seq(Seq(P))
                      /\ \A tok \in ToSet(addedTokens) \ {unkToken.text} :
                            Total(Being(tok), FlattenSeq(UnitsOf(segs[k]))) = Weight(tok, X)[segs[k]]
    OBVIOUS
  <2>1. segs[k] \in Segs(X)
    BY <1>3
  <2>2. IF segs[k].special THEN segs[k].text \in ToSet(addedTokens)
        ELSE \A i \in 1..5 : Frequency(segs[k].text, addedTokens[i]) = 0
    BY <1>1, <1>3 DEF Divided
  <2> QED
    BY <2>1, <2>2, UnitsCount
<1>5. seqs \in [1..n -> Seq(Seq(P))] /\ \A k \in 1..n : seqs[k] = UnitsOf(segs[k])
  BY <1>3, <1>4
<1> DEFINE parts == [k \in 1..n |-> FlattenSeq(seqs[k])]
<1>6. FlattenSeq(seqs) \in Seq(Seq(P)) /\ FlattenSeq(FlattenSeq(seqs)) = FlattenSeq(parts)
  <2> DEFINE Q == Seq(P)
  <2>1. seqs \in [1..n -> Seq(Q)]
    BY <1>5
  <2>2. FlattenSeq(FlattenSeq(seqs)) = FlattenSeq(parts)
    <3> HIDE DEF seqs, P, n
    <3> QED
      BY <1>3, <1>5, FlatNested
  <2> HIDE DEF Q, seqs, n
  <2>3. FlattenSeq(seqs) \in Seq(Q)
    BY <1>3, <2>1, FlatLaid
  <2> QED
    BY <2>2, <2>3 DEF Q
<1>7. parts \in [1..n -> Seq(P)]
  <2>1. \A k \in 1..n : FlattenSeq(seqs[k]) \in Seq(P)
    <3> SUFFICES ASSUME NEW k \in 1..n PROVE FlattenSeq(seqs[k]) \in Seq(P)
      OBVIOUS
    <3> DEFINE u == seqs[k]
    <3>1. u \in Seq(Seq(P))
      BY <1>5
    <3> HIDE DEF u, P
    <3>2. Len(u) \in Nat /\ u \in [1..Len(u) -> Seq(P)]
      BY <3>1, LenProperties, SeqDef
    <3>3. FlattenSeq(u) \in Seq(P)
      BY <3>2, FlatLaid
    <3> QED
      BY <3>3 DEF u
  <2> HIDE DEF seqs, P
  <2> QED
    BY <2>1
<1>8. ASSUME NEW tok \in ToSet(addedTokens) \ {unkToken.text}
      PROVE  Total(Being(tok), FlattenSeq(parts)) = Frequency(text, tok)
  <2>1. Weight(tok, X) \in [S -> Nat] /\ Being(tok) \in [P -> Nat]
    BY TokensBracketed, WeightType DEF Being
  <2>2. \A k \in 1..n : Total(Being(tok), parts[k]) = Weight(tok, X)[segs[k]]
    BY <1>4, <1>5
  <2>3. Total(Weight(tok, X), segs) = Frequency(text, tok)
    BY <1>1 DEF Divided
  <2> DEFINE w == Being(tok)
             v == Weight(tok, X)
  <2>5. Matched(parts, w, P, segs, v, S)
    BY <1>3, <1>7, <2>1, <2>2 DEF Matched
  <2> HIDE DEF parts, S, P, w, v
  <2>6. Total(w, FlattenSeq(parts)) = Total(v, segs)
    BY <2>5, TotalFlat
  <2>4. Total(Being(tok), FlattenSeq(parts)) = Total(Weight(tok, X), segs)
    BY <2>6 DEF w, v
  <2> QED
    BY <2>3, <2>4
<1> QED
  BY <1>2, <1>6, <1>8

-----------------------------------------------------------------------------
(* Encoding *)

\* What Encode leaves between the opening token and the closing one.
budget == MaxSequenceLength - 2

\* The smaller of two numbers.
LEMMA MinOfTwo ==
  ASSUME NEW a \in Int, NEW b \in Int
  PROVE  Min({a, b}) = IF a <= b THEN a ELSE b
<1> DEFINE M == {a, b}
           m == IF a <= b THEN a ELSE b
<1>1. m \in M /\ \A y \in M : m <= y
  OBVIOUS
<1>2. \A x \in M : (\A y \in M : x <= y) => x = m
  OBVIOUS
<1> HIDE DEF M, m
<1>3. Min(M) = m
  BY <1>1, <1>2 DEF Min
<1> QED
  BY <1>3 DEF M, m

\* The first of what a token and then x are, however x goes on.
LEMMA Beginning ==
  ASSUME NEW P, NEW c \in P, NEW x \in Seq(P), NEW r \in Seq(P), NEW b \in 0..Len(x)
  PROVE  /\ SubSeq(<<c>> \o x, 1, b + 1) = <<c>> \o SubSeq(x \o r, 1, b)
         /\ SubSeq(x \o r, 1, b) \in Seq(P) /\ Len(SubSeq(x \o r, 1, b)) = b
<1> DEFINE cx == <<c>> \o x
           xr == x \o r
           u == SubSeq(cx, 1, b + 1)
           v == SubSeq(xr, 1, b)
           cv == <<c>> \o v
<1>1. Len(x) \in Nat /\ Len(r) \in Nat /\ b \in Nat /\ b <= Len(x)
  BY LenProperties
<1>2. /\ xr \in Seq(P) /\ Len(xr) = Len(x) + Len(r)
      /\ \A k \in 1..(Len(x) + Len(r)) : xr[k] = IF k <= Len(x) THEN x[k] ELSE r[k - Len(x)]
  BY ConcatProperties
<1>3. \A k \in 1..Len(x) : x[k] \in P
  BY ElementOfSeq
<1> HIDE DEF xr
<1>4. \A k \in 1..b : k \in 1..Len(x) /\ xr[k] = x[k]
  <2> SUFFICES ASSUME NEW k \in 1..b PROVE k \in 1..Len(x) /\ xr[k] = x[k]
    OBVIOUS
  <2>1. k \in 1..Len(x) /\ k \in 1..(Len(x) + Len(r)) /\ k <= Len(x)
    BY <1>1
  <2> QED
    BY <1>2, <2>1
<1>5. /\ v \in Seq(P) /\ Len(v) = b
      /\ \A k \in 1..b : v[k] = x[k]
  <2>1. \A k \in 1..b : xr[k] \in P
    BY <1>3, <1>4
  <2>2. /\ v \in Seq(P) /\ Len(v) = IF 1 <= b THEN b - 1 + 1 ELSE 0
        /\ \A k \in 1..(b - 1 + 1) : v[k] = xr[1 + k - 1]
    BY <1>1, <2>1, SubSeqProperties
  <2>3. b - 1 + 1 = b /\ \A k \in 1..b : 1 + k - 1 = k
    BY <1>1
  <2> HIDE DEF v
  <2> QED
    BY <1>1, <1>4, <2>2, <2>3
<1> HIDE DEF v
<1>6. /\ cx \in Seq(P) /\ Len(cx) = Len(x) + 1 /\ cx[1] = c
      /\ \A k \in 1..Len(x) : cx[k + 1] = x[k]
  BY OneBefore
<1>7. /\ cv \in Seq(P) /\ Len(cv) = b + 1 /\ cv[1] = c
      /\ \A k \in 1..b : cv[k + 1] = v[k]
  BY <1>5, OneBefore
<1> HIDE DEF cx, cv
<1>8. /\ u \in Seq(P) /\ Len(u) = b + 1
      /\ \A k \in 1..(b + 1) : u[k] = cx[k]
  <2>1. \A k \in 1..(b + 1) : cx[k] \in P
    <3>1. \A k \in 1..Len(cx) : cx[k] \in P
      BY <1>6, ElementOfSeq
    <3> QED
      BY <1>1, <1>6, <3>1
  <2>2. /\ u \in Seq(P) /\ Len(u) = IF 1 <= b + 1 THEN (b + 1) - 1 + 1 ELSE 0
        /\ \A k \in 1..((b + 1) - 1 + 1) : u[k] = cx[1 + k - 1]
    BY <1>1, <2>1, SubSeqProperties
  <2>3. (b + 1) - 1 + 1 = b + 1 /\ 1 <= b + 1 /\ \A k \in 1..(b + 1) : 1 + k - 1 = k
    BY <1>1
  <2> HIDE DEF u
  <2> QED
    BY <2>2, <2>3
<1> HIDE DEF u
<1>9. \A k \in 1..(b + 1) : u[k] = cv[k]
  <2> SUFFICES ASSUME NEW k \in 1..(b + 1) PROVE u[k] = cv[k]
    OBVIOUS
  <2>1. CASE k = 1
    BY <1>6, <1>7, <1>8, <2>1
  <2>2. CASE k # 1
    <3> DEFINE j == k - 1
    <3>1. j \in 1..b /\ k = j + 1
      BY <1>1, <2>2
    <3> HIDE DEF j
    <3>2. cx[k] = x[j] /\ cv[k] = v[j] /\ v[j] = x[j]
      BY <1>4, <1>5, <1>6, <1>7, <3>1
    <3> QED
      BY <1>8, <3>2
  <2> QED
    BY <2>1, <2>2
<1>10. u = cv
  BY <1>7, <1>8, <1>9, SeqEqual
<1> QED
  BY <1>5, <1>10 DEF u, v, cx, xr, cv

\* What the loop over the units has appended.
Appended(f, units) ==
    f = [k \in 0..Len(units) |->
            IF k = 0 THEN <<clsToken>>
            ELSE IF Len(f[k - 1]) - 1 >= budget THEN f[k - 1] ELSE f[k - 1] \o units[k]]

\* The loop has a value.
LEMMA AppendedExists ==
  ASSUME NEW units \in Seq(Seq(Pieces))
  PROVE  \E f : Appended(f, units)
<1> DEFINE n == Len(units)
           S == Seq(Pieces)
           full(q) == Len(q) - 1 >= budget
           turn == [k \in 1..n |-> [q \in S |-> IF full(q) THEN q ELSE q \o units[k]]]
           base == <<clsToken>>
<1>1. n \in Nat /\ \A k \in 1..n : units[k] \in S
  BY LenProperties, ElementOfSeq
<1>2. base \in S
  <2> DEFINE P == Pieces
  <2>1. clsToken \in P
    BY SpecialPieces
  <2> HIDE DEF P
  <2>2. <<clsToken>> \in Seq(P)
    BY <2>1
  <2> QED
    BY <2>2 DEF P
<1>3. \A k \in 1..n, q \in S :
         /\ turn[k][q] = IF full(q) THEN q ELSE q \o units[k]
         /\ turn[k][q] \in S
  <2> SUFFICES ASSUME NEW k \in 1..n, NEW q \in S
               PROVE  /\ turn[k][q] = IF full(q) THEN q ELSE q \o units[k]
                      /\ turn[k][q] \in S
    OBVIOUS
  <2>1. turn[k][q] = IF full(q) THEN q ELSE q \o units[k]
    OBVIOUS
  <2>2. q \o units[k] \in S
    <3> DEFINE u == units[k]
    <3>1. u \in S
      BY <1>1
    <3> HIDE DEF u
    <3>2. q \o u \in S
      BY <3>1, ConcatProperties
    <3> QED
      BY <3>2 DEF u
  <2> HIDE DEF turn, S, full
  <2> QED
    BY <2>1, <2>2
<1>4. turn \in [1..n -> [S -> S]]
  <2>1. \A k \in 1..n : turn[k] = [q \in S |-> turn[k][q]]
    OBVIOUS
  <2>2. turn = [k \in 1..n |-> turn[k]]
    OBVIOUS
  <2> HIDE DEF turn, S, full
  <2>3. \A k \in 1..n : turn[k] \in [S -> S]
    BY <1>3, <2>1
  <2> QED
    BY <2>2, <2>3
<1> HIDE DEF turn, S, base, full
<1>5. PICK g : Turned(g, n, S, base, turn)
  <2> HIDE DEF n
  <2> QED
    BY <1>1, <1>2, <1>4, TurnsExist
<1>6. /\ g \in [0..n -> S] /\ g[0] = base
      /\ \A k \in 1..n : g[k] = turn[k][g[k - 1]]
  BY <1>5 DEF Turned
<1>7. \A k \in 0..n : g[k] = IF k = 0 THEN base
                             ELSE IF full(g[k - 1]) THEN g[k - 1] ELSE g[k - 1] \o units[k]
  <2>1. ASSUME NEW k \in 1..n
        PROVE  g[k] = IF full(g[k - 1]) THEN g[k - 1] ELSE g[k - 1] \o units[k]
    <3>1. k - 1 \in 0..n
      BY <1>1
    <3>2. g[k - 1] \in S
      BY <1>6, <3>1
    <3> QED
      BY <1>3, <1>6, <3>2
  <2>2. \A k \in 0..n : k = 0 \/ k \in 1..n
    BY <1>1
  <2>3. \A k \in 1..n : k # 0
    OBVIOUS
  <2> HIDE DEF n
  <2> QED
    BY <1>6, <2>1, <2>2, <2>3
<1>8. g = [k \in 0..n |-> g[k]]
  BY <1>6
<1>9. g = [k \in 0..n |-> IF k = 0 THEN base
                          ELSE IF full(g[k - 1]) THEN g[k - 1] ELSE g[k - 1] \o units[k]]
  BY <1>7, <1>8
<1> QED
  BY <1>9 DEF Appended, base, full

\* A token, and sequences of tokens.
Strung(P, c, x, r, more) == c \in P /\ x \in Seq(P) /\ r \in Seq(P) /\ more \in Seq(P)

\* Adding to what has been strung.
LEMMA Longer ==
  ASSUME NEW P, NEW c, NEW x, NEW r, NEW more, Strung(P, c, x, r, more)
  PROVE  /\ (x \o r) \o more = x \o (r \o more) /\ r \o more \in Seq(P)
         /\ (<<c>> \o x) \o more = <<c>> \o (x \o more) /\ x \o more \in Seq(P)
<1> DEFINE one == <<c>>
<1>1. one \in Seq(P) /\ x \in Seq(P) /\ r \in Seq(P) /\ more \in Seq(P)
  BY DEF Strung
<1> HIDE DEF one
<1>2. (x \o r) \o more = x \o (r \o more)
  BY <1>1, ConcatAssociative
<1>3. (one \o x) \o more = one \o (x \o more)
  BY <1>1, ConcatAssociative
<1>4. r \o more \in Seq(P) /\ x \o more \in Seq(P)
  BY <1>1, ConcatProperties
<1> QED
  BY <1>2, <1>3, <1>4 DEF one

\* ids is the opening token and then x, all is x and then r, and nothing is left
\* out before the budget is reached.
Opened(ids, all, x, r) ==
    /\ x \in Seq(Pieces)
    /\ r \in Seq(Pieces)
    /\ ids = <<clsToken>> \o x
    /\ all = x \o r
    /\ r = <<>> \/ Len(x) >= budget

\* What the loop over the units of Encode has appended is the opening token and
\* then a beginning of all the pieces.
LEMMA AppendedBegins ==
  ASSUME NEW units \in Seq(Seq(Pieces)), NEW f, Appended(f, units)
  PROVE  \E x, r : Opened(f[Len(units)], FlattenSeq(units), x, r)
<1> DEFINE n == Len(units)
           P == Pieces
           all == FlattenSeq(units)
<1>1. n \in Nat /\ units \in [1..n -> Seq(P)]
  BY LenProperties, SeqDef
<1>2. PICK g : Spelt(g, n, units, P)
  <2> HIDE DEF P, n
  <2> QED
    BY <1>1, Flattening
<1>3. /\ g \in [0..n -> Seq(P)] /\ g[0] = <<>> /\ all = g[n]
      /\ \A k \in 1..n : g[k] = g[k - 1] \o units[k]
  BY <1>2 DEF Spelt
<1>4. \A k \in 0..n : f[k] = IF k = 0 THEN <<clsToken>>
                             ELSE IF Len(f[k - 1]) - 1 >= budget THEN f[k - 1] ELSE f[k - 1] \o units[k]
  <2> DEFINE full(q) == Len(q) - 1 >= budget
  <2>2. f = [k \in 0..n |->
                IF k = 0 THEN <<clsToken>>
                ELSE IF full(f[k - 1]) THEN f[k - 1] ELSE f[k - 1] \o units[k]]
    BY Zenon DEF Appended
  <2> HIDE DEF n, full
  <2>3. \A k \in 0..n : f[k] = IF k = 0 THEN <<clsToken>>
                               ELSE IF full(f[k - 1]) THEN f[k - 1] ELSE f[k - 1] \o units[k]
    BY <2>2
  <2> QED
    BY <2>3 DEF full
<1>5. clsToken \in P /\ MaxSequenceLength \in Nat /\ budget \in Int
  BY SpecialPieces, WordPieceAssumption DEF budget
<1> DEFINE done(k, x, r) == /\ x \in Seq(P) /\ r \in Seq(P)
                            /\ f[k] = <<clsToken>> \o x
                            /\ g[k] = x \o r
                            /\ r = <<>> \/ Len(x) >= budget
           good == {k \in 0..n : \E x, r : done(k, x, r)}
<1>6. <<>> \in Seq(P) /\ \A q \in Seq(P) : q \o <<>> = q
  BY EmptySeq, ConcatEmptySeq
<1>7. \A x \in Seq(P) : /\ <<clsToken>> \o x \in Seq(P)
                        /\ Len(<<clsToken>> \o x) = Len(x) + 1 /\ Len(x) \in Nat
  <2> HIDE DEF P
  <2> QED
    BY <1>5, OneBefore, LenProperties
<1>8. 0 \in good
  <2>1. <<clsToken>> \o <<>> = <<clsToken>> /\ <<>> \o <<>> = <<>>
    <3> HIDE DEF P
    <3>1. <<clsToken>> \in Seq(P)
      BY <1>5
    <3> QED
      BY <1>6, <3>1
  <2>2. 0 \in 0..n
    BY <1>1
  <2>3. done(0, <<>>, <<>>)
    BY <1>3, <1>4, <1>6, <2>1, <2>2
  <2> QED
    BY <2>2, <2>3
<1>9. ASSUME NEW k \in 1..n, k - 1 \in good
      PROVE  k \in good
  <2>1. PICK x, r : done(k - 1, x, r)
    BY <1>9
  <2> DEFINE more == units[k]
  <2>2. /\ x \in Seq(P) /\ r \in Seq(P) /\ more \in Seq(P)
        /\ f[k - 1] = <<clsToken>> \o x /\ g[k - 1] = x \o r
        /\ r = <<>> \/ Len(x) >= budget
        /\ g[k] = g[k - 1] \o more /\ k \in 0..n
        /\ f[k] = IF Len(f[k - 1]) - 1 >= budget THEN f[k - 1] ELSE f[k - 1] \o more
    <3>1. k \in 0..n /\ k # 0
      BY <1>1
    <3>2. f[k] = IF Len(f[k - 1]) - 1 >= budget THEN f[k - 1] ELSE f[k - 1] \o more
      BY <1>4, <3>1
    <3>3. more \in Seq(P) /\ g[k] = g[k - 1] \o more
      BY <1>1, <1>3
    <3> QED
      BY <2>1, <3>1, <3>2, <3>3
  <2>3. Len(f[k - 1]) - 1 >= budget <=> Len(x) >= budget
    <3>1. Len(f[k - 1]) = Len(x) + 1 /\ Len(x) \in Nat
      BY <1>7, <2>2
    <3> QED
      BY <1>5, <3>1
  <2> HIDE DEF more, P, done, good
  <2>6. /\ (x \o r) \o more = x \o (r \o more) /\ r \o more \in Seq(P)
        /\ (<<clsToken>> \o x) \o more = <<clsToken>> \o (x \o more) /\ x \o more \in Seq(P)
    <3> DEFINE c == clsToken
    <3>1. Strung(P, c, x, r, more)
      BY <1>5, <2>2 DEF Strung
    <3> HIDE DEF c
    <3>2. /\ (x \o r) \o more = x \o (r \o more) /\ r \o more \in Seq(P)
          /\ (<<c>> \o x) \o more = <<c>> \o (x \o more) /\ x \o more \in Seq(P)
      BY <3>1, Longer
    <3> QED
      BY <3>2 DEF c
  <2>4. CASE Len(x) >= budget
    <3>1. f[k] = <<clsToken>> \o x
      BY <2>2, <2>3, <2>4
    <3>2. g[k] = x \o (r \o more) /\ r \o more \in Seq(P)
      BY <2>2, <2>6
    <3>3. done(k, x, r \o more)
      BY <2>2, <2>4, <3>1, <3>2 DEF done, P
    <3> QED
      BY <2>2, <3>3 DEF good
  <2>5. CASE ~(Len(x) >= budget)
    <3>1. r = <<>> /\ f[k] = (<<clsToken>> \o x) \o more /\ g[k] = x \o more
      BY <1>6, <2>2, <2>3, <2>5
    <3>3. f[k] = <<clsToken>> \o (x \o more) /\ x \o more \in Seq(P)
      BY <2>6, <3>1
    <3>4. g[k] = (x \o more) \o <<>>
      BY <1>6, <3>1, <3>3
    <3>5. done(k, x \o more, <<>>)
      BY <1>6, <3>3, <3>4 DEF done, P
    <3> QED
      BY <2>2, <3>5 DEF good
  <2> QED
    BY <2>4, <2>5
<1>10. n \in good
  <2> HIDE DEF good
  <2> QED
    BY <1>1, <1>8, <1>9, TurnsKeep
<1>11. PICK x, r : done(n, x, r)
  BY <1>10
<1>12. Opened(f[n], all, x, r)
  BY <1>3, <1>11 DEF Opened
<1> QED
  BY <1>12

\* What fits between the opening token and the closing one.
Fitting(x) == IF Len(x) <= budget THEN Len(x) ELSE budget

\* Encode is as much of the pieces as fits, between the two.
LEMMA EncodeFits ==
  ASSUME NEW text, IsText(text)
  PROVE  LET all == FlattenSeq(Units(text))
         IN  /\ all \in Seq(Pieces)
             /\ Encode(text) = <<clsToken>> \o SubSeq(all, 1, Fitting(all)) \o <<sepToken>>
             /\ Len(Encode(text)) \in 0..MaxSequenceLength
<1> DEFINE units == Units(text)
           f == CHOOSE f : Appended(f, units)
           ids == f[Len(units)]
           all == FlattenSeq(units)
           cut == SubSeq(ids, 1, Min({budget + 1, Len(ids)}))
           P == Pieces
<1>1. Encode(text) = Append(cut, sepToken)
  BY Zenon DEF Encode, Appended, budget
<1>2. units \in Seq(Seq(P))
  BY UnitsOfText
<1>3. Appended(f, units)
  <2> HIDE DEF units
  <2> QED
    BY <1>2, AppendedExists
<1>4. /\ clsToken \in P /\ sepToken \in P
      /\ MaxSequenceLength \in Nat /\ budget \in Nat /\ budget = MaxSequenceLength - 2
  BY SpecialPieces, WordPieceAssumption DEF budget
<1> HIDE DEF f, units, cut
<1>5. PICK x, r : Opened(ids, all, x, r)
  BY <1>2, <1>3, AppendedBegins
<1>12. x \in Seq(P) /\ r \in Seq(P) /\ ids = <<clsToken>> \o x /\ all = x \o r
  BY <1>5, Zenon DEF Opened
<1>13. r = <<>> \/ Len(x) >= budget
  BY <1>5 DEF Opened
<1> HIDE DEF P, all, ids
<1>6. /\ all \in Seq(P) /\ Len(all) = Len(x) + Len(r) /\ Len(x) \in Nat /\ Len(r) \in Nat
      /\ Len(ids) = Len(x) + 1
  <2>1. all \in Seq(P) /\ Len(all) = Len(x) + Len(r)
    BY <1>12, ConcatProperties
  <2>2. Len(ids) = Len(x) + 1
    BY <1>4, <1>12, OneBefore
  <2> QED
    BY <2>1, <2>2, LenProperties
<1> DEFINE b == Fitting(all)
<1>7. b \in 0..Len(x) /\ Min({budget + 1, Len(ids)}) = b + 1 /\ b <= budget
  <2>1. Min({budget + 1, Len(ids)}) = IF budget + 1 <= Len(ids) THEN budget + 1 ELSE Len(ids)
    BY <1>4, <1>6, MinOfTwo
  <2>2. b = IF Len(all) <= budget THEN Len(all) ELSE budget
    BY DEF Fitting
  <2>3. r = <<>> => Len(r) = 0
    BY ShortTexts
  <2>4. CASE Len(x) >= budget
    <3>1. budget + 1 <= Len(ids)
      BY <1>4, <1>6, <2>4
    <3>2. b = budget
      BY <1>4, <1>6, <2>2, <2>4
    <3> QED
      BY <1>4, <1>6, <2>1, <2>4, <3>1, <3>2
  <2>5. CASE ~(Len(x) >= budget)
    <3>1. Len(all) = Len(x)
      BY <1>6, <1>13, <2>3, <2>5
    <3>2. ~(budget + 1 <= Len(ids)) /\ Len(all) <= budget
      BY <1>4, <1>6, <2>5, <3>1
    <3> HIDE DEF b
    <3> QED
      BY <1>4, <1>6, <2>1, <2>2, <2>5, <3>1, <3>2
  <2> QED
    BY <2>4, <2>5
<1> HIDE DEF b
<1> DEFINE head == SubSeq(all, 1, b)
           c == clsToken
<1>8. cut = <<clsToken>> \o head /\ head \in Seq(P) /\ Len(head) = b
  <2>1. c \in P /\ ids = <<c>> \o x /\ all = x \o r
    BY <1>4, <1>12
  <2> HIDE DEF c
  <2>2. /\ SubSeq(<<c>> \o x, 1, b + 1) = <<c>> \o SubSeq(x \o r, 1, b)
        /\ SubSeq(x \o r, 1, b) \in Seq(P) /\ Len(SubSeq(x \o r, 1, b)) = b
    BY <1>7, <1>12, <2>1, Beginning
  <2>3. cut = SubSeq(ids, 1, b + 1)
    BY <1>7 DEF cut
  <2>4. cut = <<c>> \o head
    BY <2>1, <2>2, <2>3
  <2> QED
    BY <2>1, <2>2, <2>4 DEF c
<1> HIDE DEF head
<1>9. cut \in Seq(P) /\ Len(cut) = b + 1
  <2>1. c \in P
    BY <1>4
  <2> HIDE DEF c
  <2>2. <<c>> \o head \in Seq(P) /\ Len(<<c>> \o head) = Len(head) + 1
    BY <1>8, <2>1, OneBefore
  <2> QED
    BY <1>8, <2>2 DEF c
<1>10. Append(cut, sepToken) = cut \o <<sepToken>> /\ Len(Append(cut, sepToken)) = b + 2
  <2>1. Append(cut, sepToken) = cut \o <<sepToken>>
    BY <1>4, <1>9, AppendIsConcat
  <2>2. Len(Append(cut, sepToken)) = Len(cut) + 1
    BY <1>4, <1>9, AppendProperties
  <2> QED
    BY <1>7, <1>9, <2>1, <2>2, <1>6
<1>11. b + 2 \in 0..MaxSequenceLength
  BY <1>4, <1>6, <1>7
<1> QED
  BY <1>1, <1>6, <1>8, <1>10, <1>11 DEF all, units, P, b, head

-----------------------------------------------------------------------------
(* Batches *)

\* A batch is as wide as its longest row needs.
LEMMA BucketHolds ==
  ASSUME NEW n \in 0..MaxSequenceLength
  PROVE  bucketFor(n) \in Nat /\ n <= bucketFor(n)
<1> DEFINE fits == {b \in sequenceBuckets : n <= b}
<1>1. MaxSequenceLength \in Nat /\ sequenceBuckets \subseteq Nat /\ n \in Nat
  BY WordPieceAssumption
<1>2. bucketFor(n) = IF fits = {} THEN MaxSequenceLength ELSE Min(fits)
  BY DEF bucketFor
<1>3. ASSUME fits # {}
      PROVE  Min(fits) \in fits
  <2>1. fits \in SUBSET Nat
    BY <1>1
  <2> HIDE DEF fits
  <2>2. PICK y \in fits : \A z \in fits : y <= z
    BY <1>3, <2>1, LeastNatural
  <2> QED
    BY <2>2 DEF Min
<1>4. \A y \in fits : y \in Nat /\ n <= y
  BY <1>1
<1> HIDE DEF fits
<1> QED
  BY <1>1, <1>2, <1>3, <1>4

\* A text in a batch with a short one: the mask covers its tokens and no padding.
LEMMA RowsFit ==
  ASSUME NEW text, IsText(text)
  PROVE  LET batch == Padded(<<text, <<>>>>)
         IN  \A row \in ToSet(batch) :
                /\ Len(row.mask) = Len(batch[1].mask) /\ Len(row.ids) <= Len(row.mask)
                /\ \A j \in DOMAIN row.mask : row.mask[j] = 1 <=> j <= Len(row.ids)
<1> DEFINE texts == <<text, <<>>>>
           ids == [k \in DOMAIN texts |-> Encode(texts[k])]
           lens == {Len(ids[k]) : k \in DOMAIN texts}
           width == bucketFor(Max({1} \cup lens))
           mask(k) == [j \in 1..width |-> IF j <= Len(ids[k]) THEN 1 ELSE 0]
           batch == Padded(texts)
<1>1. batch = [k \in DOMAIN texts |-> [ids |-> ids[k], mask |-> mask(k)]]
  BY DEF Padded
<1>2. DOMAIN texts = 1..2 /\ texts[1] = text /\ texts[2] = <<>>
  OBVIOUS
<1> HIDE DEF texts, batch
<1>3. \A k \in 1..2 : IsText(texts[k])
  <2>1. \A k \in 1..2 : k = 1 \/ k = 2
    OBVIOUS
  <2> QED
    BY <1>2, <2>1, ShortTexts
<1>4. \A k \in 1..2 : Len(ids[k]) \in 0..MaxSequenceLength
  BY <1>2, <1>3, EncodeFits
<1> HIDE DEF ids
<1>5. /\ width \in Nat
      /\ \A k \in 1..2 : Len(ids[k]) <= width
  <2> DEFINE M == {1} \cup lens
             n == Max(M)
  <2>1. MaxSequenceLength \in Nat /\ MaxSequenceLength >= 2
    BY WordPieceAssumption
  <2>2. \A y \in M : y \in 0..MaxSequenceLength
    BY <1>2, <1>4, <2>1
  <2>3. M \in SUBSET (0..MaxSequenceLength) /\ M # {} /\ \A k \in 1..2 : Len(ids[k]) \in M
    <3>1. M \in SUBSET (0..MaxSequenceLength)
      BY <2>2
    <3>2. 1 \in M /\ \A k \in 1..2 : Len(ids[k]) \in M
      BY <1>2
    <3> HIDE DEF M
    <3> QED
      BY <3>1, <3>2
  <2> HIDE DEF M
  <2>4. n \in M /\ \A y \in M : y <= n
    BY <2>1, <2>3, MaxIs
  <2>5. n \in 0..MaxSequenceLength
    BY <2>3, <2>4
  <2> HIDE DEF n
  <2>6. bucketFor(n) \in Nat /\ n <= bucketFor(n)
    BY <2>5, BucketHolds
  <2>7. width = bucketFor(n)
    BY DEF n, M
  <2> HIDE DEF width
  <2>8. \A k \in 1..2 : Len(ids[k]) <= n /\ Len(ids[k]) \in Nat
    BY <1>4, <2>1, <2>3, <2>4
  <2> QED
    BY <2>1, <2>5, <2>6, <2>7, <2>8
<1> HIDE DEF width
<1>6. ASSUME NEW k \in 1..2
      PROVE  /\ Len(mask(k)) = width /\ DOMAIN mask(k) = 1..width
             /\ \A j \in 1..width : mask(k)[j] = 1 <=> j <= Len(ids[k])
  <2> DEFINE m == mask(k)
  <2>1. m \in [1..width -> {0, 1}] /\ DOMAIN m = 1..width
    OBVIOUS
  <2>2. \A j \in 1..width : m[j] = 1 <=> j <= Len(ids[k])
    OBVIOUS
  <2> HIDE DEF m
  <2>3. m \in Seq({0, 1})
    BY <1>5, <2>1, SeqDef
  <2>4. Len(m) \in Nat /\ DOMAIN m = 1..Len(m)
    BY <2>3, LenProperties
  <2>5. Len(m) = width
    BY <1>5, <2>1, <2>4
  <2> QED
    BY <2>1, <2>2, <2>5 DEF m
<1>7. /\ DOMAIN batch = 1..2
      /\ \A k \in 1..2 : batch[k].ids = ids[k] /\ batch[k].mask = mask(k)
  BY <1>1, <1>2
<1> HIDE DEF mask
<1>8. Len(batch[1].mask) = width
  BY <1>6, <1>7
<1>9. ASSUME NEW row \in ToSet(batch)
      PROVE  /\ Len(row.mask) = Len(batch[1].mask) /\ Len(row.ids) <= Len(row.mask)
             /\ \A j \in DOMAIN row.mask : row.mask[j] = 1 <=> j <= Len(row.ids)
  <2>1. PICK k \in 1..2 : row = batch[k]
    BY <1>7 DEF ToSet
  <2>2. row.ids = ids[k] /\ row.mask = mask(k)
    BY <1>7, <2>1
  <2> QED
    BY <1>5, <1>6, <1>8, <2>2
<1> QED
  BY <1>9 DEF batch, texts

\* Every input given.
LEMMA Truncating == Given => TruncationCutsTheTail
<1> SUFFICES ASSUME Given, input.kind = "text" PROVE TruncationCutsTheTail
  BY DEF TruncationCutsTheTail
<1> DEFINE text == input.case
           all == FlattenSeq(Units(text))
           kept == Min({Len(all), MaxSequenceLength - 2})
           batch == Padded(<<text, <<>>>>)
<1>1. IsText(text)
  BY DecisionsAssumption DEF Given
<1> HIDE DEF text
<1>2. Encode(text) = <<clsToken>> \o SubSeq(all, 1, kept) \o <<sepToken>>
  <2>1. all \in Seq(Pieces) /\ Encode(text) = <<clsToken>> \o SubSeq(all, 1, Fitting(all)) \o <<sepToken>>
    BY <1>1, EncodeFits
  <2>2. Len(all) \in Nat /\ budget \in Int /\ budget = MaxSequenceLength - 2
    BY <2>1, LenProperties, WordPieceAssumption DEF budget
  <2> HIDE DEF all
  <2>3. kept = Fitting(all)
    BY <2>2, MinOfTwo DEF Fitting
  <2> HIDE DEF kept
  <2> QED
    BY <2>1, <2>3
<1>3. ASSUME NEW tok \in ToSet(addedTokens) \ {unkToken.text}
      PROVE  Cardinality({k \in DOMAIN all : all[k] = Token(tok)}) = Cardinality(Occurrences(text, tok))
  <2>1. Total(Being(tok), all) = Frequency(text, tok) /\ all \in Seq(Pieces)
    BY <1>1, EncodeFits, UnitsOfText
  <2> HIDE DEF all
  <2> DEFINE x == Token(tok)
             w == Being(tok)
  <2>2. Singles(w, x, Pieces)
    BY DEF Singles, Being
  <2> HIDE DEF x, w
  <2>3. Total(w, all) = Cardinality({k \in DOMAIN all : all[k] = x})
    BY <2>1, <2>2, TotalCounts
  <2> QED
    BY <2>1, <2>3 DEF x, w, Frequency
<1>4. \A row \in ToSet(batch) :
         /\ Len(row.mask) = Len(batch[1].mask) /\ Len(row.ids) <= Len(row.mask)
         /\ \A j \in DOMAIN row.mask : row.mask[j] = 1 <=> j <= Len(row.ids)
  BY <1>1, RowsFit
<1> HIDE DEF all, kept, batch
<1>5. input.kind = "text" =>
        /\ Encode(text) = <<clsToken>> \o SubSeq(all, 1, kept) \o <<sepToken>>
        /\ \A tok \in ToSet(addedTokens) \ {unkToken.text} :
               Cardinality({k \in DOMAIN all : all[k] = Token(tok)}) = Cardinality(Occurrences(text, tok))
        /\ \A row \in ToSet(batch) :
               /\ Len(row.mask) = Len(batch[1].mask) /\ Len(row.ids) <= Len(row.mask)
               /\ \A j \in DOMAIN row.mask : row.mask[j] = 1 <=> j <= Len(row.ids)
  BY <1>2, <1>3, <1>4
<1> QED
  BY <1>5, Zenon DEF TruncationCutsTheTail, all, kept, batch, text

\* A text that is too long for the model loses tokens at its end only, between an
\* opening and a closing token that are always there, and a batch covers each of its
\* texts and none of the padding (wordpiece.go Encode, bge.go).
THEOREM TruncationCuts == Spec => []TruncationCutsTheTail
<1> QED
  BY AlwaysGiven, Truncating, PTL
=============================================================================
