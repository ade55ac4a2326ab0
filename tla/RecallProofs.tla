---------------------------- MODULE RecallProofs ----------------------------
(* Theorems about recall beside its writers: what it must not tell, what it *)
(* must not lose in silence, and the rate of calls.                         *)
EXTENDS MemoryProofs, RankProofs

-----------------------------------------------------------------------------
(* What is recorded and what is in hand *)

\* The recalls of a principal that still count, and the callers of its that
\* were let through and have not recorded theirs.
Spent(p) ==
    {k \in DOMAIN metered : /\ metered[k].principal = p
                            /\ metered[k].at > L!WindowStart(clock, RecallWindow)}

LetThrough == {"dense", "lexical", "load", "record"}

InHand(p) == {c \in Callers : AskedBy[c] = p /\ caller[c].pc \in LetThrough}

Allowance(p) ==
    Cardinality(Spent(p)) + Cardinality(InHand(p)) <= RecallCeiling - 1 + Cardinality(Callers)

Allowances == \A c \in Callers : Allowance(AskedBy[c])

LEMMA RecallsFinite ==
  ASSUME Metered, NEW p
  PROVE  /\ IsFiniteSet(Spent(p)) /\ IsFiniteSet(InHand(p)) /\ IsFiniteSet(Callers)
         /\ IsFiniteSet(DOMAIN metered)
         /\ Cardinality(Spent(p)) \in Nat /\ Cardinality(InHand(p)) \in Nat
         /\ Cardinality(Callers) \in Nat
<1>1. PICK S : metered \in Seq(S)
  BY DEF Metered
<1>2. Len(metered) \in Nat /\ DOMAIN metered = 1..Len(metered)
  BY <1>1, LenProperties
<1>3. IsFiniteSet(DOMAIN metered)
  BY <1>2, FirstNumbers
<1>4. Spent(p) \subseteq DOMAIN metered /\ InHand(p) \subseteq Callers
  BY DEF Spent, InHand
<1>5. IsFiniteSet(Callers)
  BY RecallAssumption
<1>6. IsFiniteSet(Spent(p)) /\ IsFiniteSet(InHand(p))
  BY <1>3, <1>4, <1>5, FS_Subset
<1> QED
  BY <1>3, <1>5, <1>6, FS_CardinalityType

LEMMA CallerMoved ==
  ASSUME Metered, NEW c \in Callers, NEW x, CallerBecomes(c, x)
  PROVE  caller'[c] = x /\ \A d \in Callers \ {c} : caller'[d] = caller[d]
  BY DEF Metered, CallerBecomes

\* Nothing recorded, nobody let through: what counted may stop counting.
LEMMA NobodyLetThrough ==
  ASSUME Metered, Allowances, UNCHANGED metered,
         clock \in Nat, clock' \in Nat, clock <= clock',
         \A c \in Callers : caller'[c].pc \in LetThrough => caller[c].pc \in LetThrough
  PROVE  Allowances'
<1> SUFFICES ASSUME NEW c \in Callers PROVE Allowance(AskedBy[c])'
  BY DEF Allowances
<1> DEFINE p == AskedBy[c]
<1>1. Spent(p)' \subseteq Spent(p)
  <2>1. RecallWindow \in Int /\ \A k \in DOMAIN metered : metered[k].at \in Int
    BY RecallAssumption DEF Metered
  <2> QED
    BY <2>1 DEF Spent, L!WindowStart
<1>2. InHand(p)' \subseteq InHand(p)
  BY DEF InHand
<1> HIDE DEF p
<1>3. IsFiniteSet(Spent(p)) /\ IsFiniteSet(InHand(p))
  BY RecallsFinite
<1>4. /\ Cardinality(Spent(p)') + Cardinality(InHand(p)')
            <= Cardinality(Spent(p)) + Cardinality(InHand(p))
      /\ Cardinality(Spent(p)') \in Nat /\ Cardinality(InHand(p)') \in Nat
      /\ Cardinality(Spent(p)) \in Nat /\ Cardinality(InHand(p)) \in Nat
  BY <1>1, <1>2, <1>3, NeitherGrows
<1>5. Cardinality(Callers) \in Nat /\ RecallCeiling \in Int
  BY RecallsFinite, RecallAssumption
<1>6. Allowance(p)
  BY DEF Allowances, p
<1>7. Allowance(p)'
  BY <1>4, <1>5, <1>6 DEF Allowance
<1> QED
  BY <1>7 DEF p

\* Let through: what it counted, at the instant it began, is at least what
\* counts now, and below the ceiling; in hand there is no more than everybody.
LEMMA CheckRateAllows ==
  ASSUME RecallCeiling > 0, Metered, Allowances, clock \in Nat, clock' \in Nat,
         NEW c \in Callers, CheckRate(c), UNCHANGED clock
  PROVE  Allowances'
<1> DEFINE start == L!WindowStart(caller[c].now, RecallWindow)
           n == RecallsInWindow(AskedBy[c], start)
           counted == {k \in DOMAIN metered : /\ metered[k].principal = AskedBy[c]
                                              /\ metered[k].at > start}
           z(limit) == [caller[c] EXCEPT !.pc = "dense", !.want.limit = limit]
<1>1. /\ caller[c].now \in Nat /\ caller[c].now <= clock
      /\ RecallWindow \in Nat /\ RecallCeiling \in Int
      /\ \A k \in DOMAIN metered : metered[k].at \in Int
  BY RecallAssumption DEF Metered, CallerTyped
<1>2. UNCHANGED metered
  BY DEF CheckRate
<1>3. CASE ~L!RecallRate(n, RecallCeiling).allowed
  <2>1. CallerBecomes(c, NoRecall)
    BY <1>3 DEF CheckRate
  <2>2. caller'[c] = NoRecall /\ \A d \in Callers \ {c} : caller'[d] = caller[d]
    BY <2>1, CallerMoved
  <2>3. NoRecall.pc = "idle"
    BY DEF NoRecall
  <2>4. \A d \in Callers : caller'[d].pc \in LetThrough => caller[d].pc \in LetThrough
    BY <2>2, <2>3 DEF LetThrough
  <2>5. clock <= clock'
    OBVIOUS
  <2> QED
    BY <1>2, <2>4, <2>5, NobodyLetThrough
<1>4. CASE L!RecallRate(n, RecallCeiling).allowed
  <2>1. PICK limit : CallerBecomes(c, z(limit))
    BY <1>4 DEF CheckRate
  <2>2. \A d \in Callers \ {c} : caller'[d] = caller[d]
    BY <2>1, CallerMoved
  <2>3. IsFiniteSet(counted) /\ Cardinality(counted) \in Nat
    <3>1. IsFiniteSet(counted)
      BY RecallsFinite, FS_Subset
    <3> QED
      BY <3>1, FS_CardinalityType
  <2>4. n = Cardinality(counted)
    BY DEF RecallsInWindow
  <2> HIDE DEF n, counted
  <2>5. Cardinality(counted) <= RecallCeiling - 1
    BY <1>1, <1>4, <2>3, <2>4 DEF L!RecallRate, L!AtMost
  <2> SUFFICES ASSUME NEW d \in Callers PROVE Allowance(AskedBy[d])'
    BY DEF Allowances
  <2>6. CASE AskedBy[d] = AskedBy[c]
    <3> DEFINE p == AskedBy[d]
    <3>1. Spent(p)' \subseteq counted
      BY <1>1, <1>2, <2>6 DEF Spent, L!WindowStart, counted
    <3>2. InHand(p)' \subseteq Callers
      BY DEF InHand
    <3> HIDE DEF p
    <3>3. IsFiniteSet(Callers) /\ Cardinality(Callers) \in Nat
      BY RecallsFinite
    <3>4. /\ Cardinality(Spent(p)') \in Nat /\ Cardinality(InHand(p)') \in Nat
          /\ Cardinality(Spent(p)') + Cardinality(InHand(p)')
                <= Cardinality(counted) + Cardinality(Callers)
      BY <2>3, <3>1, <3>2, <3>3, NeitherGrows
    <3>5. Allowance(p)'
      BY <1>1, <2>3, <2>5, <3>3, <3>4 DEF Allowance
    <3> QED
      BY <3>5 DEF p
  <2>7. CASE AskedBy[d] # AskedBy[c]
    <3> DEFINE p == AskedBy[d]
    <3>1. Spent(p)' = Spent(p)
      BY <1>2 DEF Spent
    <3>2. InHand(p)' = InHand(p)
      BY <2>2, <2>7 DEF InHand
    <3> HIDE DEF p
    <3>3. Allowance(p)
      BY DEF Allowances, p
    <3>4. Allowance(p)'
      BY <3>1, <3>2, <3>3 DEF Allowance
    <3> QED
      BY <3>4 DEF p
  <2> QED
    BY <2>6, <2>7
<1> QED
  BY <1>3, <1>4

\* A recall goes from the hand to the record, or is lost on the way.
LEMMA RecordAllows ==
  ASSUME Metered, Allowances, clock \in Nat, NEW c \in Callers, RecordRecall(c), UNCHANGED clock
  PROVE  Allowances'
<1>1. caller[c].pc = "record" /\ CallerBecomes(c, NoRecall)
  BY DEF RecordRecall, CallerAt
<1>2. NoRecall.pc = "idle"
  BY DEF NoRecall
<1>3. caller'[c] = NoRecall /\ \A d \in Callers \ {c} : caller'[d] = caller[d]
  BY <1>1, CallerMoved
<1>4. CASE UNCHANGED metered
  <2>1. \A d \in Callers : caller'[d].pc \in LetThrough => caller[d].pc \in LetThrough
    BY <1>2, <1>3 DEF LetThrough
  <2>2. clock' \in Nat /\ clock <= clock'
    OBVIOUS
  <2> QED
    BY <1>4, <2>1, <2>2, NobodyLetThrough
<1>5. CASE ~UNCHANGED metered
  <2> DEFINE e == [principal |-> AskedBy[c], at |-> caller[c].now]
             n == Len(metered)
  <2>1. metered' = Append(metered, e)
    BY <1>5 DEF RecordRecall
  <2>2. PICK S : metered \in Seq(S)
    BY DEF Metered
  <2>3. /\ n \in Nat /\ DOMAIN metered = 1..n /\ DOMAIN metered' = 1..(n + 1)
        /\ \A k \in 1..n : metered'[k] = metered[k]
        /\ metered'[n + 1] = e
    BY <2>1, <2>2, Grown
  <2>4. e.principal = AskedBy[c]
    OBVIOUS
  <2> HIDE DEF e
  <2> SUFFICES ASSUME NEW d \in Callers PROVE Allowance(AskedBy[d])'
    BY DEF Allowances
  <2> DEFINE p == AskedBy[d]
  <2>5. InHand(p)' \subseteq InHand(p) \ {c}
    BY <1>2, <1>3 DEF InHand, LetThrough
  <2>6. Spent(p)' \subseteq Spent(p) \cup {n + 1}
    BY <2>3 DEF Spent
  <2>7. p = AskedBy[c] => c \in InHand(p)
    BY <1>1 DEF InHand, LetThrough
  <2>8. p # AskedBy[c] => Spent(p)' \subseteq Spent(p)
    <3> SUFFICES ASSUME p # AskedBy[c], NEW k \in 1..(n + 1), metered'[k].principal = p,
                        metered'[k].at > L!WindowStart(clock, RecallWindow)
                 PROVE  k \in Spent(p)
      BY <2>3 DEF Spent
    <3>1. k # n + 1
      BY <2>3, <2>4
    <3>2. k \in 1..n
      BY <2>3, <3>1
    <3> QED
      BY <2>3, <3>2 DEF Spent
  <2>9. Allowance(p)
    BY DEF Allowances
  <2> HIDE DEF p
  <2>10. /\ IsFiniteSet(Spent(p)) /\ IsFiniteSet(InHand(p))
         /\ Cardinality(Spent(p)) \in Nat /\ Cardinality(InHand(p)) \in Nat
         /\ Cardinality(Callers) \in Nat /\ RecallCeiling \in Int
    BY RecallsFinite, RecallAssumption
  <2>11. /\ Cardinality(Spent(p)') \in Nat /\ Cardinality(InHand(p)') \in Nat
         /\ Cardinality(Spent(p)') + Cardinality(InHand(p)')
               <= Cardinality(Spent(p)) + Cardinality(InHand(p))
    <3>1. CASE p = AskedBy[c]
      <4>1. OneMore(Spent(p), Spent(p)')
        BY <2>6 DEF OneMore
      <4>2. OneFewer(InHand(p), InHand(p)')
        BY <2>5, <2>7, <3>1 DEF OneFewer
      <4> QED
        BY <2>10, <4>1, <4>2, OneMovesOver
    <3>2. CASE p # AskedBy[c]
      <4>1. Spent(p)' \subseteq Spent(p) /\ InHand(p)' \subseteq InHand(p)
        BY <2>5, <2>8, <3>2
      <4> QED
        BY <2>10, <4>1, NeitherGrows
    <3> QED
      BY <3>1, <3>2
  <2>12. Allowance(p)'
    BY <2>9, <2>10, <2>11 DEF Allowance
  <2> QED
    BY <2>12 DEF p
<1> QED
  BY <1>4, <1>5

LEMMA AllowancesInit ==
  ASSUME RecallCeiling > 0
  PROVE  Init => Allowances
<1> SUFFICES ASSUME Init, NEW c \in Callers PROVE Allowance(AskedBy[c])
  BY DEF Allowances
<1>1. Spent(AskedBy[c]) = {} /\ InHand(AskedBy[c]) = {}
  <2>1. \A d \in Callers : caller[d].pc = "idle"
    BY DEF Init, NoRecall
  <2> QED
    BY <2>1 DEF Init, Spent, InHand, LetThrough
<1>2. Cardinality({}) = 0 /\ Cardinality(Callers) \in Nat /\ RecallCeiling \in Int
  BY FS_EmptySet, FS_CardinalityType, RecallAssumption
<1> QED
  BY <1>1, <1>2 DEF Allowance

LEMMA AllowancesNext ==
  ASSUME RecallCeiling > 0, HInv, Metered, Allowances, [Next]_vars
  PROVE  Allowances'
<1>1. clock \in Nat /\ clock' \in Nat /\ clock <= clock'
  BY ClockForward
<1>2. CASE UNCHANGED recallVars
  <2>1. \A c \in Callers : caller'[c].pc \in LetThrough => caller[c].pc \in LetThrough
    BY <1>2 DEF recallVars
  <2> QED
    BY <1>1, <1>2, <2>1, NobodyLetThrough DEF recallVars
<1>3. ASSUME NEW c \in Callers, NEW x, CallerBecomes(c, x), UNCHANGED metered,
             x.pc \in LetThrough => caller[c].pc \in LetThrough
      PROVE  Allowances'
  <2>1. \A d \in Callers : caller'[d].pc \in LetThrough => caller[d].pc \in LetThrough
    BY <1>3, CallerMoved
  <2> QED
    BY <1>1, <1>3, <2>1, NobodyLetThrough
<1>4. ASSUME NEW c \in Callers, BeginRecall(c) PROVE Allowances'
  <2> DEFINE y(now, ask) == [NoRecall EXCEPT !.pc = "rate", !.now = now,
                                             !.want = Defaulted(Asked(ask))]
  <2>1. PICK now \in Instants, ask \in Asks : CallerBecomes(c, y(now, ask))
    BY <1>4 DEF BeginRecall
  <2> DEFINE x == y(now, ask)
  <2>2. x.pc = "rate"
    BY DEF NoRecall
  <2>3. CallerBecomes(c, x) /\ UNCHANGED metered
    BY <1>4, <2>1 DEF BeginRecall
  <2> HIDE DEF x
  <2> QED
    BY <1>3, <2>2, <2>3 DEF LetThrough
<1>5. ASSUME NEW c \in Callers, CheckRate(c) PROVE Allowances'
  <2>1. UNCHANGED clock
    BY <1>5 DEF CheckRate, seedVars
  <2> QED
    BY <1>1, <1>5, <2>1, CheckRateAllows
<1>6. ASSUME NEW c \in Callers, RecordRecall(c) PROVE Allowances'
  <2>1. UNCHANGED clock
    BY <1>6 DEF RecordRecall, seedVars
  <2> QED
    BY <1>1, <1>6, <2>1, RecordAllows
<1>7. ASSUME NEW c \in Callers, SearchDense(c) \/ SearchLexical(c) \/ LoadAndAssemble(c)
      PROVE  Allowances'
  <2>1. caller[c].pc \in LetThrough /\ UNCHANGED metered
    BY <1>7 DEF SearchDense, SearchLexical, LoadAndAssemble, CallerAt, LetThrough
  <2>2. \E x : CallerBecomes(c, x)
    BY <1>7 DEF SearchDense, SearchLexical, LoadAndAssemble
  <2> QED
    BY <1>3, <2>1, <2>2
<1> QED
  BY <1>2, <1>4, <1>5, <1>6, <1>7 DEF Next, RecallStep, vars

-----------------------------------------------------------------------------
(* What the searches found *)

\* A row stays where it is, keeps whom it is granted to, and does not become
\* believed again, nor its evidence.
Lasting ==
    \A i \in DOMAIN rows :
        /\ i \in DOMAIN rows' /\ rows'[i].grant = rows[i].grant
        /\ i \in LiveClaims' => i \in LiveClaims
        /\ i \in LiveEvidence' => i \in LiveEvidence

\* The table is written by a run, or one claim is closed.
LEMMA TableMoves ==
  ASSUME HInv, [Next]_vars
  PROVE  \/ UNCHANGED rows
         \/ \E i, now \in Nat, reason \in CloseReasons \cup {"stale_anchor"} :
               ExpireClaim(i, reason, now)
         \/ \E s \in Seeders : \E x : Writes(s, x)
<1>1. rows \in Seq(RowType) /\ clock \in Nat
  BY DEF HInv, Typed, Stamped
<1>2. CASE SeedNext
  <2>1. PICK s \in Seeders : \E x : RunStep(s, x)
    BY <1>2, RunSteps DEF HInv, Typed
  <2>2. PICK x : RunStep(s, x)
    BY <2>1
  <2> QED
    BY <2>2 DEF RunStep, Fresh, TakesSnapshot, Reads, Flushes
<1>3. CASE ReanchorNext
  <2>1. PICK r \in Reanchorers :
          LoadAnchored(r) \/ StampPass(r) \/ CheckAnchor(r) \/ ExpireStale(r) \/ FinishPass(r)
    BY <1>3 DEF ReanchorNext
  <2>2. CASE ExpireStale(r) /\ ~UNCHANGED rows
    <3>1. PICK i : i \in LiveClaims /\ ExpireClaim(i, "stale_anchor", reanchorer[r].now)
      BY <2>2 DEF ExpireStale, SupersedeReasonStaleAnchor
    <3>2. i \in Nat /\ reanchorer[r].now \in Nat
      BY <1>1, <3>1, RowTypes DEF LiveClaims, HInv, Typed, PassesTyped
    <3> QED
      BY <3>1, <3>2
  <2>3. CASE ~ExpireStale(r)
    BY <2>1, <2>3 DEF LoadAnchored, StampPass, CheckAnchor, FinishPass
  <2> QED
    BY <2>2, <2>3
<1>4. CASE \E i \in DOMAIN rows : CloseClaim(i)
  <2>1. PICK i \in DOMAIN rows : CloseClaim(i)
    BY <1>4
  <2>2. PICK now \in Instants, reason \in CloseReasons : ExpireClaim(i, reason, now)
    BY <2>1 DEF CloseClaim
  <2>3. i \in Nat /\ now \in Nat
    BY <1>1, <2>1, RowTypes, ClockReads
  <2> QED
    BY <2>2, <2>3
<1>5. CASE (\E p \in Paths : EditFile(p)) \/ Settled \/ RecallStep \/ UNCHANGED vars
  BY <1>5 DEF EditFile, Settled, seedVars, vars, RecallStep, BeginRecall, CheckRate, SearchDense,
     SearchLexical, LoadAndAssemble, RecordRecall
<1> QED
  BY <1>2, <1>3, <1>4, <1>5 DEF Next, SeedStep, WorldNext

LEMMA RowsLast ==
  ASSUME HInv, [Next]_vars
  PROVE  Lasting
<1>1. rows \in Seq(RowType) /\ DOMAIN rows = 1..Len(rows) /\ Len(rows) \in Nat /\ NULL \notin Nat
  BY LenProperties, SeedAssumption DEF HInv, Typed
<1>2. CASE UNCHANGED rows
  BY <1>2 DEF Lasting, LiveClaims, LiveEvidence
<1>3. CASE \E i, now \in Nat, reason \in CloseReasons \cup {"stale_anchor"} :
             ExpireClaim(i, reason, now)
  <2>1. PICK i, now \in Nat, reason \in CloseReasons \cup {"stale_anchor"} :
          ExpireClaim(i, reason, now)
    BY <1>3
  <2> DEFINE closed == [[rows[i] EXCEPT !.claimUntil = now] EXCEPT !.reason = reason]
  <2>2. i \in DOMAIN rows /\ rows' = [rows EXCEPT ![i] = closed]
    BY <2>1 DEF ExpireClaim, LiveClaims
  <2>3. closed.grant = rows[i].grant /\ closed.evidenceUntil = rows[i].evidenceUntil
    OBVIOUS
  <2> HIDE DEF closed
  <2>4. i \in LiveClaims
    BY <2>1 DEF ExpireClaim
  <2>5. \A k \in DOMAIN rows : k # i => rows'[k] = rows[k]
    BY <2>2
  <2>6. rows'[i] = closed /\ DOMAIN rows' = DOMAIN rows
    BY <2>2
  <2> QED
    BY <2>3, <2>4, <2>5, <2>6 DEF Lasting, LiveClaims, LiveEvidence
<1>4. CASE \E s \in Seeders : \E x : Writes(s, x)
  <2>1. PICK s \in Seeders : \E x : Writes(s, x)
    BY <1>4
  <2>2. PICK old \in {0} \cup seeder[s].live : Puts(s, old)
    BY <2>1 DEF Writes
  <2>3. PICK run : run = seeder[s] /\ RunTyped(run)
    BY DEF HInv, Typed
  <2>4. old = 0 \/ old \in DOMAIN rows
    BY <2>2, <2>3 DEF RunTyped
  <2>5. PICK item, now, grant :
          \/ old = 0 /\ InsertSeed(item, now, grant)
          \/ old \in DOMAIN rows /\ ReplaceSeed(old, item, now, grant) /\ now \in Nat
    BY <2>2, <2>3, <2>4, <1>1 DEF Puts, RunTyped
  <2> DEFINE closed == Replaced(rows[old], Len(rows) + 1, now)
             table == IF old = 0 THEN rows ELSE [rows EXCEPT ![old] = closed]
             row == Row(item, now, grant)
  <2>6. rows' = Append(table, row)
    BY <1>1, <2>5 DEF InsertSeed, ReplaceSeed
  <2>7. \A k \in 1..Len(rows) : table[k] = IF k = old THEN closed ELSE rows[k]
    BY <1>1
  <2>8. old \in DOMAIN rows => now \in Nat
    BY <1>1, <2>5
  <2>9. old \in DOMAIN rows => /\ closed.grant = rows[old].grant
                               /\ closed.claimUntil # NULL /\ closed.evidenceUntil # NULL
    <3>1. ASSUME old \in DOMAIN rows
          PROVE  /\ closed.grant = rows[old].grant
                 /\ closed.claimUntil # NULL /\ closed.evidenceUntil # NULL
      <4>1. PICK r \in RowType : r = rows[old]
        BY <1>1, <3>1, RowTypes
      <4> QED
        BY <1>1, <2>8, <3>1, <4>1 DEF Replaced, RowType
    <3> QED
      BY <3>1
  <2> HIDE DEF closed
  <2>10. \E S : table \in Seq(S) /\ Len(table) = Len(rows)
    <3> DEFINE S == RowType \cup {closed}
    <3>1. rows \in Seq(S) /\ closed \in S
      BY <1>1, SeqDef
    <3> HIDE DEF S
    <3>2. CASE old = 0
      BY <3>1, <3>2
    <3>3. CASE old \in DOMAIN rows
      <4>1. /\ [rows EXCEPT ![old] = closed] \in Seq(S)
            /\ Len([rows EXCEPT ![old] = closed]) = Len(rows)
        BY <1>1, <3>1, <3>3, ExceptSeq
      <4>2. old # 0
        BY <1>1, <3>3
      <4> QED
        BY <4>1, <4>2
    <3> QED
      BY <2>4, <3>2, <3>3
  <2> HIDE DEF row, table
  <2>11. PICK S : table \in Seq(S) /\ Len(table) = Len(rows)
    BY <2>10
  <2>12. /\ DOMAIN rows' = 1..(Len(rows) + 1)
         /\ \A k \in 1..Len(rows) : rows'[k] = table[k]
    BY <2>6, <2>11, Grown
  <2>13. ASSUME NEW k \in DOMAIN rows
         PROVE  /\ k \in DOMAIN rows' /\ rows'[k].grant = rows[k].grant
                /\ rows[k].claimUntil # NULL => rows'[k].claimUntil # NULL
                /\ rows[k].evidenceUntil # NULL => rows'[k].evidenceUntil # NULL
    <3>1. k \in DOMAIN rows' /\ rows'[k] = IF k = old THEN closed ELSE rows[k]
      BY <1>1, <2>7, <2>12
    <3> QED
      BY <2>9, <3>1
  <2> QED
    BY <2>13 DEF Lasting, LiveClaims, LiveEvidence
<1> QED
  BY <1>2, <1>3, <1>4, TableMoves

\* What an arm answers is found, and is all that is found unless it is cut.
LEMMA AnswersFind ==
  ASSUME NEW found, found \subseteq Int, IsFiniteSet(found), NEW depth \in Nat, NEW arm,
         NEW hits \in Answers(arm, found, depth)
  PROVE  /\ hits \in Seq(Int) /\ ToSet(hits) \subseteq found
         /\ Len(hits) < depth => found \subseteq ToSet(hits)
<1> DEFINE n == Cardinality(found)
           m(h) == Min({depth, Len(h)})
<1>1. PICK h \in SetToSeqs(found) : hits = SubSeq(h, 1, m(h))
  BY DEF Answers
<1>2. n \in Nat
  BY FS_CardinalityType
<1>3. /\ h \in [1..n -> found]
      /\ \A i, j \in 1..n : i # j => h[i] # h[j]
  BY <1>1 DEF SetToSeqs
<1>4. h \in Seq(found) /\ Len(h) = n
  BY <1>2, <1>3, LenProperties, SeqDef
<1>5. m(h) = IF depth < n THEN depth ELSE n
  <2>1. ASSUME NEW a \in Int, NEW b \in Int, a <= b PROVE Min({a, b}) = a /\ Min({b, a}) = a
    <3>1. \A x \in {a, b} : (\A y \in {a, b} : x <= y) <=> x = a
      BY <2>1
    <3> QED
      BY <3>1 DEF Min
  <2> QED
    BY <1>2, <1>4, <2>1
<1>6. PICK k \in 0..n : k = m(h) /\ (k < depth => k = n)
  BY <1>2, <1>5
<1>7. hits = [i \in 1..k |-> h[i]]
  BY <1>1, <1>2, <1>4, <1>6
<1> HIDE DEF m, n
<1>8. hits \in [1..k -> found] /\ k \in Nat /\ \A i \in 1..k : hits[i] = h[i]
  BY <1>2, <1>3, <1>7
<1>9. hits \in Seq(Int) /\ Len(hits) = k
  <2>1. hits \in [1..k -> Int]
    BY <1>8
  <2> QED
    BY <1>8, <2>1, SeqDef, LenProperties
<1>10. ToSet(hits) \subseteq found
  BY <1>8 DEF ToSet
<1>11. ASSUME k = n PROVE found \subseteq ToSet(hits)
  <2>1. h \in Injection(1..n, found)
    BY <1>3 DEF Injection, IsInjective
  <2>2. IsFiniteSet(1..n) /\ Cardinality(1..n) = n
    BY <1>2, FirstNumbers
  <2>3. h \in Surjection(1..n, found)
    BY <2>1, <2>2, FS_Injection DEF n
  <2>4. \A x \in found : \E i \in 1..n : h[i] = x
    BY <2>3 DEF Surjection
  <2> QED
    BY <1>8, <1>11, <2>4 DEF ToSet
<1> QED
  BY <1>6, <1>9, <1>10, <1>11

\* A claim that is loaded is readable by whom its row is granted to.
LEMMA GrantedReads ==
  ASSUME NEW row, NEW i, row.acl = LoadClaimACLs(i),
         row.evidence = [n \in DOMAIN LoadEvidence(i) |-> LoadEvidenceACLs(LoadEvidence(i)[n])],
         NEW now
  PROVE  CanRead(row, rows[i].grant, now)
<1> DEFINE p == rows[i].grant
           acl == {[principal |-> p, expiresAt |-> 0]}
<1>1. row.acl = acl /\ row.evidence = <<acl>>
  <2>1. DOMAIN LoadEvidence(i) = {1} /\ LoadEvidence(i)[1] = i
    BY DEF LoadEvidence
  <2>2. row.evidence = [n \in {1} |-> acl]
    BY <2>1 DEF LoadEvidenceACLs
  <2> QED
    BY <2>2 DEF LoadClaimACLs
<1>2. p \in Active(acl, now)
  <2> DEFINE g == [principal |-> p, expiresAt |-> 0]
  <2>1. g \in acl /\ g.expiresAt = 0 /\ g.principal = p
    OBVIOUS
  <2> HIDE DEF g, acl, p
  <2> QED
    BY <2>1 DEF Active
<1> DEFINE sets == <<acl>> \o <<acl>>
<1>3. sets # <<>> /\ sets[1] = acl /\ \A k \in DOMAIN sets : sets[k] = acl
  <2> HIDE DEF p, acl
  <2>1. <<acl>> \in Seq({acl}) /\ Len(<<acl>>) = 1
    OBVIOUS
  <2>2. sets \in Seq({acl}) /\ Len(sets) = 2
    BY <2>1, ConcatProperties
  <2> HIDE DEF sets
  <2>3. DOMAIN sets = 1..2 /\ \A k \in 1..2 : sets[k] \in {acl}
    BY <2>2, LenProperties, ElementOfSeq
  <2>4. sets # <<>>
    <3>1. sets = <<>> <=> Len(sets) = 0
      BY <2>2, EmptySeq
    <3> QED
      BY <2>2, <3>1
  <2>5. \A k \in 1..2 : sets[k] = acl
    BY <2>3
  <2>6. 1 \in 1..2
    OBVIOUS
  <2> QED
    BY <2>3, <2>4, <2>5, <2>6
<1> HIDE DEF sets, p, acl
<1>4. p \in Intersect(sets, now)
  BY <1>2, <1>3 DEF Intersect
<1>5. row.evidence # <<>> /\ <<row.acl>> \o row.evidence = sets
  <2>1. <<acl>> # <<>>
    OBVIOUS
  <2> QED
    BY <1>1, <2>1 DEF sets
<1> QED
  BY <1>4, <1>5 DEF CanRead, Permitted, p

Telling(ids, p, now) == {row.id : row \in ToSet(Filter(hydrate(ids), p, now))}

\* What may be told is a row, and is all that was found and is granted.
LEMMA Allowed ==
  ASSUME rows \in Seq(RowType), NEW ids \in Seq(Int), ToSet(ids) \subseteq DOMAIN rows,
         NEW p, NEW now,
         NEW allowed, allowed = Telling(ids, p, now)
  PROVE  /\ allowed \subseteq DOMAIN rows
         /\ \A i \in ToSet(ids) : rows[i].grant = p => i \in allowed
<1> DEFINE places == {k \in DOMAIN ids : ids[k] \in DOMAIN rows}
           loaded == LoadClaims(ids)
           h == hydrate(ids)
           readable == {k \in DOMAIN h : CanRead(h[k], p, now)}
<1>1. places \subseteq Int /\ IsFiniteSet(places)
  <2>1. DOMAIN ids = 1..Len(ids) /\ Len(ids) \in Nat
    BY LenProperties
  <2>2. IsFiniteSet(DOMAIN ids)
    BY <2>1, FirstNumbers
  <2> QED
    BY <2>1, <2>2, FS_Subset
<1>2. loaded = Picked(ids, places)
  BY DEF LoadClaims
<1>3. ToSet(loaded) = ToSet(ids)
  <2>1. places = DOMAIN ids
    BY DEF ToSet
  <2>2. ToSet(loaded) = {ids[k] : k \in places}
    BY <1>1, <1>2, PickedElements
  <2> QED
    BY <2>1, <2>2 DEF ToSet
<1>4. IsFiniteSet(DOMAIN loaded) /\ DOMAIN loaded \subseteq Int
  <2>1. PICK at : Leads(at, ids, places)
    BY <1>1, PickedInOrder
  <2>2. DOMAIN loaded = 1..Cardinality(places) /\ Cardinality(places) \in Nat
    BY <1>2, <2>1 DEF Leads
  <2>3. IsFiniteSet(1..Cardinality(places)) /\ 1..Cardinality(places) \subseteq Int
    BY <2>2, FirstNumbers
  <2> HIDE DEF loaded
  <2> QED
    BY <2>2, <2>3
<1>5. /\ DOMAIN h = DOMAIN loaded
      /\ \A k \in DOMAIN h :
            /\ h[k].id = loaded[k] /\ h[k].acl = LoadClaimACLs(loaded[k])
            /\ h[k].evidence = [n \in DOMAIN LoadEvidence(loaded[k]) |->
                                   LoadEvidenceACLs(LoadEvidence(loaded[k])[n])]
  <2> DEFINE Of(i) == [id |-> i, acl |-> LoadClaimACLs(i),
                       evidence |-> [n \in DOMAIN LoadEvidence(i) |->
                                        LoadEvidenceACLs(LoadEvidence(i)[n])]]
  <2>1. h = [k \in DOMAIN loaded |-> Of(loaded[k])]
    BY DEF hydrate
  <2>2. ASSUME NEW i
        PROVE  /\ Of(i).id = i /\ Of(i).acl = LoadClaimACLs(i)
               /\ Of(i).evidence = [n \in DOMAIN LoadEvidence(i) |->
                                       LoadEvidenceACLs(LoadEvidence(i)[n])]
    OBVIOUS
  <2> HIDE DEF h, loaded, Of
  <2> QED
    BY <2>1, <2>2
<1> HIDE DEF places, loaded, h
<1>6. readable \subseteq Int /\ IsFiniteSet(readable)
  BY <1>4, <1>5, FS_Subset
<1>7. ToSet(Filter(h, p, now)) = {h[k] : k \in readable}
  <2>1. Filter(h, p, now) = Picked(h, readable)
    BY DEF Filter
  <2> HIDE DEF readable
  <2> QED
    BY <1>6, <2>1, PickedElements
<1>8. allowed = {h[k].id : k \in readable}
  BY <1>7 DEF h, Telling
<1>9. ASSUME NEW i \in allowed PROVE i \in DOMAIN rows
  <2>1. PICK k \in readable : i = h[k].id
    BY <1>8
  <2>2. i = loaded[k] /\ k \in DOMAIN loaded
    BY <1>5, <2>1
  <2>3. i \in ToSet(loaded)
    BY <2>2 DEF ToSet
  <2> QED
    BY <1>3, <2>3
<1>10. ASSUME NEW i \in ToSet(ids), rows[i].grant = p PROVE i \in allowed
  <2>1. PICK k \in DOMAIN loaded : loaded[k] = i
    BY <1>3 DEF ToSet
  <2>2. k \in DOMAIN h /\ h[k].id = i
    BY <1>5, <2>1
  <2>3. CanRead(h[k], p, now)
    BY <1>5, <1>10, <2>1, <2>2, GrantedReads
  <2> QED
    BY <1>8, <2>2, <2>3
<1> QED
  BY <1>9, <1>10

Ranked(dense, lexical) == FuseRRF([dense |-> dense, lexical |-> lexical])
Costs == [i \in DOMAIN rows |-> TokensOf[rows[i].chunk]]

\* The package holds what was found, and all that was found and is granted
\* unless it says that something was left out.
LEMMA Packaged ==
  ASSUME rows \in Seq(RowType), NEW dense \in Seq(Int), NEW lexical \in Seq(Int),
         ToSet(dense) \cup ToSet(lexical) \subseteq DOMAIN rows,
         NEW limit \in Nat, NEW budget \in Nat, NEW p, NEW now,
         NEW fused, fused = Ranked(dense, lexical),
         NEW allowed, allowed = Telling(fused, p, now),
         NEW pkg, pkg = Assemble(fused, allowed, Costs, limit, budget)
  PROVE  /\ ToSet(pkg.claims) \subseteq ToSet(dense) \cup ToSet(lexical)
         /\ \A i \in ToSet(dense) \cup ToSet(lexical) :
               rows[i].grant = p => i \in ToSet(pkg.claims) \/ pkg.omitted > 0
<1> DEFINE arms == [dense |-> dense, lexical |-> lexical]
           n == Len(fused)
           left == LeftOf(fused, n, pkg, allowed)
<1>1. /\ fused \in Seq(Int)
      /\ ToSet(fused) = ToSet(dense) \cup ToSet(lexical)
      /\ \A j, k \in DOMAIN fused : j < k => fused[j] # fused[k]
  <2>1. arms["dense"] = dense /\ arms["lexical"] = lexical
    OBVIOUS
  <2>2. \A a \in Arms : arms[a] \in Seq(Int)
    BY <2>1 DEF Arms
  <2>3. fused = FuseRRF(arms)
    BY DEF Ranked
  <2> HIDE DEF arms
  <2> QED
    BY <2>1, <2>2, <2>3, FusedSorted
<1>2. /\ allowed \subseteq DOMAIN rows
      /\ \A i \in ToSet(fused) : rows[i].grant = p => i \in allowed
  BY <1>1, Allowed
<1>3. Costs \in [DOMAIN rows -> Nat]
  <2>1. \A i \in DOMAIN rows : rows[i].chunk \in Chunks
    BY RowTypes DEF RowType
  <2> QED
    BY <2>1, RecallAssumption DEF Costs
<1> HIDE DEF n, left
<1>4. Assembling(fused, allowed, Costs, limit, budget)
  BY <1>1, <1>2, <1>3 DEF Assembling
<1>5. Accounted(pkg, n, fused, allowed, Costs, limit, budget)
  BY <1>4, AssembleAccounts DEF n
<1>6. Seen(fused, n) = ToSet(fused)
  <2>1. DOMAIN fused = 1..n
    BY <1>1, LenProperties DEF n
  <2> QED
    BY <2>1 DEF Seen, ToSet
<1>7. ToSet(pkg.claims) \subseteq ToSet(fused)
  BY <1>5, <1>6 DEF Accounted
<1>8. ASSUME NEW i \in ToSet(fused), rows[i].grant = p, i \notin ToSet(pkg.claims)
      PROVE  pkg.omitted > 0
  <2>1. i \in left
    BY <1>1, <1>2, <1>6, <1>8 DEF LeftOf, left
  <2>2. IsFiniteSet(left) /\ pkg.omitted = Cardinality(left)
    BY <1>5 DEF Accounted, left
  <2>3. Cardinality(left) \in Nat /\ Cardinality(left) # 0
    BY <2>1, <2>2, FS_EmptySet, FS_CardinalityType
  <2> QED
    BY <2>2, <2>3
<1> QED
  BY <1>1, <1>7, <1>8

-----------------------------------------------------------------------------
(* What a recall holds *)

Wants == [limit : Nat, depth : Nat, budget : Nat]

Hits(x) == ToSet(x.dense) \cup ToSet(x.lexical)

BeforeSearch == {"idle", "rate", "dense"}
AfterLexical == {"load", "record"}

\* What it found and tells was believed when it began to search, and what holds
\* the words, was believed then and still is, the lexical arm found unless it
\* was cut.
Holds(x) ==
    /\ x.dense \in Seq(Int) /\ x.lexical \in Seq(Int) /\ Hits(x) \subseteq DOMAIN rows
    /\ x.closed \subseteq DOMAIN rows \ LiveClaims
    /\ (Hits(x) \cup ToSet(x.pkg.claims)) \cap x.closed = {}
    /\ x.pc \in BeforeSearch => x.closed = {} /\ Hits(x) = {} /\ x.pkg = Empty
    /\ x.pc # "idle" => x.want \in Wants
    /\ x.pc \in AfterLexical => Due(x) \subseteq Hits(x)

\* What was found and is granted is told, or something is said to be left out.
Told(x, p) ==
    x.pc = "record" =>
        \A i \in Hits(x) :
            rows[i].grant = p => i \in ToSet(x.pkg.claims) \/ x.pkg.omitted > 0

Searches == \A c \in Callers : Holds(caller[c]) /\ Told(caller[c], AskedBy[c])

\* Others may write and close: it still holds.
LEMMA StillHolds ==
  ASSUME HInv, Kept, Lasting, NEW x, CallerTyped(x), Holds(x), NEW p, Told(x, p)
  PROVE  Holds(x)' /\ Told(x, p)'
<1>1. DOMAIN rows = 1..Len(rows) /\ Len(rows) \in Nat
  BY LenProperties DEF HInv, Typed
<1>2. DOMAIN rows \subseteq DOMAIN rows' /\ \A i \in DOMAIN rows : i \in LiveClaims' => i \in LiveClaims
  BY DEF Lasting
<1>3. \A i \in Hits(x) : i \in DOMAIN rows /\ rows'[i].grant = rows[i].grant
  BY DEF Holds, Lasting
<1>4. Due(x)' \subseteq Due(x)
  <2> SUFFICES ASSUME NEW i \in LiveChunks', i <= x.born, rows'[i].chunk \in Mentions
               PROVE  i \in LiveChunks /\ rows[i].chunk \in Mentions
    BY DEF Due
  <2>1. i \in DOMAIN rows
    <3>1. i \in DOMAIN rows' /\ rows' \in Seq(RowType)
      BY DEF LiveChunks, LiveClaims, Kept
    <3>2. i \in Nat /\ i >= 1
      BY <3>1, LenProperties
    <3> QED
      BY <1>1, <3>2 DEF CallerTyped
  <2>2. rows'[i].chunk = rows[i].chunk
    BY <2>1 DEF Kept
  <2> QED
    BY <2>1, <2>2 DEF Lasting, LiveChunks
<1>5. x.closed \subseteq DOMAIN rows' \ LiveClaims'
  BY <1>2 DEF Holds
<1>6. Hits(x) \subseteq DOMAIN rows'
  BY <1>2 DEF Holds
<1>7. Holds(x)'
  BY <1>4, <1>5, <1>6 DEF Holds, Hits
<1>8. Told(x, p)'
  BY <1>3 DEF Told
<1> QED
  BY <1>7, <1>8

LEMMA NothingHeld == Hits(NoRecall) = {} /\ Holds(NoRecall) /\ \A p : Told(NoRecall, p)
<1>1. /\ NoRecall.dense = <<>> /\ NoRecall.lexical = <<>> /\ NoRecall.pkg = Empty
      /\ NoRecall.closed = {} /\ NoRecall.pc = "idle"
  BY DEF NoRecall
<1>2. <<>> \in Seq(Int) /\ ToSet(<<>>) = {} /\ Empty.claims = <<>>
  BY DEF ToSet, Empty
<1>3. Hits(NoRecall) = {} /\ ToSet(NoRecall.pkg.claims) = {}
  BY <1>1, <1>2 DEF Hits
<1> QED
  BY <1>1, <1>2, <1>3 DEF Holds, Told, BeforeSearch, AfterLexical

\* Whatever is asked, the service works with natural numbers.
LEMMA Wanted ==
  ASSUME NEW ask \in Asks
  PROVE  Defaulted(Asked(ask)) \in Wants
<1>1. /\ ask.front \in {"cli", "mcp", "console"}
      /\ ask.limit \in Int /\ ask.depth \in Int /\ ask.budget \in Int
      /\ ToolLimit \in Nat /\ maxLimit \in Nat /\ DefaultLimit \in Nat
      /\ DefaultCandidateDepth \in Nat /\ DefaultTokenBudget \in Nat
  BY RecallAssumption
<1>2. ASSUME NEW g \in Int, NEW d \in Nat PROVE OrElse(g, d) \in Nat /\ OrElse(g, d) \in Int
  BY DEF OrElse
<1>3. /\ OrElse(ask.limit, ToolLimit) \in Int
      /\ OrElse(ask.depth, DefaultCandidateDepth) \in Int
      /\ OrElse(ask.budget, DefaultTokenBudget) \in Int
  BY <1>1 DEF OrElse
<1>4. ASSUME NEW a \in Int, NEW b \in Int PROVE Min({a, b}) \in Int
  <2>1. \E x \in {a, b} : \A y \in {a, b} : x <= y
    <3>1. CASE a <= b
      BY <3>1
    <3>2. CASE b <= a
      BY <3>2
    <3> QED
      BY <3>1, <3>2
  <2>2. Min({a, b}) \in {a, b}
    BY <2>1 DEF Min
  <2> QED
    BY <2>2
<1> DEFINE w == Asked(ask)
<1>5. /\ ask.front = "cli" => w = FromCLI(ask)
      /\ ask.front = "mcp" => w = FromMCP(ask)
      /\ ask.front = "console" => w = FromConsole(ask)
  <2>1. \A a, b, d : LET f == [cli |-> a, mcp |-> b, console |-> d]
                     IN  f["cli"] = a /\ f["mcp"] = b /\ f["console"] = d
    OBVIOUS
  <2> QED
    BY <2>1 DEF Asked
<1>6. w.limit \in Int /\ w.depth \in Int /\ w.budget \in Int
  <2>1. CASE ask.front = "cli"
    BY <1>1, <1>5, <2>1 DEF FromCLI
  <2>2. CASE ask.front = "mcp"
    BY <1>3, <1>5, <2>2 DEF FromMCP
  <2>3. CASE ask.front = "console"
    <3>1. Min({OrElse(ask.limit, ToolLimit), maxLimit}) \in Int
      BY <1>1, <1>3, <1>4
    <3> HIDE DEF w
    <3> QED
      BY <1>3, <1>5, <2>3, <3>1 DEF FromConsole
  <2> QED
    BY <1>1, <2>1, <2>2, <2>3
<1> HIDE DEF w
<1>7. Defaulted(w) \in Wants
  BY <1>1, <1>2, <1>6 DEF Defaulted, Wants
<1> QED
  BY <1>7 DEF w

\* A caller goes on, with something that holds.
Continues(c) == \E x : CallerBecomes(c, x) /\ Holds(x) /\ Told(x, AskedBy[c])

LEMMA BeginHolds ==
  ASSUME HInv, NEW c \in Callers, BeginRecall(c)
  PROVE  Continues(c)
<1> DEFINE y(now, ask) == [NoRecall EXCEPT !.pc = "rate", !.now = now,
                                           !.want = Defaulted(Asked(ask))]
<1>1. PICK now \in Instants, ask \in Asks : CallerBecomes(c, y(now, ask))
  BY DEF BeginRecall
<1>2. Defaulted(Asked(ask)) \in Wants
  BY Wanted
<1> DEFINE x == y(now, ask)
<1>3. /\ x.pc = "rate" /\ x.want = Defaulted(Asked(ask)) /\ x.dense = NoRecall.dense
      /\ x.lexical = NoRecall.lexical /\ x.closed = NoRecall.closed /\ x.pkg = NoRecall.pkg
      /\ NoRecall.pc = "idle"
  BY DEF NoRecall
<1>4. CallerBecomes(c, x)
  BY <1>1
<1> HIDE DEF x
<1>5. Holds(x) /\ Told(x, AskedBy[c])
  BY <1>2, <1>3, NothingHeld DEF Holds, Told, Hits, BeforeSearch, AfterLexical
<1> QED
  BY <1>4, <1>5 DEF Continues

LEMMA RateHolds ==
  ASSUME NEW c \in Callers, CheckRate(c), NEW held, held = caller[c], CallerTyped(held), Holds(held)
  PROVE  Continues(c)
<1>1. CASE CallerBecomes(c, NoRecall)
  BY <1>1, NothingHeld DEF Continues
<1>2. CASE ~CallerBecomes(c, NoRecall)
  <2> DEFINE limit == L!PackageCap(held.want.limit, MaxPackageClaims)
             x == [held EXCEPT !.pc = "dense", !.want.limit = limit]
  <2>1. CallerBecomes(c, x) /\ held.pc = "rate"
    BY <1>2 DEF CheckRate, CallerAt
  <2>2. held.want \in Wants /\ MaxPackageClaims \in Int
    BY <2>1, RecallAssumption DEF Holds
  <2>3. held.want.limit \in Nat
    BY <2>2 DEF Wants
  <2>4. limit \in Nat
    BY <2>2, <2>3 DEF L!PackageCap
  <2> HIDE DEF limit
  <2>5. [held.want EXCEPT !.limit = limit] \in Wants
    BY <2>2, <2>4 DEF Wants
  <2>6. /\ x.pc = "dense" /\ x.dense = held.dense /\ x.lexical = held.lexical
        /\ x.closed = held.closed /\ x.pkg = held.pkg
        /\ x.want = [held.want EXCEPT !.limit = limit]
    BY DEF CallerTyped, CallerFields
  <2> HIDE DEF x
  <2>7. Holds(x) /\ Told(x, AskedBy[c])
    BY <2>1, <2>5, <2>6 DEF Holds, Told, Hits, BeforeSearch, AfterLexical
  <2> QED
    BY <2>1, <2>7 DEF Continues
<1> QED
  BY <1>1, <1>2

\* Rows are finitely many numbers.
LEMMA RowsCounted ==
  ASSUME HInv, NEW found, found \subseteq DOMAIN rows
  PROVE  /\ DOMAIN rows = 1..Len(rows) /\ Len(rows) \in Nat
         /\ found \subseteq Int /\ IsFiniteSet(found)
<1>1. DOMAIN rows = 1..Len(rows) /\ Len(rows) \in Nat
  BY LenProperties DEF HInv, Typed
<1>2. IsFiniteSet(1..Len(rows)) /\ 1..Len(rows) \subseteq Int
  BY <1>1, FirstNumbers
<1> QED
  BY <1>1, <1>2, FS_Subset

LEMMA DenseHolds ==
  ASSUME HInv, NEW c \in Callers, SearchDense(c),
         NEW held, held = caller[c], CallerTyped(held), Holds(held)
  PROVE  Continues(c)
<1> DEFINE y(hits) == [held EXCEPT !.pc = "lexical", !.dense = hits, !.born = Len(rows),
                                   !.closed = DOMAIN rows \ LiveClaims]
<1>1. held.pc = "dense" /\ held.want \in Wants
  BY DEF SearchDense, CallerAt, Holds
<1>2. PICK found, hits : /\ found \subseteq LiveClaims
                         /\ hits \in Answers("dense", found, held.want.depth)
                         /\ CallerBecomes(c, y(hits))
  <2>1. PICK offered \in Offered :
          \E hits \in Answers("dense", offered \cap LiveClaims, held.want.depth) :
              CallerBecomes(c, y(hits))
    BY DEF SearchDense, DenseSearch
  <2>2. PICK hits \in Answers("dense", offered \cap LiveClaims, held.want.depth) :
          CallerBecomes(c, y(hits))
    BY <2>1
  <2>3. offered \cap LiveClaims \subseteq LiveClaims
    OBVIOUS
  <2> HIDE DEF y
  <2> QED
    BY <2>2, <2>3
<1>3. /\ DOMAIN rows = 1..Len(rows) /\ Len(rows) \in Nat
      /\ found \subseteq Int /\ IsFiniteSet(found) /\ LiveClaims \subseteq DOMAIN rows
  BY <1>2, RowsCounted DEF LiveClaims
<1>4. held.want.depth \in Nat
  BY <1>1 DEF Wants
<1>5. hits \in Seq(Int) /\ ToSet(hits) \subseteq LiveClaims
  BY <1>2, <1>3, <1>4, AnswersFind
<1> DEFINE x == y(hits)
<1>6. /\ x.pc = "lexical" /\ x.dense = hits /\ x.lexical = held.lexical /\ x.want = held.want
      /\ x.pkg = held.pkg /\ x.closed = DOMAIN rows \ LiveClaims
  BY DEF CallerTyped, CallerFields
<1>7. CallerBecomes(c, x)
  BY <1>2
<1> HIDE DEF x
<1>8. ToSet(held.lexical) = {} /\ ToSet(held.pkg.claims) = {} /\ held.lexical \in Seq(Int)
  <2>1. Hits(held) = {} /\ held.pkg = Empty
    BY <1>1 DEF Holds, BeforeSearch
  <2>2. ToSet(Empty.claims) = {}
    BY DEF Empty, ToSet
  <2> QED
    BY <2>1, <2>2 DEF Hits, Holds
<1>9. Hits(x) = ToSet(hits)
  BY <1>6, <1>8 DEF Hits
<1>10. (Hits(x) \cup ToSet(x.pkg.claims)) \cap x.closed = {}
  BY <1>5, <1>6, <1>8, <1>9
<1>11. Hits(x) \subseteq DOMAIN rows
  BY <1>3, <1>5, <1>9
<1>12. x.pc \notin BeforeSearch /\ x.pc \notin AfterLexical /\ x.pc # "record"
  BY <1>6 DEF BeforeSearch, AfterLexical
<1>13. Holds(x) /\ Told(x, AskedBy[c])
  BY <1>1, <1>5, <1>6, <1>8, <1>10, <1>11, <1>12 DEF Holds, Told
<1> QED
  BY <1>7, <1>13 DEF Continues

LEMMA LexicalHolds ==
  ASSUME HInv, NEW c \in Callers, SearchLexical(c),
         NEW held, held = caller[c], CallerTyped(held), Holds(held)
  PROVE  Continues(c)
<1> DEFINE y(hits) == [held EXCEPT !.pc = "load", !.lexical = hits]
           found == {i \in LiveChunks : rows[i].chunk \in Mentions}
<1>1. held.pc = "lexical" /\ held.want \in Wants
  BY DEF SearchLexical, CallerAt, Holds
<1>2. PICK hits \in Answers("lexical", found, held.want.depth) : CallerBecomes(c, y(hits))
  BY DEF SearchLexical, LexicalSearch
<1>3. found \subseteq LiveClaims /\ found \subseteq DOMAIN rows
  BY DEF LiveChunks, LiveClaims
<1> HIDE DEF found
<1>4. found \subseteq Int /\ IsFiniteSet(found)
  BY <1>3, RowsCounted
<1>5. held.want.depth \in Nat
  BY <1>1 DEF Wants
<1>6. /\ hits \in Seq(Int) /\ ToSet(hits) \subseteq found
      /\ Len(hits) < held.want.depth => found \subseteq ToSet(hits)
  BY <1>2, <1>4, <1>5, AnswersFind
<1> DEFINE x == y(hits)
<1>7. /\ x.pc = "load" /\ x.dense = held.dense /\ x.lexical = hits /\ x.want = held.want
      /\ x.pkg = held.pkg /\ x.closed = held.closed /\ x.born = held.born
  BY DEF CallerTyped, CallerFields
<1>8. CallerBecomes(c, x)
  BY <1>2
<1> HIDE DEF x
<1>9. Hits(x) = ToSet(held.dense) \cup ToSet(hits)
  BY <1>7 DEF Hits
<1>10. held.closed \cap ToSet(hits) = {}
  BY <1>3, <1>6 DEF Holds
<1>11. (Hits(x) \cup ToSet(x.pkg.claims)) \cap x.closed = {}
  BY <1>7, <1>9, <1>10 DEF Holds, Hits
<1>12. Hits(x) \subseteq DOMAIN rows
  BY <1>3, <1>6, <1>9 DEF Holds, Hits
<1>13. x.pc \notin BeforeSearch /\ x.pc # "record"
  BY <1>7 DEF BeforeSearch
<1>14. Due(x) \subseteq Hits(x)
  <2>1. Due(x) \subseteq Hits(x) \cup (IF Len(hits) < held.want.depth THEN found ELSE {})
    BY <1>7 DEF Due, Hits, found
  <2> QED
    BY <1>6, <1>9, <2>1
<1>15. Holds(x) /\ Told(x, AskedBy[c])
  BY <1>1, <1>6, <1>7, <1>11, <1>12, <1>13, <1>14 DEF Holds, Told
<1> QED
  BY <1>8, <1>15 DEF Continues

LEMMA AssemblyHolds ==
  ASSUME HInv, NEW c \in Callers, LoadAndAssemble(c),
         NEW held, held = caller[c], CallerTyped(held), Holds(held)
  PROVE  Continues(c)
<1> DEFINE fused == Ranked(held.dense, held.lexical)
           allowed == Telling(fused, AskedBy[c], held.now)
           pkg == Assemble(fused, allowed, Costs, held.want.limit, held.want.budget)
           x == [held EXCEPT !.pc = "record", !.pkg = pkg]
<1>1. held.pc = "load" /\ held.want \in Wants
  BY DEF LoadAndAssemble, CallerAt, Holds
<1>2. CallerBecomes(c, x)
  BY DEF LoadAndAssemble, Telling, Ranked, Costs
<1>3. held.want.limit \in Nat /\ held.want.budget \in Nat
  BY <1>1 DEF Wants
<1>4. rows \in Seq(RowType)
  BY DEF HInv, Typed
<1>5. /\ held.dense \in Seq(Int) /\ held.lexical \in Seq(Int)
      /\ ToSet(held.dense) \cup ToSet(held.lexical) \subseteq DOMAIN rows
  BY DEF Holds, Hits
<1>6. /\ ToSet(pkg.claims) \subseteq ToSet(held.dense) \cup ToSet(held.lexical)
      /\ \A i \in ToSet(held.dense) \cup ToSet(held.lexical) :
            rows[i].grant = AskedBy[c] => i \in ToSet(pkg.claims) \/ pkg.omitted > 0
  <2>1. PICK dense \in Seq(Int), lexical \in Seq(Int), limit \in Nat, budget \in Nat :
          /\ dense = held.dense /\ lexical = held.lexical
          /\ limit = held.want.limit /\ budget = held.want.budget
          /\ ToSet(dense) \cup ToSet(lexical) \subseteq DOMAIN rows
    BY <1>3, <1>5
  <2>2. PICK p : p = AskedBy[c]
    OBVIOUS
  <2>3. PICK f : f = Ranked(dense, lexical)
    OBVIOUS
  <2>4. PICK a : a = Telling(f, p, held.now)
    OBVIOUS
  <2>5. PICK g : g = Assemble(f, a, Costs, limit, budget)
    OBVIOUS
  <2>6. ToSet(dense) \cup ToSet(lexical) \subseteq DOMAIN rows
    BY <2>1
  <2> HIDE DEF fused, allowed, pkg
  <2>7. /\ ToSet(g.claims) \subseteq ToSet(dense) \cup ToSet(lexical)
        /\ \A i \in ToSet(dense) \cup ToSet(lexical) :
              rows[i].grant = p => i \in ToSet(g.claims) \/ g.omitted > 0
    BY <1>4, <2>3, <2>4, <2>5, <2>6, Packaged
  <2>8. g = pkg
    BY <2>1, <2>2, <2>3, <2>4, <2>5 DEF fused, allowed, pkg
  <2> QED
    BY <2>1, <2>2, <2>7, <2>8
<1> HIDE DEF pkg
<1>7. /\ x.pc = "record" /\ x.dense = held.dense /\ x.lexical = held.lexical
      /\ x.want = held.want /\ x.pkg = pkg /\ x.closed = held.closed /\ x.born = held.born
  BY DEF CallerTyped, CallerFields
<1> HIDE DEF x
<1>8. Hits(x) = Hits(held) /\ ToSet(x.pkg.claims) \subseteq Hits(x)
  BY <1>6, <1>7 DEF Hits
<1>9. (Hits(x) \cup ToSet(x.pkg.claims)) \cap x.closed = {}
  BY <1>7, <1>8 DEF Holds
<1>10. x.pc \notin BeforeSearch /\ held.pc \in AfterLexical /\ x.pc \in AfterLexical
  BY <1>1, <1>7 DEF BeforeSearch, AfterLexical
<1>11. Due(x) = Due(held)
  BY <1>7 DEF Due
<1>12. Holds(x)
  BY <1>1, <1>7, <1>8, <1>9, <1>10, <1>11 DEF Holds
<1>13. Told(x, AskedBy[c])
  BY <1>6, <1>7, <1>8 DEF Told, Hits
<1> QED
  BY <1>2, <1>12, <1>13 DEF Continues

LEMMA SearchesInit == Init => Searches
  BY NothingHeld DEF Init, Searches

LEMMA SearchesNext ==
  ASSUME HInv, Metered, Searches, [Next]_vars
  PROVE  Searches'
<1>1. Lasting /\ Kept
  BY RowsLast, HInvNext
<1>2. ASSUME NEW d \in Callers, caller'[d] = caller[d]
      PROVE  Holds(caller[d])' /\ Told(caller[d], AskedBy[d])'
  <2>1. PICK x : x = caller[d]
    OBVIOUS
  <2>2. CallerTyped(x) /\ Holds(x) /\ Told(x, AskedBy[d])
    BY <2>1 DEF Metered, Searches
  <2>3. Holds(x)' /\ Told(x, AskedBy[d])'
    BY <1>1, <2>2, StillHolds
  <2>4. caller'[d] = x
    BY <1>2, <2>1
  <2> QED
    BY <2>3, <2>4 DEF Holds, Told, Hits, Due
<1>3. CASE UNCHANGED recallVars
  BY <1>2, <1>3 DEF Searches, recallVars
<1>4. CASE RecallStep
  <2>1. PICK c \in Callers :
          \/ BeginRecall(c) \/ CheckRate(c) \/ SearchDense(c) \/ SearchLexical(c)
          \/ LoadAndAssemble(c) \/ RecordRecall(c)
    BY <1>4 DEF RecallStep
  <2>2. PICK held : held = caller[c]
    OBVIOUS
  <2>3. CallerTyped(held) /\ Holds(held)
    BY <2>2 DEF Metered, Searches
  <2>4. Continues(c)
    <3>1. CASE RecordRecall(c)
      BY <3>1, NothingHeld DEF RecordRecall, Continues
    <3> QED
      BY <2>1, <2>2, <2>3, <3>1, BeginHolds, RateHolds, DenseHolds, LexicalHolds, AssemblyHolds
  <2>5. PICK x : CallerBecomes(c, x) /\ Holds(x) /\ Told(x, AskedBy[c])
    BY <2>4 DEF Continues
  <2>6. caller'[c] = x /\ \A d \in Callers \ {c} : caller'[d] = caller[d]
    BY <2>5, CallerMoved
  <2>7. UNCHANGED rows
    BY <2>1 DEF BeginRecall, CheckRate, SearchDense, SearchLexical, LoadAndAssemble, RecordRecall,
       seedVars
  <2>8. Holds(caller[c])' /\ Told(caller[c], AskedBy[c])'
    BY <2>5, <2>6, <2>7 DEF Holds, Told, Hits, Due, LiveChunks, LiveClaims, LiveEvidence
  <2> QED
    BY <1>2, <2>6, <2>8 DEF Searches
<1> QED
  BY <1>3, <1>4 DEF Next, vars

LEMMA AlwaysSearches == Spec => [](HInv /\ Metered /\ Searches)
<1>1. Spec => []Metered
  BY MeteredInit, MeteredNext, AlwaysHInv, PTL DEF Spec
<1>2. HInv /\ Metered /\ Searches /\ [Next]_vars => Searches'
  BY SearchesNext
<1> QED
  BY <1>1, <1>2, SearchesInit, AlwaysHInv, PTL DEF Spec

-----------------------------------------------------------------------------
(* The theorems *)

\* The rate is read when a recall begins and the recall recorded when it ends:
\* callers pass the rate together, by no more than the one recall each has in
\* hand (internal/recall/recall.go Service.Recall).  A rate that is
\* not positive disables the control.
THEOREM RecallsOvershootLittle ==
  ASSUME RecallCeiling > 0
  PROVE  Spec => []RateOvershootBounded
<1>1. Metered /\ Allowances => RateOvershootBounded
  <2> SUFFICES ASSUME Metered, Allowances, NEW c \in Callers
               PROVE  RecallsInWindow(AskedBy[c], L!WindowStart(clock, RecallWindow))
                         <= RecallCeiling - 1 + Cardinality(Callers)
    BY DEF RateOvershootBounded
  <2> DEFINE p == AskedBy[c]
  <2>1. RecallsInWindow(p, L!WindowStart(clock, RecallWindow)) = Cardinality(Spent(p))
    BY DEF RecallsInWindow, Spent
  <2>2. Allowance(p)
    BY DEF Allowances
  <2> HIDE DEF p
  <2>3. /\ Cardinality(Spent(p)) \in Nat /\ Cardinality(InHand(p)) \in Nat
        /\ Cardinality(Callers) \in Nat /\ RecallCeiling \in Int
    BY RecallsFinite, RecallAssumption
  <2> QED
    BY <2>1, <2>2, <2>3 DEF Allowance, p
<1>2. Init => Allowances
  BY AllowancesInit
<1>3. HInv /\ Metered /\ Allowances /\ [Next]_vars => Allowances'
  BY AllowancesNext
<1>4. Spec => []Metered
  BY MeteredInit, MeteredNext, AlwaysHInv, PTL DEF Spec
<1> QED
  BY <1>1, <1>2, <1>3, <1>4, AlwaysHInv, PTL DEF Spec

\* What was forgotten, replaced or expired before a search began is not in its
\* answer: both arms ask for claims that are live (internal/store/pg/queries.go
\* DenseSearch, LexicalSearch), nothing that is closed is opened again, and
\* what follows the searches adds no claim.
THEOREM ClosedClaimsStayOut == Spec => []ClosedStaysOut
<1>1. Searches => ClosedStaysOut
  BY DEF Searches, Holds, ClosedStaysOut
<1> QED
  BY <1>1, AlwaysSearches, PTL

\* "A silent truncation is a lie": a claim that its asker may read is in the
\* answer, or the answer says that something was left out, if an arm found it or
\* if it holds the words of the query, is believed from before the search until
\* the answer, and the lexical arm was not cut - whatever else happens meanwhile
\* (internal/recall/recall.go Service.Recall, assemble; internal/acl Filter;
\* internal/store/pg/queries.go LexicalSearch).  What the vector index never
\* offers is not covered: no count knows of it.
THEOREM OmissionsAreTold == Spec => []NothingLostSilently
<1>1. Searches => NothingLostSilently
  <2> SUFFICES ASSUME Searches, NEW c \in Callers, CallerAt(c, "record"),
                      NEW i \in Due(caller[c]), rows[i].grant = AskedBy[c]
               PROVE  i \in ToSet(caller[c].pkg.claims) \/ caller[c].pkg.omitted > 0
    BY DEF NothingLostSilently
  <2>1. caller[c].pc = "record" /\ Holds(caller[c]) /\ Told(caller[c], AskedBy[c])
    BY DEF Searches, CallerAt
  <2>2. i \in Hits(caller[c])
    BY <2>1 DEF Holds, AfterLexical
  <2> QED
    BY <2>1, <2>2 DEF Told
<1> QED
  BY <1>1, AlwaysSearches, PTL
=============================================================================
