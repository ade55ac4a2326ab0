---------------------------- MODULE MemoryProofs ----------------------------
(* Theorems about seeded memory, for any files, chunks, runs and passes,    *)
(* beside any number of recalls, and without the bounds of the runs: that   *)
(* one version of a chunk is believed, what runs read and in which order it *)
(* becomes believed, and how one version takes over from another.           *)
EXTENDS Recall, Counting, SequenceTheorems, TLAPS

-----------------------------------------------------------------------------
(* The inductive invariant *)

RowFields == {"path", "ordinal", "chunk", "readAt", "recordedAt", "grant",
              "evidenceUntil", "claimUntil", "reason", "supersededBy"}

\* Rows are kept in a sequence, and a row is a record.
Tabled ==
    /\ \E S : rows \in Seq(S)
    /\ \A i \in DOMAIN rows : DOMAIN rows[i] = RowFields

RunFields == {"pc", "files", "live", "pending", "batch", "now"}

\* A run closes what it replaces with an instant and not with NULL.
Stamped ==
    /\ clock \in Nat
    /\ DOMAIN seeder = Seeders
    /\ \A s \in Seeders : DOMAIN seeder[s] = RunFields /\ seeder[s].now \in Nat

\* The unique index: live evidence is alone where it stands.  It has to be of
\* evidence and not of claims, for that is what the index looks at.
OneVersion == \A i, j \in LiveEvidence : Key(i) = Key(j) => i = j

\* A claim is closed no later than its evidence.
Grounded == LiveClaims \subseteq LiveEvidence

IInv == Tabled /\ OneVersion /\ Grounded

LEMMA Rests == OneVersion /\ Grounded => LiveClaimIsCurrent
  BY DEF OneVersion, Grounded, LiveClaimIsCurrent

-----------------------------------------------------------------------------
(* What the two ways to write a chunk, and the one to close a claim, do *)

\* A row is added at the end of a table.
LEMMA Grown ==
  ASSUME NEW S, NEW s \in Seq(S), NEW e, NEW t, t = Append(s, e)
  PROVE  /\ Len(s) \in Nat /\ DOMAIN s = 1..Len(s)
         /\ \E T : t \in Seq(T)
         /\ DOMAIN t = 1..(Len(s) + 1)
         /\ \A k \in 1..Len(s) : t[k] = s[k]
         /\ t[Len(s) + 1] = e
<1>1. s \in Seq(S \cup {e})
  BY SeqDef
<1>2. Append(s, e) \in Seq(S \cup {e})
  BY <1>1, AppendProperties
<1> QED
  BY <1>1, <1>2, AppendProperties, LenProperties

LEMMA RowIsOne ==
  ASSUME NEW item, NEW now, NEW grant
  PROVE  LET row == Row(item, now, grant)
         IN  /\ DOMAIN row = RowFields
             /\ row.path = item.path /\ row.ordinal = item.ordinal
             /\ row.evidenceUntil = NULL /\ row.claimUntil = NULL
  BY DEF Row, RowFields

LEMMA Inserting ==
  ASSUME IInv, NEW item, NEW now, NEW grant, InsertSeed(item, now, grant)
  PROVE  IInv'
<1> DEFINE row == Row(item, now, grant)
<1>1. PICK S : rows \in Seq(S)
  BY DEF IInv, Tabled
<1>n. PICK n \in Nat : n = Len(rows)
  BY <1>1, LenProperties
<1>2. /\ DOMAIN row = RowFields /\ row.path = item.path /\ row.ordinal = item.ordinal
      /\ row.evidenceUntil = NULL /\ row.claimUntil = NULL
  BY RowIsOne
<1>3. rows' = Append(rows, row) /\ \A j \in LiveEvidence : Key(j) # KeyOf(item)
  BY DEF InsertSeed, Insertable
<1> HIDE DEF row
<1>4. /\ n \in Nat /\ DOMAIN rows = 1..n /\ DOMAIN rows' = 1..(n + 1)
      /\ \E T : rows' \in Seq(T)
      /\ \A k \in 1..n : rows'[k] = rows[k]
      /\ rows'[n + 1] = row
  BY <1>1, <1>n, <1>3, Grown
<1>5. Tabled'
  BY <1>2, <1>4 DEF IInv, Tabled
<1>6. /\ LiveEvidence' = LiveEvidence \cup {n + 1}
      /\ LiveClaims' = LiveClaims \cup {n + 1}
  BY <1>2, <1>4 DEF LiveEvidence, LiveClaims
<1>7. Key(n + 1)' = KeyOf(item) /\ \A i \in DOMAIN rows : Key(i)' = Key(i)
  BY <1>2, <1>4 DEF Key, KeyOf
<1>8. LiveEvidence \subseteq DOMAIN rows
  BY DEF LiveEvidence
<1>9. OneVersion'
  <2> SUFFICES ASSUME NEW i \in LiveEvidence', NEW j \in LiveEvidence', Key(i)' = Key(j)'
               PROVE  i = j
    BY DEF OneVersion
  <2> QED
    BY <1>3, <1>6, <1>7, <1>8 DEF IInv, OneVersion
<1> QED
  BY <1>5, <1>6, <1>9 DEF IInv, Grounded

LEMMA Replacing ==
  ASSUME IInv, NEW item, NEW now \in Nat, NEW grant, NEW old,
         ReplaceSeed(old, item, now, grant)
  PROVE  IInv'
<1>1. PICK S : rows \in Seq(S)
  BY DEF IInv, Tabled
<1>n. PICK n \in Nat : n = Len(rows)
  BY <1>1, LenProperties
<1> DEFINE row == Row(item, now, grant)
           closed == Replaced(rows[old], n + 1, now)
           table == [rows EXCEPT ![old] = closed]
<1>2. /\ DOMAIN row = RowFields /\ row.path = item.path /\ row.ordinal = item.ordinal
      /\ row.evidenceUntil = NULL /\ row.claimUntil = NULL
  BY RowIsOne
<1>3. rows' = Append(table, row) /\ \A j \in LiveEvidence \ {old} : Key(j) # KeyOf(item)
  BY <1>n DEF ReplaceSeed, Insertable
<1>4. n \in Nat /\ DOMAIN rows = 1..n
  BY <1>1, <1>n, LenProperties
<1>5. table \in Seq(S \cup {closed}) /\ Len(table) = n
  <2>1. rows \in Seq(S \cup {closed})
    BY <1>1, SeqDef
  <2>2. CASE old \in 1..n
    BY <1>n, <2>1, <2>2, ExceptSeq
  <2>3. CASE old \notin 1..n
    <3>1. table = rows
      BY <1>1, <1>4, <2>3, LenProperties
    <3> QED
      BY <1>n, <2>1, <3>1
  <2> QED
    BY <2>2, <2>3
<1>6. ASSUME old \in 1..n
      PROVE  /\ DOMAIN closed = RowFields /\ closed.path = rows[old].path
             /\ closed.ordinal = rows[old].ordinal
             /\ closed.evidenceUntil # NULL /\ closed.claimUntil # NULL
  <2>1. DOMAIN rows[old] = RowFields /\ NULL \notin Nat
    BY <1>4, <1>6, SeedAssumption DEF IInv, Tabled
  <2> QED
    BY <2>1 DEF Replaced, RowFields
<1> HIDE DEF row, closed
<1>7. \A k \in 1..n : table[k] = IF k = old THEN closed ELSE rows[k]
  BY <1>4
<1> HIDE DEF table
<1>8. /\ DOMAIN rows' = 1..(n + 1) /\ \E T : rows' \in Seq(T)
      /\ \A k \in 1..n : rows'[k] = table[k]
      /\ rows'[n + 1] = row
  BY <1>3, <1>5, Grown
<1>9. Tabled'
  <2>1. ASSUME NEW i \in 1..(n + 1) PROVE DOMAIN rows'[i] = RowFields
    <3>1. CASE i = n + 1
      BY <1>2, <1>8, <3>1
    <3>2. CASE i # n + 1
      <4>1. i \in 1..n
        BY <1>4, <3>2
      <4> QED
        BY <1>4, <1>6, <1>7, <1>8, <4>1 DEF IInv, Tabled
    <3> QED
      BY <3>1, <3>2
  <2> QED
    BY <1>8, <2>1 DEF Tabled
<1>10. /\ LiveEvidence' = (LiveEvidence \ {old}) \cup {n + 1}
       /\ LiveClaims' = (LiveClaims \ {old}) \cup {n + 1}
       /\ \A i \in DOMAIN rows : Key(i)' = Key(i)
       /\ Key(n + 1)' = KeyOf(item)
  <2>1. /\ n + 1 \in DOMAIN rows' /\ n + 1 \notin DOMAIN rows
        /\ \A i \in DOMAIN rows' : i \in DOMAIN rows \/ i = n + 1
        /\ \A i \in DOMAIN rows : i \in DOMAIN rows'
    BY <1>4, <1>8
  <2>2. \A i \in DOMAIN rows : i # old => rows'[i] = rows[i]
    BY <1>4, <1>7, <1>8
  <2>3. old \in DOMAIN rows => rows'[old] = closed
    BY <1>4, <1>7, <1>8
  <2>4. old # n + 1 \/ old \notin DOMAIN rows
    BY <2>1
  <2>5. Key(n + 1)' = KeyOf(item) /\ \A i \in DOMAIN rows : Key(i)' = Key(i)
    BY <1>2, <1>4, <1>6, <1>8, <2>2, <2>3 DEF Key, KeyOf
  <2>6. LiveEvidence' = (LiveEvidence \ {old}) \cup {n + 1}
    BY <1>2, <1>4, <1>6, <1>8, <2>1, <2>2, <2>3 DEF LiveEvidence
  <2>7. LiveClaims' = (LiveClaims \ {old}) \cup {n + 1}
    BY <1>2, <1>4, <1>6, <1>8, <2>1, <2>2, <2>3 DEF LiveClaims
  <2> QED
    BY <2>5, <2>6, <2>7
<1>11. LiveEvidence \subseteq DOMAIN rows
  BY DEF LiveEvidence
<1>12. OneVersion'
  <2> SUFFICES ASSUME NEW i \in LiveEvidence', NEW j \in LiveEvidence', Key(i)' = Key(j)'
               PROVE  i = j
    BY DEF OneVersion
  <2> QED
    BY <1>3, <1>10, <1>11 DEF IInv, OneVersion
<1> QED
  BY <1>9, <1>10, <1>12 DEF IInv, Grounded

\* Closing a claim leaves the evidence as it is, whatever instant and reason.
LEMMA Closing ==
  ASSUME IInv, NEW i, NEW reason, NEW now, ExpireClaim(i, reason, now)
  PROVE  IInv'
<1> DEFINE closed == [[rows[i] EXCEPT !.claimUntil = now] EXCEPT !.reason = reason]
<1>1. PICK S : rows \in Seq(S)
  BY DEF IInv, Tabled
<1>2. i \in DOMAIN rows /\ rows[i].claimUntil = NULL
  BY DEF ExpireClaim, LiveClaims
<1>3. /\ DOMAIN closed = RowFields /\ closed.path = rows[i].path
      /\ closed.ordinal = rows[i].ordinal /\ closed.evidenceUntil = rows[i].evidenceUntil
  BY <1>2 DEF IInv, Tabled, RowFields
<1>4. rows' = [rows EXCEPT ![i] = closed]
  BY <1>1, <1>2, LenProperties DEF ExpireClaim
<1>5. \E T : rows' \in Seq(T)
  <2>1. rows \in Seq(S \cup {closed}) /\ i \in 1..Len(rows)
    BY <1>1, <1>2, SeqDef, LenProperties
  <2> QED
    BY <1>4, <2>1, ExceptSeq
<1> HIDE DEF closed
<1>6. DOMAIN rows' = DOMAIN rows /\ rows'[i] = closed
      /\ \A k \in DOMAIN rows : k # i => rows'[k] = rows[k]
  BY <1>2, <1>4
<1>7. Tabled'
  BY <1>3, <1>5, <1>6 DEF IInv, Tabled
<1>8. /\ LiveEvidence' = LiveEvidence /\ LiveClaims' \subseteq LiveClaims
      /\ \A k \in DOMAIN rows : Key(k)' = Key(k)
  BY <1>2, <1>3, <1>6 DEF LiveEvidence, LiveClaims, Key
<1>9. LiveEvidence \subseteq DOMAIN rows
  BY DEF LiveEvidence
<1> QED
  BY <1>7, <1>8, <1>9 DEF IInv, OneVersion, Grounded

-----------------------------------------------------------------------------
(* Instants *)

LEMMA NewRunStamped == DOMAIN NewRun = RunFields /\ NewRun.now = 0
  BY DEF NewRun, RunFields

LEMMA ClockReads ==
  ASSUME clock \in Nat, NEW t \in Instants
  PROVE  t \in Nat
  BY DEF Instants

\* A run that goes on, with an instant that is one.
LEMMA RunMoves ==
  ASSUME Stamped, NEW s \in Seeders, NEW x, SeederBecomes(s, x),
         DOMAIN x = RunFields, x.now \in Nat, clock' \in Nat
  PROVE  Stamped'
  BY DEF Stamped, SeederBecomes

LEMMA SeedStamped ==
  ASSUME Stamped, SeedNext
  PROVE  Stamped'
<1>1. PICK s \in Seeders :
        \/ Discover(s) \/ LoadLiveChunks(s) \/ ReadFile(s) \/ ReadFails(s) \/ Flush(s)
        \/ WriteChunk(s) \/ WriteRefused(s) \/ FinishSeed(s) \/ SeederDies(s)
  BY DEF SeedNext
<1>2. clock \in Nat /\ DOMAIN seeder[s] = RunFields /\ seeder[s].now \in Nat
  BY DEF Stamped
<1>3. CASE Discover(s)
  <2> DEFINE x == [NewRun EXCEPT !.pc = "load", !.files = {p \in Paths : disk[p] # Missing}]
  <2>1. DOMAIN x = RunFields /\ x.now = 0
    BY NewRunStamped DEF RunFields
  <2>2. SeederBecomes(s, x) /\ clock' = clock
    BY <1>3 DEF Discover
  <2> HIDE DEF x
  <2> QED
    BY <1>2, <2>1, <2>2, RunMoves
<1>4. CASE LoadLiveChunks(s)
  <2> DEFINE x == [seeder[s] EXCEPT !.pc = "read", !.live = LiveChunks]
  <2>1. DOMAIN x = RunFields /\ x.now \in Nat
    BY <1>2 DEF RunFields
  <2>2. SeederBecomes(s, x) /\ clock' = clock
    BY <1>4 DEF LoadLiveChunks
  <2> HIDE DEF x
  <2> QED
    BY <1>2, <2>1, <2>2, RunMoves
<1>5. CASE ReadFile(s)
  <2>1. PICK p \in seeder[s].files :
          SeederBecomes(s, [seeder[s] EXCEPT !.files = @ \ {p},
                                             !.pending = @ \o Changed(s, p)])
    BY <1>5 DEF ReadFile
  <2> DEFINE x == [seeder[s] EXCEPT !.files = @ \ {p}, !.pending = @ \o Changed(s, p)]
  <2>2. DOMAIN x = RunFields /\ x.now \in Nat
    BY <1>2 DEF RunFields
  <2>3. SeederBecomes(s, x)
    BY <2>1
  <2>4. clock' = clock
    BY <1>5 DEF ReadFile
  <2> HIDE DEF x
  <2> QED
    BY <1>2, <2>2, <2>3, <2>4, RunMoves
<1>6. CASE ReadFails(s) \/ WriteRefused(s)
  <2> DEFINE x == [NewRun EXCEPT !.pc = "failed"]
  <2>1. DOMAIN x = RunFields /\ x.now = 0
    BY NewRunStamped DEF RunFields
  <2>2. SeederBecomes(s, x) /\ clock' = clock
    BY <1>6 DEF ReadFails, WriteRefused, Abort
  <2> HIDE DEF x
  <2> QED
    BY <1>2, <2>1, <2>2, RunMoves
<1>7. CASE Flush(s)
  <2> DEFINE x(t) == [seeder[s] EXCEPT
                 !.pc = "write", !.now = t,
                 !.batch = IF Len(seeder[s].pending) >= batchSize
                           THEN batchSize ELSE Len(seeder[s].pending)]
  <2>1. PICK now \in Instants : ReadClock(now) /\ SeederBecomes(s, x(now))
    BY <1>7 DEF Flush
  <2>2. now \in Nat /\ clock' = now
    BY <1>2, <2>1, ClockReads DEF ReadClock
  <2> DEFINE y == x(now)
  <2>3. DOMAIN y = RunFields /\ y.now = now
    BY <1>2 DEF RunFields
  <2>4. SeederBecomes(s, y)
    BY <2>1
  <2> HIDE DEF y
  <2> QED
    BY <2>2, <2>3, <2>4, RunMoves
<1>8. CASE WriteChunk(s)
  <2> DEFINE x == [seeder[s] EXCEPT !.pending = Tail(@), !.batch = @ - 1,
                            !.pc = IF seeder[s].batch = 1 THEN "read" ELSE "write"]
  <2>1. DOMAIN x = RunFields /\ x.now \in Nat
    BY <1>2 DEF RunFields
  <2>2. SeederBecomes(s, x) /\ clock' = clock
    BY <1>8 DEF WriteChunk
  <2> HIDE DEF x
  <2> QED
    BY <1>2, <2>1, <2>2, RunMoves
<1>9. CASE FinishSeed(s)
  <2> DEFINE x == [NewRun EXCEPT !.pc = "done"]
  <2>1. DOMAIN x = RunFields /\ x.now = 0
    BY NewRunStamped DEF RunFields
  <2>2. SeederBecomes(s, x) /\ clock' = clock
    BY <1>9 DEF FinishSeed
  <2> HIDE DEF x
  <2> QED
    BY <1>2, <2>1, <2>2, RunMoves
<1>10. CASE SeederDies(s)
  BY <1>2, <1>10, NewRunStamped, RunMoves DEF SeederDies
<1> QED
  BY <1>1, <1>3, <1>4, <1>5, <1>6, <1>7, <1>8, <1>9, <1>10

\* Whatever else reads the clock leaves the runs as they are.
LEMMA OthersStamped ==
  ASSUME Stamped, (ReanchorNext \/ WorldNext \/ Settled) \/ RecallStep
  PROVE  Stamped'
<1>1. UNCHANGED seeder
  BY DEF ReanchorNext, LoadAnchored, StampPass, CheckAnchor, ExpireStale, FinishPass,
     WorldNext, EditFile, CloseClaim, Settled, seedVars, RecallStep, BeginRecall, CheckRate,
     SearchDense, SearchLexical, LoadAndAssemble, RecordRecall
<1>2. UNCHANGED clock \/ \E t \in Instants : clock' = t
  BY DEF ReanchorNext, LoadAnchored, StampPass, CheckAnchor, ExpireStale, FinishPass,
     WorldNext, EditFile, CloseClaim, Settled, seedVars, RecallStep, BeginRecall, CheckRate,
     SearchDense, SearchLexical, LoadAndAssemble, RecordRecall, ReadClock
<1> QED
  BY <1>1, <1>2, ClockReads DEF Stamped

LEMMA AlwaysStamped == Spec => []Stamped
<1>1. Init => Stamped
  BY NewRunStamped DEF Init, SeedInit, Stamped
<1>2. Stamped /\ [Next]_vars => Stamped'
  <2>1. UNCHANGED vars /\ Stamped => Stamped'
    BY DEF vars, seedVars, Stamped
  <2> QED
    BY <2>1, SeedStamped, OthersStamped DEF Next, SeedStep
<1> QED
  BY <1>1, <1>2, PTL DEF Spec

-----------------------------------------------------------------------------
(* The table *)

LEMMA IInvInit == Init => IInv
<1> SUFFICES ASSUME Init PROVE IInv
  OBVIOUS
<1>1. DOMAIN rows = {} /\ rows \in Seq({})
  BY EmptySeq DEF Init, SeedInit
<1> QED
  BY <1>1 DEF IInv, Tabled, OneVersion, Grounded, LiveEvidence, LiveClaims

LEMMA SameRows == IInv /\ UNCHANGED rows => IInv'
  BY DEF IInv, Tabled, OneVersion, Grounded, LiveEvidence, LiveClaims, Key

LEMMA IInvNext == IInv /\ Stamped /\ [Next]_vars => IInv'
<1> SUFFICES ASSUME IInv, Stamped, [Next]_vars PROVE IInv'
  OBVIOUS
<1>1. CASE UNCHANGED vars \/ RecallStep \/ Settled
  <2>1. UNCHANGED rows
    BY <1>1 DEF vars, Settled, seedVars, RecallStep, BeginRecall, CheckRate, SearchDense,
       SearchLexical, LoadAndAssemble, RecordRecall
  <2> QED
    BY <2>1, SameRows
<1>2. CASE SeedNext
  <2>1. PICK s \in Seeders :
          \/ Discover(s) \/ LoadLiveChunks(s) \/ ReadFile(s) \/ ReadFails(s) \/ Flush(s)
          \/ WriteChunk(s) \/ WriteRefused(s) \/ FinishSeed(s) \/ SeederDies(s)
    BY <1>2 DEF SeedNext
  <2>2. CASE WriteChunk(s)
    <3>1. seeder[s].now \in Nat
      BY DEF Stamped
    <3>2. \/ InsertSeed(Head(seeder[s].pending), seeder[s].now, SeededFor[s])
          \/ \E old \in Incumbent(s, KeyOf(Head(seeder[s].pending))) :
                ReplaceSeed(old, Head(seeder[s].pending), seeder[s].now, SeededFor[s])
      BY <2>2 DEF WriteChunk
    <3> QED
      BY <3>1, <3>2, Inserting, Replacing
  <2>3. CASE ~WriteChunk(s)
    <3>1. UNCHANGED rows
      BY <2>1, <2>3 DEF Discover, LoadLiveChunks, ReadFile, ReadFails, Flush, WriteRefused,
         FinishSeed, SeederDies
    <3> QED
      BY <3>1, SameRows
  <2> QED
    BY <2>2, <2>3
<1>3. CASE ReanchorNext
  <2>1. PICK r \in Reanchorers :
          LoadAnchored(r) \/ StampPass(r) \/ CheckAnchor(r) \/ ExpireStale(r) \/ FinishPass(r)
    BY <1>3 DEF ReanchorNext
  <2>2. CASE ExpireStale(r)
    BY <2>2, Closing, SameRows DEF ExpireStale
  <2>3. CASE LoadAnchored(r) \/ StampPass(r) \/ CheckAnchor(r) \/ FinishPass(r)
    BY <2>3, SameRows DEF LoadAnchored, StampPass, CheckAnchor, FinishPass
  <2> QED
    BY <2>1, <2>2, <2>3
<1>4. CASE WorldNext
  BY <1>4, Closing, SameRows DEF WorldNext, EditFile, CloseClaim
<1> QED
  BY <1>1, <1>2, <1>3, <1>4 DEF Next, SeedStep

\* Whoever writes, replaces or closes, and however runs race, what is believed
\* rests on evidence that is believed, and of one chunk of one file on one version
\* (internal/seed, internal/store/pg/seed.go and the index of migration 3).
THEOREM OneLiveVersion == Spec => []LiveClaimIsCurrent
<1>1. IInv => LiveClaimIsCurrent
  BY Rests DEF IInv
<1> QED
  BY <1>1, IInvInit, IInvNext, AlwaysStamped, PTL DEF Spec
-----------------------------------------------------------------------------
(* A sequence without some of its elements *)

\* What is left of each prefix.
Remains(g, n, all, places) ==
    g = [k \in 0..n |->
            IF k = 0 THEN <<>>
            ELSE IF k \in places THEN g[k - 1] ELSE Append(g[k - 1], all[k])]

\* The function exists: at the least length at which it did not, it would be the
\* one before with a value more.
LEMMA RemainsExist ==
  ASSUME NEW n \in Nat, NEW all, NEW places
  PROVE  \E g : Remains(g, n, all, places)
<1> DEFINE Body(g, m) == [k \in 0..m |->
             IF k = 0 THEN <<>> ELSE IF k \in places THEN g[k - 1] ELSE Append(g[k - 1], all[k])]
           Bad == {m \in Nat : ~ \E g : g = Body(g, m)}
<1>1. CASE Bad = {}
  <2>1. \E g : g = Body(g, n)
    BY <1>1
  <2> QED
    BY <2>1 DEF Remains
<1>2. CASE Bad # {}
  <2>1. PICK m \in Bad : \A x \in Bad : m <= x
    BY <1>2, LeastNatural
  <2>2. m # 0
    <3>1. [k \in 0..0 |-> <<>>] = Body([k \in 0..0 |-> <<>>], 0)
      OBVIOUS
    <3> QED
      BY <3>1
  <2>3. PICK g : g = Body(g, m - 1)
    <3>1. m \in Nat
      OBVIOUS
    <3>2. m - 1 \in Nat /\ ~(m <= m - 1)
      BY <2>2, <3>1
    <3>3. m - 1 \notin Bad
      <4> HIDE DEF Bad
      <4> QED
        BY <2>1, <3>2
    <3> QED
      BY <3>2, <3>3
  <2> DEFINE last == IF m \in places THEN g[m - 1] ELSE Append(g[m - 1], all[m])
             h == [k \in 0..m |-> IF k = m THEN last ELSE g[k]]
  <2>4. h = Body(h, m)
    <3>1. ASSUME NEW k \in 0..m
          PROVE  h[k] = IF k = 0 THEN <<>> ELSE IF k \in places THEN h[k - 1]
                        ELSE Append(h[k - 1], all[k])
      <4>1. CASE k = m
        BY <2>2, <4>1
      <4>2. CASE k # m
        <5>1. /\ k \in 0..(m - 1) /\ h[k] = g[k]
              /\ k # 0 => k - 1 \in 0..(m - 1) /\ h[k - 1] = g[k - 1]
          BY <2>1, <4>2
        <5>2. g[k] = IF k = 0 THEN <<>> ELSE IF k \in places THEN g[k - 1]
                     ELSE Append(g[k - 1], all[k])
          BY <2>3, <5>1
        <5> QED
          BY <5>1, <5>2
      <4> QED
        BY <4>1, <4>2
    <3> HIDE DEF last
    <3> QED
      BY <3>1
  <2> QED
    BY <2>1, <2>4
<1> QED
  BY <1>1, <1>2

\* Only what is not dropped is left.
LEMMA WithoutKeeps ==
  ASSUME NEW S, NEW all, NEW places, Len(all) \in Nat,
         \A k \in 1..Len(all) : k \notin places => all[k] \in S
  PROVE  Without(all, places) \in Seq(S)
<1> DEFINE n == Len(all)
           upTo == CHOOSE g : Remains(g, n, all, places)
<1>n. n \in Nat /\ \A k \in 1..n : k \notin places => all[k] \in S
  OBVIOUS
<1>1. Without(all, places) = upTo[n]
  BY DEF Without, Remains
<1>2. Remains(upTo, n, all, places)
  BY <1>n, RemainsExist
<1> HIDE DEF n, upTo
<1> DEFINE Bad == {k \in 0..n : upTo[k] \notin Seq(S)}
<1>3. CASE Bad # {}
  <2>1. PICK k \in Bad : \A m \in Bad : k <= m
    <3>1. Bad \in SUBSET Nat
      BY <1>n
    <3> QED
      BY <1>3, <3>1, LeastNatural
  <2>2. k # 0
    BY <1>2, <1>n, EmptySeq DEF Remains
  <2>3. upTo[k - 1] \in Seq(S) /\ k \in 1..n
    BY <1>n, <2>1, <2>2
  <2>4. upTo[k] = IF k \in places THEN upTo[k - 1] ELSE Append(upTo[k - 1], all[k])
    BY <1>2, <1>n, <2>2, <2>3 DEF Remains
  <2>5. upTo[k] \in Seq(S)
    BY <1>n, <2>3, <2>4, AppendProperties
  <2> QED
    BY <2>5
<1> QED
  BY <1>1, <1>3, <1>n

-----------------------------------------------------------------------------
(* Types *)

Granted == {SeededFor[s] : s \in Seeders}

RowType ==
    [path : Paths, ordinal : Nat, chunk : Chunks, readAt : Nat, recordedAt : Nat,
     grant : Granted, evidenceUntil : Nat \cup {NULL}, claimUntil : Nat \cup {NULL},
     reason : CloseReasons \cup {"stale_anchor", NULL}, supersededBy : Nat \cup {NULL}]

ItemType == [path : Paths, ordinal : Nat, chunk : Chunks, readAt : Nat]

\* What a run holds, and that a flush has something to write.
RunTyped(run) ==
    /\ run.files \subseteq Paths /\ run.live \subseteq DOMAIN rows
    /\ run.pending \in Seq(ItemType) /\ run.batch \in Nat /\ run.now \in Nat
    /\ run.pc \in {"start", "load", "read", "write", "failed", "done"}
    /\ run.pc \in {"start", "load"} => run.pending = <<>>
    /\ run.pc = "write" => run.batch \in 1..Len(run.pending)

PassFields == {"pc", "rows", "read", "now", "victim"}

PassesTyped ==
    /\ DOMAIN reanchorer = Reanchorers
    /\ \A r \in Reanchorers :
          /\ DOMAIN reanchorer[r] = PassFields
          /\ reanchorer[r].rows \subseteq DOMAIN rows /\ reanchorer[r].now \in Nat

Typed ==
    /\ rows \in Seq(RowType)
    /\ disk \in [Paths -> Contents \cup {Missing}]
    /\ edits \in Nat /\ faults \in Nat
    /\ Stamped /\ PassesTyped
    /\ \A s \in Seeders : RunTyped(seeder[s])

LEMMA TypedIsTypeOK == Typed => SeedTypeOK
  BY DEF Typed, Stamped, RunTyped, PassesTyped, SeedTypeOK, RowType, Granted

-----------------------------------------------------------------------------
(* The invariants *)

\* Of every chunk that was ever written a later version, or itself, has its
\* evidence live: evidence is closed only when it is replaced.
Latest ==
    \A i \in DOMAIN rows : \E j \in LiveEvidence : i <= j /\ Key(j) = Key(i)

\* Rows are of the past, and a claim is succeeded only when it is closed.
Past ==
    \A i \in DOMAIN rows :
        /\ rows[i].readAt <= edits /\ rows[i].recordedAt <= clock
        /\ rows[i].claimUntil = NULL => rows[i].supersededBy = NULL

\* SuccessorTakesOver, of a row and the one that it names.
Succeeds(j, i) ==
    /\ j \in DOMAIN rows /\ Key(j) = Key(i)
    /\ rows[j].recordedAt = rows[i].claimUntil
    /\ rows[i].recordedAt <= rows[j].recordedAt
    /\ BytesOf[rows[j].chunk] # BytesOf[rows[i].chunk]

Successions ==
    \A i \in DOMAIN rows : \A j :
        j = rows[i].supersededBy /\ j # NULL => Succeeds(j, i)

History == Latest /\ Past /\ ReadsMoveForward /\ Successions

LEMMA SuccessionsTakeOver == Successions => SuccessorTakesOver
  BY DEF Successions, Succeeds, SuccessorTakesOver

\* What a run is about to write it read after the snapshot it compares with,
\* it differs from the row it replaces, and it is stamped after that row was.
Behind(run) ==
    /\ run.now <= clock
    /\ \A k \in DOMAIN run.pending :
          /\ run.pending[k].readAt <= edits
          /\ \A i \in run.live :
                /\ rows[i].readAt <= run.pending[k].readAt
                /\ Key(i) = KeyOf(run.pending[k])
                      => BytesOf[rows[i].chunk] # BytesOf[run.pending[k].chunk]
    /\ run.pc = "write" => \A i \in run.live : rows[i].recordedAt <= run.now

HInv == Typed /\ History /\ \A s \in Seeders : Behind(seeder[s])

\* What was written keeps its place and says what it said.
Kept ==
    /\ rows' \in Seq(RowType)
    /\ \A i \in DOMAIN rows :
          /\ i \in DOMAIN rows'
          /\ rows'[i].path = rows[i].path /\ rows'[i].ordinal = rows[i].ordinal
          /\ rows'[i].chunk = rows[i].chunk /\ rows'[i].readAt = rows[i].readAt
          /\ rows'[i].recordedAt = rows[i].recordedAt

LEMMA KeptKeys ==
  ASSUME Kept
  PROVE  \A i \in DOMAIN rows : Key(i)' = Key(i)
  BY DEF Kept, Key

-----------------------------------------------------------------------------
(* The steps of a run *)

\* A run ends or starts over.
Fresh(x) ==
    /\ x.files \subseteq Paths /\ x.live = {} /\ x.pending = <<>> /\ x.batch = 0 /\ x.now = 0
    /\ x.pc \in {"start", "load", "failed", "done"}
    /\ UNCHANGED <<rows, edits, clock>>

TakesSnapshot(s, x) ==
    /\ seeder[s].pc = "load" /\ x.pc = "read" /\ x.live = LiveChunks
    /\ x.files = seeder[s].files /\ x.pending = seeder[s].pending
    /\ x.batch = seeder[s].batch /\ x.now = seeder[s].now
    /\ UNCHANGED <<rows, edits, clock>>

Reads(s, x) ==
    /\ seeder[s].pc = "read" /\ x.pc = "read"
    /\ \E p \in seeder[s].files :
          /\ disk[p] # Missing
          /\ x.files = seeder[s].files \ {p}
          /\ x.pending = seeder[s].pending \o Changed(s, p)
    /\ x.live = seeder[s].live /\ x.batch = seeder[s].batch /\ x.now = seeder[s].now
    /\ UNCHANGED <<rows, edits, clock>>

Flushes(s, x) ==
    /\ seeder[s].pc = "read" /\ x.pc = "write"
    /\ x.now \in Instants /\ clock' = x.now
    /\ Len(seeder[s].pending) >= batchSize \/ seeder[s].pending # <<>>
    /\ x.batch = IF Len(seeder[s].pending) >= batchSize
                 THEN batchSize ELSE Len(seeder[s].pending)
    /\ x.files = seeder[s].files /\ x.live = seeder[s].live /\ x.pending = seeder[s].pending
    /\ UNCHANGED <<rows, edits>>

\* A chunk is written in the place of old, which is 0 when nothing was there.
Puts(s, old) ==
    LET item == Head(seeder[s].pending)
        now  == seeder[s].now
    IN  \/ old = 0 /\ InsertSeed(item, now, SeededFor[s])
        \/ /\ old \in seeder[s].live /\ Key(old) = KeyOf(item)
           /\ ReplaceSeed(old, item, now, SeededFor[s])

Writes(s, x) ==
    /\ seeder[s].pc = "write"
    /\ x.pc = IF seeder[s].batch = 1 THEN "read" ELSE "write"
    /\ x.pending = Tail(seeder[s].pending) /\ x.batch = seeder[s].batch - 1
    /\ x.files = seeder[s].files /\ x.live = seeder[s].live /\ x.now = seeder[s].now
    /\ \E old \in {0} \cup seeder[s].live : Puts(s, old)
    /\ UNCHANGED <<edits, clock>>

RunStep(s, x) ==
    /\ DOMAIN x = RunFields /\ SeederBecomes(s, x)
    /\ UNCHANGED <<disk, reanchorer>> /\ faults' \in {faults, faults + 1}
    /\ Fresh(x) \/ TakesSnapshot(s, x) \/ Reads(s, x) \/ Flushes(s, x) \/ Writes(s, x)

LEMMA FreshRun ==
  /\ DOMAIN NewRun = RunFields
  /\ NewRun.files = {} /\ NewRun.live = {} /\ NewRun.pending = <<>> /\ NewRun.batch = 0
  /\ NewRun.now = 0 /\ NewRun.pc = "start"
  BY DEF NewRun, RunFields

\* A new run at another place.
LEMMA FreshRunAt ==
  ASSUME NEW pc, NEW files
  PROVE  LET x == [NewRun EXCEPT !.pc = pc, !.files = files]
             y == [NewRun EXCEPT !.pc = pc]
         IN  /\ DOMAIN x = RunFields /\ x.pc = pc /\ x.files = files /\ x.live = {}
             /\ x.pending = <<>> /\ x.batch = 0 /\ x.now = 0
             /\ DOMAIN y = RunFields /\ y.pc = pc /\ y.files = {} /\ y.live = {}
             /\ y.pending = <<>> /\ y.batch = 0 /\ y.now = 0
  BY DEF NewRun, RunFields

LEMMA RunSteps ==
  ASSUME Stamped, SeedNext
  PROVE  \E s \in Seeders : \E x : RunStep(s, x)
<1>1. PICK s \in Seeders :
        \/ Discover(s) \/ LoadLiveChunks(s) \/ ReadFile(s) \/ ReadFails(s) \/ Flush(s)
        \/ WriteChunk(s) \/ WriteRefused(s) \/ FinishSeed(s) \/ SeederDies(s)
  BY DEF SeedNext
<1>2. DOMAIN seeder[s] = RunFields
  BY DEF Stamped
<1>3. CASE Discover(s)
  <2> DEFINE x == [NewRun EXCEPT !.pc = "load", !.files = {p \in Paths : disk[p] # Missing}]
  <2>1. DOMAIN x = RunFields /\ Fresh(x)
    BY <1>3, FreshRunAt DEF Fresh, Discover
  <2>2. SeederBecomes(s, x)
    BY <1>3 DEF Discover
  <2> HIDE DEF x
  <2> QED
    BY <1>3, <2>1, <2>2 DEF RunStep, Discover
<1>4. CASE LoadLiveChunks(s)
  <2> DEFINE x == [seeder[s] EXCEPT !.pc = "read", !.live = LiveChunks]
  <2>1. DOMAIN x = RunFields /\ TakesSnapshot(s, x)
    BY <1>2, <1>4 DEF RunFields, TakesSnapshot, LoadLiveChunks, SeederAt
  <2>2. SeederBecomes(s, x)
    BY <1>4 DEF LoadLiveChunks
  <2> HIDE DEF x
  <2> QED
    BY <1>4, <2>1, <2>2 DEF RunStep, LoadLiveChunks
<1>5. CASE ReadFile(s)
  <2>1. PICK p \in seeder[s].files :
          /\ disk[p] # Missing
          /\ SeederBecomes(s, [seeder[s] EXCEPT !.files = @ \ {p},
                                                !.pending = @ \o Changed(s, p)])
    BY <1>5 DEF ReadFile
  <2> DEFINE x == [seeder[s] EXCEPT !.files = @ \ {p}, !.pending = @ \o Changed(s, p)]
  <2>2. /\ DOMAIN x = RunFields /\ x.files = seeder[s].files \ {p}
        /\ x.pending = seeder[s].pending \o Changed(s, p)
        /\ x.pc = seeder[s].pc /\ x.live = seeder[s].live /\ x.batch = seeder[s].batch
        /\ x.now = seeder[s].now
    BY <1>2 DEF RunFields
  <2>3. SeederBecomes(s, x)
    BY <2>1
  <2> HIDE DEF x
  <2>4. Reads(s, x)
    BY <1>5, <2>1, <2>2 DEF Reads, ReadFile, SeederAt
  <2> QED
    BY <1>5, <2>2, <2>3, <2>4 DEF RunStep, ReadFile
<1>6. CASE ReadFails(s) \/ WriteRefused(s) \/ FinishSeed(s)
  <2>1. PICK pc \in {"failed", "done"} : SeederBecomes(s, [NewRun EXCEPT !.pc = pc])
    BY <1>6 DEF ReadFails, WriteRefused, FinishSeed, Abort
  <2> DEFINE x == [NewRun EXCEPT !.pc = pc]
  <2>2. UNCHANGED <<rows, disk, edits, reanchorer, clock, faults>>
    BY <1>6 DEF ReadFails, WriteRefused, FinishSeed
  <2>3. DOMAIN x = RunFields /\ Fresh(x)
    BY <2>2, FreshRunAt DEF Fresh
  <2>4. SeederBecomes(s, x)
    BY <2>1
  <2> HIDE DEF x
  <2> QED
    BY <2>2, <2>3, <2>4 DEF RunStep
<1>7. CASE Flush(s)
  <2> DEFINE size == IF Len(seeder[s].pending) >= batchSize
                     THEN batchSize ELSE Len(seeder[s].pending)
             x(t) == [seeder[s] EXCEPT !.pc = "write", !.now = t, !.batch = size]
  <2>1. PICK now \in Instants : ReadClock(now) /\ SeederBecomes(s, x(now))
    BY <1>7 DEF Flush
  <2>2. clock' = now
    BY <2>1 DEF ReadClock
  <2> DEFINE y == x(now)
  <2>3. /\ DOMAIN y = RunFields /\ y.pc = "write" /\ y.now = now /\ y.batch = size
        /\ y.files = seeder[s].files /\ y.live = seeder[s].live
        /\ y.pending = seeder[s].pending
    <3> HIDE DEF size
    <3> QED
      BY <1>2 DEF RunFields
  <2>4. SeederBecomes(s, y)
    BY <2>1
  <2> HIDE DEF y
  <2>5. Flushes(s, y)
    BY <1>7, <2>2, <2>3 DEF Flushes, Flush, SeederAt
  <2> QED
    BY <1>7, <2>3, <2>4, <2>5 DEF RunStep, Flush
<1>8. CASE WriteChunk(s)
  <2> DEFINE x == [seeder[s] EXCEPT !.pending = Tail(@), !.batch = @ - 1,
                            !.pc = IF seeder[s].batch = 1 THEN "read" ELSE "write"]
  <2>1. /\ DOMAIN x = RunFields /\ x.pending = Tail(seeder[s].pending)
        /\ x.batch = seeder[s].batch - 1
        /\ x.pc = IF seeder[s].batch = 1 THEN "read" ELSE "write"
        /\ x.files = seeder[s].files /\ x.live = seeder[s].live /\ x.now = seeder[s].now
    BY <1>2 DEF RunFields
  <2>2. SeederBecomes(s, x)
    BY <1>8 DEF WriteChunk
  <2>3. \E old \in {0} \cup seeder[s].live : Puts(s, old)
    BY <1>8 DEF WriteChunk, Puts, Incumbent
  <2> HIDE DEF x
  <2>4. Writes(s, x)
    BY <1>8, <2>1, <2>3 DEF Writes, WriteChunk, SeederAt
  <2> QED
    BY <1>8, <2>1, <2>2, <2>4 DEF RunStep, WriteChunk
<1>9. CASE SeederDies(s)
  <2>1. Fresh(NewRun)
    BY <1>9, FreshRun DEF Fresh, SeederDies
  <2> QED
    BY <1>9, <2>1, FreshRun DEF RunStep, SeederDies
<1> QED
  BY <1>1, <1>3, <1>4, <1>5, <1>6, <1>7, <1>8, <1>9

-----------------------------------------------------------------------------
(* What a step does to the table *)

LEMMA RowTypes ==
  ASSUME rows \in Seq(RowType)
  PROVE  \A i \in DOMAIN rows :
            /\ rows[i] \in RowType /\ rows[i].readAt \in Nat /\ rows[i].recordedAt \in Nat
            /\ rows[i].path \in Paths /\ rows[i].ordinal \in Nat
            /\ i \in Nat \ {0}
<1>1. DOMAIN rows = 1..Len(rows) /\ Len(rows) \in Nat
  BY LenProperties
<1>2. \A i \in DOMAIN rows : rows[i] \in RowType
  BY <1>1, ElementOfSeq
<1> QED
  BY <1>1, <1>2 DEF RowType

LEMMA RowFrom ==
  ASSUME NEW item \in ItemType, NEW now \in Nat, NEW grant \in Granted
  PROVE  LET row == Row(item, now, grant)
         IN  /\ row \in RowType
             /\ row.path = item.path /\ row.ordinal = item.ordinal
             /\ row.chunk = item.chunk /\ row.readAt = item.readAt /\ row.recordedAt = now
             /\ row.evidenceUntil = NULL /\ row.claimUntil = NULL /\ row.supersededBy = NULL
  BY DEF Row, RowType, ItemType

LEMMA ReplacedRow ==
  ASSUME NEW row \in RowType, NEW n \in Nat, NEW now \in Nat,
         NEW closed, closed = Replaced(row, n, now)
  PROVE  /\ closed \in RowType
         /\ closed.path = row.path /\ closed.ordinal = row.ordinal
         /\ closed.chunk = row.chunk /\ closed.readAt = row.readAt
         /\ closed.recordedAt = row.recordedAt
         /\ closed.claimUntil # NULL
         /\ row.claimUntil = NULL => closed.claimUntil = now /\ closed.supersededBy = n
         /\ row.claimUntil # NULL =>
               closed.claimUntil = row.claimUntil /\ closed.supersededBy = row.supersededBy
<1>1. NULL \notin Nat
  BY SeedAssumption
<1> QED
  BY <1>1 DEF Replaced, RowType

\* A chunk is put in the place of old, which is 0 when nothing was there.
Put(old, item, now, grant) ==
    \/ old = 0 /\ InsertSeed(item, now, grant)
    \/ old \in DOMAIN rows /\ ReplaceSeed(old, item, now, grant)

\* What the table is then.
PutTable(n, old, item, now, grant) ==
    /\ n \in Nat /\ DOMAIN rows = 1..n /\ DOMAIN rows' = 1..(n + 1)
    /\ rows' \in Seq(RowType)
    /\ rows'[n + 1] = Row(item, now, grant)
    /\ \A k \in 1..n : k # old => rows'[k] = rows[k]
    /\ old \in 1..n => rows'[old] = Replaced(rows[old], n + 1, now)
    /\ \A j \in LiveEvidence : j # old => Key(j) # KeyOf(item)

LEMMA PutRows ==
  ASSUME rows \in Seq(RowType), NEW item \in ItemType, NEW now \in Nat, NEW grant \in Granted,
         NEW old, Put(old, item, now, grant)
  PROVE  \E n : PutTable(n, old, item, now, grant)
<1>1. PICK n \in Nat : n = Len(rows) /\ DOMAIN rows = 1..n
  BY LenProperties
<1> DEFINE row == Row(item, now, grant)
           closed == Replaced(rows[old], n + 1, now)
           table == IF old = 0 THEN rows ELSE [rows EXCEPT ![old] = closed]
<1>2. row \in RowType
  BY RowFrom
<1>3. old \in 1..n => closed \in RowType
  BY <1>1, RowTypes, ReplacedRow
<1>4. rows' = Append(table, row) /\ (old = 0 \/ old \in 1..n)
  <2>1. CASE old = 0 /\ InsertSeed(item, now, grant)
    BY <2>1 DEF InsertSeed
  <2>2. CASE old \in DOMAIN rows /\ ReplaceSeed(old, item, now, grant)
    BY <1>1, <2>2 DEF ReplaceSeed
  <2> QED
    BY <2>1, <2>2 DEF Put
<1> HIDE DEF row, closed
<1>5. /\ table \in Seq(RowType) /\ Len(table) = n
      /\ \A k \in 1..n : table[k] = IF k = old THEN closed ELSE rows[k]
  BY <1>1, <1>3, <1>4, ExceptSeq
<1> HIDE DEF table
<1>6. /\ rows' \in Seq(RowType) /\ Len(rows') = n + 1 /\ rows'[n + 1] = row
      /\ \A k \in 1..n : rows'[k] = table[k]
  BY <1>2, <1>4, <1>5, AppendProperties
<1>7. DOMAIN rows' = 1..(n + 1)
  BY <1>6, LenProperties
<1>8. \A j \in LiveEvidence : j # old => Key(j) # KeyOf(item)
  BY DEF Put, InsertSeed, ReplaceSeed, Insertable
<1> QED
  BY <1>1, <1>5, <1>6, <1>7, <1>8 DEF PutTable, row, closed

LEMMA PutHistory ==
  ASSUME rows \in Seq(RowType), edits \in Nat, clock \in Nat, History,
         NEW item \in ItemType, NEW now \in Nat, NEW grant \in Granted, NEW old,
         Put(old, item, now, grant),
         old \in DOMAIN rows =>
            /\ Key(old) = KeyOf(item)
            /\ rows[old].readAt <= item.readAt /\ rows[old].recordedAt <= now
            /\ BytesOf[rows[old].chunk] # BytesOf[item.chunk],
         item.readAt <= edits, now <= clock, edits' = edits, clock' = clock
  PROVE  Kept /\ History'
<1>0. PICK n : PutTable(n, old, item, now, grant)
  BY PutRows
<1>1. /\ n \in Nat /\ DOMAIN rows = 1..n /\ DOMAIN rows' = 1..(n + 1)
      /\ rows' \in Seq(RowType)
      /\ rows'[n + 1] = Row(item, now, grant)
      /\ \A k \in 1..n : k # old => rows'[k] = rows[k]
      /\ old \in 1..n => rows'[old] = Replaced(rows[old], n + 1, now)
      /\ \A j \in LiveEvidence : j # old => Key(j) # KeyOf(item)
  BY <1>0 DEF PutTable
<1>2. PICK m : m = n + 1 /\ m \in Nat /\ m \notin 1..n /\ m \in DOMAIN rows'
  BY <1>1
<1>3. /\ rows'[m].path = item.path /\ rows'[m].ordinal = item.ordinal
      /\ rows'[m].chunk = item.chunk /\ rows'[m].readAt = item.readAt
      /\ rows'[m].recordedAt = now
      /\ rows'[m].evidenceUntil = NULL /\ rows'[m].claimUntil = NULL
      /\ rows'[m].supersededBy = NULL
  BY <1>1, <1>2, RowFrom
<1>4. old \in 1..n =>
        /\ rows'[old].path = rows[old].path /\ rows'[old].ordinal = rows[old].ordinal
        /\ rows'[old].chunk = rows[old].chunk /\ rows'[old].readAt = rows[old].readAt
        /\ rows'[old].recordedAt = rows[old].recordedAt
        /\ rows'[old].claimUntil # NULL
        /\ rows[old].claimUntil = NULL =>
              rows'[old].claimUntil = now /\ rows'[old].supersededBy = m
        /\ rows[old].claimUntil # NULL =>
              /\ rows'[old].claimUntil = rows[old].claimUntil
              /\ rows'[old].supersededBy = rows[old].supersededBy
  <2> SUFFICES ASSUME old \in 1..n PROVE
        /\ rows'[old].path = rows[old].path /\ rows'[old].ordinal = rows[old].ordinal
        /\ rows'[old].chunk = rows[old].chunk /\ rows'[old].readAt = rows[old].readAt
        /\ rows'[old].recordedAt = rows[old].recordedAt
        /\ rows'[old].claimUntil # NULL
        /\ rows[old].claimUntil = NULL =>
              rows'[old].claimUntil = now /\ rows'[old].supersededBy = m
        /\ rows[old].claimUntil # NULL =>
              /\ rows'[old].claimUntil = rows[old].claimUntil
              /\ rows'[old].supersededBy = rows[old].supersededBy
    OBVIOUS
  <2>1. PICK row \in RowType : row = rows[old]
    BY <1>1, RowTypes
  <2>2. PICK closed : closed = rows'[old]
    OBVIOUS
  <2>3. closed = Replaced(row, m, now)
    BY <1>1, <1>2, <2>1, <2>2
  <2>4. /\ closed.path = row.path /\ closed.ordinal = row.ordinal
        /\ closed.chunk = row.chunk /\ closed.readAt = row.readAt
        /\ closed.recordedAt = row.recordedAt
        /\ closed.claimUntil # NULL
        /\ row.claimUntil = NULL => closed.claimUntil = now /\ closed.supersededBy = m
        /\ row.claimUntil # NULL =>
              closed.claimUntil = row.claimUntil /\ closed.supersededBy = row.supersededBy
    <3>1. row \in RowType /\ m \in Nat /\ now \in Nat /\ closed = Replaced(row, m, now)
      BY <1>2, <2>1, <2>3
    <3> QED
      BY ONLY <3>1, ReplacedRow
  <2> QED
    BY <2>1, <2>2, <2>4
<1>5. /\ \A k \in DOMAIN rows : k \in DOMAIN rows' /\ k # m
      /\ \A k \in DOMAIN rows' : k \in DOMAIN rows \/ k = m
      /\ \A k \in DOMAIN rows : k < m
  BY <1>1, <1>2
<1>6. Kept
  BY <1>1, <1>4, <1>5 DEF Kept
<1>7. Key(m)' = KeyOf(item) /\ \A k \in DOMAIN rows : Key(k)' = Key(k)
  BY <1>3, <1>6, KeptKeys DEF Key, KeyOf
<1>8. m \in LiveEvidence' /\ \A j \in LiveEvidence : j # old => j \in LiveEvidence'
  BY <1>1, <1>3, <1>2, <1>5 DEF LiveEvidence
<1>9. \A k \in DOMAIN rows : Key(k) = KeyOf(item) => k <= old /\ old \in DOMAIN rows
  <2> SUFFICES ASSUME NEW k \in DOMAIN rows, Key(k) = KeyOf(item)
               PROVE  k <= old /\ old \in DOMAIN rows
    OBVIOUS
  <2>1. PICK j \in LiveEvidence : k <= j /\ Key(j) = Key(k)
    BY DEF History, Latest
  <2> QED
    BY <1>1, <2>1 DEF LiveEvidence
<1>10. old \in DOMAIN rows => /\ Key(old) = KeyOf(item)
                              /\ rows[old].readAt <= item.readAt /\ rows[old].recordedAt <= now
                              /\ BytesOf[rows[old].chunk] # BytesOf[item.chunk]
  BY <1>1
<1>11. Latest'
  <2> SUFFICES ASSUME NEW i \in DOMAIN rows'
               PROVE  \E j \in LiveEvidence' : i <= j /\ Key(j)' = Key(i)'
    BY DEF Latest
  <2>1. CASE i = m
    BY <1>2, <1>8, <2>1
  <2>2. CASE i # m
    <3>1. i \in DOMAIN rows
      BY <1>5, <2>2
    <3>2. PICK j \in LiveEvidence : i <= j /\ Key(j) = Key(i)
      BY <3>1 DEF History, Latest
    <3>3. j \in DOMAIN rows
      BY DEF LiveEvidence
    <3>4. CASE j = old
      <4>1. Key(m)' = Key(i)' /\ i <= m
        BY <1>1, <1>5, <1>2, <1>7, <1>10, <3>1, <3>2, <3>3, <3>4
      <4> QED
        BY <4>1, <1>8
    <3>5. CASE j # old
      BY <1>7, <1>8, <3>1, <3>2, <3>3, <3>5
    <3> QED
      BY <3>4, <3>5
  <2> QED
    BY <2>1, <2>2
<1>12. Past'
  BY <1>1, <1>3, <1>4, <1>5 DEF Past, History
<1>13. ReadsMoveForward'
  <2> SUFFICES ASSUME NEW i \in DOMAIN rows', NEW j \in DOMAIN rows', i < j, Key(i)' = Key(j)'
               PROVE  rows'[i].readAt <= rows'[j].readAt
    BY DEF ReadsMoveForward
  <2>1. i \in DOMAIN rows /\ rows'[i].readAt = rows[i].readAt
    BY <1>1, <1>2, <1>5, <1>6 DEF Kept
  <2>2. CASE j = m
    <3>1. i <= old /\ old \in DOMAIN rows /\ Key(i) = Key(old)
      BY <1>7, <1>9, <1>10, <2>1, <2>2
    <3>2. rows[i].readAt \in Nat /\ rows[old].readAt \in Nat /\ item.readAt \in Nat
      BY <2>1, <3>1, RowTypes DEF ItemType
    <3>3. rows[i].readAt <= rows[old].readAt
      <4>1. i < old \/ i = old
        BY <2>1, <3>1, RowTypes
      <4>2. i < old => rows[i].readAt <= rows[old].readAt
        BY <2>1, <3>1 DEF History, ReadsMoveForward
      <4> QED
        BY <3>2, <4>1, <4>2
    <3> QED
      BY <1>3, <1>10, <2>1, <2>2, <3>1, <3>2, <3>3
  <2>3. CASE j # m
    <3>1. j \in DOMAIN rows /\ rows'[j].readAt = rows[j].readAt
      BY <1>5, <1>6, <2>3 DEF Kept
    <3> QED
      BY <1>7, <2>1, <3>1 DEF History, ReadsMoveForward
  <2> QED
    BY <2>2, <2>3
<1>14. Successions'
  <2> SUFFICES ASSUME NEW i \in DOMAIN rows', NEW j, j = rows'[i].supersededBy, j # NULL
               PROVE  Succeeds(j, i)'
    BY DEF Successions
  <2>1. /\ i \in DOMAIN rows /\ Key(i)' = Key(i)
        /\ rows'[i].recordedAt = rows[i].recordedAt /\ rows'[i].chunk = rows[i].chunk
    BY <1>3, <1>5, <1>6, <1>7 DEF Kept
  <2>2. CASE i = old /\ rows[old].claimUntil = NULL
    <3>1. j = m /\ rows'[i].claimUntil = now
      BY <1>1, <1>4, <2>1, <2>2
    <3>2. Key(j)' = Key(i)'
      BY <1>7, <1>10, <2>1, <2>2, <3>1
    <3> QED
      BY <1>2, <1>3, <1>10, <2>1, <2>2, <3>1, <3>2 DEF Succeeds
  <2>3. CASE ~(i = old /\ rows[old].claimUntil = NULL)
    <3>1. rows'[i].supersededBy = rows[i].supersededBy /\ rows'[i].claimUntil = rows[i].claimUntil
      BY <1>1, <1>4, <2>1, <2>3
    <3>2. Succeeds(j, i)
      BY <2>1, <3>1 DEF History, Successions
    <3>3. /\ j \in DOMAIN rows /\ j \in DOMAIN rows' /\ Key(j)' = Key(j)
          /\ rows'[j].recordedAt = rows[j].recordedAt /\ rows'[j].chunk = rows[j].chunk
      BY <1>6, <1>7, <3>2 DEF Kept, Succeeds
    <3> QED
      BY <2>1, <3>1, <3>2, <3>3 DEF Succeeds
  <2> QED
    BY <2>2, <2>3
<1> QED
  BY <1>6, <1>11, <1>12, <1>13, <1>14 DEF History

\* The world moves on: a table that only gained or closed nothing.
LEMMA SameHistory ==
  ASSUME rows \in Seq(RowType), edits \in Nat, clock \in Nat, edits' \in Nat, clock' \in Nat,
         History, UNCHANGED rows, edits <= edits', clock <= clock'
  PROVE  Kept /\ History'
<1>1. Kept
  BY DEF Kept
<1>2. Latest' /\ ReadsMoveForward' /\ Successions'
  BY DEF History, Latest, LiveEvidence, ReadsMoveForward, Successions, Succeeds, Key
<1>3. Past'
  BY RowTypes DEF History, Past
<1> QED
  BY <1>1, <1>2, <1>3 DEF History

\* A claim is closed at an instant the clock has shown.
LEMMA ClosingHistory ==
  ASSUME rows \in Seq(RowType), clock \in Nat, clock' \in Nat, edits' = edits, clock <= clock',
         History, NEW i, NEW reason \in CloseReasons \cup {"stale_anchor"}, NEW now \in Nat,
         ExpireClaim(i, reason, now)
  PROVE  Kept /\ History'
<1> DEFINE closed == [[rows[i] EXCEPT !.claimUntil = now] EXCEPT !.reason = reason]
<1>1. i \in DOMAIN rows /\ rows[i].claimUntil = NULL
  BY DEF ExpireClaim, LiveClaims
<1>2. /\ closed \in RowType
      /\ closed.path = rows[i].path /\ closed.ordinal = rows[i].ordinal
      /\ closed.chunk = rows[i].chunk /\ closed.readAt = rows[i].readAt
      /\ closed.recordedAt = rows[i].recordedAt /\ closed.evidenceUntil = rows[i].evidenceUntil
      /\ closed.claimUntil = now /\ closed.supersededBy = rows[i].supersededBy
  <2>1. PICK row \in RowType : row = rows[i]
    BY <1>1, RowTypes
  <2>2. /\ [[row EXCEPT !.claimUntil = now] EXCEPT !.reason = reason] \in RowType
    BY <2>1 DEF RowType
  <2>3. DOMAIN row = {"path", "ordinal", "chunk", "readAt", "recordedAt", "grant",
                      "evidenceUntil", "claimUntil", "reason", "supersededBy"}
    BY <2>1 DEF RowType
  <2> QED
    BY <2>1, <2>2, <2>3
<1>3. rows' = [rows EXCEPT ![i] = closed] /\ DOMAIN rows = 1..Len(rows)
  BY <1>1, LenProperties DEF ExpireClaim
<1> HIDE DEF closed
<1>4. /\ rows' \in Seq(RowType) /\ DOMAIN rows' = DOMAIN rows
      /\ \A k \in DOMAIN rows : rows'[k] = IF k = i THEN closed ELSE rows[k]
  BY <1>1, <1>2, <1>3, ExceptSeq
<1>5. Kept
  BY <1>2, <1>4 DEF Kept
<1>6. \A k \in DOMAIN rows : Key(k)' = Key(k)
  BY <1>5, KeptKeys
<1>7. LiveEvidence' = LiveEvidence
  BY <1>2, <1>4 DEF LiveEvidence
<1>8. Latest'
  <2> SUFFICES ASSUME NEW k \in DOMAIN rows'
               PROVE  \E j \in LiveEvidence' : k <= j /\ Key(j)' = Key(k)'
    BY DEF Latest
  <2>1. PICK j \in LiveEvidence : k <= j /\ Key(j) = Key(k)
    BY <1>4 DEF History, Latest
  <2>2. j \in DOMAIN rows
    BY DEF LiveEvidence
  <2> QED
    BY <1>4, <1>6, <1>7, <2>1, <2>2
<1>9. Past'
  <2>1. NULL \notin Nat
    BY SeedAssumption
  <2> SUFFICES ASSUME NEW k \in DOMAIN rows
               PROVE  /\ rows'[k].readAt <= edits' /\ rows'[k].recordedAt <= clock'
                      /\ rows'[k].claimUntil = NULL => rows'[k].supersededBy = NULL
    BY <1>4 DEF Past
  <2>2. rows'[k].readAt = rows[k].readAt /\ rows'[k].recordedAt = rows[k].recordedAt
    BY <1>5 DEF Kept
  <2>3. rows'[k].claimUntil = NULL => rows'[k].supersededBy = NULL
    BY <1>2, <1>4, <2>1 DEF History, Past
  <2>4. rows[k].readAt <= edits /\ rows[k].recordedAt <= clock /\ rows[k].recordedAt \in Nat
    BY RowTypes DEF History, Past
  <2> QED
    BY <2>2, <2>3, <2>4
<1>10. ReadsMoveForward'
  BY <1>4, <1>5, <1>6 DEF Kept, History, ReadsMoveForward
<1>11. Successions'
  <2> SUFFICES ASSUME NEW k \in DOMAIN rows, NEW j, j = rows'[k].supersededBy, j # NULL
               PROVE  Succeeds(j, k)'
    BY <1>4 DEF Successions
  <2>1. rows'[k].supersededBy = rows[k].supersededBy
    BY <1>2, <1>4
  <2>2. k # i
    BY <1>1, <2>1 DEF History, Past
  <2>3. rows'[k].claimUntil = rows[k].claimUntil
    BY <1>4, <2>2
  <2>4. Succeeds(j, k)
    BY <2>1 DEF History, Successions
  <2>5. /\ j \in DOMAIN rows' /\ Key(j)' = Key(j) /\ Key(k)' = Key(k)
        /\ rows'[j].recordedAt = rows[j].recordedAt /\ rows'[j].chunk = rows[j].chunk
        /\ rows'[k].recordedAt = rows[k].recordedAt /\ rows'[k].chunk = rows[k].chunk
    BY <1>5, <1>6, <2>4 DEF Kept, Succeeds
  <2> QED
    BY <2>3, <2>4, <2>5 DEF Succeeds
<1> QED
  BY <1>5, <1>8, <1>9, <1>10, <1>11 DEF History

-----------------------------------------------------------------------------
(* What a step does to a run *)

\* A run that does nothing while the table and the world move on.
LEMMA RunWaits ==
  ASSUME rows \in Seq(RowType), edits \in Nat, clock \in Nat, edits' \in Nat, clock' \in Nat,
         Kept, edits <= edits', clock <= clock',
         NEW run, RunTyped(run), Behind(run)
  PROVE  RunTyped(run)' /\ Behind(run)'
<1>1. RunTyped(run)'
  BY DEF RunTyped, Kept
<1>2. DOMAIN run.pending = 1..Len(run.pending)
      /\ \A k \in DOMAIN run.pending : run.pending[k] \in ItemType
  BY LenProperties, ElementOfSeq DEF RunTyped
<1>3. run.now <= clock'
  BY DEF RunTyped, Behind
<1>4. ASSUME NEW k \in DOMAIN run.pending
      PROVE  run.pending[k].readAt <= edits'
  BY <1>2 DEF Behind, ItemType
<1>5. \A i \in run.live :
        /\ i \in DOMAIN rows /\ Key(i)' = Key(i)
        /\ rows'[i].readAt = rows[i].readAt /\ rows'[i].chunk = rows[i].chunk
        /\ rows'[i].recordedAt = rows[i].recordedAt
  BY KeptKeys DEF RunTyped, Kept
<1> QED
  BY <1>1, <1>3, <1>4, <1>5 DEF Behind, KeyOf

\* What a run reads of a file.
LEMMA ChangedItems ==
  ASSUME Typed, NEW s \in Seeders, NEW p \in Paths, disk[p] # Missing
  PROVE  Changed(s, p) \in Seq({x \in ItemType : x.readAt = edits
                                                 /\ ~Unchanged(s, KeyOf(x), x.chunk)})
<1> DEFINE S == {x \in ItemType : x.readAt = edits /\ ~Unchanged(s, KeyOf(x), x.chunk)}
           chunks == ChunksOf[disk[p]]
           all == [k \in DOMAIN chunks |->
                      [path |-> p, ordinal |-> k, chunk |-> chunks[k], readAt |-> edits]]
           places == {k \in DOMAIN all : Unchanged(s, KeyOf(all[k]), all[k].chunk)}
<1>1. chunks \in Seq(Chunks)
  BY SeedAssumption DEF Typed
<1>2. PICK m \in Nat : m = Len(chunks) /\ DOMAIN chunks = 1..m
  BY <1>1, LenProperties
<1>3. \A k \in 1..m : all[k] \in ItemType /\ all[k].readAt = edits
  BY <1>1, <1>2, ElementOfSeq DEF ItemType, Typed
<1>4. Changed(s, p) = Without(all, places)
  BY DEF Changed
<1> HIDE DEF chunks
<1>5. DOMAIN all = 1..m /\ all \in [1..m -> ItemType]
  BY <1>2, <1>3
<1> HIDE DEF all
<1>6. all \in Seq(ItemType)
  BY <1>5, SeqDef
<1>7. Len(all) \in Nat /\ DOMAIN all = 1..Len(all)
  BY <1>6, LenProperties
<1>8. \A k \in 1..Len(all) : k \notin places => all[k] \in S
  BY <1>3, <1>5, <1>7
<1> HIDE DEF S, places
<1>9. Without(all, places) \in Seq(S)
  BY <1>7, <1>8, WithoutKeeps
<1> QED
  BY <1>4, <1>9 DEF S

\* A run after a step of its own, the table apart.
LEMMA RunGoesOn ==
  ASSUME HInv, Kept, edits' = edits, clock \in Nat, clock' \in Nat, clock <= clock',
         NEW s \in Seeders, NEW x,
         Fresh(x) \/ TakesSnapshot(s, x) \/ Reads(s, x) \/ Flushes(s, x) \/ Writes(s, x)
  PROVE  RunTyped(x)' /\ Behind(x)'
<1>1. PICK run : run = seeder[s] /\ RunTyped(run) /\ Behind(run)
  BY DEF HInv, Typed
<1>2. rows \in Seq(RowType) /\ edits \in Nat /\ edits' \in Nat
  BY DEF HInv, Typed
<1>3. /\ Len(run.pending) \in Nat /\ DOMAIN run.pending = 1..Len(run.pending)
      /\ \A k \in DOMAIN run.pending : run.pending[k] \in ItemType
  BY <1>1, LenProperties, ElementOfSeq DEF RunTyped
<1>4. ASSUME RunTyped(x), Behind(x) PROVE RunTyped(x)' /\ Behind(x)'
  BY <1>2, <1>4, RunWaits
<1>5. CASE Fresh(x)
  <2>1. RunTyped(x)
    BY <1>5, EmptySeq DEF Fresh, RunTyped
  <2>2. Behind(x)
    BY <1>5, EmptySeq DEF Fresh, Behind
  <2> QED
    BY <1>4, <2>1, <2>2
<1>6. CASE TakesSnapshot(s, x)
  <2>1. /\ run.pending = <<>> /\ x.pending = run.pending /\ x.pc = "read" /\ x.live = LiveChunks
        /\ x.now = run.now /\ x.batch = run.batch /\ x.files = run.files
    BY <1>1, <1>6 DEF TakesSnapshot, RunTyped
  <2>2. RunTyped(x)
    BY <1>1, <2>1 DEF RunTyped, LiveChunks, LiveClaims
  <2>3. Behind(x)
    BY <1>1, <2>1, EmptySeq DEF Behind
  <2> QED
    BY <1>4, <2>2, <2>3
<1>7. CASE Reads(s, x)
  <2>1. PICK p \in run.files :
          disk[p] # Missing /\ x.files = run.files \ {p} /\ x.pending = run.pending \o Changed(s, p)
    BY <1>1, <1>7 DEF Reads
  <2>2. /\ run.pc = "read" /\ x.pc = "read" /\ x.live = run.live /\ x.batch = run.batch
        /\ x.now = run.now /\ p \in Paths
    BY <1>1, <1>7, <2>1 DEF Reads, RunTyped
  <2> DEFINE S == {y \in ItemType : y.readAt = edits /\ ~Unchanged(s, KeyOf(y), y.chunk)}
  <2>3. Changed(s, p) \in Seq(S)
    BY <2>1, <2>2, ChangedItems DEF HInv
  <2>4. Changed(s, p) \in Seq(ItemType)
    BY <2>3, SeqMonotonic
  <2> HIDE DEF S
  <2>5. run.pending \in Seq(ItemType)
    BY <1>1 DEF RunTyped
  <2> DEFINE a == Len(run.pending)
             b == Len(Changed(s, p))
  <2>6. /\ a \in Nat /\ b \in Nat /\ x.pending \in Seq(ItemType) /\ DOMAIN x.pending = 1..(a + b)
        /\ \A k \in 1..(a + b) : x.pending[k] = IF k <= a THEN run.pending[k]
                                                ELSE Changed(s, p)[k - a]
    BY <2>1, <2>4, <2>5, ConcatProperties, LenProperties
  <2>7. \A k \in 1..b : Changed(s, p)[k] \in S
    BY <2>3, ElementOfSeq
  <2> HIDE DEF a, b
  <2>8. \A k \in 1..(a + b) : (k <= a => k \in 1..a) /\ (~(k <= a) => k - a \in 1..b)
    BY <2>6
  <2>9. RunTyped(x)
    BY <1>1, <2>1, <2>2, <2>6 DEF RunTyped
  <2>10. ASSUME NEW k \in DOMAIN x.pending
         PROVE  /\ x.pending[k].readAt <= edits
                /\ \A i \in run.live :
                      /\ rows[i].readAt <= x.pending[k].readAt
                      /\ Key(i) = KeyOf(x.pending[k])
                            => BytesOf[rows[i].chunk] # BytesOf[x.pending[k].chunk]
    <3>1. CASE k <= a
      <4>1. k \in DOMAIN run.pending /\ x.pending[k] = run.pending[k]
        BY <1>3, <2>6, <2>8, <3>1 DEF a
      <4> QED
        BY <1>1, <4>1 DEF Behind
    <3>2. CASE ~(k <= a)
      <4>1. PICK y : y = x.pending[k] /\ y \in S
        BY <2>6, <2>7, <2>8, <3>2
      <4>2. y.readAt = edits /\ ~Unchanged(s, KeyOf(y), y.chunk)
        BY <4>1 DEF S
      <4>3. \A i \in run.live : Key(i) = KeyOf(y) => BytesOf[rows[i].chunk] # BytesOf[y.chunk]
        BY <1>1, <4>2 DEF Unchanged, Incumbent
      <4>4. \A i \in run.live : rows[i].readAt <= edits
        BY <1>1 DEF HInv, History, Past, RunTyped
      <4> QED
        BY <1>2, <4>1, <4>2, <4>3, <4>4
    <3> QED
      BY <3>1, <3>2
  <2>11. Behind(x)
    BY <1>1, <2>2, <2>10 DEF Behind
  <2> QED
    BY <1>4, <2>9, <2>11
<1>8. CASE Flushes(s, x)
  <2>1. /\ x.files = run.files /\ x.live = run.live /\ x.pending = run.pending
        /\ run.pc = "read" /\ x.pc = "write" /\ x.now \in Instants /\ clock' = x.now
        /\ x.batch = IF Len(run.pending) >= batchSize THEN batchSize ELSE Len(run.pending)
        /\ Len(run.pending) >= batchSize \/ run.pending # <<>>
        /\ UNCHANGED rows
    BY <1>1, <1>8 DEF Flushes
  <2>2. x.now \in Nat /\ x.now = clock'
    BY <2>1
  <2>3. x.batch \in 1..Len(run.pending)
    <3>1. Len(run.pending) \in Nat /\ batchSize \in Nat \ {0}
      BY <1>3, SeedAssumption
    <3>2. run.pending # <<>> => Len(run.pending) # 0
      BY <1>1, EmptySeq DEF RunTyped
    <3> QED
      BY <2>1, <3>1, <3>2
  <2>4. RunTyped(x)'
    BY <1>1, <1>3, <2>1, <2>2, <2>3 DEF RunTyped
  <2>5. \A i \in run.live :
          i \in DOMAIN rows /\ rows[i].recordedAt <= clock /\ rows[i].recordedAt \in Nat
    BY <1>1, <1>2, RowTypes DEF HInv, History, Past, RunTyped
  <2>6. \A i \in run.live : rows'[i].recordedAt <= x.now
    BY <2>1, <2>2, <2>5
  <2>7. Behind(x)'
    BY <1>1, <2>1, <2>2, <2>6 DEF Behind, Key, KeyOf
  <2> QED
    BY <2>4, <2>7
<1>9. CASE Writes(s, x)
  <2>1. /\ run.pc = "write" /\ x.pc = IF run.batch = 1 THEN "read" ELSE "write"
        /\ x.pending = Tail(run.pending) /\ x.batch = run.batch - 1
        /\ x.files = run.files /\ x.live = run.live /\ x.now = run.now
    BY <1>1, <1>9 DEF Writes
  <2>2. run.batch \in 1..Len(run.pending) /\ run.pending # <<>>
        /\ run.pending \in Seq(ItemType)
    BY <1>1, <1>3, <2>1, EmptySeq DEF RunTyped
  <2>3. /\ Tail(run.pending) \in Seq(ItemType)
        /\ Len(Tail(run.pending)) = Len(run.pending) - 1
        /\ \A k \in 1..Len(Tail(run.pending)) : Tail(run.pending)[k] = run.pending[k + 1]
    BY <2>2, HeadTailProperties
  <2>4. DOMAIN x.pending = 1..(Len(run.pending) - 1)
    BY <2>1, <2>3, LenProperties
  <2>5. RunTyped(x)
    BY <1>1, <1>3, <2>1, <2>2, <2>3 DEF RunTyped
  <2>6. \A k \in DOMAIN x.pending :
          k + 1 \in DOMAIN run.pending /\ x.pending[k] = run.pending[k + 1]
    BY <1>3, <2>1, <2>3, <2>4
  <2>7. Behind(x)
    BY <1>1, <2>1, <2>6 DEF Behind
  <2> QED
    BY <1>4, <2>5, <2>7
<1> QED
  BY <1>5, <1>6, <1>7, <1>8, <1>9

-----------------------------------------------------------------------------
(* The invariants hold *)

LEMMA HInvInit == Init => HInv
<1> SUFFICES ASSUME Init PROVE HInv
  OBVIOUS
<1>1. rows \in Seq(RowType) /\ DOMAIN rows = {}
  BY EmptySeq DEF Init, SeedInit
<1>2. \A s \in Seeders : RunTyped(seeder[s]) /\ Behind(seeder[s])
  <2> SUFFICES ASSUME NEW s \in Seeders
               PROVE  RunTyped(seeder[s]) /\ Behind(seeder[s])
    OBVIOUS
  <2>1. PICK run : run = seeder[s] /\ run = NewRun
    BY DEF Init, SeedInit
  <2>2. clock = 0 /\ <<>> \in Seq(ItemType) /\ DOMAIN <<>> = {}
    BY EmptySeq DEF Init, SeedInit
  <2>3. RunTyped(run)
    BY <2>1, <2>2, FreshRun DEF RunTyped
  <2>4. Behind(run)
    BY <2>1, <2>2, FreshRun DEF Behind
  <2> QED
    BY <2>1, <2>3, <2>4
<1>3. Stamped
  BY NewRunStamped DEF Init, SeedInit, Stamped
<1>4. PassesTyped
  BY DEF Init, SeedInit, PassesTyped, NewPass, PassFields
<1>5. History
  BY <1>1 DEF History, Latest, Past, ReadsMoveForward, Successions
<1> QED
  BY <1>1, <1>2, <1>3, <1>4, <1>5 DEF HInv, Typed, Init, SeedInit

LEMMA ClockMoves ==
  ASSUME clock \in Nat, UNCHANGED clock \/ \E t \in Instants : clock' = t
  PROVE  clock' \in Nat /\ clock <= clock'
  BY DEF Instants

\* The runs, when somebody else moves.
LEMMA RunsWait ==
  ASSUME HInv, Kept, edits' \in Nat, clock' \in Nat, edits <= edits', clock <= clock',
         UNCHANGED seeder
  PROVE  \A s \in Seeders : RunTyped(seeder[s])' /\ Behind(seeder[s])'
<1> SUFFICES ASSUME NEW s \in Seeders
             PROVE  RunTyped(seeder[s])' /\ Behind(seeder[s])'
  OBVIOUS
<1>1. PICK run : run = seeder[s] /\ RunTyped(run) /\ Behind(run)
  BY DEF HInv, Typed
<1>2. RunTyped(run)' /\ Behind(run)'
  BY <1>1, RunWaits DEF HInv, Typed, Stamped
<1>3. seeder[s]' = run
  BY <1>1
<1> QED
  BY <1>2, <1>3 DEF RunTyped, Behind

\* The passes, when somebody else moves.
LEMMA PassesWait ==
  ASSUME PassesTyped, Kept, UNCHANGED reanchorer
  PROVE  PassesTyped'
  BY DEF PassesTyped, Kept

\* A chunk is put where the run found it to be.
LEMMA WritesHistory ==
  ASSUME HInv, NEW s \in Seeders, NEW x, Writes(s, x)
  PROVE  Kept /\ History'
<1>1. PICK run : run = seeder[s] /\ RunTyped(run) /\ Behind(run)
  BY DEF HInv, Typed
<1>2. PICK old \in {0} \cup run.live : Puts(s, old)
  BY <1>1 DEF Writes
<1>3. run.pc = "write" /\ edits' = edits /\ clock' = clock
  BY <1>1 DEF Writes
<1>4. /\ rows \in Seq(RowType) /\ edits \in Nat /\ clock \in Nat /\ History
  BY DEF HInv, Typed, Stamped
<1>5. run.pending \in Seq(ItemType) /\ run.pending # <<>> /\ 1 \in DOMAIN run.pending
  <2>1. Len(run.pending) \in Nat /\ DOMAIN run.pending = 1..Len(run.pending)
    BY <1>1, LenProperties DEF RunTyped
  <2>2. 1 \in 1..Len(run.pending)
    BY <1>1, <1>3, <2>1 DEF RunTyped
  <2> QED
    BY <1>1, <2>1, <2>2, EmptySeq DEF RunTyped
<1>6. PICK item \in ItemType : item = Head(run.pending) /\ item = run.pending[1]
  BY <1>5, HeadTailProperties, ElementOfSeq, LenProperties
<1>7. PICK now \in Nat : now = run.now /\ now <= clock
  BY <1>1 DEF RunTyped, Behind
<1>8. PICK grant \in Granted : grant = SeededFor[s]
  BY DEF Granted
<1>9. run.live \subseteq DOMAIN rows /\ 0 \notin DOMAIN rows
  BY <1>1, <1>4, RowTypes DEF RunTyped
<1>10. /\ Put(old, item, now, grant)
       /\ old \in DOMAIN rows => old \in run.live /\ Key(old) = KeyOf(item)
  BY <1>1, <1>2, <1>6, <1>7, <1>8, <1>9 DEF Puts, Put
<1>11. old \in DOMAIN rows =>
         /\ rows[old].readAt <= item.readAt /\ rows[old].recordedAt <= now
         /\ BytesOf[rows[old].chunk] # BytesOf[item.chunk]
  BY <1>1, <1>3, <1>5, <1>6, <1>7, <1>10 DEF Behind
<1>12. item.readAt <= edits
  BY <1>1, <1>5, <1>6 DEF Behind
<1> QED
  BY <1>3, <1>4, <1>7, <1>10, <1>11, <1>12, PutHistory

LEMMA HInvSeed == HInv /\ SeedNext => Kept /\ HInv'
<1> SUFFICES ASSUME HInv, SeedNext PROVE Kept /\ HInv'
  OBVIOUS
<1>1. PICK s \in Seeders : \E x : RunStep(s, x)
  BY RunSteps DEF HInv, Typed
<1>2. PICK x : RunStep(s, x)
  BY <1>1
<1>3. Stamped'
  BY SeedStamped DEF HInv, Typed
<1>4. /\ edits \in Nat /\ clock \in Nat /\ clock' \in Nat /\ edits' = edits
      /\ rows \in Seq(RowType)
  BY <1>2, <1>3 DEF HInv, Typed, Stamped, RunStep, Fresh, TakesSnapshot, Reads, Flushes, Writes
<1>5. clock <= clock'
  BY <1>2, <1>4, ClockMoves DEF RunStep, Fresh, TakesSnapshot, Reads, Flushes, Writes
<1>6. Kept /\ History'
  <2>1. CASE Writes(s, x)
    BY <2>1, WritesHistory
  <2>2. CASE ~Writes(s, x)
    <3>1. UNCHANGED rows /\ History
      BY <1>2, <2>2 DEF RunStep, Fresh, TakesSnapshot, Reads, Flushes, HInv
    <3> QED
      BY <1>4, <1>5, <3>1, SameHistory
  <2> QED
    BY <2>1, <2>2
<1>7. RunTyped(x)' /\ Behind(x)'
  BY <1>2, <1>4, <1>5, <1>6, RunGoesOn DEF RunStep
<1>8. ASSUME NEW t \in Seeders
      PROVE  RunTyped(seeder[t])' /\ Behind(seeder[t])'
  <2>1. CASE t = s
    <3>1. seeder[t]' = x
      BY <1>2, <2>1 DEF RunStep, SeederBecomes, HInv, Typed, Stamped
    <3> QED
      BY <1>7, <3>1 DEF RunTyped, Behind
  <2>2. CASE t # s
    <3>1. PICK run : run = seeder[t] /\ RunTyped(run) /\ Behind(run)
      BY DEF HInv, Typed
    <3>2. RunTyped(run)' /\ Behind(run)'
      BY <1>4, <1>5, <1>6, <3>1, RunWaits
    <3>3. seeder[t]' = run
      BY <1>2, <2>2, <3>1 DEF RunStep, SeederBecomes, HInv, Typed, Stamped
    <3> QED
      BY <3>2, <3>3 DEF RunTyped, Behind
  <2> QED
    BY <2>1, <2>2
<1>9. PassesTyped'
  BY <1>2, <1>6, PassesWait DEF RunStep, HInv, Typed
<1>10. /\ disk' \in [Paths -> Contents \cup {Missing}] /\ faults' \in Nat
  BY <1>2 DEF RunStep, HInv, Typed
<1> QED
  BY <1>3, <1>4, <1>6, <1>8, <1>9, <1>10 DEF HInv, Typed, Kept

\* A step that is nobody's write: the table as it was, or one claim closed.
LEMMA HInvOthers ==
  ASSUME HInv, UNCHANGED seeder, Stamped',
         UNCHANGED clock \/ \E t \in Instants : clock' = t,
         edits' \in Nat, faults' \in Nat, disk' \in [Paths -> Contents \cup {Missing}],
         \/ UNCHANGED rows /\ edits <= edits'
         \/ /\ edits' = edits
            /\ \E i, now \in Nat, reason \in CloseReasons \cup {"stale_anchor"} :
                  ExpireClaim(i, reason, now),
         Kept => PassesTyped'
  PROVE  Kept /\ HInv'
<1>1. edits \in Nat /\ clock \in Nat /\ rows \in Seq(RowType) /\ History
  BY DEF HInv, Typed, Stamped
<1>2. clock' \in Nat /\ clock <= clock'
  BY <1>1, ClockMoves
<1>3. Kept /\ History' /\ edits <= edits'
  <2>1. CASE UNCHANGED rows /\ edits <= edits'
    BY <1>1, <1>2, <2>1, SameHistory
  <2>2. CASE /\ edits' = edits
             /\ \E i, now \in Nat, reason \in CloseReasons \cup {"stale_anchor"} :
                   ExpireClaim(i, reason, now)
    <3>1. PICK i, now \in Nat, reason \in CloseReasons \cup {"stale_anchor"} :
            ExpireClaim(i, reason, now)
      BY <2>2
    <3>2. Kept /\ History'
      BY <1>1, <1>2, <2>2, <3>1, ClosingHistory
    <3> QED
      BY <1>1, <2>2, <3>2
  <2> QED
    BY <2>1, <2>2
<1>4. \A s \in Seeders : RunTyped(seeder[s])' /\ Behind(seeder[s])'
  BY <1>2, <1>3, RunsWait
<1> QED
  BY <1>3, <1>4 DEF HInv, Typed, Kept

LEMMA HInvReanchor == HInv /\ ReanchorNext => Kept /\ HInv'
<1> SUFFICES ASSUME HInv, ReanchorNext PROVE Kept /\ HInv'
  OBVIOUS
<1>1. PICK r \in Reanchorers :
        LoadAnchored(r) \/ StampPass(r) \/ CheckAnchor(r) \/ ExpireStale(r) \/ FinishPass(r)
  BY DEF ReanchorNext
<1>2. /\ Stamped' /\ edits \in Nat /\ faults \in Nat /\ clock \in Nat
      /\ disk \in [Paths -> Contents \cup {Missing}] /\ rows \in Seq(RowType)
  BY OthersStamped DEF HInv, Typed, Stamped
<1>3. UNCHANGED <<seeder, disk, edits, faults>>
  BY <1>1 DEF LoadAnchored, StampPass, CheckAnchor, ExpireStale, FinishPass
<1>4. UNCHANGED clock \/ \E t \in Instants : clock' = t
  BY <1>1 DEF LoadAnchored, StampPass, CheckAnchor, ExpireStale, FinishPass, ReadClock
<1>5. PICK pass : pass = reanchorer[r] /\ DOMAIN pass = PassFields
                  /\ pass.rows \subseteq DOMAIN rows /\ pass.now \in Nat
  BY DEF HInv, Typed, PassesTyped
<1>6. UNCHANGED rows \/ \E i, now \in Nat, reason \in CloseReasons \cup {"stale_anchor"} :
                           ExpireClaim(i, reason, now)
  <2>1. CASE ExpireStale(r) /\ ~UNCHANGED rows
    <3>1. PICK i : i \in LiveClaims /\ ExpireClaim(i, "stale_anchor", pass.now)
      BY <1>5, <2>1 DEF ExpireStale, SupersedeReasonStaleAnchor
    <3>2. i \in Nat
      BY <1>2, <3>1, RowTypes DEF LiveClaims
    <3> QED
      BY <1>5, <3>1, <3>2
  <2>2. CASE ~ExpireStale(r)
    BY <1>1, <2>2 DEF LoadAnchored, StampPass, CheckAnchor, FinishPass
  <2> QED
    BY <2>1, <2>2
<1>7. \E x : /\ PassBecomes(r, x) /\ DOMAIN x = PassFields
             /\ x.rows \subseteq DOMAIN rows /\ x.now \in Nat
  <2>1. CASE LoadAnchored(r)
    <3> DEFINE x == [NewPass EXCEPT !.pc = "stamp", !.rows = LiveChunks]
    <3>1. DOMAIN x = PassFields /\ x.rows = LiveChunks /\ x.now = 0
      BY DEF NewPass, PassFields
    <3>2. PassBecomes(r, x)
      BY <2>1 DEF LoadAnchored
    <3> HIDE DEF x
    <3> QED
      BY <3>1, <3>2 DEF LiveChunks, LiveClaims
  <2>2. CASE StampPass(r)
    <3>1. PICK now \in Instants : PassBecomes(r, [pass EXCEPT !.pc = "check", !.now = now])
      BY <1>5, <2>2 DEF StampPass
    <3> DEFINE x == [pass EXCEPT !.pc = "check", !.now = now]
    <3>2. DOMAIN x = PassFields /\ x.rows = pass.rows /\ x.now = now
      BY <1>5 DEF PassFields
    <3>3. now \in Nat
      BY <1>2, ClockReads
    <3>4. PassBecomes(r, x)
      BY <3>1
    <3> HIDE DEF x
    <3> QED
      BY <1>5, <3>2, <3>3, <3>4
  <2>3. CASE CheckAnchor(r)
    <3> DEFINE y(i, read, victim, pc) ==
                 [pass EXCEPT !.rows = @ \ {i}, !.read = read, !.victim = victim, !.pc = pc]
    <3>1. PICK i, read, victim, pc : PassBecomes(r, y(i, read, victim, pc))
      BY <1>5, <2>3 DEF CheckAnchor
    <3> DEFINE x == y(i, read, victim, pc)
    <3>2. DOMAIN x = PassFields /\ x.rows = pass.rows \ {i} /\ x.now = pass.now
      BY <1>5 DEF PassFields
    <3>3. PassBecomes(r, x)
      BY <3>1
    <3> HIDE DEF x
    <3> QED
      BY <1>5, <3>2, <3>3
  <2>4. CASE ExpireStale(r)
    <3> DEFINE x == [pass EXCEPT !.pc = "check", !.victim = NULL]
    <3>1. DOMAIN x = PassFields /\ x.rows = pass.rows /\ x.now = pass.now
      BY <1>5 DEF PassFields
    <3>2. PassBecomes(r, x)
      BY <1>5, <2>4 DEF ExpireStale
    <3> HIDE DEF x
    <3> QED
      BY <1>5, <3>1, <3>2
  <2>5. CASE FinishPass(r)
    <3> DEFINE x == [NewPass EXCEPT !.pc = "done"]
    <3>1. DOMAIN x = PassFields /\ x.rows = {} /\ x.now = 0
      BY DEF NewPass, PassFields
    <3>2. PassBecomes(r, x)
      BY <2>5 DEF FinishPass
    <3> HIDE DEF x
    <3> QED
      BY <3>1, <3>2
  <2> QED
    BY <1>1, <2>1, <2>2, <2>3, <2>4, <2>5
<1>8. ASSUME Kept PROVE PassesTyped'
  <2>1. PICK x : /\ PassBecomes(r, x) /\ DOMAIN x = PassFields
                 /\ x.rows \subseteq DOMAIN rows /\ x.now \in Nat
    BY <1>7
  <2>2. DOMAIN rows \subseteq DOMAIN rows'
    BY <1>8 DEF Kept
  <2> QED
    BY <2>1, <2>2 DEF HInv, Typed, PassesTyped, PassBecomes
<1> QED
  BY <1>2, <1>3, <1>4, <1>6, <1>8, HInvOthers

LEMMA HInvWorld ==
  HInv /\ (WorldNext \/ Settled \/ RecallStep \/ UNCHANGED vars) => Kept /\ HInv'
<1> SUFFICES ASSUME HInv, WorldNext \/ Settled \/ RecallStep \/ UNCHANGED vars
             PROVE  Kept /\ HInv'
  OBVIOUS
<1>1. /\ edits \in Nat /\ faults \in Nat /\ clock \in Nat /\ rows \in Seq(RowType)
      /\ disk \in [Paths -> Contents \cup {Missing}] /\ Stamped
  BY DEF HInv, Typed, Stamped
<1>2. UNCHANGED <<seeder, reanchorer>>
      /\ (UNCHANGED clock \/ \E t \in Instants : clock' = t)
      /\ UNCHANGED faults
  BY DEF WorldNext, EditFile, CloseClaim, ReadClock, Settled, seedVars, vars, RecallStep,
     BeginRecall, CheckRate, SearchDense, SearchLexical, LoadAndAssemble, RecordRecall
<1>3. Stamped'
  BY <1>1, <1>2, ClockReads DEF Stamped
<1>4. Kept => PassesTyped'
  BY <1>2, PassesWait DEF HInv, Typed
<1>5. CASE \E p \in Paths : EditFile(p)
  <2>1. PICK p \in Paths : EditFile(p)
    BY <1>5
  <2>2. UNCHANGED rows /\ edits' = edits + 1
    BY <2>1 DEF EditFile
  <2>3. PICK c \in Contents \cup {Missing} : disk' = [disk EXCEPT ![p] = c]
    BY <2>1 DEF EditFile
  <2>4. disk' \in [Paths -> Contents \cup {Missing}]
    BY <1>1, <2>3
  <2>5. edits' \in Nat /\ edits <= edits' /\ faults' \in Nat
    BY <1>1, <1>2, <2>2
  <2> QED
    BY <1>2, <1>3, <1>4, <2>2, <2>4, <2>5, HInvOthers
<1>6. CASE \E i \in DOMAIN rows : CloseClaim(i)
  <2>1. PICK i \in DOMAIN rows : CloseClaim(i)
    BY <1>6
  <2>2. PICK now \in Instants, reason \in CloseReasons : ExpireClaim(i, reason, now)
    BY <2>1 DEF CloseClaim
  <2>3. i \in Nat /\ now \in Nat
    BY <1>1, <2>1, RowTypes, ClockReads
  <2>4. UNCHANGED <<disk, edits>>
    BY <2>1 DEF CloseClaim
  <2>5. \E k, t \in Nat, cause \in CloseReasons \cup {"stale_anchor"} : ExpireClaim(k, cause, t)
    BY <2>2, <2>3
  <2> QED
    BY <1>1, <1>2, <1>3, <1>4, <2>4, <2>5, HInvOthers
<1>7. CASE Settled \/ RecallStep \/ UNCHANGED vars
  <2>1. UNCHANGED <<rows, disk, edits>>
    BY <1>7 DEF Settled, seedVars, vars, RecallStep, BeginRecall, CheckRate, SearchDense,
       SearchLexical, LoadAndAssemble, RecordRecall
  <2> QED
    BY <1>1, <1>2, <1>3, <1>4, <2>1, HInvOthers
<1> QED
  BY <1>5, <1>6, <1>7 DEF WorldNext

LEMMA HInvNext == HInv /\ [Next]_vars => Kept /\ HInv'
  BY HInvSeed, HInvReanchor, HInvWorld DEF Next, SeedStep

LEMMA AlwaysHInv == Spec => []HInv
  BY HInvInit, HInvNext, PTL DEF Spec

-----------------------------------------------------------------------------
(* The recalls *)

CallerFields == {"pc", "now", "want", "born", "closed", "dense", "lexical", "pkg"}

\* A recall began in the past and has seen rows that are committed.
CallerTyped(x) ==
    DOMAIN x = CallerFields /\ x.born \in 0..Len(rows) /\ x.now \in 0..clock

Metered ==
    /\ DOMAIN caller = Callers /\ \A c \in Callers : CallerTyped(caller[c])
    /\ \E S : metered \in Seq(S)
    /\ \A k \in DOMAIN metered : metered[k].at \in 0..clock

LEMMA TableGrows ==
  ASSUME HInv, Kept
  PROVE  Len(rows) \in Nat /\ Len(rows') \in Nat /\ Len(rows) <= Len(rows')
<1>1. /\ Len(rows) \in Nat /\ DOMAIN rows = 1..Len(rows)
      /\ Len(rows') \in Nat /\ DOMAIN rows' = 1..Len(rows')
  BY LenProperties DEF HInv, Typed, Kept
<1>2. Len(rows) = 0 \/ Len(rows) \in DOMAIN rows'
  BY <1>1 DEF Kept
<1> QED
  BY <1>1, <1>2

LEMMA MeteredInit == Init => Metered
<1> SUFFICES ASSUME Init PROVE Metered
  OBVIOUS
<1>1. \A c \in Callers : CallerTyped(caller[c])
  <2>1. DOMAIN NoRecall = CallerFields /\ NoRecall.born = 0 /\ NoRecall.now = 0
    BY DEF NoRecall, CallerFields
  <2>2. Len(rows) = 0 /\ clock = 0
    BY EmptySeq DEF Init, SeedInit
  <2> QED
    BY <2>1, <2>2 DEF Init, CallerTyped
<1>2. metered \in Seq({}) /\ DOMAIN metered = {}
  BY EmptySeq DEF Init
<1> QED
  BY <1>1, <1>2 DEF Init, Metered

LEMMA ClockForward == HInv /\ [Next]_vars => clock \in Nat /\ clock' \in Nat /\ clock <= clock'
<1> SUFFICES ASSUME HInv, [Next]_vars PROVE clock \in Nat /\ clock' \in Nat /\ clock <= clock'
  OBVIOUS
<1>1. clock \in Nat /\ clock' \in Nat
  BY HInvNext DEF HInv, Typed, Stamped
<1>2. clock <= clock'
  <2>1. UNCHANGED clock \/ \E t \in Instants : clock' = t
    BY DEF Next, vars, seedVars, SeedStep, SeedNext, Discover, LoadLiveChunks, ReadFile,
       ReadFails, Flush, WriteChunk, WriteRefused, FinishSeed, SeederDies, ReanchorNext,
       LoadAnchored, StampPass, CheckAnchor, ExpireStale, FinishPass, WorldNext, EditFile,
       CloseClaim, Settled, RecallStep, BeginRecall, CheckRate, SearchDense, SearchLexical,
       LoadAndAssemble, RecordRecall, ReadClock
  <2> QED
    BY <1>1, <2>1, ClockMoves
<1> QED
  BY <1>1, <1>2

LEMMA MeteredNext == HInv /\ Metered /\ [Next]_vars => Metered'
<1> SUFFICES ASSUME HInv, Metered, [Next]_vars PROVE Metered'
  OBVIOUS
<1>1. /\ Len(rows) \in Nat /\ Len(rows') \in Nat /\ Len(rows) <= Len(rows')
      /\ clock \in Nat /\ clock' \in Nat
  BY HInvNext, TableGrows, ClockForward
<1>2. clock <= clock'
  BY ClockForward
<1>3. ASSUME NEW x, CallerTyped(x) PROVE CallerTyped(x)'
  BY <1>1, <1>2, <1>3 DEF CallerTyped
<1>4. \A k \in DOMAIN metered : metered[k].at \in 0..clock'
  BY <1>1, <1>2 DEF Metered
<1>5. CASE UNCHANGED recallVars
  <2>1. ASSUME NEW c \in Callers PROVE CallerTyped(caller[c])'
    <3>1. PICK x : x = caller[c] /\ CallerTyped(x)
      BY DEF Metered
    <3>2. CallerTyped(x)' /\ caller'[c] = x
      BY <1>3, <1>5, <3>1 DEF recallVars
    <3> QED
      BY <3>2 DEF CallerTyped
  <2> QED
    BY <1>4, <1>5, <2>1 DEF Metered, recallVars
<1>6. CASE RecallStep
  <2>1. PICK c \in Callers :
          \/ BeginRecall(c) \/ CheckRate(c) \/ SearchDense(c) \/ SearchLexical(c)
          \/ LoadAndAssemble(c) \/ RecordRecall(c)
    BY <1>6 DEF RecallStep
  <2>2. PICK held : held = caller[c] /\ CallerTyped(held)
    BY DEF Metered
  <2>3. NoRecall.born = 0 /\ NoRecall.now = 0 /\ DOMAIN NoRecall = CallerFields
    BY DEF NoRecall, CallerFields
  <2>4. /\ \E x : CallerBecomes(c, x) /\ CallerTyped(x)'
        /\ UNCHANGED metered \/ RecordRecall(c)
    <3>1. CASE BeginRecall(c)
      <4> DEFINE y(now, ask) == [NoRecall EXCEPT !.pc = "rate", !.now = now,
                                                 !.want = Defaulted(Asked(ask))]
      <4>1. PICK now \in Instants, ask \in Asks :
              ReadClock(now) /\ CallerBecomes(c, y(now, ask))
        BY <3>1 DEF BeginRecall
      <4> DEFINE x == y(now, ask)
      <4>2. DOMAIN x = CallerFields /\ x.born = 0 /\ x.now = now
        BY DEF NoRecall, CallerFields
      <4>3. CallerBecomes(c, x) /\ clock' = now
        BY <4>1 DEF ReadClock
      <4>4. UNCHANGED metered
        BY <3>1 DEF BeginRecall
      <4> HIDE DEF x
      <4> QED
        BY <1>1, <4>2, <4>3, <4>4 DEF CallerTyped
    <3>2. CASE CheckRate(c)
      <4> DEFINE z(limit) == [held EXCEPT !.pc = "dense", !.want.limit = limit]
      <4>1. PICK limit : CallerBecomes(c, z(limit)) \/ CallerBecomes(c, NoRecall)
        BY <2>2, <3>2 DEF CheckRate
      <4> DEFINE x == z(limit)
      <4>2. DOMAIN x = CallerFields /\ x.born = held.born /\ x.now = held.now
        BY <2>2 DEF CallerTyped, CallerFields
      <4>3. CallerBecomes(c, x) \/ CallerBecomes(c, NoRecall)
        BY <4>1
      <4>4. UNCHANGED metered
        BY <3>2 DEF CheckRate
      <4> HIDE DEF x
      <4>5. CallerTyped(x)' /\ CallerTyped(NoRecall)'
        BY <1>1, <1>3, <2>2, <2>3, <4>2 DEF CallerTyped
      <4> QED
        BY <4>3, <4>4, <4>5
    <3>3. CASE SearchDense(c)
      <4> DEFINE y(hits) == [held EXCEPT !.pc = "lexical", !.dense = hits, !.born = Len(rows),
                                         !.closed = DOMAIN rows \ LiveClaims]
      <4>1. PICK hits : CallerBecomes(c, y(hits))
        BY <2>2, <3>3 DEF SearchDense
      <4> DEFINE x == y(hits)
      <4>2. DOMAIN x = CallerFields /\ x.born = Len(rows) /\ x.now = held.now
        BY <2>2 DEF CallerTyped, CallerFields
      <4>3. CallerBecomes(c, x) /\ UNCHANGED metered
        BY <3>3, <4>1 DEF SearchDense
      <4> HIDE DEF x
      <4> QED
        BY <1>1, <1>2, <2>2, <4>2, <4>3 DEF CallerTyped
    <3>4. CASE SearchLexical(c)
      <4> DEFINE y(hits) == [held EXCEPT !.pc = "load", !.lexical = hits]
      <4>1. PICK hits : CallerBecomes(c, y(hits))
        BY <2>2, <3>4 DEF SearchLexical
      <4> DEFINE x == y(hits)
      <4>2. DOMAIN x = CallerFields /\ x.born = held.born /\ x.now = held.now
        BY <2>2 DEF CallerTyped, CallerFields
      <4>3. CallerBecomes(c, x) /\ UNCHANGED metered
        BY <3>4, <4>1 DEF SearchLexical
      <4> HIDE DEF x
      <4> QED
        BY <1>1, <1>2, <2>2, <4>2, <4>3 DEF CallerTyped
    <3>5. CASE LoadAndAssemble(c)
      <4> DEFINE y(pkg) == [held EXCEPT !.pc = "record", !.pkg = pkg]
      <4>1. PICK pkg : CallerBecomes(c, y(pkg))
        BY <2>2, <3>5 DEF LoadAndAssemble
      <4> DEFINE x == y(pkg)
      <4>2. DOMAIN x = CallerFields /\ x.born = held.born /\ x.now = held.now
        BY <2>2 DEF CallerTyped, CallerFields
      <4>3. CallerBecomes(c, x) /\ UNCHANGED metered
        BY <3>5, <4>1 DEF LoadAndAssemble
      <4> HIDE DEF x
      <4> QED
        BY <1>1, <1>2, <2>2, <4>2, <4>3 DEF CallerTyped
    <3>6. CASE RecordRecall(c)
      <4>1. CallerBecomes(c, NoRecall)
        BY <3>6 DEF RecordRecall
      <4> QED
        BY <1>1, <2>3, <3>6, <4>1 DEF CallerTyped
    <3> QED
      BY <2>1, <3>1, <3>2, <3>3, <3>4, <3>5, <3>6
  <2>5. PICK x : CallerBecomes(c, x) /\ CallerTyped(x)'
    BY <2>4
  <2>6. DOMAIN caller' = Callers
    BY <2>5 DEF CallerBecomes, Metered
  <2>7. ASSUME NEW d \in Callers PROVE CallerTyped(caller[d])'
    <3>1. CASE d = c
      <4>1. caller'[d] = x
        BY <2>5, <3>1 DEF CallerBecomes, Metered
      <4> QED
        BY <2>5, <4>1 DEF CallerTyped
    <3>2. CASE d # c
      <4>1. PICK other : other = caller[d] /\ CallerTyped(other)
        BY DEF Metered
      <4>2. CallerTyped(other)' /\ caller'[d] = other
        BY <1>3, <2>5, <3>2, <4>1 DEF CallerBecomes, Metered
      <4> QED
        BY <4>2 DEF CallerTyped
    <3> QED
      BY <3>1, <3>2
  <2>8. (\E S : metered' \in Seq(S)) /\ \A k \in DOMAIN metered' : metered'[k].at \in 0..clock'
    <3>1. CASE UNCHANGED metered
      BY <1>4, <3>1 DEF Metered
    <3>2. CASE ~UNCHANGED metered
      <4> DEFINE e == [principal |-> AskedBy[c], at |-> held.now]
      <4>1. metered' = Append(metered, e)
        BY <2>2, <2>4, <3>2 DEF RecordRecall
      <4>2. e.at \in 0..clock'
        BY <1>1, <1>2, <2>2 DEF CallerTyped
      <4>3. PICK S : metered \in Seq(S)
        BY DEF Metered
      <4> HIDE DEF e
      <4>4. /\ Len(metered) \in Nat /\ DOMAIN metered = 1..Len(metered)
            /\ \E T : metered' \in Seq(T)
            /\ DOMAIN metered' = 1..(Len(metered) + 1)
            /\ \A k \in 1..Len(metered) : metered'[k] = metered[k]
            /\ metered'[Len(metered) + 1] = e
        BY <4>1, <4>3, Grown
      <4>5. ASSUME NEW k \in DOMAIN metered' PROVE metered'[k].at \in 0..clock'
        <5>1. k = Len(metered) + 1 \/ k \in DOMAIN metered
          BY <4>4
        <5> QED
          BY <1>4, <4>2, <4>4, <5>1
      <4> QED
        BY <4>4, <4>5
    <3> QED
      BY <3>1, <3>2
  <2> QED
    BY <2>6, <2>7, <2>8 DEF Metered
<1> QED
  BY <1>5, <1>6 DEF Next, vars

-----------------------------------------------------------------------------
(* The theorems *)

\* The tables, the files, what runs, passes and recalls hold, and the recalls
\* recorded: each of its type, whatever the files, the chunks and the processes
\* are (internal/seed, internal/recall, internal/store/pg).
THEOREM MemoryTyped == Spec => []TypeOK
<1>1. HInv /\ Metered => TypeOK
  BY TypedIsTypeOK DEF HInv, Metered, CallerTyped, TypeOK
<1>2. Spec => []Metered
  BY MeteredInit, MeteredNext, AlwaysHInv, PTL DEF Spec
<1> QED
  BY <1>1, <1>2, AlwaysHInv, PTL

\* However runs race, die and start over, memory of a chunk never goes back to
\* an older reading of its file (Seeder.Run, insertSeedTx and the index of
\* migration 3): a run reads after its snapshot, and it can only replace a row
\* that is still the live one.
THEOREM ReadingsMoveForward == Spec => []ReadsMoveForward
<1>1. HInv => ReadsMoveForward
  BY DEF HInv, History
<1> QED
  BY <1>1, AlwaysHInv, PTL

\* A claim that has a successor was closed at the instant its successor was
\* recorded, not before it was recorded itself, and the two stand in one place
\* and say different things (ReplaceSeed, Seeder.flush).
THEOREM SuccessionsHandOver == Spec => []SuccessorTakesOver
<1>1. HInv => SuccessorTakesOver
  BY SuccessionsTakeOver DEF HInv, History
<1> QED
  BY <1>1, AlwaysHInv, PTL
=============================================================================
