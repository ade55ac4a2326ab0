----------------------------- MODULE QuotaProofs -----------------------------
(* Theorems about the usage limits of the curation workers: the model calls, *)
(* the contributions and the size of a scope, for every value of the         *)
(* constants.                                                                *)
EXTENDS CurateProofs

-----------------------------------------------------------------------------
(* What a worker holds is bounded *)

LEMMA MostTyped ==
  /\ MostCandidates \in Nat
  /\ \A c \in Captures : \A s \in Extracts[c] : Len(s) \in Nat /\ Len(s) <= MostCandidates
<1>1. \A c \in Captures : \A s \in Extracts[c] : s \in Seq(Statements)
  BY CurateAssumption
<1>2. \A c \in Captures : \A s \in Extracts[c] : Len(s) \in Nat /\ Len(s) \in Lengths
  BY <1>1, LenProperties DEF Lengths
<1>3. Lengths \subseteq Nat
  BY <1>1, LenProperties DEF Lengths
<1>4. MostCandidates \in Lengths /\ \A m \in Lengths : m <= MostCandidates
  BY CurateAssumption DEF MostCandidates
<1> QED
  BY <1>2, <1>3, <1>4

Fits ==
    \A w \in Workers : /\ worker[w].tries < MaxTries
                       /\ Len(worker[w].todo) <= MostCandidates
                       /\ worker[w].now <= clock

LEMMA TimePasses ==
  ASSUME TypeOK, [Next]_vars
  PROVE  clock \in Nat /\ clock' \in Nat /\ clock <= clock'
<1>1. clock \in Nat /\ clock' \in Nat
  BY NextTyped DEF TypeOK
<1>2. ASSUME NEW t, ReadClock(t) PROVE clock <= clock'
  BY <1>1, <1>2 DEF ReadClock, Instants
<1>3. CASE UNCHANGED clock
  BY <1>1, <1>3
<1>4. ASSUME NEW w \in Workers, WorkStep(w) PROVE UNCHANGED clock \/ \E t : ReadClock(t)
  BY <1>4 DEF WorkStep, NominateStep, DedupStep, PruneStep, Fetch, Ack, AdmitCost,
     AdmitQuota, Nominate, StampCandidate, WriteCandidate, EnqueueDedup, EnqueuePrune,
     ScanDuplicates, LoadDuplicate, FoldDuplicate, FoldMisses, FinishDedup, CountScope,
     SelectVictims, PruneScope
<1>5. ASSUME NEW w \in Workers, FaultStep(w) PROVE UNCHANGED clock \/ \E t : ReadClock(t)
  BY <1>5 DEF FaultStep, NominateFails, WriteFails, PassFails, LoseAck
<1>6. UNCHANGED clock \/ \E t : ReadClock(t)
  BY <1>4, <1>5 DEF Next, vars, Quiescent, Capture, StampAttestation, Attest, Expire
<1> QED
  BY <1>1, <1>2, <1>3, <1>6

\* The steps that let nobody through, write nothing and call no model leave a
\* worker elsewhere, and the usage rows and the clock as they are.
Elsewhere == Pcs \ {"quota", "model", "stamp", "write"}

LimitedStep(w) ==
    \/ AdmitCost(w) \/ AdmitQuota(w) \/ Nominate(w) \/ NominateFails(w)
    \/ StampCandidate(w) \/ WriteCandidate(w)

LandsElsewhere(w, x) ==
    /\ Become(w, x) /\ x.pc \in Elsewhere
    /\ x.tries \in {0, worker[w].tries}
    /\ x.todo \in {<<>>, worker[w].todo}
    /\ x.now \in {0, worker[w].now}

LEMMA OtherSteps ==
  ASSUME TypeOK, NEW w \in Workers, WorkStep(w) \/ FaultStep(w), ~LimitedStep(w)
  PROVE  UNCHANGED ledger /\ UNCHANGED clock /\ \E x : LandsElsewhere(w, x)
<1>0. worker[w] \in WorkerState
  BY DEF TypeOK
<1>1. UNCHANGED ledger /\ UNCHANGED clock
  <2>1. CASE WorkStep(w)
    BY <2>1 DEF LimitedStep, WorkStep, NominateStep, DedupStep, PruneStep, Fetch, Ack,
       EnqueueDedup, EnqueuePrune, ScanDuplicates, LoadDuplicate, FoldDuplicate, FoldMisses,
       FinishDedup, CountScope, SelectVictims, PruneScope
  <2>2. CASE FaultStep(w)
    BY <2>2 DEF LimitedStep, FaultStep, WriteFails, PassFails, LoseAck
  <2> QED
    BY <2>1, <2>2
<1> SUFFICES \E x : LandsElsewhere(w, x)
  BY <1>1
<1>2. ASSUME Retry(w) PROVE \E x : LandsElsewhere(w, x)
  BY <1>2 DEF Retry, Idle, LandsElsewhere, Elsewhere, Pcs
<1>3. ASSUME NEW pc \in Elsewhere, Goto(w, pc) PROVE \E x : LandsElsewhere(w, x)
  <2> DEFINE x == [worker[w] EXCEPT !.pc = pc]
  <2>1. /\ x.pc = pc /\ x.tries = worker[w].tries /\ x.todo = worker[w].todo
        /\ x.now = worker[w].now
    BY <1>0 DEF WorkerState
  <2>2. Become(w, x)
    BY <1>3 DEF Goto
  <2> HIDE DEF x
  <2> QED
    BY <2>1, <2>2 DEF LandsElsewhere
<1>4. CASE Fetch(w)
  <2>1. PICK job \in queue :
          Become(w, [Idle EXCEPT !.pc = FirstStep(job.kind), !.job = job])
    BY <1>4 DEF Fetch
  <2>2. job \in Job /\ FirstStep(job.kind) \in {"cost", "scan", "count"}
    BY <2>1 DEF TypeOK, Job, FirstStep
  <2> DEFINE x == [Idle EXCEPT !.pc = FirstStep(job.kind), !.job = job]
  <2>3. x.pc \in Elsewhere /\ x.tries = 0 /\ x.todo = <<>> /\ x.now = 0
    BY <2>2 DEF Idle, Elsewhere, Pcs
  <2>4. Become(w, x)
    BY <2>1
  <2> HIDE DEF x
  <2>5. LandsElsewhere(w, x)
    BY <2>3, <2>4 DEF LandsElsewhere
  <2> QED
    BY <2>5
<1>5. CASE Ack(w)
  BY <1>5 DEF Ack, Idle, LandsElsewhere, Elsewhere, Pcs
<1>6. CASE EnqueueDedup(w) \/ EnqueuePrune(w) \/ FinishDedup(w)
  BY <1>3, <1>6 DEF EnqueueDedup, EnqueuePrune, FinishDedup, Elsewhere, Pcs
<1>7. ASSUME NEW x, Become(w, x), x.pc \in Elsewhere, x.tries = worker[w].tries,
             x.todo = worker[w].todo, x.now = worker[w].now
      PROVE  \E y : LandsElsewhere(w, y)
  <2>1. LandsElsewhere(w, x)
    BY <1>7 DEF LandsElsewhere
  <2> QED
    BY <2>1
<1>8. CASE ScanDuplicates(w)
  BY <1>0, <1>7, <1>8 DEF ScanDuplicates, WorkerState, Elsewhere, Pcs
<1>9. CASE LoadDuplicate(w)
  <2>1. PICK f \in worker[w].folds :
          \/ Become(w, [worker[w] EXCEPT !.pc = "apply", !.loaded = f])
          \/ Become(w, [worker[w] EXCEPT !.folds = @ \ {f}])
    BY <1>9 DEF LoadDuplicate
  <2>2. worker[w].pc = "fold"
    BY <1>9 DEF LoadDuplicate, At
  <2>3. CASE Become(w, [worker[w] EXCEPT !.pc = "apply", !.loaded = f])
    <3> DEFINE x == [worker[w] EXCEPT !.pc = "apply", !.loaded = f]
    <3>1. /\ x.pc \in Elsewhere /\ x.tries = worker[w].tries /\ x.todo = worker[w].todo
          /\ x.now = worker[w].now
      BY <1>0 DEF WorkerState, Elsewhere, Pcs
    <3>2. Become(w, x)
      BY <2>3
    <3> HIDE DEF x
    <3> QED
      BY <1>7, <3>1, <3>2
  <2>4. CASE Become(w, [worker[w] EXCEPT !.folds = @ \ {f}])
    <3> DEFINE x == [worker[w] EXCEPT !.folds = @ \ {f}]
    <3>1. /\ x.pc \in Elsewhere /\ x.tries = worker[w].tries /\ x.todo = worker[w].todo
          /\ x.now = worker[w].now
      BY <1>0, <2>2 DEF WorkerState, Elsewhere, Pcs
    <3>2. Become(w, x)
      BY <2>4
    <3> HIDE DEF x
    <3> QED
      BY <1>7, <3>1, <3>2
  <2> QED
    BY <2>1, <2>3, <2>4
<1>10. CASE FoldDuplicate(w)
  BY <1>0, <1>7, <1>10 DEF FoldDuplicate, WorkerState, Elsewhere, Pcs
<1>11. CASE FoldMisses(w)
  BY <1>2, <1>11 DEF FoldMisses
<1>12. CASE CountScope(w)
  <2>1. PICK n : \/ Goto(w, "ack")
                 \/ Become(w, [worker[w] EXCEPT !.pc = "select", !.target = n])
    BY <1>12 DEF CountScope, Goto
  <2>2. CASE Goto(w, "ack")
    BY <1>3, <2>2 DEF Elsewhere, Pcs
  <2>3. CASE Become(w, [worker[w] EXCEPT !.pc = "select", !.target = n])
    <3> DEFINE x == [worker[w] EXCEPT !.pc = "select", !.target = n]
    <3>1. /\ x.pc \in Elsewhere /\ x.tries = worker[w].tries /\ x.todo = worker[w].todo
          /\ x.now = worker[w].now
      BY <1>0 DEF WorkerState, Elsewhere, Pcs
    <3>2. Become(w, x)
      BY <2>3
    <3> HIDE DEF x
    <3> QED
      BY <1>7, <3>1, <3>2
  <2> QED
    BY <2>1, <2>2, <2>3
<1>13. CASE SelectVictims(w)
  BY <1>0, <1>7, <1>13 DEF SelectVictims, WorkerState, Elsewhere, Pcs
<1>14. CASE PruneScope(w)
  BY <1>0, <1>7, <1>14 DEF PruneScope, WorkerState, Elsewhere, Pcs
<1>15. CASE FaultStep(w)
  BY <1>2, <1>15 DEF LimitedStep, FaultStep, WriteFails, PassFails, LoseAck
<1> QED
  BY <1>4, <1>5, <1>6, <1>8, <1>9, <1>10, <1>11, <1>12, <1>13, <1>14, <1>15
     DEF LimitedStep, WorkStep, NominateStep, DedupStep, PruneStep

LEMMA FitsInit == Init => Fits
<1> SUFFICES ASSUME Init PROVE Fits
  OBVIOUS
<1>1. \A w \in Workers : worker[w] = Idle
  BY DEF Init
<1>2. Idle.tries = 0 /\ Idle.todo = <<>> /\ Idle.now = 0 /\ clock = 0
  BY DEF Idle, Init
<1>3. Len(<<>>) = 0
  BY EmptySeq
<1>4. 0 < MaxTries /\ 0 <= MostCandidates
  BY CurateAssumption, MostTyped
<1> QED
  BY <1>1, <1>2, <1>3, <1>4 DEF Fits

LEMMA FitsNext ==
  ASSUME TypeOK, Fits, [Next]_vars
  PROVE  Fits'
<1>0. /\ \A w \in Workers : worker[w] \in WorkerState
      /\ MaxTries \in Nat \ {0} /\ MostCandidates \in Nat
      /\ Len(<<>>) = 0
      /\ clock \in Nat /\ clock' \in Nat /\ clock <= clock'
  BY CurateAssumption, MostTyped, EmptySeq, TimePasses DEF TypeOK
<1>1. \A w \in Workers : /\ worker[w].tries \in Nat /\ worker[w].now \in Nat
                         /\ worker[w].todo \in Seq(Statements)
                         /\ Len(worker[w].todo) \in Nat
  BY <1>0, LenProperties DEF WorkerState
<1>2. CASE UNCHANGED worker
  BY <1>0, <1>1, <1>2 DEF Fits
<1>3. ASSUME NEW w \in Workers, NEW x, Become(w, x), x.tries < MaxTries,
             Len(x.todo) <= MostCandidates, x.now <= clock'
      PROVE  Fits'
  <2>1. worker'[w] = x /\ \A v \in Workers \ {w} : worker'[v] = worker[v]
    BY <1>3 DEF Become, TypeOK
  <2> QED
    BY <1>0, <1>1, <1>3, <2>1 DEF Fits
<1>4. \A w \in Workers : worker[w].tries < MaxTries /\ Len(worker[w].todo) <= MostCandidates
                         /\ worker[w].now <= clock'
  BY <1>0, <1>1 DEF Fits
<1>5. ASSUME NEW w \in Workers, WorkStep(w) \/ FaultStep(w), ~LimitedStep(w)
      PROVE  Fits'
  <2>1. PICK x : LandsElsewhere(w, x)
    BY <1>5, OtherSteps
  <2>2. x.tries < MaxTries /\ Len(x.todo) <= MostCandidates /\ x.now <= clock'
    BY <1>0, <1>4, <2>1 DEF LandsElsewhere
  <2>3. Become(w, x)
    BY <2>1 DEF LandsElsewhere
  <2> QED
    BY <1>3, <2>2, <2>3
<1>6. ASSUME NEW w \in Workers, LimitedStep(w)
      PROVE  Fits'
  <2>0. worker[w] \in WorkerState
    BY <1>0
  <2>1. ASSUME NEW pc, NEW now \in Nat, now <= clock',
               Become(w, [worker[w] EXCEPT !.pc = pc, !.now = now])
        PROVE  Fits'
    <3> DEFINE x == [worker[w] EXCEPT !.pc = pc, !.now = now]
    <3>1. x.tries = worker[w].tries /\ x.todo = worker[w].todo /\ x.now = now
      BY <2>0 DEF WorkerState
    <3>2. Become(w, x)
      BY <2>1
    <3> HIDE DEF x
    <3> QED
      BY <1>3, <1>4, <2>1, <3>1, <3>2
  <2>2. CASE AdmitCost(w)
    <3>1. PICK now \in Instants :
            /\ ReadClock(now)
            /\ \/ Become(w, [worker[w] EXCEPT !.pc = "quota", !.now = now])
               \/ Goto(w, "ack")
      BY <2>2 DEF AdmitCost
    <3>2. now \in Nat /\ now <= clock'
      BY <1>0, <3>1, ReadClockTyped DEF ReadClock
    <3>3. CASE Goto(w, "ack")
      <4> DEFINE x == [worker[w] EXCEPT !.pc = "ack"]
      <4>1. x.tries = worker[w].tries /\ x.todo = worker[w].todo /\ x.now = worker[w].now
        BY <2>0 DEF WorkerState
      <4>2. Become(w, x)
        BY <3>3 DEF Goto
      <4> HIDE DEF x
      <4> QED
        BY <1>3, <1>4, <4>1, <4>2
    <3> QED
      BY <2>1, <3>1, <3>2, <3>3
  <2>3. CASE AdmitQuota(w)
    <3>1. \/ Become(w, [worker[w] EXCEPT !.pc = "model", !.now = 0])
          \/ Become(w, [worker[w] EXCEPT !.pc = "ack", !.now = 0])
      BY <2>3 DEF AdmitQuota
    <3>2. 0 \in Nat /\ 0 <= clock'
      BY <1>0
    <3> QED
      BY <2>1, <3>1, <3>2
  <2>4. CASE Nominate(w)
    <3>1. PICK found \in Extracts[SourceOf(w)] :
            Become(w, [worker[w] EXCEPT !.todo = found, !.tries = 0,
                         !.pc = IF found = <<>> THEN "ack" ELSE "stamp"])
      BY <2>4 DEF Nominate
    <3>2. SourceOf(w) \in Captures
      BY <2>0, <2>4 DEF Nominate, At, WorkerState, SourceOf, JobOf, Job
    <3> DEFINE x == [worker[w] EXCEPT !.todo = found, !.tries = 0,
                                      !.pc = IF found = <<>> THEN "ack" ELSE "stamp"]
    <3>3. x.tries = 0 /\ x.todo = found /\ x.now = worker[w].now
      BY <2>0 DEF WorkerState
    <3>4. Become(w, x)
      BY <3>1
    <3> HIDE DEF x
    <3>5. x.tries < MaxTries /\ Len(x.todo) <= MostCandidates
      BY <1>0, <3>2, <3>3, MostTyped
    <3> QED
      BY <1>3, <1>4, <3>3, <3>4, <3>5
  <2>5. CASE NominateFails(w)
    <3>1. CASE Retry(w)
      <4>1. Become(w, Idle)
        BY <3>1 DEF Retry
      <4>2. Idle.tries < MaxTries /\ Len(Idle.todo) <= MostCandidates /\ Idle.now <= clock'
        BY <1>0 DEF Idle
      <4> QED
        BY <1>3, <4>1, <4>2
    <3>2. CASE worker[w].tries + 1 < MaxTries /\ Become(w, [worker[w] EXCEPT !.tries = @ + 1])
      <4> DEFINE x == [worker[w] EXCEPT !.tries = @ + 1]
      <4>1. x.tries = worker[w].tries + 1 /\ x.todo = worker[w].todo /\ x.now = worker[w].now
        BY <2>0 DEF WorkerState
      <4>2. Become(w, x)
        BY <3>2
      <4> HIDE DEF x
      <4> QED
        BY <1>3, <1>4, <3>2, <4>1, <4>2
    <3> QED
      BY <2>5, <3>1, <3>2 DEF NominateFails
  <2>6. CASE StampCandidate(w)
    <3>1. PICK now \in Instants :
            /\ ReadClock(now)
            /\ Become(w, [worker[w] EXCEPT !.pc = "write", !.now = now])
      BY <2>6 DEF StampCandidate
    <3>2. now \in Nat /\ now <= clock'
      BY <1>0, <3>1, ReadClockTyped DEF ReadClock
    <3> QED
      BY <2>1, <3>1, <3>2
  <2>7. CASE WriteCandidate(w)
    <3> DEFINE pc == IF Len(worker[w].todo) = 1 THEN "enqueueDedup" ELSE "stamp"
               x == [worker[w] EXCEPT !.todo = Tail(@), !.now = 0, !.pc = pc]
    <3>1. x.tries = worker[w].tries /\ x.todo = Tail(worker[w].todo) /\ x.now = 0
      BY <2>0 DEF WorkerState
    <3>2. Become(w, x)
      BY <2>7 DEF WriteCandidate
    <3> HIDE DEF x
    <3>3. worker[w].todo \in Seq(Statements) /\ worker[w].todo # <<>>
      BY <2>0, <2>7 DEF WriteCandidate, At, WorkerState
    <3>4. Len(Tail(worker[w].todo)) = Len(worker[w].todo) - 1
      BY <3>3, HeadTailProperties
    <3>5. x.tries < MaxTries /\ Len(x.todo) <= MostCandidates /\ x.now <= clock'
      BY <1>0, <1>1, <1>4, <3>1, <3>4
    <3> QED
      BY <1>3, <3>2, <3>5
  <2> QED
    BY <1>6, <2>2, <2>3, <2>4, <2>5, <2>6, <2>7 DEF LimitedStep
<1> QED
  BY <1>2, <1>5, <1>6 DEF Next, Quiescent, vars, Capture, StampAttestation, Attest, Expire

-----------------------------------------------------------------------------
(* Model calls: what is recorded and what is in hand *)

LEMMA LedgerGrows ==
  ASSUME [Next]_vars
  PROVE  ledger' = ledger \/ \E e : ledger' = ledger \cup {e}
<1>1. ASSUME NEW w \in Workers, WorkStep(w)
      PROVE  ledger' = ledger \/ \E e : ledger' = ledger \cup {e}
  BY <1>1 DEF WorkStep, NominateStep, DedupStep, PruneStep, Fetch, Ack, AdmitCost,
     AdmitQuota, Nominate, StampCandidate, WriteCandidate, EnqueueDedup, EnqueuePrune,
     ScanDuplicates, LoadDuplicate, FoldDuplicate, FoldMisses, FinishDedup, CountScope,
     SelectVictims, PruneScope, RecordUsage
<1>2. ASSUME NEW w \in Workers, FaultStep(w)
      PROVE  ledger' = ledger \/ \E e : ledger' = ledger \cup {e}
  BY <1>2 DEF FaultStep, NominateFails, WriteFails, PassFails, LoseAck
<1> QED
  BY <1>1, <1>2 DEF Next, vars, Quiescent, Capture, StampAttestation, Attest, Expire

FiniteLedger == IsFiniteSet(ledger)

LEMMA LedgerFinite ==
  ASSUME FiniteLedger, [Next]_vars
  PROVE  FiniteLedger'
<1>1. CASE ledger' = ledger
  BY <1>1 DEF FiniteLedger
<1>2. ASSUME NEW e, ledger' = ledger \cup {e}
      PROVE  FiniteLedger'
  <2>1. IsFiniteSet(ledger \cup {e})
    BY FS_AddElement DEF FiniteLedger
  <2> QED
    BY <1>2, <2>1 DEF FiniteLedger
<1> QED
  BY <1>1, <1>2, LedgerGrows

\* The calls a principal's workers made that still count, and those that the
\* workers let through, or about to be, may still make: a try each.
Slots == Workers \X (0..(MaxTries - 1))

Called(p) == Events("inference", p, clock, CostWindow)

LetThrough == {"quota", "model"}

MayCall(p) ==
    {x \in Slots : /\ worker[x[1]].pc \in LetThrough
                   /\ CapturedBy[SourceOf(x[1])] = p
                   /\ worker[x[1]].tries <= x[2]}

CallsAllowed(p) ==
    Cardinality(Called(p)) + Cardinality(MayCall(p))
        <= MaxInferenceCalls - 1 + Cardinality(Slots)

CallsInv == FiniteLedger /\ \A p \in Principals : CallsAllowed(p)

LEMMA SlotsCounted ==
  /\ IsFiniteSet(Slots) /\ Cardinality(Slots) \in Nat
  /\ Cardinality(Slots) = Cardinality(Workers) * MaxTries
<1>1. MaxTries \in Nat \ {0} /\ IsFiniteSet(Workers)
  BY CurateAssumption
<1>2. IsFiniteSet(0..(MaxTries - 1)) /\ Cardinality(0..(MaxTries - 1)) = MaxTries
  <2>1. 0 \in Int /\ MaxTries - 1 \in Int /\ ~(0 > MaxTries - 1)
    BY <1>1
  <2>2. /\ IsFiniteSet(0..(MaxTries - 1))
        /\ Cardinality(0..(MaxTries - 1)) =
              IF 0 > MaxTries - 1 THEN 0 ELSE (MaxTries - 1) - 0 + 1
    BY <2>1, FS_Interval
  <2> QED
    BY <1>1, <2>1, <2>2
<1>3. /\ IsFiniteSet(Workers \X (0..(MaxTries - 1)))
      /\ Cardinality(Workers \X (0..(MaxTries - 1)))
            = Cardinality(Workers) * Cardinality(0..(MaxTries - 1))
  BY <1>1, <1>2, FS_Product
<1> QED
  BY <1>2, <1>3, FS_CardinalityType DEF Slots

LEMMA CallsFinite ==
  ASSUME FiniteLedger, NEW p
  PROVE  /\ IsFiniteSet(Called(p)) /\ IsFiniteSet(MayCall(p))
         /\ Cardinality(Called(p)) \in Nat /\ Cardinality(MayCall(p)) \in Nat
<1>1. Called(p) \subseteq ledger /\ MayCall(p) \subseteq Slots
  BY DEF Called, Events, MayCall
<1>2. IsFiniteSet(Called(p)) /\ IsFiniteSet(MayCall(p))
  BY <1>1, SlotsCounted, FS_Subset DEF FiniteLedger
<1> QED
  BY <1>2, FS_CardinalityType

\* No call recorded and nobody let through: what counted may stop counting.
LEMMA NobodyCalls ==
  ASSUME TypeOK, CallsInv, FiniteLedger', clock \in Nat, clock' \in Nat, clock <= clock',
         \A e \in ledger' : e.kind = "inference" => e \in ledger,
         \A w \in Workers : worker'[w].pc \in LetThrough =>
            /\ worker[w].pc \in LetThrough
            /\ worker'[w].job = worker[w].job
            /\ worker[w].tries <= worker'[w].tries /\ worker'[w].tries \in Nat
  PROVE  CallsInv'
<1> SUFFICES ASSUME NEW p \in Principals PROVE CallsAllowed(p)'
  BY DEF CallsInv
<1>0. \A w \in Workers : worker[w].tries \in Nat
  BY DEF TypeOK, WorkerState
<1>1. Called(p)' \subseteq Called(p)
  <2>1. CostWindow \in Nat /\ \A e \in ledger : e.at \in Nat
    BY CurateAssumption DEF TypeOK, UsageRow
  <2> QED
    BY <2>1 DEF Called, Events, InWindow, WindowStart
<1>2. MayCall(p)' \subseteq MayCall(p)
  <2> SUFFICES ASSUME NEW x \in Slots, worker'[x[1]].pc \in LetThrough,
                      CapturedBy[worker'[x[1]].job.source] = p, worker'[x[1]].tries <= x[2]
               PROVE  x \in MayCall(p)
    BY DEF MayCall, SourceOf, JobOf
  <2>1. x[1] \in Workers /\ x[2] \in 0..(MaxTries - 1)
    BY DEF Slots
  <2>2. x[2] \in Int
    BY <2>1, CurateAssumption
  <2> QED
    BY <1>0, <2>1, <2>2 DEF MayCall, SourceOf, JobOf
<1>3. IsFiniteSet(Called(p)) /\ IsFiniteSet(MayCall(p))
  BY CallsFinite DEF CallsInv
<1>4. /\ Cardinality(Called(p)') + Cardinality(MayCall(p)')
            <= Cardinality(Called(p)) + Cardinality(MayCall(p))
      /\ Cardinality(Called(p)') \in Nat /\ Cardinality(MayCall(p)') \in Nat
      /\ Cardinality(Called(p)) \in Nat /\ Cardinality(MayCall(p)) \in Nat
  BY <1>1, <1>2, <1>3, NeitherGrows
<1>5. CallsAllowed(p)
  BY DEF CallsInv
<1>6. Cardinality(Slots) \in Nat /\ MaxInferenceCalls \in Int
  BY SlotsCounted, CurateAssumption
<1> QED
  BY <1>4, <1>5, <1>6 DEF CallsAllowed

\* Let through: the calls it counted are at least those that count, and below
\* the ceiling; in hand there is no more than every worker's tries.
LEMMA AdmitCostAllows ==
  ASSUME MaxInferenceCalls > 0, TypeOK, CallsInv, FiniteLedger',
         clock \in Nat, clock' \in Nat, clock <= clock', NEW w \in Workers, AdmitCost(w)
  PROVE  CallsInv'
<1>0. worker[w] \in WorkerState
  BY DEF TypeOK
<1> DEFINE counted(now) == Events("inference", CapturedBy[SourceOf(w)], now, CostWindow)
           n(now) == Cardinality(counted(now))
           allowed(now) == Cost(n(now), n(now) * TokensPerCall,
                                MaxInferenceCalls, MaxInputTokens).allowed
           x(now) == [worker[w] EXCEPT !.pc = "quota", !.now = now]
<1>1. PICK now \in Instants :
        /\ ReadClock(now)
        /\ IF allowed(now)
           THEN Become(w, x(now)) /\ UNCHANGED <<ledger, faults>>
           ELSE Goto(w, "ack") /\ RecordUsage(Event("denied", w, now))
  BY DEF AdmitCost
<1>2. now \in Nat /\ now = clock'
  BY <1>1, ReadClockTyped DEF ReadClock
<1>3. CASE ~allowed(now)
  <2>1. Goto(w, "ack") /\ RecordUsage(Event("denied", w, now))
    BY <1>1, <1>3
  <2>2. worker'[w].pc = "ack" /\ \A v \in Workers \ {w} : worker'[v] = worker[v]
    BY <1>0, <2>1 DEF Goto, Become, WorkerState, TypeOK
  <2>3. \A v \in Workers : worker[v].tries \in Nat
    BY DEF TypeOK, WorkerState
  <2>4. \A v \in Workers : worker'[v].pc \in LetThrough =>
            /\ worker[v].pc \in LetThrough /\ worker'[v].job = worker[v].job
            /\ worker[v].tries <= worker'[v].tries /\ worker'[v].tries \in Nat
    BY <2>2, <2>3 DEF LetThrough
  <2>5. \A e \in ledger' : e.kind = "inference" => e \in ledger
    <3>1. Event("denied", w, now).kind = "denied"
      BY DEF Event
    <3> QED
      BY <2>1, <3>1 DEF RecordUsage
  <2> QED
    BY <2>4, <2>5, NobodyCalls
<1>4. CASE allowed(now)
  <2>1. Become(w, x(now)) /\ UNCHANGED ledger
    BY <1>1, <1>4
  <2>2. \A v \in Workers \ {w} : worker'[v] = worker[v]
    BY <2>1 DEF Become, TypeOK
  <2>3. worker'[w].job = worker[w].job
    BY <1>0, <2>1 DEF Become, WorkerState, TypeOK
  <2>4. IsFiniteSet(counted(now)) /\ n(now) \in Nat
    <3>1. counted(now) \subseteq ledger
      BY DEF Events
    <3>2. IsFiniteSet(counted(now))
      BY <3>1, FS_Subset DEF CallsInv, FiniteLedger
    <3> QED
      BY <3>2, FS_CardinalityType
  <2>5. n(now) <= MaxInferenceCalls - 1
    <3>1. MaxInferenceCalls \in Int
      BY CurateAssumption
    <3>2. AtMost(n(now), MaxInferenceCalls).allowed
      BY <1>4 DEF Cost
    <3> HIDE DEF n
    <3> QED
      BY <2>4, <3>1, <3>2 DEF AtMost
  <2> SUFFICES ASSUME NEW p \in Principals PROVE CallsAllowed(p)'
    BY DEF CallsInv
  <2>6. CASE p = CapturedBy[SourceOf(w)]
    <3>1. Called(p)' \subseteq counted(now)
      BY <1>2, <2>1, <2>6 DEF Called, Events
    <3>2. MayCall(p)' \subseteq Slots
      BY DEF MayCall
    <3>3. IsFiniteSet(Slots) /\ Cardinality(Slots) \in Nat /\ MaxInferenceCalls \in Int
      BY SlotsCounted, CurateAssumption
    <3> HIDE DEF counted
    <3>4. /\ Cardinality(Called(p)') \in Nat /\ Cardinality(MayCall(p)') \in Nat
          /\ Cardinality(Called(p)') + Cardinality(MayCall(p)')
                <= Cardinality(counted(now)) + Cardinality(Slots)
      BY <2>4, <3>1, <3>2, <3>3, NeitherGrows
    <3> QED
      BY <2>4, <2>5, <3>3, <3>4 DEF CallsAllowed
  <2>7. CASE p # CapturedBy[SourceOf(w)]
    <3>1. Called(p)' \subseteq Called(p)
      <4>1. CostWindow \in Nat /\ \A e \in ledger : e.at \in Nat
        BY CurateAssumption DEF TypeOK, UsageRow
      <4> QED
        BY <2>1, <4>1 DEF Called, Events, InWindow, WindowStart
    <3>2. MayCall(p)' \subseteq MayCall(p)
      <4> SUFFICES ASSUME NEW y \in Slots, worker'[y[1]].pc \in LetThrough,
                          CapturedBy[worker'[y[1]].job.source] = p,
                          worker'[y[1]].tries <= y[2]
                   PROVE  y \in MayCall(p)
        BY DEF MayCall, SourceOf, JobOf
      <4>1. y[1] \in Workers /\ y[1] # w
        BY <2>3, <2>7 DEF Slots, SourceOf, JobOf
      <4>2. worker'[y[1]] = worker[y[1]]
        BY <2>2, <4>1
      <4> QED
        BY <4>2 DEF MayCall, SourceOf, JobOf
    <3>3. IsFiniteSet(Called(p)) /\ IsFiniteSet(MayCall(p))
      BY CallsFinite DEF CallsInv
    <3>4. /\ Cardinality(Called(p)') + Cardinality(MayCall(p)')
                <= Cardinality(Called(p)) + Cardinality(MayCall(p))
          /\ Cardinality(Called(p)') \in Nat /\ Cardinality(MayCall(p)') \in Nat
          /\ Cardinality(Called(p)) \in Nat /\ Cardinality(MayCall(p)) \in Nat
      BY <3>1, <3>2, <3>3, NeitherGrows
    <3>5. CallsAllowed(p)
      BY DEF CallsInv
    <3>6. Cardinality(Slots) \in Nat /\ MaxInferenceCalls \in Int
      BY SlotsCounted, CurateAssumption
    <3> QED
      BY <3>4, <3>5, <3>6 DEF CallsAllowed
  <2> QED
    BY <2>6, <2>7
<1> QED
  BY <1>3, <1>4

\* A call goes from the hand to the ledger, or the row is lost on the way.
LEMMA CallMade ==
  ASSUME TypeOK, CallsInv, FiniteLedger', Fits,
         clock \in Nat, clock' \in Nat, clock <= clock',
         NEW w \in Workers, worker[w].pc = "model",
         NEW e, ledger' \subseteq ledger \cup {e}, e.principal = CapturedBy[SourceOf(w)],
         NEW x, Become(w, x),
         \/ x.pc \notin LetThrough
         \/ x.job = worker[w].job /\ x.tries = worker[w].tries + 1
  PROVE  CallsInv'
<1> SUFFICES ASSUME NEW p \in Principals PROVE CallsAllowed(p)'
  BY DEF CallsInv
<1> DEFINE slot == <<w, worker[w].tries>>
<1>0. \A v \in Workers : worker[v].tries \in Nat
  BY DEF TypeOK, WorkerState
<1>1. worker'[w] = x /\ \A v \in Workers \ {w} : worker'[v] = worker[v]
  BY DEF Become, TypeOK
<1>2. Called(p)' \subseteq Called(p) \cup {e}
  <2>1. CostWindow \in Nat /\ \A d \in ledger : d.at \in Nat
    BY CurateAssumption DEF TypeOK, UsageRow
  <2> QED
    BY <2>1 DEF Called, Events, InWindow, WindowStart
<1>3. p # CapturedBy[SourceOf(w)] => Called(p)' \subseteq Called(p)
  <2>1. CostWindow \in Nat /\ \A d \in ledger : d.at \in Nat
    BY CurateAssumption DEF TypeOK, UsageRow
  <2> QED
    BY <2>1 DEF Called, Events, InWindow, WindowStart
<1>4. MayCall(p)' \subseteq MayCall(p) \ {slot}
  <2> SUFFICES ASSUME NEW y \in Slots, worker'[y[1]].pc \in LetThrough,
                      CapturedBy[worker'[y[1]].job.source] = p, worker'[y[1]].tries <= y[2]
               PROVE  y \in MayCall(p) /\ y # slot
    BY DEF MayCall, SourceOf, JobOf
  <2>1. y[1] \in Workers /\ y[2] \in Int
    BY CurateAssumption DEF Slots
  <2>2. CASE y[1] = w
    <3>1. x.job = worker[w].job /\ x.tries = worker[w].tries + 1
      BY <1>1, <2>2
    <3>2. worker[w].tries + 1 <= y[2]
      BY <1>1, <2>2, <3>1
    <3>3. worker[w].tries <= y[2] /\ worker[w].tries # y[2]
      BY <1>0, <2>1, <3>2
    <3>4. y # slot
      BY <3>3
    <3>5. CapturedBy[SourceOf(w)] = p
      BY <1>1, <2>2, <3>1 DEF SourceOf, JobOf
    <3> QED
      BY <2>2, <3>3, <3>4, <3>5 DEF MayCall, LetThrough
  <2>3. CASE y[1] # w
    BY <1>1, <2>1, <2>3 DEF MayCall, SourceOf, JobOf
  <2> QED
    BY <2>2, <2>3
<1>5. p = CapturedBy[SourceOf(w)] => slot \in MayCall(p)
  <2>1. worker[w].tries \in 0..(MaxTries - 1)
    BY <1>0, CurateAssumption DEF Fits
  <2>2. slot \in Slots /\ slot[1] = w /\ slot[2] = worker[w].tries
    BY <2>1 DEF Slots
  <2>3. worker[w].tries <= worker[w].tries
    BY <1>0
  <2> QED
    BY <2>2, <2>3 DEF MayCall, LetThrough
<1> HIDE DEF slot
<1>6. /\ IsFiniteSet(Called(p)) /\ IsFiniteSet(MayCall(p))
      /\ Cardinality(Called(p)) \in Nat /\ Cardinality(MayCall(p)) \in Nat
  BY CallsFinite DEF CallsInv
<1>7. /\ Cardinality(Called(p)') + Cardinality(MayCall(p)')
            <= Cardinality(Called(p)) + Cardinality(MayCall(p))
      /\ Cardinality(Called(p)') \in Nat /\ Cardinality(MayCall(p)') \in Nat
  <2>1. CASE p = CapturedBy[SourceOf(w)]
    <3>1. OneMore(Called(p), Called(p)')
      BY <1>2 DEF OneMore
    <3>2. OneFewer(MayCall(p), MayCall(p)')
      BY <1>4, <1>5, <2>1 DEF OneFewer
    <3> QED
      BY <1>6, <3>1, <3>2, OneMovesOver
  <2>2. CASE p # CapturedBy[SourceOf(w)]
    <3>1. Called(p)' \subseteq Called(p) /\ MayCall(p)' \subseteq MayCall(p)
      BY <1>3, <1>4, <2>2
    <3> QED
      BY <1>6, <3>1, NeitherGrows
  <2> QED
    BY <2>1, <2>2
<1>8. CallsAllowed(p)
  BY DEF CallsInv
<1>9. Cardinality(Slots) \in Nat /\ MaxInferenceCalls \in Int
  BY SlotsCounted, CurateAssumption
<1> QED
  BY <1>6, <1>7, <1>8, <1>9 DEF CallsAllowed

LEMMA CallsInit ==
  ASSUME MaxInferenceCalls > 0
  PROVE  Init => CallsInv
<1> SUFFICES ASSUME Init PROVE CallsInv
  OBVIOUS
<1>1. FiniteLedger
  BY FS_EmptySet DEF Init, FiniteLedger
<1>2. ASSUME NEW p \in Principals PROVE CallsAllowed(p)
  <2>1. Called(p) = {} /\ MayCall(p) = {}
    <3>1. \A w \in Workers : worker[w].pc = "idle"
      BY DEF Init, Idle
    <3> QED
      BY <3>1 DEF Init, Called, Events, MayCall, Slots, LetThrough
  <2>2. Cardinality({}) = 0 /\ Cardinality(Slots) \in Nat /\ MaxInferenceCalls \in Int
    BY FS_EmptySet, SlotsCounted, CurateAssumption
  <2> QED
    BY <2>1, <2>2 DEF CallsAllowed
<1> QED
  BY <1>1, <1>2 DEF CallsInv

LEMMA CallsNext ==
  ASSUME MaxInferenceCalls > 0, TypeOK, Fits, CallsInv, [Next]_vars
  PROVE  CallsInv'
<1>0. /\ clock \in Nat /\ clock' \in Nat /\ clock <= clock'
      /\ FiniteLedger'
      /\ \A v \in Workers : worker[v] \in WorkerState /\ worker[v].tries \in Nat
  BY TimePasses, LedgerFinite DEF CallsInv, TypeOK, WorkerState
<1>1. CASE UNCHANGED worker /\ UNCHANGED ledger
  BY <1>0, <1>1, NobodyCalls
<1>2. ASSUME NEW w \in Workers, NEW x, Become(w, x),
             \A e \in ledger' : e.kind = "inference" => e \in ledger,
             x.pc \in LetThrough => /\ worker[w].pc \in LetThrough
                                    /\ x.job = worker[w].job /\ x.tries = worker[w].tries
      PROVE  CallsInv'
  <2>1. worker'[w] = x /\ \A v \in Workers \ {w} : worker'[v] = worker[v]
    BY <1>2 DEF Become, TypeOK
  <2>2. \A v \in Workers : worker'[v].pc \in LetThrough =>
            /\ worker[v].pc \in LetThrough /\ worker'[v].job = worker[v].job
            /\ worker[v].tries <= worker'[v].tries /\ worker'[v].tries \in Nat
    BY <1>0, <1>2, <2>1
  <2> QED
    BY <1>0, <1>2, <2>2, NobodyCalls
<1>3. ASSUME NEW w \in Workers, WorkStep(w) \/ FaultStep(w), ~LimitedStep(w)
      PROVE  CallsInv'
  <2>1. PICK x : LandsElsewhere(w, x)
    BY <1>3, OtherSteps
  <2>2. Become(w, x) /\ x.pc \notin LetThrough
    BY <2>1 DEF LandsElsewhere, Elsewhere, LetThrough
  <2>3. ledger' = ledger
    BY <1>3, OtherSteps
  <2> QED
    BY <1>2, <2>2, <2>3
<1>4. ASSUME NEW w \in Workers, AdmitCost(w) PROVE CallsInv'
  BY <1>0, <1>4, AdmitCostAllows
<1>5. ASSUME NEW w \in Workers, AdmitQuota(w) PROVE CallsInv'
  <2> DEFINE x(pc) == [worker[w] EXCEPT !.pc = pc, !.now = 0]
  <2>1. PICK pc \in {"model", "ack"} : Become(w, x(pc))
    BY <1>5 DEF AdmitQuota
  <2>2. x(pc).pc = pc /\ x(pc).job = worker[w].job /\ x(pc).tries = worker[w].tries
    BY <1>0 DEF WorkerState
  <2>3. worker[w].pc = "quota"
    BY <1>5 DEF AdmitQuota, At
  <2>4. \A e \in ledger' : e.kind = "inference" => e \in ledger
    <3>1. Event("denied", w, worker[w].now).kind = "denied"
      BY DEF Event
    <3> QED
      BY <1>5, <3>1 DEF AdmitQuota, RecordUsage
  <2> HIDE DEF x
  <2> QED
    BY <1>2, <2>1, <2>2, <2>3, <2>4 DEF LetThrough
<1>6. ASSUME NEW w \in Workers, StampCandidate(w) \/ WriteCandidate(w) PROVE CallsInv'
  <2>1. CASE StampCandidate(w)
    <3>1. PICK now : Become(w, [worker[w] EXCEPT !.pc = "write", !.now = now])
      BY <2>1 DEF StampCandidate
    <3> DEFINE x == [worker[w] EXCEPT !.pc = "write", !.now = now]
    <3>2. x.pc = "write"
      BY <1>0 DEF WorkerState
    <3>3. Become(w, x) /\ ledger' = ledger
      BY <2>1, <3>1 DEF StampCandidate
    <3> HIDE DEF x
    <3> QED
      BY <1>2, <3>2, <3>3 DEF LetThrough
  <2>2. CASE WriteCandidate(w)
    <3> DEFINE pc == IF Len(worker[w].todo) = 1 THEN "enqueueDedup" ELSE "stamp"
               x == [worker[w] EXCEPT !.todo = Tail(@), !.now = 0, !.pc = pc]
    <3>1. x.pc \in {"enqueueDedup", "stamp"}
      BY <1>0 DEF WorkerState
    <3>2. Become(w, x) /\ ledger' = ledger
      BY <2>2 DEF WriteCandidate
    <3> HIDE DEF x
    <3> QED
      BY <1>2, <3>1, <3>2 DEF LetThrough
  <2> QED
    BY <1>6, <2>1, <2>2
<1>7. ASSUME NEW w \in Workers, Nominate(w) PROVE CallsInv'
  <2>1. PICK now : RecordUsage(Event("inference", w, now))
    BY <1>7 DEF Nominate
  <2> DEFINE e == Event("inference", w, now)
             pc(found) == IF found = <<>> THEN "ack" ELSE "stamp"
             x(found) == [worker[w] EXCEPT !.todo = found, !.tries = 0, !.pc = pc(found)]
  <2>2. PICK found : Become(w, x(found))
    BY <1>7 DEF Nominate
  <2>3. x(found).pc \in {"ack", "stamp"}
    BY <1>0 DEF WorkerState
  <2>4. ledger' \subseteq ledger \cup {e} /\ worker[w].pc = "model"
    BY <1>7, <2>1 DEF RecordUsage, Nominate, At
  <2>5. e.principal = CapturedBy[SourceOf(w)]
    BY DEF Event
  <2>6. x(found).pc \notin LetThrough
    BY <2>3 DEF LetThrough
  <2> HIDE DEF e, x
  <2> QED
    BY <1>0, <2>2, <2>4, <2>5, <2>6, CallMade
<1>8. ASSUME NEW w \in Workers, NominateFails(w) PROVE CallsInv'
  <2>1. PICK now : ledger' = ledger \cup {Event("inference", w, now)}
    BY <1>8 DEF NominateFails
  <2> DEFINE e == Event("inference", w, now)
             y == [worker[w] EXCEPT !.tries = @ + 1]
  <2>2. ledger' \subseteq ledger \cup {e} /\ worker[w].pc = "model"
    BY <1>8, <2>1 DEF NominateFails, At
  <2>3. e.principal = CapturedBy[SourceOf(w)]
    BY DEF Event
  <2>4. y.job = worker[w].job /\ y.tries = worker[w].tries + 1
    BY <1>0 DEF WorkerState
  <2>5. Idle.pc \notin LetThrough
    BY DEF Idle, LetThrough
  <2>6. Become(w, y) \/ Become(w, Idle)
    BY <1>8 DEF NominateFails, Retry
  <2> HIDE DEF e, y
  <2> QED
    BY <1>0, <2>2, <2>3, <2>4, <2>5, <2>6, CallMade
<1>9. CASE \E w \in Workers : WorkStep(w) \/ FaultStep(w)
  BY <1>3, <1>4, <1>5, <1>6, <1>7, <1>8, <1>9 DEF LimitedStep
<1>10. CASE /\ [Next]_vars
            /\ ~\E w \in Workers : WorkStep(w) \/ FaultStep(w)
  BY <1>1, <1>10 DEF Next, Quiescent, vars, Capture, StampAttestation, Attest, Expire
<1> QED
  BY <1>9, <1>10

\* The cost ceiling is read once and one reading admits all the tries of a
\* nomination, so workers pass it together: by no more than the tries of every
\* worker (internal/curate/limit.go Admit, internal/curate/worker.go Work).
\* A ceiling that is not positive disables the control.
THEOREM CallsOvershootLittle ==
  ASSUME MaxInferenceCalls > 0
  PROVE  Spec => []CallsOvershootBounded
<1>1. CallsInv => CallsOvershootBounded
  <2> SUFFICES ASSUME CallsInv, NEW p \in Principals
               PROVE  Cardinality(Called(p))
                         <= MaxInferenceCalls - 1 + Cardinality(Workers) * MaxTries
    BY DEF CallsOvershootBounded, Called
  <2>1. CallsAllowed(p)
    BY DEF CallsInv
  <2>2. Cardinality(Called(p)) \in Nat /\ Cardinality(MayCall(p)) \in Nat
    BY CallsFinite DEF CallsInv
  <2>3. /\ Cardinality(Slots) \in Nat /\ MaxInferenceCalls \in Int
        /\ Cardinality(Slots) = Cardinality(Workers) * MaxTries
    BY SlotsCounted, CurateAssumption
  <2>4. Cardinality(Called(p)) <= MaxInferenceCalls - 1 + Cardinality(Slots)
    BY <2>1, <2>2, <2>3 DEF CallsAllowed
  <2> QED
    BY <2>3, <2>4
<1>2. Init => TypeOK /\ Fits /\ CallsInv
  BY InitTyped, FitsInit, CallsInit
<1>3. TypeOK /\ Fits /\ CallsInv /\ [Next]_vars => (TypeOK /\ Fits /\ CallsInv)'
  BY NextTyped, FitsNext, CallsNext
<1> QED
  BY <1>1, <1>2, <1>3, PTL DEF Spec

-----------------------------------------------------------------------------
(* Contributions: what is written and what is in hand *)

\* The claims of a principal, attestations aside, that still count, and those
\* its workers let through may still write: a candidate each.
Places == Workers \X (1..MostCandidates)

Contributed(p) ==
    {i \in DOMAIN claims :
        /\ claims[i].contributor = p /\ ~claims[i].attested
        /\ InWindow(claims[i].recordedAt, clock, ContributionWindow)}

MayWrite(p) ==
    {x \in Places : /\ CapturedBy[SourceOf(x[1])] = p
                    /\ \/ worker[x[1]].pc = "model"
                       \/ /\ worker[x[1]].pc \in {"stamp", "write"}
                          /\ x[2] <= Len(worker[x[1]].todo)}

WritesAllowed(p) ==
    Cardinality(Contributed(p)) + Cardinality(MayWrite(p))
        <= ContributionQuota - 1 + Cardinality(Places)

QuotaInv == \A p \in Principals : WritesAllowed(p)

LEMMA PlacesCounted ==
  /\ IsFiniteSet(Places) /\ Cardinality(Places) \in Nat
  /\ Cardinality(Places) = Cardinality(Workers) * MostCandidates
<1>1. MostCandidates \in Nat /\ IsFiniteSet(Workers)
  BY MostTyped, CurateAssumption
<1>2. IsFiniteSet(1..MostCandidates) /\ Cardinality(1..MostCandidates) = MostCandidates
  <2>1. 1 \in Int /\ MostCandidates \in Int
    BY <1>1
  <2>2. /\ IsFiniteSet(1..MostCandidates)
        /\ Cardinality(1..MostCandidates) =
              IF 1 > MostCandidates THEN 0 ELSE MostCandidates - 1 + 1
    BY <2>1, FS_Interval
  <2> QED
    BY <1>1, <2>2
<1>3. /\ IsFiniteSet(Workers \X (1..MostCandidates))
      /\ Cardinality(Workers \X (1..MostCandidates))
            = Cardinality(Workers) * Cardinality(1..MostCandidates)
  BY <1>1, <1>2, FS_Product
<1> QED
  BY <1>2, <1>3, FS_CardinalityType DEF Places

LEMMA WritesFinite ==
  ASSUME TypeOK, NEW p
  PROVE  /\ IsFiniteSet(Contributed(p)) /\ IsFiniteSet(MayWrite(p))
         /\ Cardinality(Contributed(p)) \in Nat /\ Cardinality(MayWrite(p)) \in Nat
<1>1. Contributed(p) \subseteq Ids /\ MayWrite(p) \subseteq Places
  BY DEF Contributed, MayWrite, TypeOK, StoreTypeOK
<1>2. IsFiniteSet(Contributed(p)) /\ IsFiniteSet(MayWrite(p))
  BY <1>1, PlacesCounted, StoreAssumption, FS_Subset
<1> QED
  BY <1>2, FS_CardinalityType

\* Rows keep who contributed them, when and where, and whether as an attestation.
LEMMA WhoAndWhen ==
  ASSUME TypeOK, StoreStep, NEW i \in DOMAIN claims
  PROVE  /\ i \in DOMAIN claims'
         /\ claims'[i].contributor = claims[i].contributor
         /\ claims'[i].attested = claims[i].attested
         /\ claims'[i].recordedAt = claims[i].recordedAt
         /\ claims'[i].scope = claims[i].scope
<1>0. claims[i] \in Claim
  BY DEF TypeOK, StoreTypeOK
<1>1. CASE UNCHANGED claims
  BY <1>1
<1>2. ASSUME NEW j \in Ids, NEW row, WriteClaim(j, row)
      PROVE  i \in DOMAIN claims' /\ claims'[i] = claims[i]
  BY <1>2 DEF WriteClaim
<1>3. ASSUME NEW d, NEW s, ApplySupersession(d, s)
      PROVE  /\ i \in DOMAIN claims'
             /\ claims'[i] \in {claims[i], [claims[i] EXCEPT !.live = FALSE,
                                 !.reason = "duplicate", !.supersededBy = s]}
  BY <1>3 DEF ApplySupersession
<1>4. ASSUME NEW j, NEW reason, ExpireClaim(j, reason)
      PROVE  /\ i \in DOMAIN claims'
             /\ claims'[i] \in {claims[i],
                    [claims[i] EXCEPT !.live = FALSE, !.reason = reason]}
  BY <1>4 DEF ExpireClaim
<1>5. ASSUME NEW victims, PruneRows(victims)
      PROVE  /\ i \in DOMAIN claims'
             /\ claims'[i] \in {claims[i],
                    [claims[i] EXCEPT !.live = FALSE, !.reason = "pruned"]}
  BY <1>5 DEF PruneRows
<1> QED
  BY <1>0, <1>1, <1>2, <1>3, <1>4, <1>5 DEF StoreStep, Claim

\* Only a worker's write adds a claim that the quota counts, or one outside the
\* scope of attestations.
LEMMA OnlyWritesCount ==
  ASSUME TypeOK, [Next]_vars, \A w \in Workers : ~WriteCandidate(w),
         NEW i \in DOMAIN claims' \ DOMAIN claims
  PROVE  claims'[i].attested /\ claims'[i].scope = AttestedScope
<1>1. ASSUME NEW c \in Clients, Attest(c)
      PROVE  claims'[i].attested /\ claims'[i].scope = AttestedScope
  <2> DEFINE row == Attestation(client[c])
  <2>1. row.attested /\ row.scope = AttestedScope
    BY DEF Attestation
  <2>2. PICK j \in Ids : WriteClaim(j, row)
    BY <1>1 DEF Attest
  <2> HIDE DEF row
  <2> QED
    BY <2>1, <2>2 DEF WriteClaim
<1>2. CASE DOMAIN claims' = DOMAIN claims
  BY <1>2
<1>3. ASSUME NEW w \in Workers, WorkStep(w) \/ FaultStep(w)
      PROVE  DOMAIN claims' = DOMAIN claims
  <2>1. CASE FoldDuplicate(w) \/ PruneScope(w)
    BY <2>1 DEF FoldDuplicate, PruneScope, ApplySupersession, PruneRows
  <2>2. CASE WorkStep(w) /\ ~FoldDuplicate(w) /\ ~PruneScope(w)
    <3>1. ~WriteCandidate(w)
      OBVIOUS
    <3> QED
      BY <2>2, <3>1 DEF WorkStep, NominateStep, DedupStep, PruneStep, Fetch, Ack,
         AdmitCost, AdmitQuota, Nominate, StampCandidate, EnqueueDedup, EnqueuePrune,
         ScanDuplicates, LoadDuplicate, FoldMisses, FinishDedup, CountScope, SelectVictims
  <2>3. CASE FaultStep(w)
    BY <2>3 DEF FaultStep, NominateFails, WriteFails, PassFails, LoseAck
  <2> QED
    BY <1>3, <2>1, <2>2, <2>3
<1>4. ASSUME NEW j \in Ids, NEW reason, Expire(j, reason)
      PROVE  DOMAIN claims' = DOMAIN claims
  BY <1>4 DEF Expire, ExpireClaim
<1>5. CASE \/ UNCHANGED vars
           \/ \E c \in Captures : Capture(c)
           \/ \E c \in Clients : StampAttestation(c)
  BY <1>2, <1>5 DEF vars, Capture, StampAttestation
<1> QED
  BY <1>1, <1>2, <1>3, <1>4, <1>5 DEF Next, Quiescent

\* What a worker may still write is part of what it might have.
NoMoreWrites(w) ==
    \/ worker'[w].pc \notin {"model", "stamp", "write"}
    \/ worker[w].pc = "model" /\ worker'[w].job = worker[w].job
    \/ /\ worker[w].pc \in {"stamp", "write"} /\ worker'[w].pc \in {"stamp", "write"}
       /\ worker'[w].job = worker[w].job
       /\ Len(worker'[w].todo) <= Len(worker[w].todo)

LEMMA NobodyWrites ==
  ASSUME TypeOK, TypeOK', StoreStep, QuotaInv,
         clock \in Nat, clock' \in Nat, clock <= clock',
         \A i \in DOMAIN claims' \ DOMAIN claims : claims'[i].attested,
         \A w \in Workers : NoMoreWrites(w)
  PROVE  QuotaInv'
<1> SUFFICES ASSUME NEW p \in Principals PROVE WritesAllowed(p)'
  BY DEF QuotaInv
<1>0. \A w \in Workers : Len(worker[w].todo) \in Nat /\ Len(worker'[w].todo) \in Nat
  BY LenProperties DEF TypeOK, WorkerState
<1>1. Contributed(p)' \subseteq Contributed(p)
  <2>1. ContributionWindow \in Nat
        /\ \A i \in DOMAIN claims : claims[i].recordedAt \in Nat
    BY CurateAssumption DEF TypeOK, StoreTypeOK, Claim
  <2> SUFFICES ASSUME NEW i \in DOMAIN claims', claims'[i].contributor = p,
                      ~claims'[i].attested,
                      InWindow(claims'[i].recordedAt, clock', ContributionWindow)
               PROVE  i \in Contributed(p)
    BY DEF Contributed
  <2>2. i \in DOMAIN claims
    OBVIOUS
  <2>3. /\ claims'[i].contributor = claims[i].contributor
        /\ claims'[i].attested = claims[i].attested
        /\ claims'[i].recordedAt = claims[i].recordedAt
    BY <2>2, WhoAndWhen
  <2>4. InWindow(claims[i].recordedAt, clock, ContributionWindow)
    BY <2>1, <2>2, <2>3 DEF InWindow, WindowStart
  <2> QED
    BY <2>2, <2>3, <2>4 DEF Contributed
<1>2. MayWrite(p)' \subseteq MayWrite(p)
  <2> SUFFICES ASSUME NEW x \in Places, CapturedBy[worker'[x[1]].job.source] = p,
                      \/ worker'[x[1]].pc = "model"
                      \/ /\ worker'[x[1]].pc \in {"stamp", "write"}
                         /\ x[2] <= Len(worker'[x[1]].todo)
               PROVE  x \in MayWrite(p)
    BY DEF MayWrite, SourceOf, JobOf
  <2>1. x[1] \in Workers /\ x[2] \in Int
    BY MostTyped DEF Places
  <2>2. worker'[x[1]].job = worker[x[1]].job
    BY <2>1 DEF NoMoreWrites
  <2>3. \/ worker[x[1]].pc = "model"
        \/ worker[x[1]].pc \in {"stamp", "write"} /\ x[2] <= Len(worker[x[1]].todo)
    BY <1>0, <2>1 DEF NoMoreWrites
  <2> QED
    BY <2>2, <2>3 DEF MayWrite, SourceOf, JobOf
<1>3. IsFiniteSet(Contributed(p)) /\ IsFiniteSet(MayWrite(p))
  BY WritesFinite
<1>4. /\ Cardinality(Contributed(p)') + Cardinality(MayWrite(p)')
            <= Cardinality(Contributed(p)) + Cardinality(MayWrite(p))
      /\ Cardinality(Contributed(p)') \in Nat /\ Cardinality(MayWrite(p)') \in Nat
      /\ Cardinality(Contributed(p)) \in Nat /\ Cardinality(MayWrite(p)) \in Nat
  BY <1>1, <1>2, <1>3, NeitherGrows
<1>5. WritesAllowed(p)
  BY DEF QuotaInv
<1>6. Cardinality(Places) \in Nat /\ ContributionQuota \in Int
  BY PlacesCounted, CurateAssumption
<1> QED
  BY <1>4, <1>5, <1>6 DEF WritesAllowed

\* Let through: the claims it counted, attestations and all, are at least
\* those that count, and below the quota; in hand there is no more than the
\* candidates of every worker.
LEMMA AdmitQuotaAllows ==
  ASSUME ContributionQuota > 0, TypeOK, TypeOK', StoreStep, Fits, QuotaInv,
         clock \in Nat, NEW w \in Workers, AdmitQuota(w)
  PROVE  QuotaInv'
<1>0. worker[w] \in WorkerState /\ worker[w].now \in Nat /\ worker[w].now <= clock
  BY DEF TypeOK, WorkerState, Fits
<1> DEFINE start == WindowStart(worker[w].now, ContributionWindow)
           accepted == ContributionsInWindow(CapturedBy[SourceOf(w)], start)
           counted == {i \in DOMAIN claims :
                         /\ claims[i].contributor = CapturedBy[SourceOf(w)]
                         /\ claims[i].recordedAt > start}
           x(pc) == [worker[w] EXCEPT !.pc = pc, !.now = 0]
<1>1. UNCHANGED claims /\ UNCHANGED clock
  BY DEF AdmitQuota
<1>2. /\ \A i \in DOMAIN claims' \ DOMAIN claims : claims'[i].attested
      /\ clock' \in Nat /\ clock <= clock'
  BY <1>1
<1>3. \A v \in Workers : worker'[v] = worker[v] => NoMoreWrites(v)
  <2>1. \A v \in Workers : Len(worker[v].todo) \in Nat
    BY LenProperties DEF TypeOK, WorkerState
  <2>2. \A v \in Workers : Len(worker[v].todo) <= Len(worker[v].todo)
    BY <2>1
  <2> QED
    BY <2>2 DEF NoMoreWrites
<1>4. CASE ~Contribution(accepted, ContributionQuota).allowed
  <2>1. Become(w, x("ack"))
    BY <1>4 DEF AdmitQuota
  <2>2. worker'[w].pc = "ack" /\ \A v \in Workers \ {w} : worker'[v] = worker[v]
    BY <1>0, <2>1 DEF Become, WorkerState, TypeOK
  <2>3. \A v \in Workers : NoMoreWrites(v)
    BY <1>3, <2>2 DEF NoMoreWrites
  <2> QED
    BY <1>2, <2>3, NobodyWrites
<1>5. CASE Contribution(accepted, ContributionQuota).allowed
  <2>1. Become(w, x("model"))
    BY <1>5 DEF AdmitQuota
  <2>2. \A v \in Workers \ {w} : worker'[v] = worker[v]
    BY <2>1 DEF Become, TypeOK
  <2>3. worker'[w].job = worker[w].job
    BY <1>0, <2>1 DEF Become, WorkerState, TypeOK
  <2>4. IsFiniteSet(counted) /\ Cardinality(counted) \in Nat
    <3>1. counted \subseteq Ids
      BY DEF TypeOK, StoreTypeOK
    <3>2. IsFiniteSet(counted)
      BY <3>1, StoreAssumption, FS_Subset
    <3> QED
      BY <3>2, FS_CardinalityType
  <2>5. accepted = Cardinality(counted)
    BY DEF ContributionsInWindow
  <2> HIDE DEF accepted, counted
  <2>6. Cardinality(counted) <= ContributionQuota - 1
    BY <1>5, <2>4, <2>5, CurateAssumption DEF Contribution, AtMost
  <2> SUFFICES ASSUME NEW p \in Principals PROVE WritesAllowed(p)'
    BY DEF QuotaInv
  <2>7. IsFiniteSet(Places) /\ Cardinality(Places) \in Nat /\ ContributionQuota \in Int
    BY PlacesCounted, CurateAssumption
  <2>8. CASE p = CapturedBy[SourceOf(w)]
    <3>1. Contributed(p)' \subseteq counted
      <4>1. ContributionWindow \in Nat
            /\ \A i \in DOMAIN claims : claims[i].recordedAt \in Nat
        BY CurateAssumption DEF TypeOK, StoreTypeOK, Claim
      <4> QED
        BY <1>0, <1>1, <2>8, <4>1 DEF Contributed, counted, InWindow, WindowStart
    <3>2. MayWrite(p)' \subseteq Places
      BY DEF MayWrite
    <3>3. /\ Cardinality(Contributed(p)') \in Nat /\ Cardinality(MayWrite(p)') \in Nat
          /\ Cardinality(Contributed(p)') + Cardinality(MayWrite(p)')
                <= Cardinality(counted) + Cardinality(Places)
      BY <2>4, <2>7, <3>1, <3>2, NeitherGrows
    <3> QED
      BY <2>4, <2>6, <2>7, <3>3 DEF WritesAllowed
  <2>9. CASE p # CapturedBy[SourceOf(w)]
    <3>1. Contributed(p)' = Contributed(p)
      BY <1>1 DEF Contributed
    <3>2. MayWrite(p)' \subseteq MayWrite(p)
      <4> SUFFICES ASSUME NEW y \in Places, CapturedBy[worker'[y[1]].job.source] = p,
                          \/ worker'[y[1]].pc = "model"
                          \/ /\ worker'[y[1]].pc \in {"stamp", "write"}
                             /\ y[2] <= Len(worker'[y[1]].todo)
                   PROVE  y \in MayWrite(p)
        BY DEF MayWrite, SourceOf, JobOf
      <4>1. y[1] \in Workers /\ y[1] # w
        BY <2>3, <2>9 DEF Places, SourceOf, JobOf
      <4>2. worker'[y[1]] = worker[y[1]]
        BY <2>2, <4>1
      <4> QED
        BY <4>2 DEF MayWrite, SourceOf, JobOf
    <3>3. IsFiniteSet(Contributed(p)) /\ IsFiniteSet(MayWrite(p))
      BY WritesFinite
    <3>4. Contributed(p)' \subseteq Contributed(p)
      BY <3>1
    <3>5. /\ Cardinality(Contributed(p)') + Cardinality(MayWrite(p)')
                <= Cardinality(Contributed(p)) + Cardinality(MayWrite(p))
          /\ Cardinality(Contributed(p)') \in Nat /\ Cardinality(MayWrite(p)') \in Nat
          /\ Cardinality(Contributed(p)) \in Nat /\ Cardinality(MayWrite(p)) \in Nat
      BY <3>2, <3>3, <3>4, NeitherGrows
    <3>6. WritesAllowed(p)
      BY DEF QuotaInv
    <3> QED
      BY <2>7, <3>5, <3>6 DEF WritesAllowed
  <2> QED
    BY <2>8, <2>9
<1> QED
  BY <1>4, <1>5

\* A candidate goes from the hand to the table.
LEMMA CandidateWritten ==
  ASSUME TypeOK, TypeOK', StoreStep, Fits, QuotaInv, clock \in Nat,
         NEW w \in Workers, WriteCandidate(w)
  PROVE  QuotaInv'
<1> DEFINE todo == worker[w].todo
           slot == <<w, Len(todo)>>
           row == Candidate(SourceOf(w), Head(todo), worker[w].now)
           pc == IF Len(todo) = 1 THEN "enqueueDedup" ELSE "stamp"
           x == [worker[w] EXCEPT !.todo = Tail(@), !.now = 0, !.pc = pc]
<1>0. worker[w] \in WorkerState /\ worker[w].pc = "write"
  BY DEF TypeOK, WriteCandidate, At
<1>1. /\ todo \in Seq(Statements) /\ todo # <<>>
      /\ Len(todo) \in Nat /\ Len(todo) <= MostCandidates
  BY <1>0, LenProperties DEF WorkerState, Fits
<1>2. Len(Tail(todo)) = Len(todo) - 1 /\ Len(todo) > 0
  <2>1. Len(todo) # 0
    BY <1>1, EmptySeq
  <2> QED
    BY <1>1, <2>1, HeadTailProperties
<1>3. x.todo = Tail(todo) /\ x.job = worker[w].job /\ x.pc \in {"enqueueDedup", "stamp"}
  BY <1>0 DEF WorkerState
<1>4. Become(w, x) /\ UNCHANGED clock
  BY DEF WriteCandidate
<1>5. PICK i \in Ids : WriteClaim(i, row)
  BY DEF WriteCandidate
<1>6. row.contributor = CapturedBy[SourceOf(w)]
  BY DEF Candidate
<1> HIDE DEF x, row
<1>7. worker'[w] = x /\ \A v \in Workers \ {w} : worker'[v] = worker[v]
  BY <1>4 DEF Become, TypeOK
<1>8. /\ DOMAIN claims' = DOMAIN claims \cup {i} /\ claims'[i] = row
      /\ \A j \in DOMAIN claims : claims'[j] = claims[j]
  BY <1>5 DEF WriteClaim
<1> SUFFICES ASSUME NEW p \in Principals PROVE WritesAllowed(p)'
  BY DEF QuotaInv
<1>9. /\ Contributed(p)' \subseteq Contributed(p) \cup {i}
      /\ p # CapturedBy[SourceOf(w)] => Contributed(p)' \subseteq Contributed(p)
  BY <1>4, <1>6, <1>8 DEF Contributed
<1>10. MayWrite(p)' \subseteq MayWrite(p) \ {slot}
  <2> SUFFICES ASSUME NEW y \in Places, CapturedBy[worker'[y[1]].job.source] = p,
                      \/ worker'[y[1]].pc = "model"
                      \/ /\ worker'[y[1]].pc \in {"stamp", "write"}
                         /\ y[2] <= Len(worker'[y[1]].todo)
               PROVE  y \in MayWrite(p) /\ y # slot
    BY DEF MayWrite, SourceOf, JobOf
  <2>1. y[1] \in Workers /\ y[2] \in Int
    BY MostTyped DEF Places
  <2>2. CASE y[1] = w
    <3>1. y[2] <= Len(todo) - 1
      BY <1>2, <1>3, <1>7, <2>2
    <3>2. y[2] <= Len(todo) /\ y[2] # Len(todo)
      BY <1>1, <2>1, <3>1
    <3>3. CapturedBy[SourceOf(w)] = p
      BY <1>3, <1>7, <2>2 DEF SourceOf, JobOf
    <3>4. y # slot
      BY <3>2
    <3> QED
      BY <1>0, <2>2, <3>2, <3>3, <3>4 DEF MayWrite
  <2>3. CASE y[1] # w
    BY <1>7, <2>1, <2>3 DEF MayWrite, SourceOf, JobOf
  <2> QED
    BY <2>2, <2>3
<1>11. p = CapturedBy[SourceOf(w)] => slot \in MayWrite(p)
  <2>1. Len(todo) \in 1..MostCandidates
    BY <1>1, <1>2, MostTyped
  <2>2. slot \in Places /\ slot[1] = w /\ slot[2] = Len(todo)
    BY <2>1 DEF Places
  <2>3. Len(todo) <= Len(todo)
    BY <1>1
  <2> HIDE DEF slot
  <2> QED
    BY <1>0, <2>2, <2>3 DEF MayWrite
<1> HIDE DEF slot
<1>12. /\ IsFiniteSet(Contributed(p)) /\ IsFiniteSet(MayWrite(p))
       /\ Cardinality(Contributed(p)) \in Nat /\ Cardinality(MayWrite(p)) \in Nat
  BY WritesFinite
<1>13. /\ Cardinality(Contributed(p)') + Cardinality(MayWrite(p)')
             <= Cardinality(Contributed(p)) + Cardinality(MayWrite(p))
       /\ Cardinality(Contributed(p)') \in Nat /\ Cardinality(MayWrite(p)') \in Nat
  <2>1. CASE p = CapturedBy[SourceOf(w)]
    <3>1. OneMore(Contributed(p), Contributed(p)')
      BY <1>9 DEF OneMore
    <3>2. OneFewer(MayWrite(p), MayWrite(p)')
      BY <1>10, <1>11, <2>1 DEF OneFewer
    <3> QED
      BY <1>12, <3>1, <3>2, OneMovesOver
  <2>2. CASE p # CapturedBy[SourceOf(w)]
    <3>1. Contributed(p)' \subseteq Contributed(p) /\ MayWrite(p)' \subseteq MayWrite(p)
      BY <1>9, <1>10, <2>2
    <3> QED
      BY <1>12, <3>1, NeitherGrows
  <2> QED
    BY <2>1, <2>2
<1>14. WritesAllowed(p)
  BY DEF QuotaInv
<1>15. Cardinality(Places) \in Nat /\ ContributionQuota \in Int
  BY PlacesCounted, CurateAssumption
<1> QED
  BY <1>12, <1>13, <1>14, <1>15 DEF WritesAllowed

LEMMA QuotaInit ==
  ASSUME ContributionQuota > 0
  PROVE  Init => QuotaInv
<1> SUFFICES ASSUME Init, NEW p \in Principals PROVE WritesAllowed(p)
  BY DEF QuotaInv
<1>1. Contributed(p) = {} /\ MayWrite(p) = {}
  <2>1. \A w \in Workers : worker[w].pc = "idle"
    BY DEF Init, Idle
  <2> QED
    BY <2>1 DEF Init, Contributed, MayWrite, Places
<1>2. Cardinality({}) = 0 /\ Cardinality(Places) \in Nat /\ ContributionQuota \in Int
  BY FS_EmptySet, PlacesCounted, CurateAssumption
<1> QED
  BY <1>1, <1>2 DEF WritesAllowed

LEMMA QuotaNext ==
  ASSUME ContributionQuota > 0, TypeOK, Fits, QuotaInv, [Next]_vars
  PROVE  QuotaInv'
<1>0. /\ clock \in Nat /\ clock' \in Nat /\ clock <= clock'
      /\ TypeOK' /\ StoreStep
      /\ \A v \in Workers : worker[v] \in WorkerState
  BY TimePasses, NextTyped, StepsOfTheStore DEF TypeOK
<1>1. \A v \in Workers : worker'[v] = worker[v] => NoMoreWrites(v)
  <2>1. \A v \in Workers : Len(worker[v].todo) \in Nat
    BY LenProperties DEF TypeOK, WorkerState
  <2>2. \A v \in Workers : Len(worker[v].todo) <= Len(worker[v].todo)
    BY <2>1
  <2> QED
    BY <2>2 DEF NoMoreWrites
<1>2. CASE \E w \in Workers : WriteCandidate(w)
  BY <1>0, <1>2, CandidateWritten
<1>3. CASE \E w \in Workers : AdmitQuota(w)
  BY <1>0, <1>3, AdmitQuotaAllows
<1>4. CASE \A w \in Workers : ~WriteCandidate(w) /\ ~AdmitQuota(w)
  <2>1. \A i \in DOMAIN claims' \ DOMAIN claims : claims'[i].attested
    BY <1>4, OnlyWritesCount
  <2>2. SUFFICES \A v \in Workers : NoMoreWrites(v)
    BY <1>0, <2>1, NobodyWrites
  <2>3. CASE UNCHANGED worker
    BY <1>1, <2>3
  <2>4. ASSUME NEW w \in Workers, NEW x, Become(w, x),
               \/ x.pc \notin {"model", "stamp", "write"}
               \/ worker[w].pc = "model" /\ x.job = worker[w].job
               \/ /\ worker[w].pc \in {"stamp", "write"} /\ x.pc \in {"stamp", "write"}
                  /\ x.job = worker[w].job /\ x.todo = worker[w].todo
        PROVE  \A v \in Workers : NoMoreWrites(v)
    <3>1. worker'[w] = x /\ \A v \in Workers \ {w} : worker'[v] = worker[v]
      BY <2>4 DEF Become, TypeOK
    <3>2. Len(worker[w].todo) \in Nat
      BY <1>0, LenProperties DEF WorkerState
    <3>3. NoMoreWrites(w)
      BY <2>4, <3>1, <3>2 DEF NoMoreWrites
    <3> QED
      BY <1>1, <3>1, <3>3
  <2>5. ASSUME NEW w \in Workers, WorkStep(w) \/ FaultStep(w), ~LimitedStep(w)
        PROVE  \A v \in Workers : NoMoreWrites(v)
    <3>1. PICK x : LandsElsewhere(w, x)
      BY <2>5, OtherSteps
    <3>2. Become(w, x) /\ x.pc \notin {"model", "stamp", "write"}
      BY <3>1 DEF LandsElsewhere, Elsewhere
    <3> QED
      BY <2>4, <3>2
  <2>6. ASSUME NEW w \in Workers, AdmitCost(w)
        PROVE  \A v \in Workers : NoMoreWrites(v)
    <3>1. PICK now : \/ Become(w, [worker[w] EXCEPT !.pc = "quota", !.now = now])
                     \/ Become(w, [worker[w] EXCEPT !.pc = "ack"])
      BY <2>6 DEF AdmitCost, Goto
    <3> DEFINE y == [worker[w] EXCEPT !.pc = "quota", !.now = now]
               z == [worker[w] EXCEPT !.pc = "ack"]
    <3>2. y.pc = "quota" /\ z.pc = "ack"
      BY <1>0 DEF WorkerState
    <3>3. Become(w, y) \/ Become(w, z)
      BY <3>1
    <3> HIDE DEF y, z
    <3> QED
      BY <2>4, <3>2, <3>3
  <2>7. ASSUME NEW w \in Workers, Nominate(w)
        PROVE  \A v \in Workers : NoMoreWrites(v)
    <3> DEFINE pc(found) == IF found = <<>> THEN "ack" ELSE "stamp"
               y(found) == [worker[w] EXCEPT !.todo = found, !.tries = 0, !.pc = pc(found)]
    <3>1. PICK found : Become(w, y(found))
      BY <2>7 DEF Nominate
    <3>2. y(found).job = worker[w].job /\ worker[w].pc = "model"
      BY <1>0, <2>7 DEF WorkerState, Nominate, At
    <3> HIDE DEF y
    <3> QED
      BY <2>4, <3>1, <3>2
  <2>8. ASSUME NEW w \in Workers, NominateFails(w)
        PROVE  \A v \in Workers : NoMoreWrites(v)
    <3> DEFINE y == [worker[w] EXCEPT !.tries = @ + 1]
    <3>1. Become(w, y) \/ Become(w, Idle)
      BY <2>8 DEF NominateFails, Retry
    <3>2. y.job = worker[w].job /\ worker[w].pc = "model" /\ Idle.pc = "idle"
      BY <1>0, <2>8 DEF WorkerState, NominateFails, At, Idle
    <3> HIDE DEF y
    <3> QED
      BY <2>4, <3>1, <3>2
  <2>9. ASSUME NEW w \in Workers, StampCandidate(w)
        PROVE  \A v \in Workers : NoMoreWrites(v)
    <3>1. PICK now : Become(w, [worker[w] EXCEPT !.pc = "write", !.now = now])
      BY <2>9 DEF StampCandidate
    <3> DEFINE y == [worker[w] EXCEPT !.pc = "write", !.now = now]
    <3>2. y.job = worker[w].job /\ y.pc = "write" /\ y.todo = worker[w].todo
      BY <1>0 DEF WorkerState
    <3>3. Become(w, y) /\ worker[w].pc = "stamp"
      BY <2>9, <3>1 DEF StampCandidate, At
    <3> HIDE DEF y
    <3> QED
      BY <2>4, <3>2, <3>3
  <2>10. CASE \E w \in Workers : WorkStep(w) \/ FaultStep(w)
    BY <1>4, <2>5, <2>6, <2>7, <2>8, <2>9, <2>10 DEF LimitedStep
  <2>11. CASE ~\E w \in Workers : WorkStep(w) \/ FaultStep(w)
    <3>1. UNCHANGED worker
      BY <2>11 DEF Next, Quiescent, vars, Capture, StampAttestation, Attest, Expire
    <3> QED
      BY <2>3, <3>1
  <2> QED
    BY <2>10, <2>11
<1> QED
  BY <1>2, <1>3, <1>4

\* The quota is read before the model is called and the claims are written
\* later, candidate by candidate: workers pass it together, by no more than the
\* candidates of every worker (internal/curate/limit.go Admit,
\* internal/curate/execute.go WriteCandidates).  A quota that is not positive
\* disables the control.
THEOREM QuotaOvershootLittle ==
  ASSUME ContributionQuota > 0
  PROVE  Spec => []QuotaOvershootBounded
<1>1. TypeOK /\ QuotaInv => QuotaOvershootBounded
  <2> SUFFICES ASSUME TypeOK, QuotaInv, NEW p \in Principals
               PROVE  Cardinality(Contributed(p))
                         <= ContributionQuota - 1 + Cardinality(Workers) * MostCandidates
    BY DEF QuotaOvershootBounded, Contributed
  <2>1. WritesAllowed(p)
    BY DEF QuotaInv
  <2>2. Cardinality(Contributed(p)) \in Nat /\ Cardinality(MayWrite(p)) \in Nat
    BY WritesFinite
  <2>3. /\ Cardinality(Places) \in Nat /\ ContributionQuota \in Int
        /\ Cardinality(Places) = Cardinality(Workers) * MostCandidates
    BY PlacesCounted, CurateAssumption
  <2>4. Cardinality(Contributed(p)) <= ContributionQuota - 1 + Cardinality(Places)
    BY <2>1, <2>2, <2>3 DEF WritesAllowed
  <2> QED
    BY <2>3, <2>4
<1>2. Init => TypeOK /\ Fits /\ QuotaInv
  BY InitTyped, FitsInit, QuotaInit
<1>3. TypeOK /\ Fits /\ QuotaInv /\ [Next]_vars => (TypeOK /\ Fits /\ QuotaInv)'
  BY NextTyped, FitsNext, QuotaNext
<1> QED
  BY <1>1, <1>2, <1>3, PTL DEF Spec

-----------------------------------------------------------------------------
(* The size of a scope: whoever owes it a pass *)

DedupPcs == {"scan", "fold", "apply"}
PrunePcs == {"count", "select", "close"}

\* What the ceiling of a scope needs: a write is never cut short, its follow-up
\* is never lost, and no pass fails at every attempt.
PassesComplete ==
    /\ ScopeClaimCeiling > 0
    /\ FaultKinds \cap {"write", "enqueue"} = {}
    /\ "pass" \in FaultKinds => MaxFaults < MaxAttempts

KeepsJob(w, x) ==
    /\ Become(w, x) /\ worker[w].pc # "idle"
    /\ x.job = worker[w].job
    /\ x.pc \in DedupPcs => worker[w].pc \in DedupPcs
    /\ x.pc \in PrunePcs => worker[w].pc \in PrunePcs

LEMMA JobKept ==
  ASSUME TypeOK, NEW w \in Workers, WorkStep(w) \/ FaultStep(w), ~Fetch(w)
  PROVE  Become(w, Idle) \/ \E x : KeepsJob(w, x)
<1>0. worker[w] \in WorkerState
  BY DEF TypeOK
<1>1. ASSUME NEW x, Become(w, x), worker[w].pc # "idle", x.job = worker[w].job,
             x.pc \in DedupPcs => worker[w].pc \in DedupPcs,
             x.pc \in PrunePcs => worker[w].pc \in PrunePcs
      PROVE  \E y : KeepsJob(w, y)
  BY <1>1 DEF KeepsJob
<1>2. ASSUME NEW pc, Goto(w, pc), worker[w].pc # "idle",
             pc \notin DedupPcs, pc \notin PrunePcs
      PROVE  \E y : KeepsJob(w, y)
  <2> DEFINE x == [worker[w] EXCEPT !.pc = pc]
  <2>1. x.job = worker[w].job /\ x.pc = pc
    BY <1>0 DEF WorkerState
  <2>2. Become(w, x)
    BY <1>2 DEF Goto
  <2> HIDE DEF x
  <2> QED
    BY <1>1, <1>2, <2>1, <2>2
<1>3. ASSUME NominateStep(w) PROVE \E x : KeepsJob(w, x)
  <2>1. CASE AdmitCost(w)
    <3>1. PICK now : \/ Become(w, [worker[w] EXCEPT !.pc = "quota", !.now = now])
                     \/ Goto(w, "ack")
      BY <2>1 DEF AdmitCost
    <3> DEFINE y == [worker[w] EXCEPT !.pc = "quota", !.now = now]
    <3>2. y.job = worker[w].job /\ y.pc = "quota"
      BY <1>0 DEF WorkerState
    <3>3. Become(w, y) \/ Goto(w, "ack")
      BY <3>1
    <3>4. worker[w].pc # "idle"
      BY <2>1 DEF AdmitCost, At
    <3> HIDE DEF y
    <3> QED
      BY <1>1, <1>2, <3>2, <3>3, <3>4 DEF DedupPcs, PrunePcs
  <2>2. CASE AdmitQuota(w)
    <3> DEFINE y(pc) == [worker[w] EXCEPT !.pc = pc, !.now = 0]
    <3>1. PICK pc \in {"model", "ack"} : Become(w, y(pc))
      BY <2>2 DEF AdmitQuota
    <3>2. y(pc).job = worker[w].job /\ y(pc).pc = pc /\ worker[w].pc # "idle"
      BY <1>0, <2>2 DEF WorkerState, AdmitQuota, At
    <3> HIDE DEF y
    <3> QED
      BY <1>1, <3>1, <3>2 DEF DedupPcs, PrunePcs
  <2>3. CASE Nominate(w)
    <3> DEFINE pc(found) == IF found = <<>> THEN "ack" ELSE "stamp"
               y(found) == [worker[w] EXCEPT !.todo = found, !.tries = 0, !.pc = pc(found)]
    <3>1. PICK found : Become(w, y(found))
      BY <2>3 DEF Nominate
    <3>2. y(found).job = worker[w].job /\ y(found).pc \in {"ack", "stamp"}
          /\ worker[w].pc # "idle"
      BY <1>0, <2>3 DEF WorkerState, Nominate, At
    <3> HIDE DEF y
    <3> QED
      BY <1>1, <3>1, <3>2 DEF DedupPcs, PrunePcs
  <2>4. CASE StampCandidate(w)
    <3>1. PICK now : Become(w, [worker[w] EXCEPT !.pc = "write", !.now = now])
      BY <2>4 DEF StampCandidate
    <3> DEFINE y == [worker[w] EXCEPT !.pc = "write", !.now = now]
    <3>2. y.job = worker[w].job /\ y.pc = "write" /\ worker[w].pc # "idle"
      BY <1>0, <2>4 DEF WorkerState, StampCandidate, At
    <3>3. Become(w, y)
      BY <3>1
    <3> HIDE DEF y
    <3> QED
      BY <1>1, <3>2, <3>3 DEF DedupPcs, PrunePcs
  <2>5. CASE WriteCandidate(w)
    <3> DEFINE pc == IF Len(worker[w].todo) = 1 THEN "enqueueDedup" ELSE "stamp"
               y == [worker[w] EXCEPT !.todo = Tail(@), !.now = 0, !.pc = pc]
    <3>1. y.job = worker[w].job /\ y.pc \in {"enqueueDedup", "stamp"}
          /\ worker[w].pc # "idle"
      BY <1>0, <2>5 DEF WorkerState, WriteCandidate, At
    <3>2. Become(w, y)
      BY <2>5 DEF WriteCandidate
    <3> HIDE DEF y
    <3> QED
      BY <1>1, <3>1, <3>2 DEF DedupPcs, PrunePcs
  <2>6. CASE EnqueueDedup(w)
    BY <1>2, <2>6 DEF EnqueueDedup, At, DedupPcs, PrunePcs
  <2>7. CASE EnqueuePrune(w)
    BY <1>2, <2>7 DEF EnqueuePrune, At, DedupPcs, PrunePcs
  <2> QED
    BY <1>3, <2>1, <2>2, <2>3, <2>4, <2>5, <2>6, <2>7 DEF NominateStep
<1>4. ASSUME DedupStep(w) PROVE Become(w, Idle) \/ \E x : KeepsJob(w, x)
  <2>0. worker[w].pc \in DedupPcs /\ worker[w].pc # "idle"
    BY <1>4 DEF DedupStep, ScanDuplicates, LoadDuplicate, FoldDuplicate, FoldMisses,
       FinishDedup, At, DedupPcs
  <2>1. ASSUME NEW x, Become(w, x), x.job = worker[w].job, x.pc \notin PrunePcs
        PROVE  \E y : KeepsJob(w, y)
    BY <1>1, <2>0, <2>1
  <2>2. CASE ScanDuplicates(w)
    <3> DEFINE y == [worker[w] EXCEPT !.pc = "fold", !.folds = Folds]
    <3>1. y.job = worker[w].job /\ y.pc = "fold"
      BY <1>0 DEF WorkerState
    <3>2. Become(w, y)
      BY <2>2 DEF ScanDuplicates
    <3> HIDE DEF y
    <3> QED
      BY <2>1, <3>1, <3>2 DEF PrunePcs
  <2>3. CASE LoadDuplicate(w)
    <3>1. PICK f \in worker[w].folds :
            \/ Become(w, [worker[w] EXCEPT !.pc = "apply", !.loaded = f])
            \/ Become(w, [worker[w] EXCEPT !.folds = @ \ {f}])
      BY <2>3 DEF LoadDuplicate
    <3> DEFINE y == [worker[w] EXCEPT !.pc = "apply", !.loaded = f]
               z == [worker[w] EXCEPT !.folds = @ \ {f}]
    <3>2. /\ y.job = worker[w].job /\ y.pc = "apply"
          /\ z.job = worker[w].job /\ z.pc = worker[w].pc
      BY <1>0 DEF WorkerState
    <3>3. Become(w, y) \/ Become(w, z)
      BY <3>1
    <3> HIDE DEF y, z
    <3> QED
      BY <2>0, <2>1, <3>2, <3>3 DEF DedupPcs, PrunePcs
  <2>4. CASE FoldDuplicate(w)
    <3> DEFINE y == [worker[w] EXCEPT !.pc = "fold", !.loaded = NULL,
                                      !.folds = @ \ {worker[w].loaded}]
    <3>1. y.job = worker[w].job /\ y.pc = "fold"
      BY <1>0 DEF WorkerState
    <3>2. Become(w, y)
      BY <2>4 DEF FoldDuplicate
    <3> HIDE DEF y
    <3> QED
      BY <2>1, <3>1, <3>2 DEF PrunePcs
  <2>5. CASE FoldMisses(w)
    BY <2>5 DEF FoldMisses, Retry
  <2>6. CASE FinishDedup(w)
    BY <1>2, <2>0, <2>6 DEF FinishDedup, DedupPcs, PrunePcs
  <2> QED
    BY <1>4, <2>2, <2>3, <2>4, <2>5, <2>6 DEF DedupStep
<1>5. ASSUME PruneStep(w) PROVE \E x : KeepsJob(w, x)
  <2>0. worker[w].pc \in PrunePcs /\ worker[w].pc # "idle"
    BY <1>5 DEF PruneStep, CountScope, SelectVictims, PruneScope, At, PrunePcs
  <2>1. ASSUME NEW x, Become(w, x), x.job = worker[w].job, x.pc \notin DedupPcs
        PROVE  \E y : KeepsJob(w, y)
    BY <1>1, <2>0, <2>1
  <2>2. CASE CountScope(w)
    <3>1. PICK n : \/ Goto(w, "ack")
                   \/ Become(w, [worker[w] EXCEPT !.pc = "select", !.target = n])
      BY <2>2 DEF CountScope, Goto
    <3> DEFINE y == [worker[w] EXCEPT !.pc = "select", !.target = n]
    <3>2. y.job = worker[w].job /\ y.pc = "select"
      BY <1>0 DEF WorkerState
    <3>3. Goto(w, "ack") \/ Become(w, y)
      BY <3>1
    <3> HIDE DEF y
    <3> QED
      BY <1>2, <2>0, <2>1, <3>2, <3>3 DEF DedupPcs, PrunePcs
  <2>3. CASE SelectVictims(w)
    <3> DEFINE victims == PruneCandidates(CapturedScope[SourceOf(w)], worker[w].target)
               y == [worker[w] EXCEPT !.pc = "close", !.victims = victims]
    <3>1. y.job = worker[w].job /\ y.pc = "close"
      BY <1>0 DEF WorkerState
    <3>2. Become(w, y)
      BY <2>3 DEF SelectVictims
    <3> HIDE DEF y
    <3> QED
      BY <2>1, <3>1, <3>2 DEF DedupPcs
  <2>4. CASE PruneScope(w)
    <3> DEFINE y == [worker[w] EXCEPT !.pc = "ack", !.victims = {}, !.target = 0]
    <3>1. y.job = worker[w].job /\ y.pc = "ack"
      BY <1>0 DEF WorkerState
    <3>2. Become(w, y)
      BY <2>4 DEF PruneScope
    <3> HIDE DEF y
    <3> QED
      BY <2>1, <3>1, <3>2 DEF DedupPcs
  <2> QED
    BY <1>5, <2>2, <2>3, <2>4 DEF PruneStep
<1>6. ASSUME FaultStep(w) PROVE Become(w, Idle) \/ \E x : KeepsJob(w, x)
  <2>1. CASE Retry(w)
    BY <2>1 DEF Retry
  <2>2. CASE NominateFails(w) /\ Become(w, [worker[w] EXCEPT !.tries = @ + 1])
    <3> DEFINE y == [worker[w] EXCEPT !.tries = @ + 1]
    <3>1. y.job = worker[w].job /\ y.pc = worker[w].pc /\ worker[w].pc # "idle"
      BY <1>0, <2>2 DEF WorkerState, NominateFails, At
    <3>2. Become(w, y)
      BY <2>2
    <3> HIDE DEF y
    <3> QED
      BY <1>1, <3>1, <3>2
  <2> QED
    BY <1>6, <2>1, <2>2 DEF FaultStep, NominateFails, WriteFails, PassFails, LoseAck
<1>7. ASSUME Ack(w) PROVE Become(w, Idle)
  BY <1>7 DEF Ack
<1> QED
  BY <1>3, <1>4, <1>5, <1>6, <1>7 DEF WorkStep

\* What a step other than a fetch does to the queue and to the faults.
LEMMA QueueKept ==
  ASSUME TypeOK, NEW w \in Workers, WorkStep(w) \/ FaultStep(w), ~Fetch(w)
  PROVE  /\ faults' \in {faults, faults + 1}
         /\ \/ queue' = queue
            \/ \E kind \in {"dedup", "prune"} :
                  queue' = queue \cup {FollowUp(kind, JobOf(w))}
            \/ /\ Retry(w) /\ worker[w].pc # "idle"
               /\ worker[w].pc = "apply" \/ faults' = faults + 1
<1>1. CASE WorkStep(w)
  <2>1. CASE EnqueueDedup(w) \/ EnqueuePrune(w)
    BY <2>1 DEF EnqueueDedup, EnqueuePrune, EnqueueOrLose, Enqueue, Fault
  <2>2. CASE AdmitCost(w) \/ AdmitQuota(w) \/ Nominate(w)
    BY <2>2 DEF AdmitCost, AdmitQuota, Nominate, RecordUsage, Fault
  <2>3. CASE StampCandidate(w) \/ WriteCandidate(w) \/ Ack(w) \/ PruneStep(w)
    BY <2>3 DEF StampCandidate, WriteCandidate, Ack, PruneStep, CountScope, SelectVictims,
       PruneScope
  <2>4. CASE DedupStep(w)
    BY <2>4 DEF DedupStep, ScanDuplicates, LoadDuplicate, FoldDuplicate, FoldMisses,
       FinishDedup, At
  <2> QED
    BY <1>1, <2>1, <2>2, <2>3, <2>4 DEF WorkStep, NominateStep
<1>2. CASE FaultStep(w)
  BY <1>2 DEF FaultStep, NominateFails, WriteFails, PassFails, LoseAck, Fault, At
<1> QED
  BY <1>1, <1>2

\* A job of a prune pass has failed as often as something has, at the most.
Charged(job, n) == job.kind = "prune" => job.attempt <= n + 1

PassesInv ==
    /\ \A job \in queue : Charged(job, faults)
    /\ \A w \in Workers :
          /\ worker[w].pc # "idle" => Charged(JobOf(w), faults)
          /\ worker[w].pc \in DedupPcs => JobOf(w).kind = "dedup"
          /\ worker[w].pc \in PrunePcs => JobOf(w).kind = "prune"

LEMMA PassesInit == Init => PassesInv
<1> SUFFICES ASSUME Init PROVE PassesInv
  OBVIOUS
<1>1. \A w \in Workers : worker[w].pc = "idle"
  BY DEF Init, Idle
<1>2. queue = {}
  BY DEF Init
<1> QED
  BY <1>1, <1>2 DEF PassesInv, DedupPcs, PrunePcs

LEMMA PassesNext ==
  ASSUME TypeOK, PassesInv, [Next]_vars
  PROVE  PassesInv'
<1>0. /\ \A w \in Workers : worker[w] \in WorkerState
      /\ \A w \in Workers : worker[w].pc # "idle" => JobOf(w) \in Job
      /\ queue \subseteq Job /\ faults \in Nat
      /\ \A job \in Job : job.attempt \in Nat
  BY CurateAssumption DEF TypeOK, WorkerState, JobOf, Job
<1>1. ASSUME NEW job \in Job, Charged(job, faults), faults' \in {faults, faults + 1}
      PROVE  Charged(job, faults')
  BY <1>0, <1>1 DEF Charged
<1>2. ASSUME NEW c \in Captures, Capture(c) PROVE PassesInv'
  <2>1. /\ queue' = queue \cup {NominateJob(c)} /\ UNCHANGED <<worker, faults>>
        /\ NominateJob(c).kind = "nominate"
    BY <1>2 DEF Capture, Enqueue, NominateJob
  <2>2. \A job \in queue' : Charged(job, faults')
    BY <2>1 DEF Charged, PassesInv
  <2> QED
    BY <2>1, <2>2 DEF PassesInv, Charged, JobOf
<1>3. CASE UNCHANGED <<queue, worker, faults>>
  BY <1>3 DEF PassesInv, Charged, JobOf
<1>4. ASSUME NEW w \in Workers, Fetch(w) PROVE PassesInv'
  <2>1. PICK job \in queue :
          /\ queue' = queue \ {job}
          /\ Become(w, [Idle EXCEPT !.pc = FirstStep(job.kind), !.job = job])
    BY <1>4 DEF Fetch
  <2> DEFINE x == [Idle EXCEPT !.pc = FirstStep(job.kind), !.job = job]
  <2>2. job \in Job
    BY <1>0, <2>1
  <2>3. x.pc = FirstStep(job.kind) /\ x.job = job /\ job.kind \in {"nominate", "dedup", "prune"}
    BY <2>2 DEF Idle, Job
  <2>4. /\ x.pc \in DedupPcs => job.kind = "dedup"
        /\ x.pc \in PrunePcs => job.kind = "prune"
    BY <2>3 DEF FirstStep, DedupPcs, PrunePcs
  <2>5. Become(w, x) /\ UNCHANGED faults
    BY <1>4, <2>1 DEF Fetch
  <2> HIDE DEF x
  <2>6. worker'[w] = x /\ \A v \in Workers \ {w} : worker'[v] = worker[v]
    BY <2>5 DEF Become, TypeOK
  <2>7. Charged(job, faults)
    BY DEF PassesInv
  <2>8. \A k \in queue' : Charged(k, faults')
    BY <2>1, <2>5 DEF PassesInv, Charged
  <2>9. ASSUME NEW v \in Workers
        PROVE  /\ worker'[v].pc # "idle" => Charged(worker'[v].job, faults')
               /\ worker'[v].pc \in DedupPcs => worker'[v].job.kind = "dedup"
               /\ worker'[v].pc \in PrunePcs => worker'[v].job.kind = "prune"
    <3>1. CASE v = w
      BY <2>3, <2>4, <2>5, <2>6, <2>7, <3>1 DEF Charged
    <3>2. CASE v # w
      BY <2>5, <2>6, <3>2 DEF PassesInv, Charged, JobOf
    <3> QED
      BY <3>1, <3>2
  <2> QED
    BY <2>8, <2>9 DEF PassesInv, JobOf
<1>5. ASSUME NEW w \in Workers, WorkStep(w) \/ FaultStep(w), ~Fetch(w) PROVE PassesInv'
  <2>1. faults' \in {faults, faults + 1}
    BY <1>5, QueueKept
  <2>2. \A job \in queue' : Charged(job, faults')
    <3> SUFFICES ASSUME NEW job \in queue' PROVE Charged(job, faults')
      OBVIOUS
    <3>1. CASE job \in queue
      BY <1>0, <1>1, <2>1, <3>1 DEF PassesInv
    <3>2. ASSUME NEW kind \in {"dedup", "prune"}, job = FollowUp(kind, JobOf(w))
          PROVE  Charged(job, faults')
      <4>1. job.attempt = 1
        BY <3>2 DEF FollowUp
      <4>2. faults' \in Nat
        BY <1>0, <2>1
      <4>3. \A n \in Nat : 1 <= n + 1
        OBVIOUS
      <4> QED
        BY <4>1, <4>2, <4>3, Zenon DEF Charged
    <3>3. ASSUME Retry(w), worker[w].pc # "idle",
                 worker[w].pc = "apply" \/ faults' = faults + 1, job \notin queue
          PROVE  Charged(job, faults')
      <4>1. job = [JobOf(w) EXCEPT !.attempt = @ + 1]
        BY <3>3 DEF Retry
      <4>2. JobOf(w) \in Job /\ Charged(JobOf(w), faults)
        BY <1>0, <3>3 DEF PassesInv
      <4>3. job.kind = JobOf(w).kind /\ job.attempt = JobOf(w).attempt + 1
        BY <4>1, <4>2 DEF Job
      <4>4. worker[w].pc = "apply" => JobOf(w).kind = "dedup"
        BY DEF PassesInv, DedupPcs
      <4> QED
        BY <1>0, <3>3, <4>2, <4>3, <4>4 DEF Charged
    <3> QED
      BY <1>5, <3>1, <3>2, <3>3, QueueKept
  <2>3. ASSUME NEW v \in Workers
        PROVE  /\ worker'[v].pc # "idle" => Charged(worker'[v].job, faults')
               /\ worker'[v].pc \in DedupPcs => worker'[v].job.kind = "dedup"
               /\ worker'[v].pc \in PrunePcs => worker'[v].job.kind = "prune"
    <3>1. CASE worker'[v] = worker[v]
      BY <1>0, <1>1, <2>1, <3>1 DEF PassesInv, JobOf
    <3>2. CASE v = w /\ Become(w, Idle)
      <4>1. worker'[v].pc = "idle"
        BY <3>2 DEF Become, TypeOK, Idle
      <4> QED
        BY <4>1 DEF DedupPcs, PrunePcs
    <3>3. ASSUME v = w, NEW x, KeepsJob(w, x)
          PROVE  /\ worker'[v].pc # "idle" => Charged(worker'[v].job, faults')
                 /\ worker'[v].pc \in DedupPcs => worker'[v].job.kind = "dedup"
                 /\ worker'[v].pc \in PrunePcs => worker'[v].job.kind = "prune"
      <4>1. worker'[v] = x
        BY <3>3 DEF KeepsJob, Become, TypeOK
      <4>2. /\ JobOf(w) \in Job /\ Charged(JobOf(w), faults) /\ x.job = JobOf(w)
            /\ x.pc \in DedupPcs => JobOf(w).kind = "dedup"
            /\ x.pc \in PrunePcs => JobOf(w).kind = "prune"
        BY <1>0, <3>3 DEF KeepsJob, PassesInv, JobOf
      <4>3. Charged(JobOf(w), faults')
        BY <1>0, <2>1, <3>3, <4>1, <4>2 DEF Charged, JobOf
      <4> QED
        BY <1>0, <2>1, <4>1, <4>2 DEF Charged
    <3>4. v # w => worker'[v] = worker[v]
      <4>1. Become(w, Idle) \/ \E x : Become(w, x)
        BY <1>5, JobKept DEF KeepsJob
      <4> QED
        BY <4>1 DEF Become, TypeOK
    <3> QED
      BY <1>5, <3>1, <3>2, <3>3, <3>4, JobKept
  <2> QED
    BY <2>2, <2>3 DEF PassesInv, JobOf
<1>6. CASE ~\E w \in Workers : WorkStep(w) \/ FaultStep(w)
  <2>1. UNCHANGED <<queue, worker, faults>> \/ \E c \in Captures : Capture(c)
    BY <1>6 DEF Next, Quiescent, vars, StampAttestation, Attest, Expire
  <2> QED
    BY <1>2, <1>3, <2>1
<1> QED
  BY <1>4, <1>5, <1>6

\* A worker whose remaining steps bring the scope to its ceiling, or end with a
\* job that does.
OwesFor(w, sc) ==
    /\ worker[w].pc # "idle" /\ CapturedScope[SourceOf(w)] = sc
    /\ \/ worker[w].pc \in {"count", "stamp", "write", "enqueueDedup", "enqueuePrune"}
       \/ /\ worker[w].pc = "select"
          /\ ScopeClaimCount(sc) - worker[w].target <= ScopeClaimCeiling
       \/ /\ worker[w].pc = "close"
          /\ Cardinality(LiveInScope(sc) \ worker[w].victims) <= ScopeClaimCeiling

Queued(sc) == \E job \in queue : job.kind = "prune" /\ CapturedScope[job.source] = sc

Owed(sc) ==
    \/ ScopeClaimCount(sc) <= ScopeClaimCeiling
    \/ Queued(sc)
    \/ \E w \in Workers : OwesFor(w, sc)

OwedInv == \A sc \in Scopes \ {AttestedScope} : Owed(sc)

LEMMA ScopeFinite ==
  ASSUME TypeOK, NEW sc, NEW T, T \subseteq LiveInScope(sc)
  PROVE  /\ IsFiniteSet(T) /\ Cardinality(T) \in Nat
         /\ Cardinality(T) <= ScopeClaimCount(sc) /\ ScopeClaimCount(sc) \in Nat
<1>1. IsFiniteSet(LiveInScope(sc))
  <2>1. LiveInScope(sc) \subseteq Ids
    BY DEF TypeOK, StoreTypeOK, LiveInScope, Live
  <2> QED
    BY <2>1, StoreAssumption, FS_Subset
<1>2. IsFiniteSet(T) /\ Cardinality(T) <= Cardinality(LiveInScope(sc))
  BY <1>1, FS_Subset
<1> QED
  BY <1>1, <1>2, FS_CardinalityType DEF ScopeClaimCount

\* Where nobody writes, what is live only gets less.
LEMMA ScopeShrinks ==
  ASSUME TypeOK, [Next]_vars, NEW sc, sc # AttestedScope,
         \A w \in Workers : WriteCandidate(w) => CapturedScope[SourceOf(w)] # sc
  PROVE  LiveInScope(sc)' \subseteq LiveInScope(sc)
<1>0. StoreStep
  BY StepsOfTheStore
<1> SUFFICES ASSUME NEW i \in DOMAIN claims', claims'[i].live, claims'[i].scope = sc
             PROVE  i \in LiveInScope(sc)
  BY DEF LiveInScope, Live
<1>1. CASE i \in DOMAIN claims
  BY <1>0, <1>1, RowsKeep, WhoAndWhen DEF LiveInScope, Live
<1>2. ASSUME i \notin DOMAIN claims, NEW w \in Workers, WriteCandidate(w)
      PROVE  FALSE
  <2> DEFINE row == Candidate(SourceOf(w), Head(worker[w].todo), worker[w].now)
  <2>1. row.scope = CapturedScope[SourceOf(w)]
    BY DEF Candidate
  <2>2. PICK j \in Ids : WriteClaim(j, row)
    BY <1>2 DEF WriteCandidate
  <2> HIDE DEF row
  <2>3. claims'[i] = row
    BY <1>2, <2>2 DEF WriteClaim
  <2> QED
    BY <1>2, <2>1, <2>3
<1>3. CASE i \notin DOMAIN claims /\ \A w \in Workers : ~WriteCandidate(w)
  BY <1>3, OnlyWritesCount
<1> QED
  BY <1>1, <1>2, <1>3

LEMMA StillOwes ==
  ASSUME TypeOK, TypeOK', NEW sc, LiveInScope(sc)' \subseteq LiveInScope(sc),
         NEW v \in Workers, worker'[v] = worker[v], OwesFor(v, sc)
  PROVE  OwesFor(v, sc)'
<1>1. ScopeClaimCount(sc)' \in Nat /\ ScopeClaimCount(sc)' <= ScopeClaimCount(sc)
      /\ ScopeClaimCount(sc) \in Nat
  BY ScopeFinite DEF ScopeClaimCount
<1>2. worker[v].target \in Nat /\ ScopeClaimCeiling \in Int
  BY CurateAssumption DEF TypeOK, WorkerState
<1>3. CapturedScope[SourceOf(v)]' = CapturedScope[SourceOf(v)]
  BY DEF SourceOf, JobOf
<1>4. CASE worker[v].pc \in {"count", "stamp", "write", "enqueueDedup", "enqueuePrune"}
  BY <1>3, <1>4 DEF OwesFor
<1>5. CASE worker[v].pc = "select"
  <2>1. ScopeClaimCount(sc)' - worker'[v].target <= ScopeClaimCeiling
    BY <1>1, <1>2, <1>5 DEF OwesFor
  <2> QED
    BY <1>3, <1>5, <2>1 DEF OwesFor
<1>6. CASE worker[v].pc = "close"
  <2> DEFINE S == LiveInScope(sc) \ worker[v].victims
             T == LiveInScope(sc)' \ worker[v].victims
  <2>1. S \subseteq LiveInScope(sc) /\ T \subseteq S
    OBVIOUS
  <2>2. IsFiniteSet(S) /\ Cardinality(S) \in Nat
    BY <2>1, ScopeFinite
  <2>3. Cardinality(T) <= Cardinality(S) /\ IsFiniteSet(T)
    BY <2>1, <2>2, FS_Subset
  <2>4. Cardinality(T) \in Nat
    BY <2>3, FS_CardinalityType
  <2>5. Cardinality(S) <= ScopeClaimCeiling
    BY <1>6 DEF OwesFor
  <2>6. Cardinality(T) <= ScopeClaimCeiling
    BY <1>2, <2>2, <2>3, <2>4, <2>5
  <2>7. Cardinality(LiveInScope(sc)' \ worker'[v].victims) <= ScopeClaimCeiling
    BY <2>6
  <2> QED
    BY <1>3, <1>6, <2>7 DEF OwesFor
<1> QED
  BY <1>4, <1>5, <1>6 DEF OwesFor

\* The order of a pass is total: what a statement of n victims leaves, n others
\* are below.
LEMMA VictimsSuffice ==
  ASSUME TypeOK, NEW sc, NEW n \in Nat,
         ScopeClaimCount(sc) - n <= ScopeClaimCeiling, ScopeClaimCeiling > 0
  PROVE  Cardinality(LiveInScope(sc) \ PruneCandidates(sc, n)) <= ScopeClaimCeiling
<1> DEFINE S == LiveInScope(sc)
           below == [i \in S |-> {j \in S : LowerValue(j, i)}]
           R == S \ PruneCandidates(sc, n)
<1>0. \A i \in S : /\ i \in Nat /\ claims[i].confidence \in Nat
                   /\ claims[i].recordedAt \in Nat
  BY StoreAssumption DEF LiveInScope, Live, TypeOK, StoreTypeOK, Claim
<1>1. IsFiniteSet(S) /\ Cardinality(S) \in Nat /\ Cardinality(S) = ScopeClaimCount(sc)
  BY ScopeFinite DEF ScopeClaimCount
<1>2. Orders(below, S)
  <2>1. below \in [S -> SUBSET S]
    OBVIOUS
  <2>2. \A i, j \in S : i # j => i \in below[j] \/ j \in below[i]
    BY <1>0 DEF LowerValue, Earlier
  <2>3. \A i, j \in S : i \in below[j] => i \notin below[i]
    BY <1>0 DEF LowerValue, Earlier
  <2>4. ASSUME NEW i \in S, NEW j \in S, i \in below[j], NEW k \in below[i]
        PROVE  k \in below[j]
    <3>1. k \in S /\ LowerValue(k, i) /\ LowerValue(i, j)
      BY <2>4
    <3>2. LowerValue(k, j)
      BY <1>0, <3>1 DEF LowerValue, Earlier
    <3> QED
      BY <3>1, <3>2
  <2> QED
    BY <2>1, <2>2, <2>3, <2>4 DEF Orders
<1>3. ScopeClaimCeiling \in Nat /\ Cardinality(S) <= n + ScopeClaimCeiling
  BY <1>1, CurateAssumption
<1>4. R \in SUBSET S
  OBVIOUS
<1>5. \A i \in R : Cardinality(below[i]) >= n
  <2> SUFFICES ASSUME NEW i \in S, i \notin PruneCandidates(sc, n)
               PROVE  Cardinality(below[i]) >= n
    OBVIOUS
  <2>1. below[i] = {j \in LiveInScope(sc) : LowerValue(j, i)}
    OBVIOUS
  <2>2. ~(Cardinality(below[i]) < n)
    BY <2>1 DEF PruneCandidates
  <2>3. Cardinality(below[i]) \in Nat
    BY <2>1, ScopeFinite
  <2> QED
    BY <2>2, <2>3
<1> HIDE DEF S, below, R
<1>6. Cardinality(R) <= ScopeClaimCeiling
  BY <1>1, <1>2, <1>3, <1>4, <1>5, FewAbove
<1> QED
  BY <1>6 DEF R, S

\* A pass aims far enough: what it leaves is within the ceiling.
LEMMA TargetSuffices ==
  ASSUME NEW live \in Nat, ScopeClaimCeiling > 0
  PROVE  live - PruneTarget(live, ScopeClaimCeiling, PruneAggressiveness) <= ScopeClaimCeiling
<1>1. ScopeClaimCeiling \in Nat /\ PruneAggressiveness \in Nat
  BY CurateAssumption
<1>2. ASSUME NEW over \in Nat PROVE Headroom(over, PruneAggressiveness) \in Nat
  <2>1. over * PruneAggressiveness \in Nat
    BY <1>1
  <2> QED
    BY <2>1 DEF Headroom
<1>3. CASE live - ScopeClaimCeiling <= 0
  BY <1>1, <1>3 DEF PruneTarget
<1>4. CASE ~(live - ScopeClaimCeiling <= 0)
  <2> DEFINE over == live - ScopeClaimCeiling
             cut == over + Headroom(over, PruneAggressiveness)
  <2>1. over \in Nat
    BY <1>1, <1>4
  <2>2. Headroom(over, PruneAggressiveness) \in Nat
    BY <1>2, <2>1
  <2>3. PruneTarget(live, ScopeClaimCeiling, PruneAggressiveness)
          = IF cut > live THEN live ELSE cut
    BY <1>1, <1>4 DEF PruneTarget
  <2>4. live - cut <= ScopeClaimCeiling /\ live - live <= ScopeClaimCeiling
    BY <1>1, <2>1, <2>2
  <2> HIDE DEF cut
  <2> QED
    BY <2>3, <2>4
<1> QED
  BY <1>3, <1>4

\* Whoever owes the scope a pass goes on owing it, hands it on or has paid it.
LEMMA OwnerActs ==
  ASSUME PassesComplete, TypeOK, TypeOK', PassesInv, NEW sc,
         LiveInScope(sc)' \subseteq LiveInScope(sc),
         NEW w \in Workers, OwesFor(w, sc), WorkStep(w) \/ FaultStep(w), ~WriteCandidate(w)
  PROVE  Owed(sc)'
<1>0. /\ worker[w] \in WorkerState /\ JobOf(w) \in Job
      /\ CapturedScope[SourceOf(w)] = sc
      /\ ScopeClaimCeiling \in Nat /\ ScopeClaimCeiling > 0
      /\ ScopeClaimCount(sc) \in Nat
  <2>1. worker[w] \in WorkerState /\ JobOf(w) \in Job
    BY DEF TypeOK, WorkerState, OwesFor, JobOf
  <2>2. ScopeClaimCeiling \in Nat /\ ScopeClaimCeiling > 0
    BY CurateAssumption DEF PassesComplete
  <2>3. ScopeClaimCount(sc) \in Nat
    BY ScopeFinite
  <2> QED
    BY <2>1, <2>2, <2>3 DEF OwesFor
<1>1. ASSUME NEW x, Become(w, x) PROVE worker'[w] = x
  BY <1>1 DEF Become, TypeOK
<1>2. ASSUME NEW x, Become(w, x), x.job = worker[w].job,
             x.pc \in {"stamp", "write", "enqueuePrune"}
      PROVE  Owed(sc)'
  <2>1. worker'[w] = x
    BY <1>1, <1>2
  <2>2. CapturedScope[SourceOf(w)]' = sc
    BY <1>0, <1>2, <2>1 DEF SourceOf, JobOf
  <2>3. OwesFor(w, sc)'
    BY <1>2, <2>1, <2>2 DEF OwesFor
  <2> QED
    BY <2>3 DEF Owed
<1>3. CASE CountScope(w)
  <2> DEFINE live   == ScopeClaimCount(sc)
             target == PruneTarget(live, ScopeClaimCeiling, PruneAggressiveness)
             y == [worker[w] EXCEPT !.pc = "select", !.target = target]
  <2>1. live - target <= ScopeClaimCeiling /\ target \in Int
    BY <1>0, TargetSuffices, PruneTargetTyped
  <2>2. UNCHANGED claims
    BY <1>3 DEF CountScope
  <2>3. ScopeClaimCount(sc)' = live
    BY <2>2 DEF ScopeClaimCount, LiveInScope, Live
  <2>4. /\ target <= 0 \/ Become(w, y)
    BY <1>0, <1>3 DEF CountScope
  <2>5. y.pc = "select" /\ y.job = worker[w].job /\ y.target = target
    BY <1>0 DEF WorkerState
  <2> HIDE DEF target, y
  <2>6. CASE target <= 0
    <3>1. ScopeClaimCount(sc)' <= ScopeClaimCeiling
      BY <1>0, <2>1, <2>3, <2>6
    <3> QED
      BY <3>1 DEF Owed
  <2>7. CASE Become(w, y)
    <3>1. worker'[w] = y
      BY <1>1, <2>7
    <3>2. CapturedScope[SourceOf(w)]' = sc
      BY <1>0, <2>5, <3>1 DEF SourceOf, JobOf
    <3>3. ScopeClaimCount(sc)' - worker'[w].target <= ScopeClaimCeiling
      BY <2>1, <2>3, <2>5, <3>1
    <3>4. OwesFor(w, sc)'
      BY <2>5, <3>1, <3>2, <3>3 DEF OwesFor
    <3> QED
      BY <3>4 DEF Owed
  <2> QED
    BY <2>4, <2>6, <2>7
<1>4. CASE SelectVictims(w)
  <2> DEFINE n == worker[w].target
             victims == PruneCandidates(sc, n)
             y == [worker[w] EXCEPT !.pc = "close", !.victims = victims]
  <2>1. n \in Nat
    BY <1>0 DEF WorkerState
  <2>2. worker[w].pc = "select"
    BY <1>4 DEF SelectVictims, At
  <2>3. ScopeClaimCount(sc) - n <= ScopeClaimCeiling
    BY <2>2 DEF OwesFor
  <2>4. Cardinality(LiveInScope(sc) \ victims) <= ScopeClaimCeiling
    BY <1>0, <2>1, <2>3, VictimsSuffice
  <2>5. Become(w, y) /\ UNCHANGED claims
    BY <1>0, <1>4 DEF SelectVictims
  <2>6. LiveInScope(sc)' = LiveInScope(sc)
    BY <2>5 DEF LiveInScope, Live
  <2>7. y.pc = "close" /\ y.job = worker[w].job /\ y.victims = victims
    BY <1>0 DEF WorkerState
  <2> HIDE DEF victims, y
  <2>8. worker'[w] = y
    BY <1>1, <2>5
  <2>9. CapturedScope[SourceOf(w)]' = sc
    BY <1>0, <2>7, <2>8 DEF SourceOf, JobOf
  <2>10. Cardinality(LiveInScope(sc)' \ worker'[w].victims) <= ScopeClaimCeiling
    BY <2>4, <2>6, <2>7, <2>8
  <2>11. OwesFor(w, sc)'
    BY <2>7, <2>8, <2>9, <2>10 DEF OwesFor
  <2> QED
    BY <2>11 DEF Owed
<1>5. CASE PruneScope(w)
  <2> DEFINE left == LiveInScope(sc) \ worker[w].victims
  <2>1. worker[w].pc = "close" /\ PruneRows(worker[w].victims)
    BY <1>5 DEF PruneScope, At
  <2>2. Cardinality(left) <= ScopeClaimCeiling
    BY <2>1 DEF OwesFor
  <2>3. \A i \in DOMAIN claims : claims[i] \in Claim
    BY DEF TypeOK, StoreTypeOK
  <2>4. LiveInScope(sc)' \subseteq left
    BY <2>1, <2>3 DEF PruneRows, LiveInScope, Live, Claim
  <2>5. IsFiniteSet(left) /\ Cardinality(left) \in Nat
    <3>1. left \subseteq LiveInScope(sc)
      OBVIOUS
    <3> QED
      BY <3>1, ScopeFinite
  <2>6. /\ Cardinality(LiveInScope(sc)') <= Cardinality(left)
        /\ IsFiniteSet(LiveInScope(sc)')
    BY <2>4, <2>5, FS_Subset
  <2>7. Cardinality(LiveInScope(sc)') \in Nat
    BY <2>6, FS_CardinalityType
  <2>8. ScopeClaimCount(sc)' <= ScopeClaimCeiling
    BY <1>0, <2>2, <2>5, <2>6, <2>7 DEF ScopeClaimCount
  <2> QED
    BY <2>8 DEF Owed
<1>6. CASE StampCandidate(w)
  <2>1. PICK now : Become(w, [worker[w] EXCEPT !.pc = "write", !.now = now])
    BY <1>6 DEF StampCandidate
  <2> DEFINE y == [worker[w] EXCEPT !.pc = "write", !.now = now]
  <2>2. y.job = worker[w].job /\ y.pc = "write"
    BY <1>0 DEF WorkerState
  <2>3. Become(w, y)
    BY <2>1
  <2> HIDE DEF y
  <2> QED
    BY <1>2, <2>2, <2>3
<1>7. CASE EnqueueDedup(w)
  <2> DEFINE y == [worker[w] EXCEPT !.pc = "enqueuePrune"]
  <2>1. y.job = worker[w].job /\ y.pc = "enqueuePrune"
    BY <1>0 DEF WorkerState
  <2>2. Become(w, y)
    BY <1>7 DEF EnqueueDedup, Goto
  <2> HIDE DEF y
  <2> QED
    BY <1>2, <2>1, <2>2
<1>8. CASE EnqueuePrune(w)
  <2> DEFINE job == FollowUp("prune", JobOf(w))
  <2>1. queue' = queue \cup {job}
    BY <1>8 DEF EnqueuePrune, EnqueueOrLose, Enqueue, Fault, PassesComplete
  <2>2. job.kind = "prune" /\ CapturedScope[job.source] = sc
    BY <1>0 DEF FollowUp, SourceOf
  <2> HIDE DEF job
  <2>3. Queued(sc)'
    BY <2>1, <2>2 DEF Queued
  <2> QED
    BY <2>3 DEF Owed
<1>9. CASE PassFails(w)
  <2>1. /\ worker[w].pc \in PrunePcs
        /\ "pass" \in FaultKinds /\ faults < MaxFaults /\ Retry(w)
    BY <1>9 DEF PassFails, Fault, OwesFor, PrunePcs
  <2>2. JobOf(w).kind = "prune" /\ JobOf(w).attempt <= faults + 1
    BY <2>1 DEF PassesInv, Charged, PrunePcs
  <2>3. JobOf(w).attempt < MaxAttempts
    <3>1. MaxFaults \in Nat /\ MaxAttempts \in Nat /\ faults \in Nat /\ MaxFaults < MaxAttempts
      BY <2>1, CurateAssumption DEF PassesComplete, TypeOK
    <3>2. JobOf(w).attempt \in Nat
      BY <1>0, <3>1 DEF Job
    <3> QED
      BY <2>1, <2>2, <3>1, <3>2
  <2> DEFINE job == [JobOf(w) EXCEPT !.attempt = @ + 1]
  <2>4. job \in queue'
    BY <2>1, <2>3 DEF Retry
  <2>5. job.kind = "prune" /\ CapturedScope[job.source] = sc
    BY <1>0, <2>2 DEF Job, SourceOf
  <2> HIDE DEF job
  <2>6. Queued(sc)'
    BY <2>4, <2>5 DEF Queued
  <2> QED
    BY <2>6 DEF Owed
<1>10. CASE FaultStep(w) /\ ~PassFails(w)
  BY <1>10 DEF FaultStep, NominateFails, WriteFails, LoseAck, Fault, At, OwesFor, PassesComplete
<1>11. CASE \/ Fetch(w) \/ Ack(w) \/ AdmitCost(w) \/ AdmitQuota(w) \/ Nominate(w)
            \/ DedupStep(w)
  BY <1>11 DEF Fetch, Ack, AdmitCost, AdmitQuota, Nominate, DedupStep, ScanDuplicates,
     LoadDuplicate, FoldDuplicate, FoldMisses, FinishDedup, At, OwesFor
<1> QED
  BY <1>3, <1>4, <1>5, <1>6, <1>7, <1>8, <1>9, <1>10, <1>11
     DEF WorkStep, NominateStep, PruneStep

LEMMA OwedInit ==
  ASSUME ScopeClaimCeiling > 0
  PROVE  Init => OwedInv
<1> SUFFICES ASSUME Init, NEW sc \in Scopes PROVE Owed(sc)
  BY DEF OwedInv
<1>1. LiveInScope(sc) = {}
  BY DEF Init, LiveInScope, Live
<1>2. Cardinality({}) = 0 /\ ScopeClaimCeiling \in Int
  BY FS_EmptySet, CurateAssumption
<1> QED
  BY <1>1, <1>2 DEF Owed, ScopeClaimCount

LEMMA OwedNext ==
  ASSUME PassesComplete, TypeOK, PassesInv, OwedInv, [Next]_vars
  PROVE  OwedInv'
<1> SUFFICES ASSUME NEW sc \in Scopes \ {AttestedScope} PROVE Owed(sc)'
  BY DEF OwedInv
<1>0. /\ TypeOK' /\ Owed(sc)
      /\ \A v \in Workers : worker[v] \in WorkerState
  BY NextTyped DEF OwedInv, TypeOK
<1>1. ASSUME NEW w \in Workers, WriteCandidate(w), CapturedScope[SourceOf(w)] = sc
      PROVE  Owed(sc)'
  <2> DEFINE pc == IF Len(worker[w].todo) = 1 THEN "enqueueDedup" ELSE "stamp"
             y == [worker[w] EXCEPT !.todo = Tail(@), !.now = 0, !.pc = pc]
  <2>1. y.job = worker[w].job /\ y.pc \in {"enqueueDedup", "stamp"}
    BY <1>0 DEF WorkerState
  <2>2. Become(w, y)
    BY <1>1 DEF WriteCandidate
  <2> HIDE DEF y
  <2>3. worker'[w] = y
    BY <2>2 DEF Become, TypeOK
  <2>4. CapturedScope[SourceOf(w)]' = sc
    BY <1>1, <2>1, <2>3 DEF SourceOf, JobOf
  <2>5. OwesFor(w, sc)'
    BY <2>1, <2>3, <2>4 DEF OwesFor
  <2> QED
    BY <2>5 DEF Owed
<1>2. CASE \A w \in Workers : WriteCandidate(w) => CapturedScope[SourceOf(w)] # sc
  <2>1. LiveInScope(sc)' \subseteq LiveInScope(sc)
    BY <1>2, ScopeShrinks
  <2>2. CASE ScopeClaimCount(sc) <= ScopeClaimCeiling
    <3>1. /\ ScopeClaimCount(sc)' \in Nat /\ ScopeClaimCount(sc)' <= ScopeClaimCount(sc)
          /\ ScopeClaimCount(sc) \in Nat
      BY <2>1, ScopeFinite DEF ScopeClaimCount
    <3>2. ScopeClaimCount(sc)' <= ScopeClaimCeiling
      BY <2>2, <3>1, CurateAssumption
    <3> QED
      BY <3>2 DEF Owed
  <2>3. ASSUME NEW job \in queue, job.kind = "prune", CapturedScope[job.source] = sc
        PROVE  Owed(sc)'
    <3>1. CASE job \in queue'
      BY <2>3, <3>1 DEF Owed, Queued
    <3>2. ASSUME NEW w \in Workers, Fetch(w), job \notin queue' PROVE Owed(sc)'
      <4> DEFINE y == [Idle EXCEPT !.pc = FirstStep(job.kind), !.job = job]
      <4>1. Become(w, y)
        BY <3>2 DEF Fetch
      <4>2. y.pc = "count" /\ y.job = job
        BY <2>3 DEF Idle, FirstStep
      <4> HIDE DEF y
      <4>3. worker'[w] = y
        BY <4>1 DEF Become, TypeOK
      <4>4. CapturedScope[SourceOf(w)]' = sc
        BY <2>3, <4>2, <4>3 DEF SourceOf, JobOf
      <4>5. OwesFor(w, sc)'
        BY <4>2, <4>3, <4>4 DEF OwesFor
      <4> QED
        BY <4>5 DEF Owed
    <3>3. ASSUME NEW w \in Workers, WorkStep(w) \/ FaultStep(w), ~Fetch(w)
          PROVE  job \in queue'
      BY <3>3, QueueKept DEF Retry
    <3>4. CASE ~\E w \in Workers : WorkStep(w) \/ FaultStep(w)
      <4>1. UNCHANGED queue \/ \E c \in Captures : Capture(c)
        BY <3>4 DEF Next, Quiescent, vars, StampAttestation, Attest, Expire
      <4> QED
        BY <3>1, <4>1 DEF Capture, Enqueue
    <3> QED
      BY <3>1, <3>2, <3>3, <3>4
  <2>4. ASSUME NEW v \in Workers, OwesFor(v, sc) PROVE Owed(sc)'
    <3>1. CASE worker'[v] = worker[v]
      <4>1. OwesFor(v, sc)'
        BY <1>0, <2>1, <2>4, <3>1, StillOwes
      <4> QED
        BY <4>1 DEF Owed
    <3>2. CASE worker'[v] # worker[v]
      <4>1. \A w \in Workers : WorkStep(w) \/ FaultStep(w) => w = v
        <5> SUFFICES ASSUME NEW w \in Workers, WorkStep(w) \/ FaultStep(w), w # v PROVE FALSE
          OBVIOUS
        <5>1. \E x : Become(w, x)
          BY JobKept DEF KeepsJob, Fetch
        <5> QED
          BY <3>2, <5>1 DEF Become, TypeOK
      <4>2. WorkStep(v) \/ FaultStep(v)
        BY <3>2, <4>1 DEF Next, Quiescent, vars, Capture, StampAttestation, Attest, Expire
      <4>3. ~WriteCandidate(v)
        BY <1>2, <2>4 DEF OwesFor
      <4> QED
        BY <1>0, <2>1, <2>4, <4>2, <4>3, OwnerActs
    <3> QED
      BY <3>1, <3>2
  <2> QED
    BY <1>0, <2>2, <2>3, <2>4 DEF Owed, Queued
<1> QED
  BY <1>1, <1>2

\* Once nothing is queued or running every scope captured from is within its
\* ceiling: whatever the passes counted before, the one scheduled with the last
\* write counts that write (internal/curate/worker.go Work, PruneWorker;
\* internal/curate/limit.go Prune).  It takes what the source does not promise:
\* writes that are not cut short, follow-ups that are not lost, and fewer
\* failures than a job has attempts.  Nothing prunes the scope of attestations.
THEOREM CeilingAtRest ==
  ASSUME PassesComplete, \A c \in Captures : CapturedScope[c] # AttestedScope
  PROVE  Spec => []WithinCeilingAtRest
<1>1. TypeOK /\ OwedInv => WithinCeilingAtRest
  <2> SUFFICES ASSUME TypeOK, OwedInv, queue = {}, \A w \in Workers : At(w, "idle"),
                      NEW c \in captured
               PROVE  ScopeClaimCount(CapturedScope[c]) <= ScopeClaimCeiling
    BY DEF WithinCeilingAtRest
  <2> DEFINE sc == CapturedScope[c]
  <2>1. sc \in Scopes \ {AttestedScope}
    BY CurateAssumption DEF TypeOK
  <2> HIDE DEF sc
  <2>2. Owed(sc)
    BY <2>1 DEF OwedInv
  <2>3. ScopeClaimCount(sc) <= ScopeClaimCeiling
    BY <2>2 DEF Owed, Queued, OwesFor, At
  <2> QED
    BY <2>3 DEF sc
<1>2. Init => TypeOK /\ PassesInv /\ OwedInv
  BY InitTyped, PassesInit, OwedInit DEF PassesComplete
<1>3. TypeOK /\ PassesInv /\ OwedInv /\ [Next]_vars => (TypeOK /\ PassesInv /\ OwedInv)'
  BY NextTyped, PassesNext, OwedNext
<1> QED
  BY <1>1, <1>2, <1>3, PTL DEF Spec
=============================================================================
