---------------------------- MODULE CurateProofs ----------------------------
(* Theorems about the curation side, for every value of the constants. *)
EXTENDS Curate, Counting, SequenceTheorems

-----------------------------------------------------------------------------
(* Facts about the pieces a step is made of *)

LEMMA IdleTyped == Idle \in WorkerState
  BY DEF Idle, WorkerState, Pcs

LEMMA BecomeTyped ==
  ASSUME TypeOK, NEW w \in Workers, NEW x \in WorkerState, Become(w, x)
  PROVE  worker' \in [Workers -> WorkerState]
  BY DEF TypeOK, Become

LEMMA GotoTyped ==
  ASSUME TypeOK, NEW w \in Workers, worker[w].pc # "idle",
         NEW pc \in Pcs \ {"idle", "stamp", "write", "apply"}, Goto(w, pc)
  PROVE  worker' \in [Workers -> WorkerState]
<1>1. [worker[w] EXCEPT !.pc = pc] \in WorkerState
  BY DEF TypeOK, WorkerState
<1> QED
  BY <1>1, BecomeTyped DEF Goto

LEMMA RetryTyped ==
  ASSUME TypeOK, NEW w \in Workers, worker[w].pc # "idle", Retry(w)
  PROVE  worker' \in [Workers -> WorkerState] /\ queue' \subseteq Job
<1>1. worker' \in [Workers -> WorkerState]
  BY IdleTyped, BecomeTyped DEF Retry
<1>2. JobOf(w) \in Job
  BY DEF TypeOK, WorkerState, JobOf
<1>3. ASSUME JobOf(w).attempt < MaxAttempts
      PROVE  [JobOf(w) EXCEPT !.attempt = @ + 1] \in Job
  <2>1. JobOf(w).attempt + 1 \in 1..MaxAttempts
    BY <1>2, <1>3, CurateAssumption DEF Job
  <2> QED
    BY <1>2, <2>1 DEF Job
<1> QED
  BY <1>1, <1>3 DEF Retry, TypeOK

LEMMA ReadClockTyped ==
  ASSUME TypeOK, NEW t, ReadClock(t)
  PROVE  t \in Nat /\ clock' \in Nat
  BY DEF TypeOK, ReadClock, Instants

LEMMA FaultTyped ==
  ASSUME TypeOK, NEW kind, Fault(kind)
  PROVE  faults' \in Nat
  BY DEF TypeOK, Fault

LEMMA EventTyped ==
  ASSUME TypeOK, NEW w \in Workers, worker[w].pc # "idle", NEW at \in Nat,
         NEW kind \in {"inference", "denied"}
  PROVE  Event(kind, w, at) \in UsageRow
<1>1. JobOf(w) \in Job /\ worker[w].tries \in Nat
  BY DEF TypeOK, WorkerState, JobOf
<1>2. SourceOf(w) \in Captures /\ JobOf(w).attempt \in 1..MaxAttempts
  BY <1>1 DEF SourceOf, Job
<1>3. CapturedBy[SourceOf(w)] \in Principals
  BY <1>2, CurateAssumption
<1> QED
  BY <1>1, <1>2, <1>3 DEF Event, UsageRow

LEMMA RecordUsageTyped ==
  ASSUME TypeOK, NEW e \in UsageRow, RecordUsage(e)
  PROVE  ledger' \subseteq UsageRow /\ faults' \in Nat
  BY FaultTyped DEF TypeOK, RecordUsage

LEMMA WriteClaimTyped ==
  ASSUME TypeOK, NEW i \in Ids, NEW row \in Claim, WriteClaim(i, row)
  PROVE  StoreTypeOK'
  BY DEF TypeOK, StoreTypeOK, WriteClaim

LEMMA CandidateTyped ==
  ASSUME NEW c \in Captures, NEW s \in Statements, NEW now \in Nat
  PROVE  Candidate(c, s, now) \in Claim
  BY CurateAssumption DEF Candidate, Claim

\* Closing rows, whatever the reason, keeps the table typed.
LEMMA ClosedTyped ==
  ASSUME NEW r \in Claim, NEW reason \in Reasons, NEW s \in Ids
  PROVE  /\ [r EXCEPT !.live = FALSE, !.reason = reason] \in Claim
         /\ [r EXCEPT !.live = FALSE, !.reason = reason, !.supersededBy = s]
               \in Claim
  BY DEF Claim

LEMMA SupersedeTyped ==
  ASSUME TypeOK, NEW d \in Ids, NEW s \in Ids, ApplySupersession(d, s)
  PROVE  StoreTypeOK'
<1>1. [claims[d] EXCEPT !.live = FALSE, !.reason = "duplicate", !.supersededBy = s]
        \in Claim
  BY ClosedTyped DEF TypeOK, StoreTypeOK, ApplySupersession, Live, Reasons
<1>2. DOMAIN claims' = DOMAIN claims
  BY DEF ApplySupersession
<1>3. \A j \in DOMAIN claims : claims'[j] \in Claim
  BY <1>1 DEF TypeOK, StoreTypeOK, ApplySupersession, Live
<1> QED
  BY <1>2, <1>3 DEF TypeOK, StoreTypeOK

LEMMA ExpireTyped ==
  ASSUME TypeOK, NEW i \in Ids, NEW reason \in Reasons, ExpireClaim(i, reason)
  PROVE  StoreTypeOK'
<1>1. [claims[i] EXCEPT !.live = FALSE, !.reason = reason] \in Claim
  BY ClosedTyped, StoreAssumption DEF TypeOK, StoreTypeOK, ExpireClaim, Live
<1>2. DOMAIN claims' = DOMAIN claims
  BY DEF ExpireClaim
<1>3. \A j \in DOMAIN claims : claims'[j] \in Claim
  BY <1>1 DEF TypeOK, StoreTypeOK, ExpireClaim, Live
<1> QED
  BY <1>2, <1>3 DEF TypeOK, StoreTypeOK

LEMMA PruneTyped ==
  ASSUME TypeOK, NEW victims, PruneRows(victims)
  PROVE  StoreTypeOK'
<1>1. \A j \in DOMAIN claims :
        [claims[j] EXCEPT !.live = FALSE, !.reason = "pruned"] \in Claim
  BY ClosedTyped DEF TypeOK, StoreTypeOK, Reasons
<1> QED
  BY <1>1 DEF TypeOK, StoreTypeOK, PruneRows

\* A count of rows is a number: the table is finite.
LEMMA CountTyped ==
  ASSUME TypeOK, NEW sc
  PROVE  ScopeClaimCount(sc) \in Nat
<1>1. LiveInScope(sc) \in SUBSET Ids
  BY DEF TypeOK, StoreTypeOK, LiveInScope, Live
<1> QED
  BY <1>1, StoreAssumption, FS_Subset, FS_CardinalityType DEF ScopeClaimCount

LEMMA PruneTargetTyped ==
  ASSUME NEW live \in Nat
  PROVE  PruneTarget(live, ScopeClaimCeiling, PruneAggressiveness) \in Int
  BY CurateAssumption DEF PruneTarget, Headroom

-----------------------------------------------------------------------------
(* Type correctness, a lemma per kind of job *)

LEMMA FetchTyped ==
  ASSUME TypeOK, NEW w \in Workers, Fetch(w)
  PROVE  TypeOK'
<1>1. PICK job \in queue :
        /\ queue' = queue \ {job}
        /\ Become(w, [Idle EXCEPT !.pc = FirstStep(job.kind), !.job = job])
  BY DEF Fetch
<1>2. job \in Job /\ FirstStep(job.kind) \in {"cost", "scan", "count"}
  BY <1>1 DEF TypeOK, Job, FirstStep
<1>3. [Idle EXCEPT !.pc = FirstStep(job.kind), !.job = job] \in WorkerState
  BY <1>2, IdleTyped DEF WorkerState, Pcs
<1>4. worker' \in [Workers -> WorkerState]
  BY <1>1, <1>3, BecomeTyped
<1> QED
  BY <1>1, <1>4 DEF TypeOK, Fetch, StoreTypeOK

LEMMA AckTyped ==
  ASSUME TypeOK, NEW w \in Workers, Ack(w) \/ LoseAck(w)
  PROVE  TypeOK'
<1>1. CASE Ack(w)
  BY <1>1, IdleTyped, BecomeTyped DEF Ack, TypeOK, StoreTypeOK
<1>2. CASE LoseAck(w)
  BY <1>2, RetryTyped, FaultTyped DEF LoseAck, At, TypeOK, StoreTypeOK
<1> QED
  BY <1>1, <1>2

LEMMA AdmitTyped ==
  ASSUME TypeOK, NEW w \in Workers, AdmitCost(w) \/ AdmitQuota(w)
  PROVE  TypeOK'
<1>1. CASE AdmitCost(w)
  <2>1. PICK now \in Instants :
          /\ ReadClock(now)
          /\ \/ /\ Become(w, [worker[w] EXCEPT !.pc = "quota", !.now = now])
                /\ UNCHANGED <<ledger, faults>>
             \/ /\ Goto(w, "ack")
                /\ RecordUsage(Event("denied", w, now))
    BY <1>1 DEF AdmitCost
  <2>2. now \in Nat /\ clock' \in Nat
    BY <2>1, ReadClockTyped
  <2>3. worker[w].pc # "idle"
    BY <1>1 DEF AdmitCost, At
  <2>4. [worker[w] EXCEPT !.pc = "quota", !.now = now] \in WorkerState
    BY <2>2, <2>3 DEF TypeOK, WorkerState, Pcs
  <2>5. worker' \in [Workers -> WorkerState]
    BY <2>1, <2>3, <2>4, BecomeTyped, GotoTyped DEF Pcs
  <2>6. ledger' \subseteq UsageRow /\ faults' \in Nat
    BY <2>1, <2>2, <2>3, EventTyped, RecordUsageTyped DEF TypeOK
  <2> QED
    BY <1>1, <2>2, <2>5, <2>6 DEF AdmitCost, TypeOK, StoreTypeOK
<1>2. CASE AdmitQuota(w)
  <2>1. /\ worker[w].pc # "idle"
        /\ \/ /\ Become(w, [worker[w] EXCEPT !.pc = "model", !.now = 0])
              /\ UNCHANGED <<ledger, faults>>
           \/ /\ Become(w, [worker[w] EXCEPT !.pc = "ack", !.now = 0])
              /\ RecordUsage(Event("denied", w, worker[w].now))
    BY <1>2 DEF AdmitQuota, At
  <2>2. /\ [worker[w] EXCEPT !.pc = "model", !.now = 0] \in WorkerState
        /\ [worker[w] EXCEPT !.pc = "ack", !.now = 0] \in WorkerState
    BY <2>1 DEF TypeOK, WorkerState, Pcs
  <2>3. worker' \in [Workers -> WorkerState]
    BY <2>1, <2>2, BecomeTyped
  <2>4. worker[w].now \in Nat
    BY DEF TypeOK, WorkerState
  <2>5. ledger' \subseteq UsageRow /\ faults' \in Nat
    BY <2>1, <2>4, EventTyped, RecordUsageTyped DEF TypeOK
  <2> QED
    BY <1>2, <2>3, <2>5 DEF AdmitQuota, TypeOK, StoreTypeOK
<1> QED
  BY <1>1, <1>2

LEMMA NominateTyped ==
  ASSUME TypeOK, NEW w \in Workers, Nominate(w) \/ NominateFails(w)
  PROVE  TypeOK'
<1>0. worker[w].pc # "idle"
  BY DEF Nominate, NominateFails, At
<1>1. CASE Nominate(w)
  <2>1. PICK now \in Instants :
          ReadClock(now) /\ RecordUsage(Event("inference", w, now))
    BY <1>1 DEF Nominate
  <2>2. PICK found \in Extracts[SourceOf(w)] :
          Become(w, [worker[w] EXCEPT !.todo = found, !.tries = 0,
                       !.pc = IF found = <<>> THEN "ack" ELSE "stamp"])
    BY <1>1 DEF Nominate
  <2>3. SourceOf(w) \in Captures
    BY <1>0 DEF TypeOK, WorkerState, SourceOf, JobOf, Job
  <2>4. found \in Seq(Statements)
    BY <2>2, <2>3, CurateAssumption
  <2>5. [worker[w] EXCEPT !.todo = found, !.tries = 0,
                          !.pc = IF found = <<>> THEN "ack" ELSE "stamp"]
          \in WorkerState
    <3>1. worker[w] \in WorkerState /\ worker[w].job \in Job
      BY <1>0 DEF TypeOK, WorkerState
    <3>2. CASE found = <<>>
      BY <2>4, <3>1, <3>2 DEF WorkerState, Pcs
    <3>3. CASE found # <<>>
      BY <2>4, <3>1, <3>3 DEF WorkerState, Pcs
    <3> QED
      BY <3>2, <3>3
  <2>6. worker' \in [Workers -> WorkerState]
    BY <2>2, <2>5, BecomeTyped
  <2>7. ledger' \subseteq UsageRow /\ faults' \in Nat /\ clock' \in Nat
    BY <1>0, <2>1, ReadClockTyped, EventTyped, RecordUsageTyped
  <2> QED
    BY <1>1, <2>6, <2>7 DEF Nominate, TypeOK, StoreTypeOK
<1>2. CASE NominateFails(w)
  <2>1. PICK now \in Instants :
          ReadClock(now) /\ ledger' = ledger \cup {Event("inference", w, now)}
    BY <1>2 DEF NominateFails
  <2>2. ledger' \subseteq UsageRow /\ clock' \in Nat
    BY <1>0, <2>1, ReadClockTyped, EventTyped DEF TypeOK
  <2>3. faults' \in Nat
    BY <1>2, FaultTyped DEF NominateFails
  <2>4. CASE Become(w, [worker[w] EXCEPT !.tries = @ + 1]) /\ UNCHANGED queue
    <3>0. worker[w] \in WorkerState
      BY DEF TypeOK
    <3>1. [worker[w] EXCEPT !.tries = @ + 1] \in WorkerState
      BY <3>0 DEF WorkerState
    <3> QED
      BY <1>2, <2>2, <2>3, <2>4, <3>1, BecomeTyped
         DEF NominateFails, TypeOK, StoreTypeOK
  <2>5. CASE Retry(w)
    BY <1>0, <1>2, <2>2, <2>3, <2>5, RetryTyped
       DEF NominateFails, TypeOK, StoreTypeOK
  <2> QED
    BY <1>2, <2>4, <2>5 DEF NominateFails
<1> QED
  BY <1>1, <1>2

\* A sequence whose tail is empty has one element.
LEMMA TailEmpty ==
  ASSUME NEW S, NEW s \in Seq(S), s # <<>>, Len(s) # 1
  PROVE  Tail(s) # <<>>
<1>1. Len(s) \in Nat \ {0}
  BY EmptySeq
<1>2. Len(Tail(s)) = Len(s) - 1
  BY HeadTailProperties
<1>3. Len(Tail(s)) # Len(<<>>)
  <2>1. Len(<<>>) = 0
    BY EmptySeq
  <2> QED
    BY <1>1, <1>2, <2>1
<1> QED
  BY <1>3, Zenon

LEMMA WriteTyped ==
  ASSUME TypeOK, NEW w \in Workers,
         StampCandidate(w) \/ WriteCandidate(w) \/ WriteFails(w)
  PROVE  TypeOK'
<1>0. worker[w] \in WorkerState
  BY DEF TypeOK
<1>1. CASE StampCandidate(w)
  <2>1. PICK now \in Instants :
          /\ ReadClock(now)
          /\ Become(w, [worker[w] EXCEPT !.pc = "write", !.now = now])
    BY <1>1 DEF StampCandidate
  <2>2. now \in Nat /\ clock' \in Nat
    BY <2>1, ReadClockTyped
  <2>3. [worker[w] EXCEPT !.pc = "write", !.now = now] \in WorkerState
    BY <1>0, <1>1, <2>2 DEF StampCandidate, At, WorkerState, Pcs
  <2> QED
    BY <1>1, <2>1, <2>2, <2>3, BecomeTyped DEF StampCandidate, TypeOK, StoreTypeOK
<1>2. CASE WriteCandidate(w)
  <2> DEFINE todo == worker[w].todo
  <2>1. SourceOf(w) \in Captures /\ worker[w].now \in Nat
    BY <1>0, <1>2 DEF WriteCandidate, At, WorkerState, SourceOf, JobOf, Job
  <2>2. todo \in Seq(Statements) /\ todo # <<>>
    BY <1>0, <1>2 DEF WriteCandidate, At, WorkerState
  <2>3. /\ Head(todo) \in Statements /\ Tail(todo) \in Seq(Statements)
        /\ Len(todo) # 1 => Tail(todo) # <<>>
    BY <2>2, HeadTailProperties, TailEmpty
  <2>4. StoreTypeOK'
    BY <1>2, <2>1, <2>3, CandidateTyped, WriteClaimTyped DEF WriteCandidate
  <2>5. [worker[w] EXCEPT !.todo = Tail(@), !.now = 0,
            !.pc = IF Len(worker[w].todo) = 1 THEN "enqueueDedup" ELSE "stamp"]
          \in WorkerState
    BY <1>0, <1>2, <2>3 DEF WriteCandidate, At, WorkerState, Pcs
  <2> QED
    BY <1>2, <2>4, <2>5, BecomeTyped DEF WriteCandidate, TypeOK
<1>3. CASE WriteFails(w)
  BY <1>3, RetryTyped, FaultTyped DEF WriteFails, TypeOK, StoreTypeOK
<1> QED
  BY <1>1, <1>2, <1>3

LEMMA EnqueueTyped ==
  ASSUME TypeOK, NEW w \in Workers, EnqueueDedup(w) \/ EnqueuePrune(w)
  PROVE  TypeOK'
<1>1. worker[w].pc # "idle"
  BY DEF EnqueueDedup, EnqueuePrune, At
<1>2. JobOf(w) \in Job
  BY <1>1 DEF TypeOK, WorkerState, JobOf
<1>3. \A kind \in {"dedup", "prune"} : FollowUp(kind, JobOf(w)) \in Job
  BY <1>2, CurateAssumption DEF FollowUp, Job
<1>4. queue' \subseteq Job /\ faults' \in Nat
  BY <1>3, FaultTyped DEF EnqueueDedup, EnqueuePrune, EnqueueOrLose, Enqueue, TypeOK
<1>5. worker' \in [Workers -> WorkerState]
  BY <1>1, GotoTyped DEF EnqueueDedup, EnqueuePrune, Pcs
<1> QED
  BY <1>4, <1>5 DEF EnqueueDedup, EnqueuePrune, TypeOK, StoreTypeOK

\* What a scan yields: folds of a duplicate onto an earlier claim of its group.
LEMMA FoldsFromGroups ==
  ASSUME NEW f \in Folds
  PROVE  \E st \in Statements :
            /\ f = [dup |-> f.dup, survivor |-> f.survivor]
            /\ f.dup \in WithStatement(st)
            /\ f.survivor \in WithStatement(st)
            /\ f.dup # f.survivor
            /\ Earlier(f.survivor, f.dup)
<1>1. PICK g \in LiveDuplicateGroups :
        \E q \in g \X Canonical(g) :
            q[1] # q[2] /\ f = [dup |-> q[1], survivor |-> q[2]]
  BY DEF Folds
<1>5. PICK q \in g \X Canonical(g) :
        q[1] # q[2] /\ f = [dup |-> q[1], survivor |-> q[2]]
  BY <1>1
<1>2. PICK st \in Statements : g = WithStatement(st)
  BY <1>1 DEF LiveDuplicateGroups
<1>3. q[1] \in g /\ q[2] \in g /\ Earlier(q[2], q[1])
  BY <1>5 DEF Canonical
<1>4. f.dup = q[1] /\ f.survivor = q[2]
  BY <1>5
<1> QED
  BY <1>2, <1>3, <1>4, <1>5

LEMMA DedupTyped ==
  ASSUME TypeOK, NEW w \in Workers, DedupStep(w)
  PROVE  TypeOK'
<1>0. worker[w] \in WorkerState
  BY DEF TypeOK
<1>1. CASE ScanDuplicates(w)
  <2>1. Folds \subseteq Fold
    BY FoldsFromGroups DEF Fold, WithStatement, Live, TypeOK, StoreTypeOK
  <2>2. [worker[w] EXCEPT !.pc = "fold", !.folds = Folds] \in WorkerState
    BY <1>0, <1>1, <2>1 DEF ScanDuplicates, At, WorkerState, Pcs
  <2> QED
    BY <1>1, <2>2, BecomeTyped DEF ScanDuplicates, TypeOK, StoreTypeOK
<1>2. CASE LoadDuplicate(w)
  <2>1. PICK f \in worker[w].folds :
          \/ Become(w, [worker[w] EXCEPT !.pc = "apply", !.loaded = f])
          \/ Become(w, [worker[w] EXCEPT !.folds = @ \ {f}])
    BY <1>2 DEF LoadDuplicate
  <2>2. /\ [worker[w] EXCEPT !.pc = "apply", !.loaded = f] \in WorkerState
        /\ [worker[w] EXCEPT !.folds = @ \ {f}] \in WorkerState
    BY <1>0, <1>2 DEF LoadDuplicate, At, WorkerState, Pcs
  <2> QED
    BY <1>2, <2>1, <2>2, BecomeTyped DEF LoadDuplicate, TypeOK, StoreTypeOK
<1>3. CASE FoldDuplicate(w)
  <2>1. worker[w].loaded \in Fold
    BY <1>0, <1>3 DEF FoldDuplicate, At, WorkerState
  <2>2. StoreTypeOK'
    BY <1>3, <2>1, SupersedeTyped DEF FoldDuplicate, Fold
  <2>3. [worker[w] EXCEPT !.pc = "fold", !.loaded = NULL,
                          !.folds = @ \ {worker[w].loaded}] \in WorkerState
    BY <1>0, <1>3 DEF FoldDuplicate, At, WorkerState, Pcs
  <2> QED
    BY <1>3, <2>2, <2>3, BecomeTyped DEF FoldDuplicate, TypeOK
<1>4. CASE FoldMisses(w)
  BY <1>4, RetryTyped DEF FoldMisses, At, TypeOK, StoreTypeOK
<1>5. CASE FinishDedup(w)
  BY <1>5, GotoTyped DEF FinishDedup, At, Pcs, TypeOK, StoreTypeOK
<1> QED
  BY <1>1, <1>2, <1>3, <1>4, <1>5 DEF DedupStep

LEMMA PruneStepTyped ==
  ASSUME TypeOK, NEW w \in Workers, PruneStep(w) \/ PassFails(w)
  PROVE  TypeOK'
<1>0. worker[w] \in WorkerState
  BY DEF TypeOK
<1>1. CASE CountScope(w)
  <2> DEFINE live   == ScopeClaimCount(CapturedScope[SourceOf(w)])
             target == PruneTarget(live, ScopeClaimCeiling, PruneAggressiveness)
  <2>1. target \in Int
    BY CountTyped, PruneTargetTyped
  <2>2. Become(w, IF target <= 0
                  THEN [worker[w] EXCEPT !.pc = "ack"]
                  ELSE [worker[w] EXCEPT !.pc = "select", !.target = target])
    BY <1>1 DEF CountScope
  <2>3. /\ [worker[w] EXCEPT !.pc = "ack"] \in WorkerState
        /\ \A n \in Nat : [worker[w] EXCEPT !.pc = "select", !.target = n]
                          \in WorkerState
    <3>1. worker[w].pc = "count"
      BY <1>1 DEF CountScope, At
    <3> QED
      BY <1>0, <3>1 DEF WorkerState, Pcs
  <2>4. worker' \in [Workers -> WorkerState]
    <3> HIDE DEF target
    <3>1. CASE target <= 0
      <4>1. Become(w, [worker[w] EXCEPT !.pc = "ack"])
        BY <2>2, <3>1
      <4> QED
        BY <2>3, <4>1, BecomeTyped
    <3>2. CASE target \in Nat \ {0}
      <4>1. Become(w, [worker[w] EXCEPT !.pc = "select", !.target = target])
        BY <2>2, <3>2
      <4> QED
        BY <2>3, <3>2, <4>1, BecomeTyped
    <3> QED
      BY <2>1, <3>1, <3>2
  <2> QED
    BY <1>1, <2>4 DEF CountScope, TypeOK, StoreTypeOK
<1>2. CASE SelectVictims(w)
  <2> DEFINE victims == PruneCandidates(CapturedScope[SourceOf(w)],
                                        worker[w].target)
  <2>1. victims \in SUBSET Ids
    BY DEF PruneCandidates, LiveInScope, Live, TypeOK, StoreTypeOK
  <2>2. Become(w, [worker[w] EXCEPT !.pc = "close", !.victims = victims])
    BY <1>2 DEF SelectVictims
  <2>3. [worker[w] EXCEPT !.pc = "close", !.victims = victims] \in WorkerState
    <3> HIDE DEF victims
    <3> QED
      BY <1>0, <1>2, <2>1 DEF SelectVictims, At, WorkerState, Pcs
  <2> QED
    BY <1>2, <2>2, <2>3, BecomeTyped DEF SelectVictims, TypeOK, StoreTypeOK
<1>3. CASE PruneScope(w)
  <2>1. StoreTypeOK'
    BY <1>3, PruneTyped DEF PruneScope
  <2>2. [worker[w] EXCEPT !.pc = "ack", !.victims = {}, !.target = 0]
          \in WorkerState
    BY <1>0, <1>3 DEF PruneScope, At, WorkerState, Pcs
  <2> QED
    BY <1>3, <2>1, <2>2, BecomeTyped DEF PruneScope, TypeOK
<1>4. CASE PassFails(w)
  BY <1>4, RetryTyped, FaultTyped DEF PassFails, TypeOK, StoreTypeOK
<1> QED
  BY <1>1, <1>2, <1>3, <1>4 DEF PruneStep

LEMMA PeopleTyped ==
  ASSUME TypeOK,
         \/ \E c \in Captures : Capture(c)
         \/ \E c \in Clients : StampAttestation(c) \/ Attest(c)
         \/ \E i \in Ids, reason \in ExpiryReasons : Expire(i, reason)
  PROVE  TypeOK'
<1>1. CASE \E c \in Captures : Capture(c)
  BY <1>1, CurateAssumption
     DEF Capture, Enqueue, NominateJob, Job, TypeOK, StoreTypeOK
<1>2. ASSUME NEW c \in Clients, StampAttestation(c)
      PROVE  TypeOK'
  <2>1. PICK p \in Principals, s \in Statements, now \in Instants :
          /\ ReadClock(now)
          /\ client' = [client EXCEPT ![c] = [pc |-> "attest", principal |-> p,
                                              statement |-> s, now |-> now]]
    BY <1>2 DEF StampAttestation
  <2>2. now \in Nat /\ clock' \in Nat
    BY <2>1, ReadClockTyped
  <2>3. client' \in [Clients -> ClientState]
    BY <2>1, <2>2 DEF TypeOK, ClientState
  <2> QED
    BY <1>2, <2>2, <2>3 DEF StampAttestation, TypeOK, StoreTypeOK
<1>3. ASSUME NEW c \in Clients, Attest(c)
      PROVE  TypeOK'
  <2>1. /\ client[c] \in ClientState
        /\ client[c].principal \in Principals /\ client[c].statement \in Statements
        /\ client[c].now \in Nat
    BY <1>3 DEF Attest, TypeOK, ClientState
  <2>2. Attestation(client[c]) \in Claim
    BY <2>1, CurateAssumption DEF Attestation, Claim
  <2>3. StoreTypeOK'
    BY <1>3, <2>2, WriteClaimTyped DEF Attest
  <2>4. [client[c] EXCEPT !.pc = "done"] \in ClientState
    BY <2>1 DEF ClientState
  <2>5. client' \in [Clients -> ClientState]
    BY <1>3, <2>4 DEF Attest, TypeOK
  <2> QED
    BY <1>3, <2>3, <2>5 DEF Attest, TypeOK
<1>4. ASSUME NEW i \in Ids, NEW reason \in ExpiryReasons, Expire(i, reason)
      PROVE  TypeOK'
  <2>1. reason \in Reasons
    BY CurateAssumption DEF Reasons
  <2>2. StoreTypeOK'
    BY <1>4, <2>1, ExpireTyped DEF Expire
  <2> QED
    BY <1>4, <2>2 DEF Expire, TypeOK
<1> QED
  BY <1>1, <1>2, <1>3, <1>4

LEMMA InitTyped == Init => TypeOK
<1> SUFFICES ASSUME Init PROVE TypeOK
  OBVIOUS
<1>1. worker \in [Workers -> WorkerState]
  BY IdleTyped DEF Init
<1>2. client \in [Clients -> ClientState]
  BY DEF Init, NoClient, ClientState
<1> QED
  BY <1>1, <1>2 DEF Init, TypeOK, StoreTypeOK

LEMMA NextTyped == TypeOK /\ [Next]_vars => TypeOK'
<1> SUFFICES ASSUME TypeOK, [Next]_vars PROVE TypeOK'
  OBVIOUS
<1>1. CASE UNCHANGED vars
  BY <1>1 DEF vars, TypeOK, StoreTypeOK
<1>2. ASSUME NEW w \in Workers, WorkStep(w)
      PROVE  TypeOK'
  BY <1>2, FetchTyped, AckTyped, AdmitTyped, NominateTyped, WriteTyped,
     EnqueueTyped, DedupTyped, PruneStepTyped DEF WorkStep, NominateStep
<1>3. ASSUME NEW w \in Workers, FaultStep(w)
      PROVE  TypeOK'
  BY <1>3, NominateTyped, WriteTyped, PruneStepTyped, AckTyped DEF FaultStep
<1> QED
  BY <1>1, <1>2, <1>3, PeopleTyped DEF Next, Quiescent

\* Every row, job, usage row and worker state stays of its kind, for any
\* number of workers, captures, attempts and identifiers.
THEOREM TypeCorrect == Spec => []TypeOK
  BY InitTyped, NextTyped, PTL DEF Spec

-----------------------------------------------------------------------------
(* The order of supersession *)

\* All that a step may do to the table, with what it needs to know about it.
StoreStep ==
    \/ UNCHANGED claims
    \/ \E i \in Ids, row \in Claim :
          row.live /\ row.reason = NULL /\ row.supersededBy = NULL /\ WriteClaim(i, row)
    \/ \E w \in Workers : \E f \in worker[w].folds :
          f \in Fold /\ ApplySupersession(f.dup, f.survivor)
    \/ \E i \in Ids, reason \in ExpiryReasons : ExpireClaim(i, reason)
    \/ \E w \in Workers : At(w, "close") /\ PruneRows(worker[w].victims)

LEMMA StepsOfTheStore ==
  ASSUME TypeOK, [Next]_vars
  PROVE  StoreStep
<1>1. ASSUME NEW w \in Workers, WriteCandidate(w)
      PROVE  StoreStep
  <2>1. worker[w] \in WorkerState /\ worker[w].pc = "write"
    BY <1>1 DEF WriteCandidate, At, TypeOK
  <2>2. SourceOf(w) \in Captures /\ worker[w].now \in Nat
    BY <2>1 DEF WorkerState, SourceOf, JobOf, Job
  <2>3. Head(worker[w].todo) \in Statements
    BY <2>1, HeadTailProperties DEF WorkerState
  <2> DEFINE row == Candidate(SourceOf(w), Head(worker[w].todo), worker[w].now)
  <2>4. row \in Claim
    BY <2>2, <2>3, CandidateTyped
  <2>5. row.live /\ row.reason = NULL /\ row.supersededBy = NULL
    BY DEF Candidate
  <2>6. \E i \in Ids : WriteClaim(i, row)
    BY <1>1 DEF WriteCandidate
  <2> HIDE DEF row
  <2> QED
    BY <2>4, <2>5, <2>6 DEF StoreStep
<1>2. ASSUME NEW c \in Clients, Attest(c)
      PROVE  StoreStep
  <2>1. /\ client[c].principal \in Principals /\ client[c].statement \in Statements
        /\ client[c].now \in Nat
    BY <1>2 DEF Attest, TypeOK, ClientState
  <2> DEFINE row == Attestation(client[c])
  <2>2. row \in Claim
    BY <2>1, CurateAssumption DEF Attestation, Claim
  <2>3. row.live /\ row.reason = NULL /\ row.supersededBy = NULL
    BY DEF Attestation
  <2>4. \E i \in Ids : WriteClaim(i, row)
    BY <1>2 DEF Attest
  <2> HIDE DEF row
  <2> QED
    BY <2>2, <2>3, <2>4 DEF StoreStep
<1>3. ASSUME NEW w \in Workers, FoldDuplicate(w)
      PROVE  StoreStep
  <2>1. worker[w].loaded \in worker[w].folds /\ worker[w].loaded \in Fold
    BY <1>3 DEF FoldDuplicate, At, TypeOK, WorkerState
  <2> QED
    BY <1>3, <2>1 DEF FoldDuplicate, StoreStep
<1>4. ASSUME NEW w \in Workers, PruneScope(w)
      PROVE  StoreStep
  BY <1>4 DEF PruneScope, StoreStep
<1>5. ASSUME NEW i \in Ids, NEW reason \in ExpiryReasons, Expire(i, reason)
      PROVE  StoreStep
  BY <1>5 DEF Expire, StoreStep
<1>6. ASSUME NEW w \in Workers, WorkStep(w) \/ FaultStep(w)
      PROVE  StoreStep
  <2>1. CASE WorkStep(w) /\ ~WriteCandidate(w) /\ ~FoldDuplicate(w)
                         /\ ~PruneScope(w)
    <3>1. UNCHANGED claims
      BY <2>1 DEF WorkStep, NominateStep, DedupStep, PruneStep, Fetch, Ack,
         AdmitCost, AdmitQuota, Nominate, StampCandidate, EnqueueDedup,
         EnqueuePrune, ScanDuplicates, LoadDuplicate, FoldMisses, FinishDedup,
         CountScope, SelectVictims
    <3> QED
      BY <3>1 DEF StoreStep
  <2>2. CASE FaultStep(w)
    BY <2>2 DEF FaultStep, NominateFails, WriteFails, PassFails, LoseAck, StoreStep
  <2> QED
    BY <1>1, <1>3, <1>4, <1>6, <2>1, <2>2
<1>7. CASE \/ UNCHANGED vars
           \/ \E c \in Captures : Capture(c)
           \/ \E c \in Clients : StampAttestation(c)
  BY <1>7 DEF vars, Capture, StampAttestation, StoreStep
<1> QED
  BY <1>2, <1>5, <1>6, <1>7 DEF Next, Quiescent

\* No statement and no instant is rewritten, nothing is deleted and nothing
\* closed is reopened.
LEMMA RowsKeep ==
  ASSUME TypeOK, StoreStep, NEW i \in DOMAIN claims
  PROVE  /\ i \in DOMAIN claims'
         /\ claims'[i].statement = claims[i].statement
         /\ claims'[i].recordedAt = claims[i].recordedAt
         /\ claims'[i].live => claims[i].live
<1>0. claims[i] \in Claim
  BY DEF TypeOK, StoreTypeOK
<1>1. CASE UNCHANGED claims
  BY <1>1
<1>2. ASSUME NEW j \in Ids, NEW row, WriteClaim(j, row)
      PROVE  i \in DOMAIN claims' /\ claims'[i] = claims[i]
  BY <1>2 DEF WriteClaim
<1>3. ASSUME NEW d, NEW s, ApplySupersession(d, s)
      PROVE  /\ i \in DOMAIN claims'
             /\ claims'[i] \in {claims[i], [claims[i] EXCEPT !.live = FALSE,
                                 !.reason = "duplicate", !.supersededBy = s]}
  BY <1>3 DEF ApplySupersession
<1>4. ASSUME NEW j, NEW reason, ExpireClaim(j, reason)
      PROVE  /\ i \in DOMAIN claims'
             /\ claims'[i] \in {claims[i],
                    [claims[i] EXCEPT !.live = FALSE, !.reason = reason]}
  BY <1>4 DEF ExpireClaim
<1>5. ASSUME NEW victims, PruneRows(victims)
      PROVE  /\ i \in DOMAIN claims'
             /\ claims'[i] \in {claims[i],
                    [claims[i] EXCEPT !.live = FALSE, !.reason = "pruned"]}
  BY <1>5 DEF PruneRows
<1> QED
  BY <1>0, <1>1, <1>2, <1>3, <1>4, <1>5 DEF StoreStep, Claim

LEMMA SaidBeforeKept ==
  ASSUME TypeOK, StoreStep, NEW a, NEW b, SaidBefore(a, b)
  PROVE  SaidBefore(a, b)'
<1>1. a \in DOMAIN claims /\ b \in DOMAIN claims
  BY DEF SaidBefore
<1>2. /\ a \in DOMAIN claims' /\ b \in DOMAIN claims'
      /\ claims'[a].statement = claims[a].statement
      /\ claims'[b].statement = claims[b].statement
      /\ claims'[a].recordedAt = claims[a].recordedAt
      /\ claims'[b].recordedAt = claims[b].recordedAt
  BY <1>1, RowsKeep
<1> QED
  BY <1>2 DEF SaidBefore

\* A pass gets its folds from a scan of the table as it then is, and only
\* ever drops some of them.
LEMMA FoldsShrink ==
  ASSUME TypeOK, [Next]_vars, NEW v \in Workers
  PROVE  \/ worker'[v].folds \subseteq worker[v].folds
         \/ worker'[v].folds = Folds /\ UNCHANGED claims
<1>0. \A w \in Workers : worker[w] \in WorkerState
  BY DEF TypeOK
<1>1. ASSUME NEW w \in Workers, NEW x, Become(w, x),
             x.folds \subseteq worker[w].folds
      PROVE  worker'[v].folds \subseteq worker[v].folds
  BY <1>1 DEF Become, TypeOK
<1>2. ASSUME NEW w \in Workers, Retry(w)
      PROVE  worker'[v].folds \subseteq worker[v].folds
  BY <1>1, <1>2 DEF Retry, Idle
<1>3. ASSUME NEW w \in Workers, NEW pc, Goto(w, pc)
      PROVE  worker'[v].folds \subseteq worker[v].folds
  <2>1. [worker[w] EXCEPT !.pc = pc].folds = worker[w].folds
    BY <1>0 DEF WorkerState
  <2> QED
    BY <1>1, <1>3, <2>1 DEF Goto
<1>4. ASSUME NEW w \in Workers, Fetch(w) \/ Ack(w)
      PROVE  worker'[v].folds \subseteq worker[v].folds
  BY <1>1, <1>4 DEF Fetch, Ack, Idle
<1>5. ASSUME NEW w \in Workers, NominateStep(w)
      PROVE  worker'[v].folds \subseteq worker[v].folds
  <2>1. CASE AdmitCost(w)
    BY <1>0, <1>1, <1>3, <2>1 DEF AdmitCost, WorkerState
  <2>2. CASE AdmitQuota(w)
    BY <1>0, <1>1, <2>2 DEF AdmitQuota, WorkerState
  <2>3. CASE Nominate(w)
    BY <1>0, <1>1, <2>3 DEF Nominate, WorkerState
  <2>4. CASE StampCandidate(w)
    BY <1>0, <1>1, <2>4 DEF StampCandidate, WorkerState
  <2>5. CASE WriteCandidate(w)
    BY <1>0, <1>1, <2>5 DEF WriteCandidate, WorkerState
  <2>6. CASE EnqueueDedup(w) \/ EnqueuePrune(w)
    BY <1>3, <2>6 DEF EnqueueDedup, EnqueuePrune
  <2> QED
    BY <1>5, <2>1, <2>2, <2>3, <2>4, <2>5, <2>6 DEF NominateStep
<1>6. ASSUME NEW w \in Workers, DedupStep(w)
      PROVE  \/ worker'[v].folds \subseteq worker[v].folds
             \/ worker'[v].folds = Folds /\ UNCHANGED claims
  <2>1. CASE ScanDuplicates(w)
    <3>1. [worker[w] EXCEPT !.pc = "fold", !.folds = Folds].folds = Folds
      BY <1>0 DEF WorkerState
    <3> QED
      BY <2>1, <3>1 DEF ScanDuplicates, Become, TypeOK
  <2>2. CASE LoadDuplicate(w)
    BY <1>0, <1>1, <2>2 DEF LoadDuplicate, WorkerState
  <2>3. CASE FoldDuplicate(w)
    BY <1>0, <1>1, <2>3 DEF FoldDuplicate, WorkerState
  <2>4. CASE FoldMisses(w) \/ FinishDedup(w)
    BY <1>2, <1>3, <2>4 DEF FoldMisses, FinishDedup
  <2> QED
    BY <1>6, <2>1, <2>2, <2>3, <2>4 DEF DedupStep
<1>7. ASSUME NEW w \in Workers, PruneStep(w)
      PROVE  worker'[v].folds \subseteq worker[v].folds
  <2>1. CASE CountScope(w)
    <3>1. PICK n : \/ Goto(w, "ack")
                   \/ Become(w, [worker[w] EXCEPT !.pc = "select", !.target = n])
      BY <2>1 DEF CountScope, Goto
    <3> QED
      BY <1>0, <1>1, <1>3, <3>1 DEF WorkerState
  <2>2. CASE SelectVictims(w)
    BY <1>0, <1>1, <2>2 DEF SelectVictims, WorkerState
  <2>3. CASE PruneScope(w)
    BY <1>0, <1>1, <2>3 DEF PruneScope, WorkerState
  <2> QED
    BY <1>7, <2>1, <2>2, <2>3 DEF PruneStep
<1>8. ASSUME NEW w \in Workers, FaultStep(w)
      PROVE  worker'[v].folds \subseteq worker[v].folds
  <2>1. CASE Retry(w)
    BY <1>2, <2>1
  <2>2. CASE Become(w, [worker[w] EXCEPT !.tries = @ + 1])
    BY <1>0, <1>1, <2>2 DEF WorkerState
  <2> QED
    BY <1>8, <2>1, <2>2 DEF FaultStep, NominateFails, WriteFails, PassFails, LoseAck
<1>9. CASE UNCHANGED worker
  BY <1>9
<1>10. CASE \E w \in Workers : WorkStep(w) \/ FaultStep(w)
  BY <1>4, <1>5, <1>6, <1>7, <1>8, <1>10 DEF WorkStep
<1> QED
  BY <1>9, <1>10 DEF Next, Quiescent, vars, Capture, StampAttestation, Attest, Expire

\* What a scan finds is ordered.
LEMMA ScanOrdered ==
  ASSUME TypeOK, NEW f \in Folds
  PROVE  SaidBefore(f.survivor, f.dup)
<1>1. PICK st \in Statements :
        /\ f.dup \in WithStatement(st)
        /\ f.survivor \in WithStatement(st)
        /\ Earlier(f.survivor, f.dup)
  BY FoldsFromGroups
<1> QED
  BY <1>1 DEF WithStatement, Live, Earlier, SaidBefore

OrderInv == TypeOK /\ SupersessionOrdered /\ FoldsOrdered

LEMMA NextOrdered == OrderInv /\ [Next]_vars => OrderInv'
<1> SUFFICES ASSUME OrderInv, [Next]_vars PROVE OrderInv'
  OBVIOUS
<1>0. TypeOK /\ SupersessionOrdered /\ FoldsOrdered
  BY DEF OrderInv
<1>1. TypeOK'
  BY <1>0, NextTyped
<1>2. StoreStep
  BY <1>0, StepsOfTheStore
<1>3. FoldsOrdered'
  <2> SUFFICES ASSUME NEW v \in Workers, NEW f \in worker'[v].folds
               PROVE  SaidBefore(f.survivor, f.dup)'
    BY DEF FoldsOrdered
  <2>1. CASE worker'[v].folds \subseteq worker[v].folds
    BY <1>0, <1>2, <2>1, SaidBeforeKept DEF FoldsOrdered
  <2>2. CASE worker'[v].folds = Folds
    BY <1>0, <1>2, <2>2, ScanOrdered, SaidBeforeKept
  <2> QED
    BY <1>0, <2>1, <2>2, FoldsShrink
<1>4. SupersessionOrdered'
  <2> SUFFICES ASSUME NEW i \in DOMAIN claims', NEW q,
                      q = claims'[i].supersededBy, q # NULL
               PROVE  ~claims'[i].live /\ SaidBefore(q, i)'
    BY DEF SupersessionOrdered
  <2>1. ASSUME i \in DOMAIN claims, q = claims[i].supersededBy
        PROVE  ~claims'[i].live /\ SaidBefore(q, i)'
    <3>1. ~claims[i].live /\ SaidBefore(q, i)
      BY <1>0, <2>1 DEF SupersessionOrdered
    <3> QED
      BY <1>0, <1>2, <2>1, <3>1, SaidBeforeKept, RowsKeep
  <2>2. \A j \in DOMAIN claims : claims[j] \in Claim
    BY <1>0 DEF TypeOK, StoreTypeOK
  <2>3. CASE UNCHANGED claims
    BY <2>1, <2>3
  <2>4. ASSUME NEW j \in Ids, NEW row \in Claim, row.supersededBy = NULL,
               WriteClaim(j, row)
        PROVE  ~claims'[i].live /\ SaidBefore(q, i)'
    BY <2>1, <2>4 DEF WriteClaim
  <2>5. ASSUME NEW w \in Workers, NEW f \in worker[w].folds,
               ApplySupersession(f.dup, f.survivor)
        PROVE  ~claims'[i].live /\ SaidBefore(q, i)'
    <3>1. CASE i = f.dup
      <4>1. SaidBefore(f.survivor, f.dup)'
        BY <1>0, <1>2, <2>5, SaidBeforeKept DEF FoldsOrdered
      <4>2. ~claims'[i].live /\ q = f.survivor
        BY <2>2, <2>5, <3>1 DEF ApplySupersession, Live, Claim
      <4> QED
        BY <3>1, <4>1, <4>2
    <3>2. CASE i # f.dup
      BY <2>1, <2>5, <3>2 DEF ApplySupersession
    <3> QED
      BY <3>1, <3>2
  <2>6. ASSUME NEW j \in Ids, NEW reason, ExpireClaim(j, reason)
        PROVE  ~claims'[i].live /\ SaidBefore(q, i)'
    BY <2>1, <2>2, <2>6 DEF ExpireClaim, Claim
  <2>7. ASSUME NEW victims, PruneRows(victims)
        PROVE  ~claims'[i].live /\ SaidBefore(q, i)'
    BY <2>1, <2>2, <2>7 DEF PruneRows, Claim
  <2> QED
    BY <1>2, <2>3, <2>4, <2>5, <2>6, <2>7 DEF StoreStep
<1> QED
  BY <1>1, <1>3, <1>4 DEF OrderInv

LEMMA InitOrdered == Init => OrderInv
<1> SUFFICES ASSUME Init PROVE OrderInv
  OBVIOUS
<1>1. SupersessionOrdered
  BY DEF Init, SupersessionOrdered
<1>2. FoldsOrdered
  BY DEF Init, FoldsOrdered, Idle
<1> QED
  BY <1>1, <1>2, InitTyped DEF OrderInv

\* Supersession edges point back in time, whatever the passes' snapshots were
\* and whatever was committed, closed or retried between a scan and its folds.
THEOREM SupersessionOrder == Spec => []SupersessionOrdered
<1>1. OrderInv => SupersessionOrdered
  BY DEF OrderInv
<1> QED
  BY <1>1, InitOrdered, NextOrdered, PTL DEF Spec

\* And so does what a pass still holds.
THEOREM FoldOrder == Spec => []FoldsOrdered
<1>1. OrderInv => FoldsOrdered
  BY DEF OrderInv
<1> QED
  BY <1>1, InitOrdered, NextOrdered, PTL DEF Spec

-----------------------------------------------------------------------------
(* The table implements the life of a claim *)

asserted ==
    [i \in DOMAIN claims |-> [statement |-> claims[i].statement,
                              at |-> claims[i].recordedAt]]

successor ==
    [i \in {j \in DOMAIN claims : claims[j].supersededBy # NULL} |->
        claims[i].supersededBy]

LEMMA WriteAsserts ==
  ASSUME TypeOK, NEW i \in Ids, NEW row \in Claim, row.live,
         row.supersededBy = NULL, WriteClaim(i, row)
  PROVE  Life!Assert(i)
<1>1. /\ i \notin DOMAIN claims /\ DOMAIN claims' = DOMAIN claims \cup {i}
      /\ claims'[i] = row
      /\ \A j \in DOMAIN claims : claims'[j] = claims[j]
  BY DEF WriteClaim
<1>2. Live' = Live \cup {i}
  BY <1>1 DEF Live
<1>3. successor' = successor
  BY <1>1 DEF successor
<1>4. /\ DOMAIN asserted' = DOMAIN asserted \cup {i}
      /\ asserted'[i] = [statement |-> row.statement, at |-> row.recordedAt]
      /\ \A j \in DOMAIN asserted : asserted'[j] = asserted[j]
  BY <1>1 DEF asserted
<1>5. asserted'[i] \in [statement : Statements, at : Nat]
  BY <1>4 DEF Claim
<1> QED
  BY <1>1, <1>2, <1>3, <1>4, <1>5 DEF Life!Assert, asserted, successor

LEMMA SupersedeFolds ==
  ASSUME TypeOK, NEW d \in Ids, NEW s \in Ids, SaidBefore(s, d),
         ApplySupersession(d, s)
  PROVE  Life!FoldOnto(d, s)
<1>0. s # NULL /\ \A j \in DOMAIN claims : claims[j] \in Claim
  BY StoreAssumption DEF TypeOK, StoreTypeOK
<1>1. /\ d \in Live /\ DOMAIN claims' = DOMAIN claims
      /\ claims'[d] = [claims[d] EXCEPT !.live = FALSE, !.reason = "duplicate",
                                         !.supersededBy = s]
      /\ \A j \in DOMAIN claims \ {d} : claims'[j] = claims[j]
  BY DEF ApplySupersession, Live
<1>2. /\ ~claims'[d].live /\ claims'[d].supersededBy = s
      /\ claims'[d].statement = claims[d].statement
      /\ claims'[d].recordedAt = claims[d].recordedAt
  BY <1>0, <1>1 DEF Claim, Live
<1>3. Live' = Live \ {d}
  BY <1>1, <1>2 DEF Live
<1>4. asserted' = asserted
  BY <1>1, <1>2 DEF asserted
<1>5. successor' = [k \in DOMAIN successor \cup {d} |->
                       IF k = d THEN s ELSE successor[k]]
  <2> DEFINE D == {j \in DOMAIN claims : claims[j].supersededBy # NULL}
             E == {j \in DOMAIN claims' : claims'[j].supersededBy # NULL}
  <2>1. E = D \cup {d}
    BY <1>0, <1>1, <1>2 DEF Live
  <2>2. \A k \in E : claims'[k].supersededBy =
                       IF k = d THEN s ELSE claims[k].supersededBy
    BY <1>1, <1>2
  <2>3. successor = [k \in D |-> claims[k].supersededBy]
    BY DEF successor
  <2>4. successor' = [k \in E |-> claims'[k].supersededBy]
    BY DEF successor
  <2> HIDE DEF D, E
  <2> QED
    BY <2>1, <2>2, <2>3, <2>4
<1>6. /\ s \in DOMAIN asserted
      /\ asserted[s].statement = asserted[d].statement
      /\ \/ asserted[s].at < asserted[d].at
         \/ asserted[s].at = asserted[d].at /\ s < d
  BY DEF SaidBefore, asserted
<1> QED
  BY <1>1, <1>3, <1>4, <1>5, <1>6
     DEF Life!FoldOnto, Life!Precedes, asserted, successor

\* Closing live rows without touching what they say or what they point at.
LEMMA ClosingStops ==
  ASSUME TypeOK, NEW S \in SUBSET Live,
         DOMAIN claims' = DOMAIN claims, Live' = Live \ S,
         \A j \in DOMAIN claims :
            /\ claims'[j].statement = claims[j].statement
            /\ claims'[j].recordedAt = claims[j].recordedAt
            /\ claims'[j].supersededBy = claims[j].supersededBy
  PROVE  Life!StopBelieving(S)
<1>1. asserted' = asserted /\ successor' = successor
  BY DEF asserted, successor
<1> QED
  BY <1>1 DEF Life!StopBelieving, asserted, successor

LEMMA StepsImplement ==
  ASSUME OrderInv, [Next]_vars
  PROVE  [Life!LifeNext]_Life!lifeVars
<1>0. /\ TypeOK /\ FoldsOrdered /\ StoreStep
      /\ \A j \in DOMAIN claims : claims[j] \in Claim
      /\ DOMAIN claims \subseteq Ids
  BY StepsOfTheStore DEF OrderInv, TypeOK, StoreTypeOK
<1>1. CASE UNCHANGED claims
  BY <1>1 DEF Life!lifeVars, Live
<1>2. ASSUME NEW i \in Ids, NEW row \in Claim, row.live,
             row.supersededBy = NULL, WriteClaim(i, row)
      PROVE  Life!LifeNext
  BY <1>0, <1>2, WriteAsserts DEF Life!LifeNext
<1>3. ASSUME NEW w \in Workers, NEW f \in worker[w].folds, f \in Fold,
             ApplySupersession(f.dup, f.survivor)
      PROVE  Life!LifeNext
  <2>1. f.dup \in Ids /\ f.survivor \in Ids /\ SaidBefore(f.survivor, f.dup)
    BY <1>0, <1>3 DEF Fold, FoldsOrdered
  <2> QED
    BY <1>0, <1>3, <2>1, SupersedeFolds DEF Life!LifeNext
<1>4. ASSUME NEW i \in Ids, NEW reason, ExpireClaim(i, reason)
      PROVE  Life!LifeNext
  <2>1. /\ DOMAIN claims' = DOMAIN claims /\ i \in Live
        /\ claims'[i] = [claims[i] EXCEPT !.live = FALSE, !.reason = reason]
        /\ \A j \in DOMAIN claims \ {i} : claims'[j] = claims[j]
    BY <1>4 DEF ExpireClaim, Live
  <2>2. Live' = Live \ {i}
    BY <1>0, <2>1 DEF Live, Claim
  <2>3. \A j \in DOMAIN claims :
            /\ claims'[j].statement = claims[j].statement
            /\ claims'[j].recordedAt = claims[j].recordedAt
            /\ claims'[j].supersededBy = claims[j].supersededBy
    BY <1>0, <2>1 DEF Claim
  <2>4. Life!StopBelieving({i})
    BY <1>0, <2>1, <2>2, <2>3, ClosingStops
  <2> QED
    BY <2>4 DEF Life!LifeNext
<1>5. ASSUME NEW victims, PruneRows(victims)
      PROVE  Life!LifeNext
  <2>1. /\ DOMAIN claims' = DOMAIN claims
        /\ \A j \in DOMAIN claims : claims'[j] =
              IF j \in victims
              THEN [claims[j] EXCEPT !.live = FALSE, !.reason = "pruned"]
              ELSE claims[j]
    BY <1>5 DEF PruneRows
  <2>2. Live' = Live \ (victims \cap Live)
    BY <1>0, <2>1 DEF Live, Claim
  <2>3. \A j \in DOMAIN claims :
            /\ claims'[j].statement = claims[j].statement
            /\ claims'[j].recordedAt = claims[j].recordedAt
            /\ claims'[j].supersededBy = claims[j].supersededBy
    BY <1>0, <2>1 DEF Claim
  <2>4. Life!StopBelieving(victims \cap Live)
    BY <1>0, <2>1, <2>2, <2>3, ClosingStops
  <2>5. victims \cap Live \in SUBSET Ids
    BY <1>0 DEF Live
  <2> QED
    BY <2>4, <2>5 DEF Life!LifeNext
<1> QED
  BY <1>0, <1>1, <1>2, <1>3, <1>4, <1>5 DEF StoreStep

LEMMA InitImplements == Init => Life!LifeInit
<1> SUFFICES ASSUME Init PROVE Life!LifeInit
  OBVIOUS
<1>1. DOMAIN claims = {}
  BY DEF Init
<1>2. Live = {} /\ asserted = [i \in {} |-> NULL] /\ successor = [i \in {} |-> NULL]
  BY <1>1 DEF Live, asserted, successor
<1> QED
  BY <1>2 DEF Life!LifeInit, asserted, successor

\* Under every interleaving, failure and retry the claim table is one of the
\* lives of a claim: asserted once, believed until closed, folded only onto an
\* earlier claim of the same statement, and never back.
THEOREM ImplementsClaimLife == Spec => ClaimsLiveOnce
  BY InitOrdered, NextOrdered, InitImplements, StepsImplement, PTL
     DEF Spec, ClaimsLiveOnce, Life!LifeSpec

-----------------------------------------------------------------------------
(* Folding keeps every statement *)

\* Among the claims of a statement one precedes all the others.
LEMMA FirstOfStatement ==
  ASSUME TypeOK, NEW i \in DOMAIN claims
  PROVE  \E j \in DOMAIN claims :
            /\ claims[j].statement = claims[i].statement
            /\ \A k \in DOMAIN claims : ~SaidBefore(k, j)
<1> DEFINE Same  == {j \in DOMAIN claims : claims[j].statement = claims[i].statement}
           Times == {claims[j].recordedAt : j \in Same}
<1>0. /\ \A j \in DOMAIN claims : j \in Nat /\ claims[j].recordedAt \in Nat
  BY StoreAssumption DEF TypeOK, StoreTypeOK, Claim
<1>1. PICK t \in Times : \A u \in Times : t <= u
  <2>1. Times \in SUBSET Nat /\ Times # {}
    BY <1>0
  <2> QED
    BY <2>1, LeastNatural
<1> DEFINE Then == {j \in Same : claims[j].recordedAt = t}
<1>2. PICK j \in Then : \A k \in Then : j <= k
  <2>1. Then \in SUBSET Nat /\ Then # {}
    BY <1>0
  <2> QED
    BY <2>1, LeastNatural
<1>3. j \in DOMAIN claims /\ claims[j].statement = claims[i].statement
  BY <1>2
<1>4. ASSUME NEW k \in DOMAIN claims, SaidBefore(k, j)
      PROVE  FALSE
  <2>1. k \in Same
    BY <1>3, <1>4 DEF SaidBefore
  <2>2. t <= claims[k].recordedAt /\ t \in Nat /\ claims[j].recordedAt = t
    BY <1>0, <1>1, <1>2, <2>1
  <2>3. claims[k].recordedAt = t /\ k < j
    BY <1>0, <1>4, <2>2 DEF SaidBefore
  <2>4. k \in Then
    BY <2>1, <2>3
  <2> QED
    BY <1>0, <1>2, <1>3, <2>3, <2>4
<1> QED
  BY <1>3, <1>4

\* A row closed as a duplicate points somewhere.
FoldedSomewhere ==
    \A i \in DOMAIN claims :
        claims[i].reason = "duplicate" => claims[i].supersededBy # NULL

KeepInv == OrderInv /\ FoldedSomewhere

LEMMA KeepsStatement == KeepInv => FoldingKeepsStatement
<1> SUFFICES ASSUME KeepInv, NEW i \in DOMAIN claims
             PROVE  \E j \in DOMAIN claims :
                       /\ claims[j].statement = claims[i].statement
                       /\ claims[j].live \/ claims[j].reason # "duplicate"
  BY DEF FoldingKeepsStatement
<1>1. TypeOK /\ SupersessionOrdered /\ FoldedSomewhere
  BY DEF KeepInv, OrderInv
<1>2. PICK j \in DOMAIN claims :
        /\ claims[j].statement = claims[i].statement
        /\ \A k \in DOMAIN claims : ~SaidBefore(k, j)
  BY <1>1, FirstOfStatement
<1>3. claims[j].reason # "duplicate"
  <2>1. SUFFICES ASSUME claims[j].reason = "duplicate" PROVE FALSE
    OBVIOUS
  <2>2. SaidBefore(claims[j].supersededBy, j)
    BY <1>1, <2>1 DEF FoldedSomewhere, SupersessionOrdered
  <2>3. claims[j].supersededBy \in DOMAIN claims
    BY <2>2 DEF SaidBefore
  <2> QED
    BY <1>2, <2>2, <2>3
<1> QED
  BY <1>2, <1>3

LEMMA NextKeeps == KeepInv /\ [Next]_vars => KeepInv'
<1> SUFFICES ASSUME KeepInv, [Next]_vars PROVE KeepInv'
  OBVIOUS
<1>0. OrderInv /\ TypeOK /\ FoldedSomewhere /\ OrderInv' /\ TypeOK' /\ StoreStep
  BY NextOrdered, StepsOfTheStore DEF KeepInv, OrderInv
<1>1. \A j \in DOMAIN claims : claims[j] \in Claim
  BY <1>0 DEF TypeOK, StoreTypeOK
<1>2. SUFFICES ASSUME NEW i \in DOMAIN claims', claims'[i].reason = "duplicate"
               PROVE  claims'[i].supersededBy # NULL
  BY <1>0 DEF KeepInv, FoldedSomewhere
<1>3. ASSUME i \in DOMAIN claims, claims'[i] = claims[i]
      PROVE  claims'[i].supersededBy # NULL
  BY <1>0, <1>2, <1>3 DEF FoldedSomewhere
<1>4. CASE UNCHANGED claims
  BY <1>3, <1>4
<1>5. ASSUME NEW w \in Workers, NEW f \in worker[w].folds, f \in Fold,
             ApplySupersession(f.dup, f.survivor)
      PROVE  claims'[i].supersededBy # NULL
  <2>1. CASE i = f.dup
    BY <1>1, <1>5, <2>1, StoreAssumption DEF ApplySupersession, Live, Claim, Fold
  <2> QED
    BY <1>3, <1>5, <2>1 DEF ApplySupersession
<1>6. ASSUME NEW victims, PruneRows(victims)
      PROVE  claims'[i].supersededBy # NULL
  BY <1>1, <1>2, <1>3, <1>6 DEF PruneRows, Claim
<1>7. ASSUME NEW j \in Ids, NEW row, row.reason = NULL, WriteClaim(j, row)
      PROVE  claims'[i].supersededBy # NULL
  <2>1. CASE i = j
    <3>1. claims'[i] = row
      BY <1>7, <2>1 DEF WriteClaim
    <3>2. NULL # "duplicate"
      BY StoreAssumption
    <3> QED
      BY <1>2, <1>7, <3>1, <3>2
  <2>2. CASE i # j
    BY <1>3, <1>7, <2>2 DEF WriteClaim
  <2> QED
    BY <2>1, <2>2
<1>8. ASSUME NEW j \in Ids, NEW reason \in ExpiryReasons, ExpireClaim(j, reason)
      PROVE  claims'[i].supersededBy # NULL
  <2>1. CASE i = j
    <3>1. claims'[i].reason = reason
      BY <1>1, <1>8, <2>1 DEF ExpireClaim, Live, Claim
    <3>2. reason # "duplicate"
      BY <1>8, CurateAssumption
    <3> QED
      BY <1>2, <3>1, <3>2
  <2>2. CASE i # j
    BY <1>2, <1>3, <1>8, <2>2 DEF ExpireClaim
  <2> QED
    BY <2>1, <2>2
<1> QED
  BY <1>0, <1>4, <1>5, <1>6, <1>7, <1>8 DEF StoreStep

\* A statement once stored is never lost to folding alone, although passes over
\* different snapshots fold onto survivors that were folded since.
THEOREM StatementsKept == Spec => []FoldingKeepsStatement
<1>1. Init => KeepInv
  BY InitOrdered DEF Init, KeepInv, FoldedSomewhere
<1> QED
  BY <1>1, NextKeeps, KeepsStatement, PTL DEF Spec

-----------------------------------------------------------------------------
(* With pruning disabled a closed row is final *)

NoPruning == TypeOK /\ \A w \in Workers : worker[w].pc \notin {"select", "close"}

LEMMA NextUnpruned ==
  ASSUME ScopeClaimCeiling <= 0
  PROVE  NoPruning /\ [Next]_vars => NoPruning'
<1> SUFFICES ASSUME NoPruning, [Next]_vars PROVE NoPruning'
  OBVIOUS
<1>0. TypeOK /\ TypeOK' /\ \A w \in Workers : worker[w] \in WorkerState
  BY NextTyped DEF NoPruning, TypeOK
<1>1. ASSUME NEW w \in Workers, NEW x, Become(w, x), x.pc \notin {"select", "close"}
      PROVE  NoPruning'
  BY <1>0, <1>1 DEF Become, NoPruning, TypeOK
<1>2. ASSUME NEW w \in Workers, NEW pc, pc \notin {"select", "close"}, Goto(w, pc)
      PROVE  NoPruning'
  <2>1. [worker[w] EXCEPT !.pc = pc].pc = pc
    BY <1>0 DEF WorkerState
  <2> QED
    BY <1>1, <1>2, <2>1 DEF Goto
<1>3. ASSUME NEW w \in Workers, CountScope(w)
      PROVE  NoPruning'
  <2> DEFINE live == ScopeClaimCount(CapturedScope[SourceOf(w)])
  <2>1. PruneTarget(live, ScopeClaimCeiling, PruneAggressiveness) = 0
    BY CurateAssumption DEF PruneTarget
  <2>2. Goto(w, "ack")
    BY <1>3, <2>1 DEF CountScope, Goto
  <2> QED
    BY <1>2, <2>2
<1>4. ASSUME NEW w \in Workers, SelectVictims(w) \/ PruneScope(w)
      PROVE  FALSE
  BY <1>4 DEF SelectVictims, PruneScope, At, NoPruning
<1>5. ASSUME NEW w \in Workers, Retry(w)
      PROVE  NoPruning'
  BY <1>1, <1>5 DEF Retry, Idle
<1>6. ASSUME NEW w \in Workers, Fetch(w)
      PROVE  NoPruning'
  BY <1>0, <1>1, <1>6 DEF Fetch, FirstStep, Idle, TypeOK, Job
<1>7. ASSUME NEW w \in Workers, Ack(w)
      PROVE  NoPruning'
  BY <1>1, <1>7 DEF Ack, Idle
<1>8. ASSUME NEW w \in Workers, NominateStep(w)
      PROVE  NoPruning'
  <2>1. CASE AdmitCost(w)
    BY <1>0, <1>1, <1>2, <2>1 DEF AdmitCost, WorkerState
  <2>2. CASE AdmitQuota(w)
    BY <1>0, <1>1, <2>2 DEF AdmitQuota, WorkerState
  <2>3. CASE Nominate(w)
    BY <1>0, <1>1, <2>3 DEF Nominate, WorkerState
  <2>4. CASE StampCandidate(w)
    BY <1>0, <1>1, <2>4 DEF StampCandidate, WorkerState
  <2>5. CASE WriteCandidate(w)
    BY <1>0, <1>1, <2>5 DEF WriteCandidate, WorkerState
  <2>6. CASE EnqueueDedup(w) \/ EnqueuePrune(w)
    BY <1>2, <2>6 DEF EnqueueDedup, EnqueuePrune
  <2> QED
    BY <1>8, <2>1, <2>2, <2>3, <2>4, <2>5, <2>6 DEF NominateStep
<1>9. ASSUME NEW w \in Workers, DedupStep(w)
      PROVE  NoPruning'
  <2>1. CASE ScanDuplicates(w)
    BY <1>0, <1>1, <2>1 DEF ScanDuplicates, WorkerState
  <2>2. CASE LoadDuplicate(w)
    BY <1>0, <1>1, <2>2 DEF LoadDuplicate, WorkerState, At
  <2>3. CASE FoldDuplicate(w)
    BY <1>0, <1>1, <2>3 DEF FoldDuplicate, WorkerState
  <2>4. CASE FoldMisses(w) \/ FinishDedup(w)
    BY <1>2, <1>5, <2>4 DEF FoldMisses, FinishDedup
  <2> QED
    BY <1>9, <2>1, <2>2, <2>3, <2>4 DEF DedupStep
<1>10. ASSUME NEW w \in Workers, FaultStep(w)
       PROVE  NoPruning'
  <2>1. CASE Retry(w)
    BY <1>5, <2>1
  <2>2. CASE NominateFails(w) /\ Become(w, [worker[w] EXCEPT !.tries = @ + 1])
    BY <1>0, <1>1, <2>2 DEF NominateFails, At, WorkerState
  <2> QED
    BY <1>10, <2>1, <2>2 DEF FaultStep, NominateFails, WriteFails, PassFails, LoseAck
<1>11. CASE UNCHANGED worker
  BY <1>0, <1>11 DEF NoPruning
<1> QED
  BY <1>3, <1>4, <1>6, <1>7, <1>8, <1>9, <1>10, <1>11
     DEF Next, WorkStep, PruneStep, Quiescent, vars, Capture, StampAttestation,
         Attest, Expire

LEMMA StepFinal ==
  ASSUME NoPruning, [Next]_vars, NEW i \in DOMAIN claims, ~claims[i].live
  PROVE  claims'[i] = claims[i]
<1>1. CASE UNCHANGED claims
  BY <1>1
<1>2. ASSUME NEW j \in Ids, NEW row, WriteClaim(j, row)
      PROVE  claims'[i] = claims[i]
  BY <1>2 DEF WriteClaim
<1>3. ASSUME NEW d, NEW s, ApplySupersession(d, s)
      PROVE  claims'[i] = claims[i]
  BY <1>3 DEF ApplySupersession, Live
<1>4. ASSUME NEW j \in Ids, NEW reason, ExpireClaim(j, reason)
      PROVE  claims'[i] = claims[i]
  BY <1>4 DEF ExpireClaim, Live
<1>5. \A w \in Workers : ~At(w, "close")
  BY DEF At, NoPruning
<1> QED
  BY <1>1, <1>2, <1>3, <1>4, <1>5, StepsOfTheStore DEF StoreStep, NoPruning

\* Where no ceiling is set nothing prunes, and then no pass, retry, forget or
\* re-anchoring writes a row that another has closed.
THEOREM ClosedFinal ==
  ASSUME ScopeClaimCeiling <= 0
  PROVE  Spec => ClosedIsFinal
<1>1. Init => NoPruning
  BY InitTyped DEF Init, NoPruning, Idle
<1>2. NoPruning /\ [Next]_vars =>
        \A i \in DOMAIN claims : ~claims[i].live => claims'[i] = claims[i]
  BY StepFinal
<1>3. NoPruning /\ [Next]_vars => NoPruning'
  BY NextUnpruned
<1> QED
  BY <1>1, <1>2, <1>3, PTL DEF Spec, ClosedIsFinal
=============================================================================
