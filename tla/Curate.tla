------------------------------- MODULE Curate -------------------------------
(***************************************************************************)
(* The off-the-turn write path of CRED: captures are enqueued as River     *)
(* jobs, and the workers of "cred curate" run them concurrently, at least  *)
(* once, against the claim table.                                          *)
(*                                                                         *)
(*   NominateWorker   cost gate, quota gate, model calls, one transaction  *)
(*                    per candidate, then a dedup and a prune job          *)
(*   DedupWorker      scan the live groups, then load and close each       *)
(*                    duplicate in statements of their own                 *)
(*   PruneWorker      count a scope, decide, close its lowest-value claims *)
(*                                                                         *)
(* "cred remember", "cred forget" and the re-anchoring pass act on the     *)
(* same table at any moment.  A step is one statement, transaction or      *)
(* model call; a worker holds what it read between its steps.              *)
(***************************************************************************)
EXTENDS ClaimStore, Limit, Sequences

CONSTANTS Workers,        \* River worker slots (MaxWorkers 4), of any process
          Clients,        \* "cred remember" invocations
          Captures,       \* captured sources, each enqueued once
          CapturedBy,     \* capture -> principal
          CapturedScope,  \* capture -> scope
          Extracts,       \* capture -> what the model's answers may resolve to:
                          \*   sequences of statements, in candidate order
          Confidence,     \* statement -> confidence of its candidate
          AttestedScope,  \* organization "attested"
          AttestedConfidence,
          MaxAttempts,    \* River's attempts of one job
          MaxTries,       \* model calls of one nomination
          ContributionQuota, ContributionWindow,
          MaxInferenceCalls, MaxInputTokens, CostWindow,
          TokensPerCall,
          ScopeClaimCeiling, PruneAggressiveness,
          ExpiryReasons,  \* which of "forgotten", "stale_anchor" may happen
          FaultKinds,     \* which failures may happen, see below
          MaxFaults,      \* bound: failures in one behaviour
          MaxClock        \* bound: the last instant a clock shows

(***************************************************************************)
(* Failures.  "model": a call fails, is truncated, is not JSON, or its     *)
(* context ends.  "write": WriteCandidates returns an error or the process *)
(* dies, with what committed before it kept.  "enqueue": a follow-up job   *)
(* is lost, which the worker ignores.  "pass": a statement of a gate, of a *)
(* dedup or of a prune pass fails, or the process dies there.  "ack": the  *)
(* process dies after the work and before River records it.  "ledger": a   *)
(* usage row is lost, which is logged and ignored.                         *)
(***************************************************************************)
AllFaults == {"model", "write", "enqueue", "pass", "ack", "ledger"}

\* The most candidates of one response: a response has a longest.
Lengths == {0} \cup {Len(x) : x \in UNION {Extracts[c] : c \in Captures}}
MostCandidates == CHOOSE n \in Lengths : \A m \in Lengths : m <= n

ASSUME CurateAssumption ==
    /\ IsFiniteSet(Workers)
    /\ CapturedBy \in [Captures -> Principals]
    /\ CapturedScope \in [Captures -> Scopes]
    /\ Extracts \in [Captures -> SUBSET Seq(Statements)]
    /\ \E n \in Lengths : \A m \in Lengths : m <= n
    /\ Confidence \in [Statements -> Nat]
    /\ AttestedScope \in Scopes
    /\ AttestedConfidence \in Nat
    /\ MaxAttempts \in Nat \ {0}
    /\ MaxTries \in Nat \ {0}
    /\ ContributionQuota \in Int /\ ContributionWindow \in Nat
    /\ MaxInferenceCalls \in Int /\ MaxInputTokens \in Int
    /\ CostWindow \in Nat /\ TokensPerCall \in Nat
    /\ ScopeClaimCeiling \in Int /\ PruneAggressiveness \in Nat
    /\ ExpiryReasons \subseteq {"forgotten", "stale_anchor"}
    /\ FaultKinds \subseteq AllFaults
    /\ MaxFaults \in Nat
    /\ MaxClock \in Nat

VARIABLES captured,  \* captures already enqueued
          queue,     \* available River jobs
          worker,    \* per worker: where it is and what it holds
          client,    \* per "cred remember": where it is and what it holds
          ledger,    \* usage_events
          clock,     \* the latest instant anyone has read
          faults     \* failures so far

vars == <<claims, captured, queue, worker, client, ledger, clock, faults>>

-----------------------------------------------------------------------------
(* Jobs *)

\* A job is identified by its capture and by the nomination attempt (run)
\* that enqueued it; attempt counts its own executions.
Job == [kind : {"nominate", "dedup", "prune"}, source : Captures,
        run : 0..MaxAttempts, attempt : 1..MaxAttempts]

NominateJob(c) ==
    [kind |-> "nominate", source |-> c, run |-> 0, attempt |-> 1]

FollowUp(kind, job) ==
    [kind |-> kind, source |-> job.source, run |-> job.attempt, attempt |-> 1]

\* Mutant: unique jobs, the coalescing that "was tried and cut".
EnqueueCoalesced(job) ==
    queue' = IF /\ job.kind = "dedup"
                /\ \E w \in Workers :
                      worker[w].pc \in {"scan", "fold", "apply"}
             THEN queue
             ELSE queue \cup {job}

\* Enqueue inserts without uniqueness: every write schedules its own pass.
Enqueue(job) == queue' = queue \cup {job}

Fold == [dup : Ids, survivor : Ids]

\* What a worker holds: its job, the instant it read, candidates still to
\* write, model calls made, folds still to apply, the fold it loaded, and the
\* rows its prune statement chose.
Idle == [pc |-> "idle", job |-> NULL, now |-> 0, todo |-> <<>>, tries |-> 0,
         folds |-> {}, loaded |-> NULL, target |-> 0, victims |-> {}]

JobOf(w) == worker[w].job
SourceOf(w) == JobOf(w).source
At(w, pc) == worker[w].pc = pc
Become(w, state) == worker' = [worker EXCEPT ![w] = state]
Goto(w, pc) == Become(w, [worker[w] EXCEPT !.pc = pc])

\* time.Now(): instants never decrease, and two reads may fall together.
Instants == {t \in {clock, clock + 1} : t <= MaxClock}
ReadClock(t) == t \in Instants /\ clock' = t

\* A failure of the given kind is one this run admits.
Fault(kind) ==
    /\ kind \in FaultKinds
    /\ faults < MaxFaults
    /\ faults' = faults + 1

\* An error returned, or a job whose process died: River makes it available
\* again with one attempt more, or discards it after the last.
Retry(w) ==
    /\ Become(w, Idle)
    /\ queue' = IF JobOf(w).attempt < MaxAttempts
                THEN queue \cup {[JobOf(w) EXCEPT !.attempt = @ + 1]}
                ELSE queue

Capture(c) ==
    /\ c \notin captured
    /\ captured' = captured \cup {c}
    /\ Enqueue(NominateJob(c))
    /\ UNCHANGED <<claims, worker, client, ledger, clock, faults>>

FirstStep(kind) ==
    CASE kind = "nominate" -> "cost"
      [] kind = "dedup"    -> "scan"
      [] kind = "prune"    -> "count"

Fetch(w) ==
    /\ At(w, "idle")
    /\ \E job \in queue :
          /\ queue' = queue \ {job}
          /\ Become(w, [Idle EXCEPT !.pc = FirstStep(job.kind), !.job = job])
    /\ UNCHANGED <<claims, captured, client, ledger, clock, faults>>

Ack(w) ==
    /\ At(w, "ack")
    /\ Become(w, Idle)
    /\ UNCHANGED <<claims, captured, queue, client, ledger, clock, faults>>

LoseAck(w) ==
    /\ At(w, "ack")
    /\ Fault("ack")
    /\ Retry(w)
    /\ UNCHANGED <<claims, captured, client, ledger, clock>>

-----------------------------------------------------------------------------
(* NominateWorker.Work *)

\* The principal's events of one kind in a window that ends now.
Events(kind, p, now, window) ==
    {e \in ledger : e.kind = kind /\ e.principal = p
                                  /\ InWindow(e.at, now, window)}

\* RecordUsage appends a row; losing one is logged and otherwise ignored.
RecordUsage(event) ==
    \/ ledger' = ledger \cup {event} /\ UNCHANGED faults
    \/ Fault("ledger") /\ UNCHANGED ledger

Event(kind, w, at) ==
    [kind |-> kind, principal |-> CapturedBy[SourceOf(w)], at |-> at,
     source |-> SourceOf(w), attempt |-> JobOf(w).attempt,
     call |-> worker[w].tries]

\* Admit, first half: the cost ceiling.  A denial is recorded and the job
\* completes: it is refused, not failed.
AdmitCost(w) ==
    /\ At(w, "cost")
    /\ \E now \in Instants :
          /\ ReadClock(now)
          /\ LET calls == Cardinality(Events("inference", CapturedBy[SourceOf(w)],
                                             now, CostWindow))
             IN  IF Cost(calls, calls * TokensPerCall,
                         MaxInferenceCalls, MaxInputTokens).allowed
                 THEN /\ Become(w, [worker[w] EXCEPT !.pc = "quota", !.now = now])
                      /\ UNCHANGED <<ledger, faults>>
                 ELSE /\ Goto(w, "ack")
                      /\ RecordUsage(Event("denied", w, now))
    /\ UNCHANGED <<claims, captured, queue, client>>

\* Admit, second half: the contribution quota, a statement of its own that
\* uses the instant read at the start.
AdmitQuota(w) ==
    /\ At(w, "quota")
    /\ LET accepted == ContributionsInWindow(CapturedBy[SourceOf(w)],
                           WindowStart(worker[w].now, ContributionWindow))
       IN  IF Contribution(accepted, ContributionQuota).allowed
           THEN /\ Become(w, [worker[w] EXCEPT !.pc = "model", !.now = 0])
                /\ UNCHANGED <<ledger, faults>>
           ELSE /\ Become(w, [worker[w] EXCEPT !.pc = "ack", !.now = 0])
                /\ RecordUsage(Event("denied", w, worker[w].now))
    /\ UNCHANGED <<claims, captured, queue, client, clock>>

\* One model call that yields candidates; the call is recorded.  Candidates
\* that are invalid or whose quote is not in the source are already dropped.
Nominate(w) ==
    /\ At(w, "model")
    /\ \E now \in Instants : ReadClock(now) /\ RecordUsage(Event("inference", w, now))
    /\ \E found \in Extracts[SourceOf(w)] :
          Become(w, [worker[w] EXCEPT !.todo = found, !.tries = 0,
                                      !.pc = IF found = <<>> THEN "ack" ELSE "stamp"])
    /\ UNCHANGED <<claims, captured, queue, client>>

\* One unusable call: spent and recorded all the same.  The extractor tries
\* again; after the last try, or when the context has ended, the job errs.
NominateFails(w) ==
    /\ At(w, "model")
    /\ Fault("model")
    /\ \E now \in Instants :
          /\ ReadClock(now)
          /\ ledger' = ledger \cup {Event("inference", w, now)}
    /\ \/ /\ worker[w].tries + 1 < MaxTries
          /\ Become(w, [worker[w] EXCEPT !.tries = @ + 1])
          /\ UNCHANGED queue
       \/ Retry(w)
    /\ UNCHANGED <<claims, captured, client>>

\* WriteCandidates reads the instant of one candidate, then embeds it.
StampCandidate(w) ==
    /\ At(w, "stamp")
    /\ \E now \in Instants :
          /\ ReadClock(now)
          /\ Become(w, [worker[w] EXCEPT !.pc = "write", !.now = now])
    /\ UNCHANGED <<claims, captured, queue, client, ledger, faults>>

Candidate(c, s, now) ==
    [statement |-> s, scope |-> CapturedScope[c], contributor |-> CapturedBy[c],
     attested |-> FALSE, recordedAt |-> now, confidence |-> Confidence[s],
     live |-> TRUE, reason |-> NULL, supersededBy |-> NULL]

\* Mutant: the loop runs once past its last candidate.
WriteCandidateOnceMore(w) ==
    /\ At(w, "write")
    /\ \E i \in Ids : WriteClaim(i, Candidate(SourceOf(w), Head(worker[w].todo),
                                              worker[w].now))
    /\ Become(w, [worker[w] EXCEPT !.todo = Tail(@), !.now = 0, !.pc = "stamp"])
    /\ UNCHANGED <<captured, queue, client, ledger, clock, faults>>

\* WriteClaim commits the candidate.  When none is left the follow-ups are due.
WriteCandidate(w) ==
    /\ At(w, "write")
    /\ \E i \in Ids : WriteClaim(i, Candidate(SourceOf(w), Head(worker[w].todo),
                                              worker[w].now))
    /\ Become(w, [worker[w] EXCEPT !.todo = Tail(@), !.now = 0,
                    !.pc = IF Len(worker[w].todo) = 1 THEN "enqueueDedup"
                           ELSE "stamp"])
    /\ UNCHANGED <<captured, queue, client, ledger, clock, faults>>

\* The write ends early: what was committed stays, nothing is scheduled, and
\* the next attempt nominates and writes from the start.
WriteFails(w) ==
    /\ worker[w].pc \in {"stamp", "write", "enqueueDedup", "enqueuePrune"}
    /\ Fault("write")
    /\ Retry(w)
    /\ UNCHANGED <<claims, captured, client, ledger, clock>>

\* Best effort: the follow-up is inserted, or lost and forgotten.
EnqueueOrLose(job) ==
    \/ Enqueue(job) /\ UNCHANGED faults
    \/ Fault("enqueue") /\ UNCHANGED queue

EnqueueDedup(w) ==
    /\ At(w, "enqueueDedup")
    /\ EnqueueOrLose(FollowUp("dedup", JobOf(w)))
    /\ Goto(w, "enqueuePrune")
    /\ UNCHANGED <<claims, captured, client, ledger, clock>>

EnqueuePrune(w) ==
    /\ At(w, "enqueuePrune")
    /\ EnqueueOrLose(FollowUp("prune", JobOf(w)))
    /\ Goto(w, "ack")
    /\ UNCHANGED <<claims, captured, client, ledger, clock>>

-----------------------------------------------------------------------------
(* DedupWorker.Work *)

\* LiveDuplicateGroups and Canonical: the pass works from this snapshot.
ScanDuplicates(w) ==
    /\ At(w, "scan")
    /\ Become(w, [worker[w] EXCEPT !.pc = "fold", !.folds = Folds])
    /\ UNCHANGED <<claims, captured, queue, client, ledger, clock, faults>>

\* LoadClaimForSupersession: a duplicate no longer live is skipped.
LoadDuplicate(w) ==
    /\ At(w, "fold")
    /\ \E f \in worker[w].folds :
          Become(w, IF f.dup \in Live
                    THEN [worker[w] EXCEPT !.pc = "apply", !.loaded = f]
                    ELSE [worker[w] EXCEPT !.folds = @ \ {f}])
    /\ UNCHANGED <<claims, captured, queue, client, ledger, clock, faults>>

\* The survivor is not looked at again.
FoldDuplicate(w) ==
    /\ At(w, "apply")
    /\ ApplySupersession(worker[w].loaded.dup, worker[w].loaded.survivor)
    /\ Become(w, [worker[w] EXCEPT !.pc = "fold", !.loaded = NULL,
                                   !.folds = @ \ {worker[w].loaded}])
    /\ UNCHANGED <<captured, queue, client, ledger, clock, faults>>

\* No row updated: ErrNotFound leaves the pass as an error.
FoldMisses(w) ==
    /\ At(w, "apply")
    /\ worker[w].loaded.dup \notin Live
    /\ Retry(w)
    /\ UNCHANGED <<claims, captured, client, ledger, clock, faults>>

FinishDedup(w) ==
    /\ At(w, "fold")
    /\ worker[w].folds = {}
    /\ Goto(w, "ack")
    /\ UNCHANGED <<claims, captured, queue, client, ledger, clock, faults>>

-----------------------------------------------------------------------------
(* PruneWorker.Work *)

CountScope(w) ==
    /\ At(w, "count")
    /\ LET live   == ScopeClaimCount(CapturedScope[SourceOf(w)])
           target == PruneTarget(live, ScopeClaimCeiling, PruneAggressiveness)
       IN  Become(w, IF target <= 0
                     THEN [worker[w] EXCEPT !.pc = "ack"]
                     ELSE [worker[w] EXCEPT !.pc = "select", !.target = target])
    /\ UNCHANGED <<claims, captured, queue, client, ledger, clock, faults>>

\* The snapshot of PruneScope's statement.
SelectVictims(w) ==
    /\ At(w, "select")
    /\ Become(w, [worker[w] EXCEPT !.pc = "close",
          !.victims = PruneCandidates(CapturedScope[SourceOf(w)],
                                      worker[w].target)])
    /\ UNCHANGED <<claims, captured, queue, client, ledger, clock, faults>>

\* Its update.
PruneScope(w) ==
    /\ At(w, "close")
    /\ PruneRows(worker[w].victims)
    /\ Become(w, [worker[w] EXCEPT !.pc = "ack", !.victims = {}, !.target = 0])
    /\ UNCHANGED <<captured, queue, client, ledger, clock, faults>>

\* A statement of a gate or of a pass fails, or the process dies in it.
PassFails(w) ==
    /\ worker[w].pc \in {"cost", "quota", "scan", "fold", "apply", "count", "select", "close"}
    /\ Fault("pass")
    /\ Retry(w)
    /\ UNCHANGED <<claims, captured, client, ledger, clock>>

-----------------------------------------------------------------------------
(* People *)

\* Attest reads its instant, then embeds; no gate and no follow-up.
StampAttestation(c) ==
    /\ client[c].pc = "idle"
    /\ \E p \in Principals, s \in Statements, now \in Instants :
          /\ ReadClock(now)
          /\ client' = [client EXCEPT ![c] = [pc |-> "attest", principal |-> p,
                                              statement |-> s, now |-> now]]
    /\ UNCHANGED <<claims, captured, queue, worker, ledger, faults>>

Attestation(a) ==
    [statement |-> a.statement, scope |-> AttestedScope,
     contributor |-> a.principal, attested |-> TRUE, recordedAt |-> a.now,
     confidence |-> AttestedConfidence, live |-> TRUE, reason |-> NULL,
     supersededBy |-> NULL]

Attest(c) ==
    /\ client[c].pc = "attest"
    /\ \E i \in Ids : WriteClaim(i, Attestation(client[c]))
    /\ client' = [client EXCEPT ![c].pc = "done"]
    /\ UNCHANGED <<captured, queue, worker, ledger, clock, faults>>

\* "cred forget", or a re-anchoring pass that found the claim stale.  A claim
\* that is not live is reported and nothing changes.
Expire(i, reason) ==
    /\ ExpireClaim(i, reason)
    /\ UNCHANGED <<captured, queue, worker, client, ledger, clock, faults>>
-----------------------------------------------------------------------------
NoClient == [pc |-> "idle", principal |-> NULL, statement |-> NULL, now |-> 0]

Init ==
    /\ claims = [i \in {} |-> NULL]
    /\ captured = {}
    /\ queue = {}
    /\ worker = [w \in Workers |-> Idle]
    /\ client = [c \in Clients |-> NoClient]
    /\ ledger = {}
    /\ clock = 0
    /\ faults = 0

NominateStep(w) ==
    \/ AdmitCost(w) \/ AdmitQuota(w) \/ Nominate(w) \/ StampCandidate(w)
    \/ WriteCandidate(w) \/ EnqueueDedup(w) \/ EnqueuePrune(w)

DedupStep(w) ==
    \/ ScanDuplicates(w) \/ LoadDuplicate(w) \/ FoldDuplicate(w)
    \/ FoldMisses(w) \/ FinishDedup(w)

PruneStep(w) == CountScope(w) \/ SelectVictims(w) \/ PruneScope(w)

\* What a healthy worker does; it runs as long as the process does.
WorkStep(w) == Fetch(w) \/ NominateStep(w) \/ DedupStep(w) \/ PruneStep(w) \/ Ack(w)

FaultStep(w) == NominateFails(w) \/ WriteFails(w) \/ PassFails(w) \/ LoseAck(w)

\* Nothing is left to do: every capture was made and the queue has drained.
Quiescent ==
    /\ captured = Captures /\ queue = {}
    /\ \A w \in Workers : At(w, "idle")
    /\ \A c \in Clients : client[c].pc = "done"
    /\ UNCHANGED vars

Next ==
    \/ \E c \in Captures : Capture(c)
    \/ \E w \in Workers : WorkStep(w) \/ FaultStep(w)
    \/ \E c \in Clients : StampAttestation(c) \/ Attest(c)
    \/ \E i \in Ids, reason \in ExpiryReasons : Expire(i, reason)
    \/ Quiescent

Spec == Init /\ [][Next]_vars

\* River polls and runs what is available; an operation once begun goes on.
\* Captures, people and failures come when they come.
Fairness == \A w \in Workers : WF_vars(WorkStep(w))

FairSpec == Spec /\ Fairness

-----------------------------------------------------------------------------
(* Properties *)

Pcs == {"idle", "cost", "quota", "model", "stamp", "write", "enqueueDedup",
        "enqueuePrune", "ack", "scan", "fold", "apply", "count", "select", "close"}

UsageRow == [kind : {"inference", "denied"}, principal : Principals, at : Nat,
           source : Captures, attempt : 1..MaxAttempts, call : Nat]

WorkerState ==
    {x \in [pc : Pcs, job : Job \cup {NULL}, now : Nat, todo : Seq(Statements),
            tries : Nat, folds : SUBSET Fold, loaded : Fold \cup {NULL},
            target : Nat, victims : SUBSET Ids] :
        /\ x.pc # "idle" => x.job \in Job
        /\ x.pc \in {"stamp", "write"} => x.todo # <<>>
        /\ x.pc = "apply" => x.loaded \in x.folds}

ClientState ==
    {x \in [pc : {"idle", "attest", "done"}, principal : Principals \cup {NULL},
            statement : Statements \cup {NULL}, now : Nat] :
        x.pc = "attest" => x.principal \in Principals /\ x.statement \in Statements}

\* Every table row, job, usage row and worker state is of its kind.
TypeOK ==
    /\ StoreTypeOK
    /\ captured \subseteq Captures
    /\ queue \subseteq Job
    /\ worker \in [Workers -> WorkerState]
    /\ client \in [Clients -> ClientState]
    /\ ledger \subseteq UsageRow
    /\ clock \in Nat /\ faults \in Nat

\* Both are stored, and the first said what the second says before it did.
SaidBefore(first, second) ==
    /\ {first, second} \subseteq DOMAIN claims
    /\ claims[first].statement = claims[second].statement
    /\ \/ claims[first].recordedAt < claims[second].recordedAt
       \/ claims[first].recordedAt = claims[second].recordedAt /\ first < second

\* A claim superseded by another stopped being live, says the same thing, and
\* points at an earlier claim.  Edges therefore never form a cycle, although
\* passes run side by side over different snapshots and a claim recorded
\* earlier may commit after a pass has chosen a survivor.
SupersessionOrdered ==
    \A i \in DOMAIN claims : claims[i].supersededBy # NULL =>
        ~claims[i].live /\ SaidBefore(claims[i].supersededBy, i)

\* However long a pass holds its snapshot, what it still means to do keeps the
\* order: this is what makes SupersessionOrdered inductive.
FoldsOrdered ==
    \A w \in Workers : \A f \in worker[w].folds : SaidBefore(f.survivor, f.dup)

\* Folding never loses a statement by itself: once stored, a statement has a
\* live claim unless one of its claims was expired on purpose.
FoldingKeepsStatement ==
    \A i \in DOMAIN claims :
        \E j \in DOMAIN claims :
            /\ claims[j].statement = claims[i].statement
            /\ claims[j].live \/ claims[j].reason # "duplicate"

\* A closed row is never written again: passes, retries, forgets and the
\* re-anchoring pass all reach for the same row, and the first one wins.
ClosedIsFinal ==
    [][\A i \in DOMAIN claims : ~claims[i].live => claims'[i] = claims[i]]_vars

\* PruneScope's comment: pruning is expiry, "superseded_by stays NULL".
PrunedHasNoSuccessor ==
    \A i \in DOMAIN claims :
        claims[i].reason = "pruned" => claims[i].supersededBy = NULL

\* A duplicate is folded onto a survivor that is believed when it is folded.
FoldsOntoLiveClaim ==
    [][\A i \in Live :
          claims'[i].reason = "duplicate" => claims'[i].supersededBy \in Live]_vars

\* The quota is checked before the model is called and the claims are written
\* later, so workers overshoot it together, but by no more than what they can
\* have in hand at once.
QuotaOvershootBounded ==
    \A p \in Principals :
        Cardinality({i \in DOMAIN claims :
            /\ claims[i].contributor = p /\ ~claims[i].attested
            /\ InWindow(claims[i].recordedAt, clock, ContributionWindow)})
        <= ContributionQuota - 1 + Cardinality(Workers) * MostCandidates

\* The same for the model calls behind the cost ceiling: one check admits all
\* the tries of a nomination.
CallsOvershootBounded ==
    \A p \in Principals :
        Cardinality(Events("inference", p, clock, CostWindow))
        <= MaxInferenceCalls - 1 + Cardinality(Workers) * MaxTries

\* Once nothing is queued or running, every scope captured from is within its
\* ceiling: the pass scheduled with the last write counted that write, and no
\* earlier pass stood in for it.  (Nothing prunes the scope of attestations.)
WithinCeilingAtRest ==
    (queue = {} /\ \A w \in Workers : At(w, "idle")) =>
        \A c \in captured : ScopeClaimCount(CapturedScope[c]) <= ScopeClaimCeiling

Duplicated(i) ==
    i \in Live /\ \E j \in Live \ {i} : claims[j].statement = claims[i].statement

\* A live claim does not keep another of its statement beside it, were it always
\* another one: the nomination that wrote the later of two schedules a pass that
\* no other pass can stand in for.
DuplicatesFolded == \A i \in Ids : Duplicated(i) ~> ~Duplicated(i)

\* The table implements the life of a claim.
Life == INSTANCE ClaimLife WITH
    asserted  <- [i \in DOMAIN claims |-> [statement |-> claims[i].statement,
                                           at |-> claims[i].recordedAt]],
    believed  <- Live,
    successor <- [i \in {j \in DOMAIN claims : claims[j].supersededBy # NULL} |->
                     claims[i].supersededBy]

ClaimsLiveOnce == Life!LifeSpec
=============================================================================
