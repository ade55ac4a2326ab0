-------------------------------- MODULE Seed --------------------------------
(***************************************************************************)
(* The documents of one repository and the memory of them: "cred seed"     *)
(* writes every chunk of every file as evidence with a claim on it, "cred  *)
(* reanchor" expires the claims whose section changed, and both run beside *)
(* editors, beside each other and beside whatever else closes a claim.     *)
(*                                                                         *)
(* insertSeedTx commits the evidence, the claim, their link, their grants  *)
(* and the embedding of a chunk together, so one row stands for all of     *)
(* them; the evidence and the claim are closed separately.  A step is one  *)
(* statement, one transaction or one file read.                            *)
(***************************************************************************)
EXTENDS Integers, FiniteSets, Sequences

CONSTANTS Paths,         \* discoverable files
          Contents,      \* what a file may hold
          Chunks,        \* what a chunk carries: its text and its anchor
          BytesOf,       \* chunk -> its text alone, what content_sha256 tells apart
          ChunksOf,      \* content -> its chunks in order, see Chunk!ChunkFile
          Expired,       \* content -> the chunks whose anchor it expires, Anchor!Resolve
          Missing,       \* a file that is not there
          Seeders,       \* seeding runs
          SeededFor,     \* seeding run -> the principal it grants
          Reanchorers,   \* re-anchoring passes
          batchSize,     \* chunks embedded at a time (16)
          CloseReasons,  \* the other ways a seeded claim may be closed
          MaxRows,       \* bound: rows ever written
          MaxEdits,      \* bound: edits of files
          MaxFaults,     \* bound: processes that die
          MaxClock,      \* bound: the last instant a clock shows
          NULL

ASSUME SeedAssumption ==
    /\ IsFiniteSet(Paths)
    /\ ChunksOf \in [Contents -> Seq(Chunks)]
    /\ DOMAIN BytesOf = Chunks
    /\ Expired \in [Contents -> SUBSET Chunks]
    /\ Missing \notin Contents
    /\ batchSize \in Nat \ {0}
    /\ CloseReasons \subseteq {"forgotten", "duplicate", "pruned"}
    /\ MaxRows \in Nat /\ MaxEdits \in Nat /\ MaxFaults \in Nat /\ MaxClock \in Nat
    /\ NULL \notin Nat
    /\ NULL \notin CloseReasons \cup {"stale_anchor"}

VARIABLES rows,        \* evidence and claims, in the order they were committed
          disk,        \* path -> content or Missing
          edits,       \* how often a file was edited
          seeder,      \* per run: where it is and what it holds
          reanchorer,  \* per pass: the same
          clock, faults

seedVars == <<rows, disk, edits, seeder, reanchorer, clock, faults>>

-----------------------------------------------------------------------------
(* The tables *)

Key(i) == <<rows[i].path, rows[i].ordinal>>

LiveEvidence == {i \in DOMAIN rows : rows[i].evidenceUntil = NULL}
LiveClaims == {i \in DOMAIN rows : rows[i].claimUntil = NULL}

\* The chunks a seeding run may skip or replace: evidence and claim both live.
LiveChunks == LiveEvidence \cap LiveClaims

\* What a chunk read from a file becomes; readAt remembers which edit it saw.
Row(item, now, grant) ==
    [path |-> item.path, ordinal |-> item.ordinal, chunk |-> item.chunk,
     readAt |-> item.readAt, recordedAt |-> now, grant |-> grant,
     evidenceUntil |-> NULL, claimUntil |-> NULL, reason |-> NULL, supersededBy |-> NULL]

KeyOf(item) == <<item.path, item.ordinal>>

\* evidence_live_chunk, the unique index of migration 3: insertSeedTx can commit
\* iff no other live evidence stands where the chunk goes.
Insertable(item, closing) ==
    \A j \in LiveEvidence \ closing : Key(j) # KeyOf(item)

\* Mutant: the chunk is written without an ordinal, so the index does not bind.
InsertSeedUnbound(item, now, grant) ==
    /\ Len(rows) < MaxRows
    /\ rows' = Append(rows, Row(item, now, grant))

InsertSeed(item, now, grant) ==
    /\ Len(rows) < MaxRows
    /\ Insertable(item, {})
    /\ rows' = Append(rows, Row(item, now, grant))

\* The incumbent after ReplaceSeed: each part is closed where it is still live.
Replaced(row, successor, now) ==
    [row EXCEPT
        !.evidenceUntil = IF @ = NULL THEN now ELSE @,
        !.claimUntil    = IF row.claimUntil = NULL THEN now ELSE @,
        !.supersededBy  = IF row.claimUntil = NULL THEN successor ELSE @]

\* Mutant: the old claim is not closed.
ReplaceSeedKeepingClaim(old, item, now, grant) ==
    /\ Len(rows) < MaxRows
    /\ Insertable(item, {old})
    /\ rows' = Append([rows EXCEPT ![old].evidenceUntil = IF @ = NULL THEN now ELSE @],
                      Row(item, now, grant))

\* One transaction: the old evidence, the new rows, the old claim.
ReplaceSeed(old, item, now, grant) ==
    /\ Len(rows) < MaxRows
    /\ Insertable(item, {old})
    /\ rows' = Append([rows EXCEPT ![old] = Replaced(@, Len(rows) + 1, now)],
                      Row(item, now, grant))

\* Mutant: a reason the schema does not know.
StaleReasonUnknown == "stale"

SupersedeReasonStaleAnchor == "stale_anchor"

\* ExpireClaim: the claim only; its evidence stays as it is.
ExpireClaim(i, reason, now) ==
    /\ i \in LiveClaims
    /\ rows' = [rows EXCEPT ![i].claimUntil = now, ![i].reason = reason]

-----------------------------------------------------------------------------
(* The world *)

Instants == {t \in {clock, clock + 1} : t <= MaxClock}
ReadClock(t) == t \in Instants /\ clock' = t

EditFile(p) ==
    /\ edits < MaxEdits
    /\ edits' = edits + 1
    /\ \E c \in (Contents \cup {Missing}) \ {disk[p]} : disk' = [disk EXCEPT ![p] = c]
    /\ UNCHANGED <<rows, seeder, reanchorer, clock, faults>>

\* "cred forget", a fold or a prune reaches a seeded claim.
CloseClaim(i) ==
    /\ \E now \in Instants, reason \in CloseReasons :
          ReadClock(now) /\ ExpireClaim(i, reason, now)
    /\ UNCHANGED <<disk, edits, seeder, reanchorer, faults>>

-----------------------------------------------------------------------------
(* Seeder.Run *)

\* A run holds the files it found and has not read, the live chunks it loaded,
\* the chunks it will write, how many of them this flush still writes and the
\* instant the flush read.
NewRun == [pc |-> "start", files |-> {}, live |-> {}, pending |-> <<>>, batch |-> 0, now |-> 0]

SeederAt(s, pc) == seeder[s].pc = pc
SeederBecomes(s, state) == seeder' = [seeder EXCEPT ![s] = state]

Discover(s) ==
    /\ SeederAt(s, "start")
    /\ SeederBecomes(s, [NewRun EXCEPT !.pc = "load",
                                       !.files = {p \in Paths : disk[p] # Missing}])
    /\ UNCHANGED <<rows, disk, edits, reanchorer, clock, faults>>

\* The snapshot is taken before any file is read.
LoadLiveChunks(s) ==
    /\ SeederAt(s, "load")
    /\ SeederBecomes(s, [seeder[s] EXCEPT !.pc = "read", !.live = LiveChunks])
    /\ UNCHANGED <<rows, disk, edits, reanchorer, clock, faults>>

\* The row a run takes to be the incumbent of a chunk: none or one.
Incumbent(s, key) == {i \in seeder[s].live : Key(i) = key}

\* By the text alone: an unchanged chunk keeps the anchor it was stored with.
Unchanged(s, key, chunk) ==
    \E i \in Incumbent(s, key) : BytesOf[rows[i].chunk] = BytesOf[chunk]

\* A sequence without the elements at some places.
Without(all, places) ==
    LET upTo[k \in 0..Len(all)] ==
            IF k = 0 THEN <<>>
            ELSE IF k \in places THEN upTo[k - 1] ELSE Append(upTo[k - 1], all[k])
    IN  upTo[Len(all)]

\* The chunks of one file that are new or changed, in order.
Changed(s, p) ==
    LET chunks == ChunksOf[disk[p]]
        all    == [k \in DOMAIN chunks |->
                      [path |-> p, ordinal |-> k, chunk |-> chunks[k], readAt |-> edits]]
    IN  Without(all, {k \in DOMAIN all : Unchanged(s, KeyOf(all[k]), all[k].chunk)})

\* A full batch is flushed before the next file is read.
ReadFile(s) ==
    /\ SeederAt(s, "read") /\ Len(seeder[s].pending) < batchSize
    /\ \E p \in seeder[s].files :
          /\ disk[p] # Missing
          /\ SeederBecomes(s, [seeder[s] EXCEPT !.files = @ \ {p},
                                                !.pending = @ \o Changed(s, p)])
    /\ UNCHANGED <<rows, disk, edits, reanchorer, clock, faults>>

Abort(s) == SeederBecomes(s, [NewRun EXCEPT !.pc = "failed"])

\* A discovered file that is gone when it is read ends the run.
ReadFails(s) ==
    /\ SeederAt(s, "read") /\ Len(seeder[s].pending) < batchSize
    /\ \E p \in seeder[s].files : disk[p] = Missing
    /\ Abort(s)
    /\ UNCHANGED <<rows, disk, edits, reanchorer, clock, faults>>

\* Mutant: the instant is one read before the snapshot was.
FlushEarlier(s) ==
    /\ SeederAt(s, "read")
    /\ \/ Len(seeder[s].pending) >= batchSize
       \/ seeder[s].files = {} /\ seeder[s].pending # <<>>
    /\ \E now \in 0..clock :
          SeederBecomes(s, [seeder[s] EXCEPT
                 !.pc = "write", !.now = now,
                 !.batch = IF Len(seeder[s].pending) >= batchSize
                           THEN batchSize ELSE Len(seeder[s].pending)])
    /\ UNCHANGED <<rows, disk, edits, reanchorer, clock, faults>>

\* The batch is embedded and its instant read; the last one may be short.
Flush(s) ==
    /\ SeederAt(s, "read")
    /\ \/ Len(seeder[s].pending) >= batchSize
       \/ seeder[s].files = {} /\ seeder[s].pending # <<>>
    /\ \E now \in Instants :
          /\ ReadClock(now)
          /\ SeederBecomes(s, [seeder[s] EXCEPT
                 !.pc = "write", !.now = now,
                 !.batch = IF Len(seeder[s].pending) >= batchSize
                           THEN batchSize ELSE Len(seeder[s].pending)])
    /\ UNCHANGED <<rows, disk, edits, reanchorer, faults>>

\* One transaction per chunk, each committed by itself.
WriteChunk(s) ==
    /\ SeederAt(s, "write")
    /\ LET item == Head(seeder[s].pending)
           olds == Incumbent(s, KeyOf(item))
       IN  \/ olds = {} /\ InsertSeed(item, seeder[s].now, SeededFor[s])
           \/ \E old \in olds : ReplaceSeed(old, item, seeder[s].now, SeededFor[s])
    /\ SeederBecomes(s, [seeder[s] EXCEPT !.pending = Tail(@), !.batch = @ - 1,
                            !.pc = IF seeder[s].batch = 1 THEN "read" ELSE "write"])
    /\ UNCHANGED <<disk, edits, reanchorer, clock, faults>>

\* The unique index refuses the chunk: the run ends, what it committed stays.
WriteRefused(s) ==
    /\ SeederAt(s, "write")
    /\ LET item == Head(seeder[s].pending)
       IN  ~Insertable(item, Incumbent(s, KeyOf(item)))
    /\ Abort(s)
    /\ UNCHANGED <<rows, disk, edits, reanchorer, clock, faults>>

FinishSeed(s) ==
    /\ SeederAt(s, "read")
    /\ seeder[s].files = {} /\ seeder[s].pending = <<>>
    /\ SeederBecomes(s, [NewRun EXCEPT !.pc = "done"])
    /\ UNCHANGED <<rows, disk, edits, reanchorer, clock, faults>>

\* The process dies; the next run starts over.
SeederDies(s) ==
    /\ seeder[s].pc \notin {"done", "failed"}
    /\ faults < MaxFaults
    /\ faults' = faults + 1
    /\ SeederBecomes(s, NewRun)
    /\ UNCHANGED <<rows, disk, edits, reanchorer, clock>>

SeedNext == \E s \in Seeders :
    \/ Discover(s) \/ LoadLiveChunks(s) \/ ReadFile(s) \/ ReadFails(s) \/ Flush(s)
    \/ WriteChunk(s) \/ WriteRefused(s) \/ FinishSeed(s) \/ SeederDies(s)

-----------------------------------------------------------------------------
(* Reanchorer.Reanchor *)

\* A pass holds the rows still to check, the files it has read and its instant;
\* victim is a row it has decided to expire.
NewPass == [pc |-> "start", rows |-> {}, read |-> [p \in {} |-> NULL], now |-> 0, victim |-> NULL]

PassAt(r, pc) == reanchorer[r].pc = pc
PassBecomes(r, state) == reanchorer' = [reanchorer EXCEPT ![r] = state]

LoadAnchored(r) ==
    /\ PassAt(r, "start")
    /\ PassBecomes(r, [NewPass EXCEPT !.pc = "stamp", !.rows = LiveChunks])
    /\ UNCHANGED <<rows, disk, edits, seeder, clock, faults>>

StampPass(r) ==
    /\ PassAt(r, "stamp")
    /\ \E now \in Instants :
          /\ ReadClock(now)
          /\ PassBecomes(r, [reanchorer[r] EXCEPT !.pc = "check", !.now = now])
    /\ UNCHANGED <<rows, disk, edits, seeder, faults>>

\* Each file is read once; a missing one leaves its rows untouched.
CheckAnchor(r) ==
    /\ PassAt(r, "check")
    /\ \E i \in reanchorer[r].rows :
          LET p == rows[i].path
              content == IF p \in DOMAIN reanchorer[r].read
                         THEN reanchorer[r].read[p] ELSE disk[p]
              stale == content # Missing /\ rows[i].chunk \in Expired[content]
          IN  PassBecomes(r, [reanchorer[r] EXCEPT
                  !.rows = @ \ {i},
                  !.read = [q \in DOMAIN @ \cup {p} |-> IF q = p THEN content ELSE @[q]],
                  !.victim = IF stale THEN i ELSE NULL,
                  !.pc = IF stale THEN "expire" ELSE "check"])
    /\ UNCHANGED <<rows, disk, edits, seeder, clock, faults>>

\* A claim somebody else closed first is not an error.
ExpireStale(r) ==
    /\ PassAt(r, "expire")
    /\ LET i == reanchorer[r].victim
       IN  IF i \in LiveClaims THEN ExpireClaim(i, SupersedeReasonStaleAnchor, reanchorer[r].now)
           ELSE UNCHANGED rows
    /\ PassBecomes(r, [reanchorer[r] EXCEPT !.pc = "check", !.victim = NULL])
    /\ UNCHANGED <<disk, edits, seeder, clock, faults>>

FinishPass(r) ==
    /\ PassAt(r, "check") /\ reanchorer[r].rows = {}
    /\ PassBecomes(r, [NewPass EXCEPT !.pc = "done"])
    /\ UNCHANGED <<rows, disk, edits, seeder, clock, faults>>

ReanchorNext == \E r \in Reanchorers :
    LoadAnchored(r) \/ StampPass(r) \/ CheckAnchor(r) \/ ExpireStale(r) \/ FinishPass(r)

-----------------------------------------------------------------------------
SeedInit ==
    /\ rows = <<>>
    /\ disk \in [Paths -> Contents]
    /\ edits = 0 /\ clock = 0 /\ faults = 0
    /\ seeder = [s \in Seeders |-> NewRun]
    /\ reanchorer = [r \in Reanchorers |-> NewPass]

WorldNext == (\E p \in Paths : EditFile(p)) \/ (\E i \in DOMAIN rows : CloseClaim(i))

\* Every process has ended, or the rows have run out.
Settled ==
    /\ Len(rows) = MaxRows \/ \A s \in Seeders : seeder[s].pc \in {"done", "failed"}
    /\ UNCHANGED seedVars

SeedStep == SeedNext \/ ReanchorNext \/ WorldNext \/ Settled

SeedSpec == SeedInit /\ [][SeedStep]_seedVars

-----------------------------------------------------------------------------
SeedTypeOK ==
    /\ rows \in Seq([path : Paths, ordinal : Nat, chunk : Chunks, readAt : Nat,
                     recordedAt : Nat, grant : {SeededFor[s] : s \in Seeders},
                     evidenceUntil : Nat \cup {NULL}, claimUntil : Nat \cup {NULL},
                     reason : CloseReasons \cup {"stale_anchor", NULL},
                     supersededBy : Nat \cup {NULL}])
    /\ disk \in [Paths -> Contents \cup {Missing}]
    /\ edits \in Nat /\ clock \in Nat /\ faults \in Nat
    /\ \A s \in Seeders : /\ seeder[s].live \subseteq DOMAIN rows
                          /\ seeder[s].files \subseteq Paths
    /\ \A r \in Reanchorers : reanchorer[r].rows \subseteq DOMAIN rows

\* What is believed rests on evidence that is believed, and of one chunk of one
\* file one version at most: whoever closes the claim, however runs race.
LiveClaimIsCurrent ==
    \A i \in LiveClaims :
        i \in LiveEvidence /\ \A j \in LiveClaims \ {i} : Key(j) # Key(i)

\* Racing runs never put an older reading of a file over a newer one: of two
\* rows for one chunk, the later committed was read later.  Each run reads after
\* its snapshot, and the unique index refuses a replacement of a row that is no
\* longer the live one.
ReadsMoveForward ==
    \A i, j \in DOMAIN rows : (i < j /\ Key(i) = Key(j)) => rows[i].readAt <= rows[j].readAt

\* A successor takes over its predecessor's chunk at the instant the predecessor
\* is closed, which is not before it was recorded, and says something else.
SuccessorTakesOver ==
    \A i \in DOMAIN rows : rows[i].supersededBy # NULL =>
        LET j == rows[i].supersededBy
        IN  /\ j \in DOMAIN rows /\ Key(j) = Key(i)
            /\ rows[j].recordedAt = rows[i].claimUntil
            /\ rows[i].recordedAt <= rows[j].recordedAt
            /\ BytesOf[rows[j].chunk] # BytesOf[rows[i].chunk]

\* Seeding "is idempotent: a chunk whose content hash is unchanged is skipped ...
\* and a changed chunk supersedes its predecessor".  A run fails only when a file
\* disappears under it, or when another run stored the chunk since it looked.
ReseedSucceeds ==
    [][\A s \in Seeders :
          (seeder[s].pc # "failed" /\ seeder'[s].pc = "failed") =>
              \/ \E p \in seeder[s].files : disk[p] = Missing
              \/ \E i \in LiveChunks \ seeder[s].live :
                     Key(i) = KeyOf(Head(seeder[s].pending))]_seedVars
=============================================================================
