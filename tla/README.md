# CRED in TLA+

CRED stores *claims*, short statements each carrying the evidence they came
from, in PostgreSQL, and answers agents' questions with the claims still
believed. It is one Go binary. This directory holds TLA+ modules for the parts
of it whose correctness depends on order, concurrency and failure, the TLC
configurations that check small instances, and theorems checked by TLAPS.

Paths below are relative to the repository; `curate/` stands for
`src/internal/curate/`, and so on. `PROJECT.json` maps every definition to the
lines it translates.

    tlc -workers 2 -config CurateFold.cfg MCCurate.tla     # one run, see section 3
    tlapm CurateProofs.tla                                 # one module's proofs, see section 5

## 1. The system

### Components

| component | state | operations | where |
|---|---|---|---|
| Claim store | tables `claims`, `evidence`, `claim_evidence`, `claim_acl`, `evidence_acl`, `claim_embeddings`, `usage_events` | `WriteClaim`, `LiveDuplicateGroups`, `LoadClaimForSupersession`, `ApplySupersession`, `ExpireClaim`, `PruneScope`, the counting queries; `InsertSeed`, `ReplaceSeed`, `LiveChunks`; the searches and loads of recall | `store/pg/` |
| Job queue | River's tables | insert with an empty-configuration client, work with up to 4 workers, at-least-once | `store/pg/river.go`, `curate/worker.go` |
| Curation workers | nothing of their own beyond what a running job holds | `NominateWorker`, `DedupWorker`, `PruneWorker` | `curate/` |
| Nomination | none | the model call and its retries, validation of candidates, locating quotes | `nominate/`, `curate/resolve.go` |
| Usage limits | none: decisions over counters of the store | `Contribution`, `Cost`, `RecallRate`, `LoginAttempts`, `PruneTarget`, `PackageCap` | `limit/` |
| Commands that write | none | `cred capture`, `remember`, `forget`, `reanchor`, `seed` | `cli/`, `curate/execute.go`, `curate/reanchor.go`, `seed/` |
| Anchors | none | ladder of anchorers, `Resolve`, classification of a moved or changed anchor | `anchor/` |
| Recall | none | rate check, two searches, fusion, load, access filter, packaging within a budget | `recall/` |
| Access control | none | grant expiry, intersection, `Permitted` | `acl/` |
| Temporal algebra | none | half-open intervals, `Close`, `Supersede`, `CurrentAt` | `temporal/` |
| Identity | `principals`, `user_credentials`, `sessions`, `invites`, `login_attempts` | register, login, logout, invite, accept, revoke | `api/auth.go`, `api/team.go`, `store/pg/identity.go`, `store/pg/invites.go` |
| Console API, MCP server | none | read-only views of claims and usage; tools over recall and capture | `api/`, `mcpsrv/` |
| Embedder | model files on disk | download, verify, tokenize, embed | `embed/` |
| Migrations, configuration, CLI, doctor, web console, deployment | schema version; files | | `store/migrations/`, `config/`, `cli/`, `web/`, `infra/` |

### How they interact

Everything meets in the database. No component calls another's process: `cred
capture` inserts a River job and exits; `cred curate` runs jobs and inserts
follow-up jobs; `cred remember`, `forget`, `reanchor` and `seed` write the
claims table directly; the servers read it. There are no locks beyond those of
single statements and transactions, so **every sequence of statements in the Go
code is a place where somebody else can act**. The only guards are the `WHERE`
clauses of updates, three partial unique indexes and the checks of the schema.

A nomination job reads two counters (cost ceiling, contribution quota), calls a
model one or more times, recording each call, commits one transaction per
candidate, and enqueues a dedup and a prune job. A dedup job reads all groups
of live claims that share a statement hash, then closes the later members one
by one. A prune job counts one scope and closes its lowest-value claims in one
statement. River runs each job at least once and retries it when it errs.

### What is hard

* passes of several workers work from snapshots of different age;
* `recorded_at` is read before the embedding and the commit, so commit order
  and recorded order differ: the earliest claim may appear last;
* a job may die anywhere, having committed part of its work, and runs again;
* ceilings are read long before what they admit is written;
* four parties close claims: dedup, prune, forget, re-anchoring;
* seeding keeps evidence and claim in step, and the other closers do not touch
  evidence; its runs race each other, the editors of the files and the
  re-anchoring passes;
* chunker and anchorer parse the same file with two pieces of code;
* recall searches and loads in separate statements;
* an invitation is claimed in one transaction and its account created in the
  next; rates and login failures are counted long before they are recorded.

The hazards, each at its line, with the properties that watch it, are listed in
`PROJECT.json`.

### What makes each part correct

* *Store, curation side*: a claim closes once and for good; supersession points
  to an earlier claim of the same statement, never in a circle; folding alone
  never loses a statement; duplicates do not stay.
* *Limits*: a ceiling is exceeded by no more than what is in flight; a scope
  over its ceiling comes back to it; no claim is pruned when there is no need.
* *Seeding*: of one chunk one version is believed, on evidence that is; a newer
  reading is never replaced by an older one; a successor takes over at the
  instant its predecessor ends; seeding is idempotent.
* *Anchors*: reformatting expires nothing; a semantic change expires exactly
  what it touches.
* *Recall*: nothing unauthorized, nothing superseded, never more than the
  budget, and a count of what was left out; the order is deterministic.
* *Access control*: `Permitted` is inside every evidence's grants, empty
  without evidence, and never grows with time.
* *Temporal*: intervals stay well formed; no two versions overlap.
* *Identity*: one bootstrap administrator, an invitation used once, a session
  that ends.

## 2. The modules

State machines, and the pure modules they are built from:

| module | models |
|---|---|
| `Curate` | the queue, the three workers, the writing commands and the failures, over `ClaimStore` and `Limit`; refines `ClaimLife` |
| `ClaimStore` | the claims table and the statements curation runs on it, one operator per statement or transaction |
| `ClaimLife` | the abstract life of a claim: asserted once, believed, then folded onto an earlier claim or dropped |
| `Seed` | the files of a repository, the rows of their chunks, seeding runs, re-anchoring passes, editors and whoever else closes a claim |
| `Recall` | `Seed` with recalls beside it: rate, two searches, load, access, assembly, record; over `Rank`, `Acl` and `Limit` |
| `Identity` | accounts, invites, sessions and login attempts under concurrent requests, over `Limit` |
| `Decisions` | one input per step for each of the pure modules below, and what each decision must make of it |
| `Limit` | `limit/limit.go`: contribution, cost, recall rate, login attempts, package cap, window, prune target |
| `Temporal`, `Acl` | `temporal/`, `acl/` |
| `Order` | sorting, each element behind those that come before it, and what a loop over a slice keeps of it; `Rank` and `Acl` are over it |
| `Rank` | reciprocal rank fusion and the assembly of a package (`recall/rrf.go`, `recall/recall.go`) |
| `Anchor` | the anchor ladder, headings of texts and definitions of source files (`anchor/`) |
| `Chunk` | how a document is cut into chunks and what each carries (`seed/chunk.go`); extends `Anchor` |
| `Candidate` | which proposals of a model are kept, where their quotes stand and what they are anchored to (`nominate/`, `curate/resolve.go`, `curate/execute.go`) |
| `Console` | listing, detail and usage page (`api/claims.go`, `api/usage.go` over `store/pg/`) |
| `WordPiece` | normalizer, pre-tokenizer, word pieces, truncation, padded batch (`embed/wordpiece/`, `embed/bge.go`) |

`MCCurate`, `MCMemory`, `MCIdentity` and `MCDecisions` give the constants their
values. `CurateProofs`, `QuotaProofs`, `MemoryProofs`, `RankProofs`,
`RecallProofs`, `IdentityProofs` and `DecisionsProofs` hold the theorems,
`Counting` what they share about the sizes of finite sets.

In `Seed` the anchor of a chunk, the chunks of a content and the chunks a
content expires are constants. `MCMemory` computes all three with `Chunk` and
`Anchor` from files written line by line, so the runs of `Recall` are of the
chunker, the ladder, the seeder, the re-anchorer and the recall together.

### Curation: state

| variable | stands for |
|---|---|
| `claims` | rows of `claims`, from identifier to row. A row stands for the claim with its evidence, link, grants and embedding, which `WriteClaim` commits together. `live` is `superseded_at IS NULL` |
| `queue` | River jobs available to run: kind, source, attempt |
| `captured` | captures already enqueued, so that each is made once |
| `worker` | for each worker slot, the statement it is at and what the Go function holds there: the instant read, the candidates left, the scan's folds, the loaded duplicate, the number to prune, the rows chosen |
| `client` | the same for each `cred remember` |
| `ledger` | `usage_events` |
| `clock`, `faults` | the last instant read, and how many failures have happened |

Identifiers are numbers and **any unused one may be drawn**: random UUIDs sort
anywhere, and ties of `recorded_at` are broken by their order. `Instants` lets
each reading of the clock either repeat the last instant or move it. Clocks of
different processes agree in this model; that `temporal.Supersede` refuses an
instant that is not past the row's own is in `Temporal` and
`SupersedeHandsOver`.

### Curation: actions

| actions | code |
|---|---|
| `Capture` | `cli/capture.go`, the job's insertion |
| `Fetch`, `Ack`, `LoseAck`, `Retry` | River around `Work`: external, modelled from how `store/pg/river.go` and `curate/worker.go` use it |
| `AdmitCost`, `AdmitQuota` | `Gate.Admit` (`curate/limit.go`), its two queries apart, with `deny` and its usage row |
| `Nominate`, `NominateFails` | the extractor's loop, one call per step, with the recorder's usage row |
| `StampCandidate`, `WriteCandidate`, `WriteFails` | the loop of `WriteCandidates` (`curate/execute.go`): the instant is read, then the claim is embedded and committed |
| `EnqueueDedup`, `EnqueuePrune` | `NominateWorker.Work`'s tail, best effort as there |
| `ScanDuplicates`, `LoadDuplicate`, `FoldDuplicate`, `FoldMisses`, `FinishDedup` | `Dedup` and `supersede` (`curate/dedup.go`), statement by statement |
| `CountScope`, `SelectVictims`, `PruneScope` | `Prune` (`curate/limit.go`) and `PruneScope` (`store/pg/usage.go`). The update and the subquery it contains are two steps because under READ COMMITTED a row locked by another transaction is re-checked after the wait with the outer `WHERE` only |
| `PassFails` | any statement of a gate or pass failing, or the process dying there |
| `StampAttestation`, `Attest` | `Attest` (`curate/execute.go`), for `cred remember` |
| `Expire` | `ForgetClaim`, and `ExpireClaim` of the re-anchoring pass, for a claim found live |
| `Quiescent` | nothing: it lets a drained system stand still, so that TLC's deadlock check means something |

The failures are named in `FaultKinds` and their number is bounded by
`MaxFaults`; a run says which it lets happen.

### Memory: state

| variable | stands for |
|---|---|
| `rows` | what `insertSeedTx` commits for a chunk, in the order of the commits: evidence, claim, link, grants, embedding. `evidenceUntil` and `claimUntil` are the two `superseded_at`, closed by different statements. `readAt` is the edit its content was read at, for `ReadsMoveForward` |
| `disk`, `edits` | the files, and how often one was edited |
| `seeder` | per run: files found and not read, the snapshot of live chunks, the chunks to write, how many of them this flush still writes, the flush's instant |
| `reanchorer` | per pass: rows to check, files read, the instant, the row it has decided to expire |
| `caller` | per caller of recall: the limit, depth and budget it works with, what the arms found, its package; and, for the properties, which rows were there and which closed when the search began |
| `metered` | the recorded recalls |

### Memory: actions

| actions | code |
|---|---|
| `Discover`, `LoadLiveChunks`, `ReadFile`, `ReadFails`, `Flush`, `WriteChunk`, `WriteRefused`, `FinishSeed`, `SeederDies` | `Seeder.Run` (`seed/seed.go`): the snapshot precedes the files, a full batch is flushed before the next file, one instant per flush, one transaction per chunk (`InsertSeed`, `ReplaceSeed`, `store/pg/write.go`), an error ends the run |
| `LoadAnchored`, `StampPass`, `CheckAnchor`, `ExpireStale`, `FinishPass` | `Reanchorer.Reanchor` (`curate/reanchor.go`) with its cache of files |
| `EditFile`, `CloseClaim` | people: an editor, a deletion; `cred forget`, a fold or a prune of a seeded claim (external) |
| `BeginRecall`, `CheckRate`, `SearchDense`, `SearchLexical`, `LoadAndAssemble`, `RecordRecall` | `Service.Recall` (`recall/recall.go`) behind the three fronts (`cli/`, `mcpsrv/`, `api/`) with the defaults and caps of each. The loads after the searches read only what never changes in a row, and are one step |
| `Settled` | nothing, as above |

### Identity: state and actions

`accounts`, `invites`, `sessions` and `attempts` are the tables; `attempts` keeps
the failed logins, for no query reads the others. `request` holds where each
handler is and what it has read.

| actions | code |
|---|---|
| `BeginRegister`, `CreateUser` | open registration: the count, then the insert that the two unique indexes decide (`api/auth.go`, `store/pg/identity.go`) |
| `BeginRedeem`, `ClaimInvite`, `CreateInvitedUser` | registration with an invitation: one update claims it, another transaction creates the account |
| `StartSession`, `Logout` | the end of register and login; logout |
| `BeginLogin`, `CheckAttempts`, `Compare`, `RecordLoginAttempt` | login: the count, the slow comparison, the record, in that order |
| `BeginAdmin`, `CreateInvite`, `RevokeInvite` | the team pages behind `requireAdmin` (`api/team.go`, `store/pg/invites.go`) |
| `RequestFails` | a statement failing or the process dying between any two |
| `Full` | a request that would write beyond the bounds waits |

### Abstracted

*Curation.* A statement is a model value, which is its normalized hash. What the
model answers is a sequence of statements drawn from `Extracts`; that
candidates which do not validate are dropped is `Candidate`'s. Grants and
kinds, because the deduplication key does not contain them. Instants of
closing. The pruning percentage stands for the float it is.

*Documents.* A line is the words it holds, with what the parsers look for in it:
a fence mark, the number of `#`, the title; for code its indentation and what
each definition pattern captures. The patterns themselves are regular
expressions, taken as given: the order of a language's rules, the words they
reject, the receiver of a method and the nesting by indentation are modelled. A
name is a sequence of characters, of which three have names of their own
(`blank`, `gt`, `dot`): a path is the enclosing names joined by ` > `, a symbol its
receiver and name joined by a dot, and two of either can read alike. A hash of
normalized text is the sequence of words.

*Recall.* What full-text search matches and how far a vector is are constants of
a chunk. Scores are exact fractions. Token counts are constants of a chunk. The
vector search is what PostgreSQL may make of `DenseSearch`: ordered over all rows,
or taken from the HNSW index (`store/migrations/00002_bge_small_en_v15.sql:21`), which
offers a few rows of its own choice, closed ones among them, before the `WHERE`
clause is asked (`Offered`). Which plan is taken, and what the index offers, may be
another at each call. `EfSearch` stands for `hnsw.ef_search`, which nothing sets and
whose default of 40 is below the default depth of 50; `DeadRows` for what a search
of the graph misses besides.

*Identity.* A password is right or wrong. A token is its invite or its session,
for it is random and nobody else holds it.

*Tokenizer.* The generated tables of character classes, the lower-case map and
the vocabulary are constants; a text is a sequence of characters and, in the
runs, of a dozen of them that stand for the classes.

## 3. Properties and runs

| run | module | states | shows |
|---|---|---|---|
| `CurateFold` | `MCCurate` | 1.6 M | `SupersessionOrdered`, `FoldingKeepsStatement`, `ClosedIsFinal` |
| `CurateMixed` | `MCCurate` | 1.6 M | `TypeOK`, `FoldsOrdered`, `SupersessionOrdered`, `WithinCeilingAtRest`, refinement of `ClaimLife` |
| `CurateConverge` | `MCCurate` | 426 k | `DuplicatesFolded` |
| `CurateLimits` | `MCCurate` | 5.2 M | `QuotaOvershootBounded`, `CallsOvershootBounded` |
| `Seeding` | `MCMemory` | 1.0 M | `TypeOK`, `LiveClaimIsCurrent`, `ReadsMoveForward`, `SuccessorTakesOver` |
| `Recalling` | `MCMemory` | 1.1 M | `NothingLostSilently`, `ClosedStaysOut`, `RateOvershootBounded` |
| `Identity` | `MCIdentity` | 2.1 M | `TypeOK`, `OneFounder`, `InviteRedeemedOnce`, `SpentInviteIsAccountedFor`, `RevocationHolds`, `LoginOvershootBounded` |
| `Decisions` | `MCDecisions` | 139 k | the fifteen properties of the pure modules |

and four that find a disagreement, section 4.

### What the properties say

*Curation.* `SupersessionOrdered` is the heart of the dedup pass: whatever two
passes saw and whenever they act, supersession points from a closed claim to an
earlier claim of the same statement. `FoldsOrdered` says the same of the work a
pass still holds, and is what makes the first inductive. `FoldingKeepsStatement`
says that a statement which no longer has a live claim lost one on purpose: it
was forgotten, expired or pruned, never folded away. `ClosedIsFinal` is about
the race for one row. It is checked, and proved, with pruning disabled
(`ScopeClaimCeiling <= 0`, as the code itself does), because with pruning the
code breaks it, see section 4. `ClaimsLiveOnce`, the refinement of `ClaimLife`,
holds with pruning too: an overwritten row still has its one successor and
stays closed. `WithinCeilingAtRest` says that once every job is done a scope
that is captured into is at its ceiling or below. `QuotaOvershootBounded` and
`CallsOvershootBounded` say what the two ceilings really give: quota − 1 plus
what all workers may have in hand.

*Memory.* `LiveClaimIsCurrent` joins the two closings of a row: no claim is
believed without its evidence, and of one chunk of one file one version at
most, however runs race, die and start over. `ReadsMoveForward` is what keeps
two runs that read a file at different times from ending with the older
reading: each takes its snapshot before it reads, and the unique index refuses
a replacement of what is no longer live. `SuccessorTakesOver` says that the
chain of versions of a chunk has no gap and no overlap. `NothingLostSilently`
is the promise of the package's `omitted` count: what an arm found is in the
package or counted, and so is what holds the words of the query and was believed
all along, unless the lexical arm was cut at its depth. It answers for nothing
that only the vector search could have found, for that search is approximate
(the list in section 4). `ClosedStaysOut` is what remains
true of currency although liveness is asked only in the searches: a claim
closed *during* a recall may be returned, one closed before it never.

*Identity.* `OneFounder` decides the race of first registrations and follows the
chain of invitations back to it. `InviteRedeemedOnce` is about the requests with
one token: one at most gets past the claim, and neither another email nor an
invite that has expired gets anywhere. (That two of them never *have* an account
follows from the unique email alone; that they are not both let through is what
`ClaimInvite` promises.) `SpentInviteIsAccountedFor`
bounds the damage of the two transactions: an invite is lost only to a failure
between them or to an email that has an account, and no failure costs more than
one. `RevocationHolds` is about the
request that was already under way. `LoginOvershootBounded` and
`RateOvershootBounded` are check-then-act with the bound that is really there.

*Decisions.* `OverlapIsSharing` and `SupersedeHandsOver` give the interval
algebra its meaning by instants. `ReadersOnlyShrink` is the monotonicity of
access. `AgreementRanksFirst` and `PackageIsFull` are what fusion and assembly
are for. `ChunkHasOneSection` compares two parsers on every document of up to
four lines. `FormattingKeepsAnchors`, `EditExpiresItsSection` and
`ReindentKeepsAnchors` change the document and resolve again; they speak of
paths that are unique in the file, because a repeated path is *ambiguous* by
design. A symbol that is defined once has such a path only as long as no name
holds what names are joined with: `ul > li` at the top of a style sheet reads like
`li` inside `ul`, and `a.b` of a package like `b` of `a`. `ReindentKeepsAnchors`
says this too (`DefinedOnce`), and the sources of its run hold both.
`EvidenceIsTheSource` is the trust boundary of nomination.
`PruneReachesCeiling` and `HeadroomIsExact` are the limits at their boundaries:
a pass cuts neither less nor a claim more than the overage and its headroom.
`ListingIsComplete` walks all the pages. `PiecesSpellTheirWord` and
`TruncationCutsTheTail` are the tokenizer.

### Bounds

*Curation.* Two workers stand for River's four: they are the fewest whose passes
and nominations interleave. `Ids` is large enough that no run is ever short of
one: two captures and one retry, or one capture of two statements and a
remember, are 3, and three equal claims are the least for a chain of folds.
`CurateFold` has two captures of one statement and one failure of any kind at
any place, hence a third equal claim when a job runs again, and forgets at any
time. `CurateMixed` has two statements, a remember, pruning at ceiling 1,
forgets, re-anchoring and a pass that fails and is tried again. `CurateConverge`
has two captures and a failed pass, a write cut short and retried, or an
acknowledgement that is lost, so that a job writes its claim a second time and
three claims are equal. `CurateLimits` has three captures, so that one is denied after two were in flight, quota 1, one call, two tries,
failing calls and a sliding window. `MaxClock` 1 gives earlier, equal and later
instants; 0 makes all instants ties, whose order is then the identifiers',
drawn in any order. `MaxFaults < MaxAttempts` where liveness is checked: River
discards a job at its last attempt, and then nothing more is promised.
`FairBackloggedSpec` and `BackloggedSpec` start with every capture enqueued, so
that TLC spends nothing on their order; `CurateMixed` includes `Capture`.

*Memory.* One file with two contents that differ in one chunk and in length, two
runs and a re-anchoring pass (`Seeding`), or one run, forgets and two callers
over rows seeded before (`Recalling`). The index offers two rows (`EfSearch`),
fewer than the depth of three and, once one is written, fewer than there are, and
may miss one more (`DeadRows`). `Recalling` follows a behaviour as long as its
recalls under way and recorded, its edits, the rows written since and its ticks
are not more than four together (`MaxTogether` of `MCMemory`): one caller meets an
edit, two new rows or a tick in any mixture, and two callers overshoot the rate,
go on, and one is denied. Two callers do not search at one time there (`Bounded`):
they meet in the rate only, which is read before a search and written after it, so
that nothing is lost by it. Chunks of different files meet only in the batch and
in a recall's budget. `batchSize` 1 puts an instant and a transaction at every
chunk. Three rows are a seeded file and a replacement, or the same chunk twice
replaced; a fourth lets closed rows fill the index. One edit gives two readings of
different age, one fault a run that starts over. The callers ask for nothing, as a
tool may, or for more than the console passes on at a depth lower than there are
rows; the package is capped at 2 and the rate at 1, so that each binds.

*Identity.* Two handlers, three emails, three accounts, two invites, one session,
three logged attempts, one failure, and lifetimes and windows of 1, which end
within the clock's 2. A behaviour is followed as long as its rows, its failures and
twice its ticks are not more than five together (`MaxTogether` of `MCIdentity`).
That leaves room for each case: three accounts and two invites (two invited
accounts side by side, of two invites or of two requests with one, or an account
invited by somebody else than the founder); a failure that could cost one of two
invites, or both; an invite or a session that expires, after one more row; and a
ceiling of one failed login that is overshot, denied, and has slid away.

*Decisions.* Every combination of: intervals within 0..3 looked at in 0..4;
grants of two principals with three expiries; arms of up to three of four
claims; packages of three claims of sizes up to 3; documents of up to four
lines of eight kinds; Go and TypeScript files and style sheets of up to four
lines, Kotlin files of up to three; sources of four characters and quotes of two; tables of three claims; texts of up to four
characters. Each is the least at which every branch of the decision is taken and
two of them meet: a fence around a heading, a chunk that is full inside one, an
expiry between two evidences, a tie of scores, a word of which only a beginning
is known, a sequence of exactly the greatest length.

Symmetry of workers, runs, callers, handlers and emails is used in runs of
safety properties only.

### Fairness

`FairBackloggedSpec` has weak fairness of each worker's healthy steps,
`WF(WorkStep(w))`: River polls for available jobs and a Go function once begun
goes on, as long as `cred curate` runs. Nothing is assumed of captures, people
or failures. A failure may pre-empt a step but only `MaxFaults` times.

`DuplicatesFolded` needs more than it seems: the later of two duplicates may be
committed after a pass has scanned. It holds because every nomination that
writes enqueues a pass of its own *after* its last write. (Were the passes
coalesced into a pending one, as one comment claims, `EnqueueCoalesced`, it
would fail; it is that property's mutant.)

Seeding, recall and the console have no liveness of their own: each is a command
or a request that somebody starts, and none retries.

## 4. Where the code and its comments disagree

Each of these runs checks one property that a comment or a test states; TLC
finds a behaviour of the code that breaks it.

| run | property | what happens |
|---|---|---|
| `CuratePruneOverwrites` | `PrunedHasNoSuccessor` | a prune pass chooses a row, a dedup pass folds it, the prune's update closes it again: reason *pruned*, with a successor, `superseded_at` moved |
| `CurateFoldDead` | `FoldsOntoLiveClaim` | the survivor of the scan is forgotten before the duplicate is folded onto it; the statement has no live claim although only one of two was forgotten |
| `ReseedSucceeds` | `ReseedSucceeds` | a seeded claim is forgotten, which leaves its evidence live; the next run takes the chunk for new and the unique index refuses it: "idempotent" (`seed/seed.go:56`) ends there, and so does every later run |
| `DecisionsCapture` | `CaptureAnchorsItsQuote` | a capture that does not begin at line 1 is anchored to a later section of its text, or to none, because the quote's file line is looked up among the text's own lines |

Others were met on the way and have no run of their own:

* `curate/limit.go:189`: two prune passes may count one overage and both cut it;
  `curate/worker.go:46` and `curate/integration_test.go:353` say a scope under its
  ceiling is left alone.
* `curate/dedup.go:119` returns the error of a lost race that line 107 says is
  none, when the row is closed between load and update.
* `limit/limit.go:46` calls the cost ceiling hard; concurrent nominations pass it
  together (`CallsOvershootBounded` says by how much).
* `limit/limit.go:63` says growth is bounded by policy; the scope that
  `cred remember` writes to (`curate/execute.go:150`) is pruned by nothing.
* `curate/worker.go:38` says that passes coalesce, line 206 that they do not.
* `store/pg/queries.go:224` says "DenseSearch returns the nearest live claims"; the
  order it asks for is the HNSW index's (`00002_bge_small_en_v15.sql:21`), closed
  claims are left out only after the index has answered, and the index offers fewer
  rows than the depth: a nearer live claim, or one there was room for, may not be
  found, and nothing counts it as left out.
* `recall/recall.go:275` speaks of claims "superseded between the two queries",
  but the load does not ask again whether a claim is live.
* `curate/reanchor.go:91` leaves a deleted file to a re-seed, "the deliberate act
  that reconciles deletions"; a run only looks at the files and chunks it finds,
  and closes nothing that has vanished (`seed/seed.go:60` says so).
* `store/pg/invites.go:61` says revoking a used invite is a no-op; it writes
  `revoked_at`. Nothing reads the difference.

And limits of the design that the models make visible: an unchanged file with a
heading path that occurs twice has its claims expired as ambiguous; so has one in
which a name reads like a path, such as a heading `a > b` beside a heading `b`
under `a`; a line that
begins with `#12` is a heading to both parsers; an unchanged child section keeps
the anchor path it was stored with when its parent's heading is renamed, and the
next re-anchoring expires it; an unchanged chunk keeps its grants when it is
seeded again for another principal; the arms of a recall are cut at their depth
before access is decided; pages by offset shift when claims are written between
two of them.

## 5. Theorems

For every value of the constants that satisfies the modules' assumptions: any
number of workers, runs, callers, requests, rows, failures, any ceilings.

| module | theorem | statement |
|---|---|---|
| `CurateProofs` | `TypeCorrect` | `Spec => []TypeOK` |
| | `SupersessionOrder` | `Spec => []SupersessionOrdered` |
| | `FoldOrder` | `Spec => []FoldsOrdered` |
| | `StatementsKept` | `Spec => []FoldingKeepsStatement` |
| | `ImplementsClaimLife` | `Spec => ClaimsLiveOnce` |
| | `ClosedFinal` | `ScopeClaimCeiling <= 0` gives `Spec => ClosedIsFinal` |
| `QuotaProofs` | `CallsOvershootLittle` | `MaxInferenceCalls > 0` gives `Spec => []CallsOvershootBounded` |
| | `QuotaOvershootLittle` | `ContributionQuota > 0` gives `Spec => []QuotaOvershootBounded` |
| | `CeilingAtRest` | `PassesComplete` and no capture into the scope of attestations give `Spec => []WithinCeilingAtRest` |
| `MemoryProofs` | `OneLiveVersion` | `Spec => []LiveClaimIsCurrent`, of `Recall`'s `Spec` |
| | `MemoryTyped` | `Spec => []TypeOK` |
| | `ReadingsMoveForward` | `Spec => []ReadsMoveForward` |
| | `SuccessionsHandOver` | `Spec => []SuccessorTakesOver` |
| `RecallProofs` | `OmissionsAreTold` | `Spec => []NothingLostSilently` |
| | `ClosedClaimsStayOut` | `Spec => []ClosedStaysOut` |
| | `RecallsOvershootLittle` | `RecallCeiling > 0` gives `Spec => []RateOvershootBounded` |
| `IdentityProofs` | `TypeCorrect` | `Spec => []TypeOK` |
| | `FounderIsAlone` | `Spec => []OneFounder` |
| | `RedeemedOnce` | `Spec => []InviteRedeemedOnce` |
| | `SpendingAccountedFor` | `Spec => []SpentInviteIsAccountedFor` |
| | `RevokedStaysUnspent` | `Spec => RevocationHolds` |
| | `LoginsOvershootLittle` | `MaxLoginAttempts > 0` gives `Spec => []LoginOvershootBounded` |
| `DecisionsProofs` | `OverlapShares` | `Spec => []OverlapIsSharing` |
| | `SupersessionHandsOver` | `Spec => []SupersedeHandsOver` |
| | `ReadersShrink` | `Spec => []ReadersOnlyShrink` |
| | `PruningReachesCeiling` | `Spec => []PruneReachesCeiling` |
| | `HeadroomExact` | `Spec => []HeadroomIsExact` |
| | `PackagesFull` | `Spec => []PackageIsFull` |
| | `AgreementFirst` | rankings no deeper than `RRFConstant + 1` give `Spec => []AgreementRanksFirst` |
| | `ListingsComplete` | `Spec => []ListingIsComplete` |
| | `EvidenceQuotes` | `Spec => []EvidenceIsTheSource` |
| | `ChunksHaveOneSection` | `Spec => []ChunkHasOneSection` |
| | `FormattingKeeps` | `Spec => []FormattingKeepsAnchors` |
| | `EditsExpireTheirSection` | `Spec => []EditExpiresItsSection` |
| | `ReindentingKeepsAnchors` | `Spec => []ReindentKeepsAnchors` |
| | `PiecesSpell` | `Spec => []PiecesSpellTheirWord` |
| | `TruncationCuts` | `Spec => []TruncationCutsTheTail` |

### Curation

The assumptions are only that identifiers are finitely many natural numbers
(a total order for the tie-break), that `NULL` is not one of them nor a reason,
that there are finitely many workers, that one response of a model is as long as
any (`nominate/anthropic.go:21` caps its tokens), and that each constant has its
type.

*The order.* `SupersessionOrdered` alone is not inductive: a pass may hold a
fold for as long as it likes, and nothing in the invariant says the fold was
ordered. `OrderInv` is `TypeOK`, `SupersessionOrdered` and `FoldsOrdered`. It is
kept because no step changes a stored claim's statement or instant (`RowsKeep`),
so a fold that was ordered when scanned is ordered when applied, and because
the scan's survivor precedes every other member of its group. The actions
reduce, by one lemma (`StepsOfTheStore`), to five things that can happen to the
table: nothing, a write, a fold, an expiry, a prune. Everything after it is
about these five.

*Statements kept.* `FoldingKeepsStatement` is not inductive either: folding `i`
onto `j` needs to know that `j`, if closed, still leads somewhere. `KeepInv`
adds that every claim closed as a duplicate has a successor. Then, given any
stored claim, take among the claims of its statement the least in the order;
it cannot have a successor, since that would be smaller, so it was not closed
as a duplicate. The least exists because the instants and the identifiers are
natural numbers, and no induction over chains is needed.

*Refinement.* The mapping reads the table: what was asserted, what is live, what
each was folded onto. A write is `Assert`, a fold is `FoldOnto`, an expiry or a
prune is `StopBelieving`, all others stutter.

*Closed is final.* With the ceiling disabled `PruneTarget` is 0 and no worker
ever reaches the update (`NoPruning`); folds and expiries are guarded by
liveness.

*Ceilings.* A worker reads what was used and writes or calls much later, so
nothing inductive can be said of what is recorded alone. `CallsInv` and
`QuotaInv` count what is recorded in the window *and* what is in hand (the tries
left to workers that were let through, the candidates of a response not yet
written), and bound the sum by the ceiling less one and all that the workers
together can hold. A worker is let through only while what is recorded is below
the ceiling, whatever the others hold; each call and each write moves one unit
from hand to record; time only lets records leave the window. The hypotheses
`... > 0` are the code's: a ceiling that is not positive disables its control,
and then there is nothing to overshoot. `RecallsOvershootLittle` and
`LoginsOvershootLittle` go the same way.

*At rest.* What a pass counted may be stale when it prunes, so no invariant says
that a pass leaves its scope at the ceiling. `OwedInv` says what holds at every
moment: a scope above its ceiling is *owed* a prune, by a job in the queue, or by
a worker that will schedule one, will count anew, has counted enough to close, or
holds enough live claims to close. At rest nobody owes anything. The
hypotheses are what the source does not promise: that writes are not cut short,
that follow-ups are not lost, that a job fails less often than it has attempts
and that the ceiling is enabled (`PassesComplete`), and that nobody captures into
the scope of attestations, which nothing prunes (section 4). A failed pass that
is tried again is among the behaviours, here and in `CurateMixed`.

### Memory

`LiveClaimIsCurrent` speaks of claims, while what is kept unique is the
evidence: a forgotten claim leaves its evidence where it stands. The inductive
invariant is about both: `OneVersion`, of one chunk one live piece of evidence,
which is what the unique index keeps; and `Grounded`, a live claim has live
evidence, which is kept because `ReplaceSeed` closes the claim in the
transaction that closes the evidence. `Tabled` types the rows and what the runs
hold of them. `Stamped` says that every instant read or held is a natural
number, so that a closed row is closed. From these the property follows at
once. Seeding is shown step by step; recalls do not touch the rows.

*History.* That later versions hold later readings is not inductive, and the
unique index alone does not give it. `Latest` says of what is stored that every
version ever written has a later one, or itself, whose evidence is live; so
what is replaced is the last of its chunk, and the index refuses a run whose
incumbent is not that one any more. `Behind` says of what a run holds that each
pending chunk was read after every row of its snapshot was, that it differs
from the row it will replace, and that once the batch is stamped the stamp is
not before any row of the snapshot. The first is kept because the snapshot is
taken before the files are read, the last because the instant is read after.
`Past` bounds what is stored by the clock and the edits, and says that only a
closed claim has a successor. `Kept` is what every step does to the table: rows
stay where they are and say what they said. `RunSteps` reduces the actions of a
run to five: it ends or starts over, takes its snapshot, reads, flushes, writes.

What a run reads of a file is a recursive function (`Without`). What it returns
is shown without an induction theorem: the least prefix at which it would not
hold, or at which the function would not exist, cannot be.

*Recalls.* `NothingLostSilently` joins what a caller read at five moments, and
the rows change between any two of them. `Searches` says of each caller what
what it holds still means: the hits are rows; what was closed when the search
began is not among them; a lexical search that came back with fewer hits than it
asked for found every claim with the words of the query that was believed since
before it and is until now; and, once the
package is assembled, each hit that its asker may read is in it or `omitted`
counts something. That this survives the steps of everyone else is one lemma
(`Lasting`): rows stay, keep their grant, and what was closed stays closed.
The rest is about what the answer is computed with, in `RankProofs`: what is
sorted by how many come before it is in order and complete (`InOrderSorts`); a
fused ranking holds what the arms hold and each once; a filter keeps the order;
the loop of the assembly accounts for each candidate, in the package or among
the omitted. That loop is a recursive function, shown as `Without` is, by the
least turn that would be wrong. TLC checked `Searches` on the instance of
`Recalling` before it was proved.

### Identity

`Typed` is `TypeOK` and the shape of what each handler holds at each of its
steps. `Owned` is what the other properties rest on. *Between its two
transactions a redemption owns its invite* (`RedemptionOwns`): the invite is
spent, no account has it and no other request holds it; without this nothing
says why two requests cannot both create an account from one invite.
`AdminsInvite`: an invite was written by an administrator, which
`OneFounder` needs for the accounts founded on it and which holds because no
role ever changes. What is lost is counted beside it: if the invites spent in vain
are at most those of a set, then after any step they are at most those of that
set and, if a request failed, the one it held (`StepOwned`, over `SpentBut`); so
their number grows no faster than `faults`. `RevokedStaysUnspent` is an action property: the one update
that spends an invite asks in the same statement whether it is revoked.

### Decisions

The inputs are constants, so these say that the decision is right for every
input of its type (`DecisionsAssumption`), not for the enumerated ones.
`Given` is the inductive invariant: what was drawn is one of the inputs. The
rest is arithmetic: intervals with and without an end case by case, the shared
decision `AtMost` shifted by what is granted, and the headroom of a prune, which
is the share asked for rounded up (`HeadroomIsShare`). An integer division is
bounded by a lemma of its own.

`PackagesFull` and `AgreementFirst` rest on the lemmas of `RankProofs`. The second
has a hypothesis that is a limit of the code: reciprocal ranks with
`RRFConstant = 60` let what two arms found precede what one arm found only
while 2/(60 + n) > 1/61, that is down to depth 61. The default depth
is 50; a caller may ask for more, and then a claim both arms found
near the end of their lists may come behind one that a single arm ranked first.

`ListingsComplete` takes a filtered listing as a sorted sequence and a page as a
window on it (`PageIsAWindow`); every place of the listing is on one page, which
is division, shown by the least page that reaches the place. What it needs of a
table is that identifiers are unique and not the empty one, which the primary
key gives, and that the status asked for is one of the three the handler lets
pass. `EvidenceQuotes` counts line ends: those before the quote, those in it
and those of the source up to its last token add up.

*Anchors.* A document may have any number of lines. What is assumed of one is
what the readers of a file establish (`DecisionsAssumption`): a line that starts
with `#` or in which a pattern captures something is not blank, a line of prose
is edited into a line of prose, a title is a sequence of characters, a definition
has a name, and a rule that does not join a receiver captures none. The argument has
four parts.

* *Sections.* The deepest node whose section holds a line is the node opened
  last (`EnclosingLatest`): an immediate section ends above the next node of any
  level, so no two of them overlap, and levels never decide.
* *Paths.* When nodes move and keep their order, their names and which of two is
  deeper, each has the path it had (`PathKept`): the stack of open nodes moves
  with them, and the ascending order of its numbers is the order of their places
  (`PickedImage`). A path ends in the name of its node, and before it stands
  nothing or the separator (`PathEnds`). Where no name holds a `>`, the last one of
  a path is therefore that of the last separator, and different names are
  different paths (`PathsDiffer`); where no name holds a dot, the same shows that
  different receivers or names are different symbols (`NamesDiffer`). Where some
  do, only a path that is unique as it reads is spoken of.
* *Hashes.* A hash is a concatenation of the words of lines. It is empty only if
  no line is written, it changes with any one of its lines, and an empty line
  more leaves it as it is (`FlatEmpty`, `FlatDiffers`, `FlatWithEmpty` in
  `RankProofs`; each by the least length at which it would fail).
* *The ladder.* From these, `LadderSays`: of a path that leads to one node, and
  nodes that moved together, the verdict is whether the words of the section are
  the same.

`EditKeepsOpenings`, `OpeningsMove` and `SameDefinition` then say what an edit, a
blank line and an indentation do to the nodes. The buffers of the chunker are a
recursive function over the lines; `StartsBuffer` says what it computes: a
buffer takes in consecutive lines and no heading after its first, so nothing
opens within a chunk.

*Tokens.* A text may be of any length, over any alphabet, with any vocabulary.
What the proofs need of the generated tables is `TablesAssumption` of
`WordPiece`: a decomposition is not decomposed further, a lower case letter is
one, neither yields a control character (nor a lower case letter a mark), and an
ideograph stays one character while nothing else becomes an ideograph. The tables
of `tables_gen.go` and the canonical decompositions of Unicode (which never
change once assigned; compared with version 14) are like that. What decomposes
is asked only of what is left after the stage before: `cleanText` has replaced
white space, of which two characters decompose into white space, and lower case
comes after decomposition. The argument has five parts.

* *Normalizing.* Each stage maps a character to some characters, so what no
  character turns into is not in the text (`SpreadAvoids`). The ideographs need
  more: `padCJK` comes before decomposition, marks and lower case, so that a word
  has no ideograph next to anything only if these keep it between blanks
  (`SpreadFlanked`).
* *Words.* The splitter holds, at every character, the words read and the one
  begun, each a stretch of the text (`ReadBegins`).
* *Greedy matching* calls itself on a later character, not on the next one: that
  such a recursive function has a value is `ContinuationsExist`, and what it
  computes is shown backwards from the end (`BackwardsHolds`, `FromPieces`).
  Without the unknown token the pieces spell the rest of the word.
* *Special tokens.* Cutting a text around one occurrence of `[NAME]` neither
  makes nor breaks another: no token stands across a place where one begins or
  ends (`FrequencyAdds`). The five passes keep the count of every token
  (`DividesAll`), which is a total over segments and then over pieces
  (`TotalFlat`, `UnitsCount`); no piece of a word is written as a special token,
  because a word with a bracket in it is that bracket alone. `[UNK]` is left out
  of the statement: unknown words add to its number.
* *Truncation.* What has been appended is the opening token and a beginning of
  all the pieces, and nothing is left out before the budget is reached
  (`AppendedBegins`); so the cut at the end keeps exactly what fits.

### Model-checked only

`DuplicatesFolded`: liveness under fairness is beyond the prover. Every other
property of a passing run is a theorem.

## 6. Mutants

Every property of a passing run has a mutated form of a definition under which
TLC refutes it: the tie-break forgotten, the survivor the latest instead of the
earliest, the liveness guard of an update dropped, passes coalesced, one
candidate or operation too many, the index not binding, the old claim not
closed, an instant read too early, an arm that looks at evidence only, a revoked
invite merely hidden, an invite that can be redeemed until it expires, an invite
marked before its email is looked at, a union of
grants, a page cut before access, a section that swallows its children. They
stand next to what they mutate and are marked *Mutant*.

## 7. Not modelled, and the plan

Next: a module for the download of the model files
(`embed/bge.go:274`: two processes write one `.partial` file), which needs
file-system calls as steps.

Left out, with the reason:

* the organisation's usage page and the operator's listings (`RecentWrites`,
  `UsageByScope`, `ScopeSizes`): sums over a table that decide nothing;
* HTTP and MCP plumbing, the fence around quoted memory, the JSON shapes:
  formatting;
* the providers' wire formats and the prompt: what an answer may be is drawn;
* the regular expressions of `anchor/code.go` and the generated tables of the
  tokenizer: data;
* configuration, logging, command-line parsing, `doctor`: no state shared between
  steps;
* migrations: applied once and in order under their own lock; the constraints
  they create are guards of the modules above;
* the web console and the deployment: presentation and infrastructure;
* the arithmetic of the embedding model;
* PostgreSQL itself, whose statements and transactions are taken as atomic
  except where one of them is named above; River, from how it is used.
