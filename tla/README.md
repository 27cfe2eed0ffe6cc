# Verification of the D9 control, custody, restriction, backup and data planes

TLA+ specifications, TLC runs and TLAPS proofs for the protected stores of the
JEDI Hiring Legal Atlas (`src/d9`). Every definition is written from the code;
`PROJECT.json` names the lines each one stands for.

Contents: 1 the system, 2 the modules, 3 runs and bounds, 4 fairness, 5 proofs,
6 places where code and documentation disagree, 7 what is abstracted or not
modelled, 8 the plan.

## 1. The system

The Atlas publishes legal documents with evidence of where each came from.
`src/d9` (about 21,000 lines of JavaScript and C) is the machinery that may one
day admit real evidence: it must never lose, repeat or invent a step, whatever
crashes. The rest of the repository (a read-only API, a front end, SQL
migrations, contract validators) keeps little state of its own.

| Component | State | Operations | What makes it correct |
|---|---|---|---|
| Protected control store `control-plane/state-store.mjs` | `HEAD.json`, `commits/`, `pending/`, `append.lock/`, `operation.lock/`, `RECOVERY.json` | activate, record, begin/end operation, four recovery calls | one unforked chain of commits; acknowledged commits survive power loss; an operation in progress has its lock; each incident can be recovered or is a stated hold |
| Event semantics in the same file (`applyEvent`) | permits, nonces, generations, operations | 20 event types | a nonce is used once, a revoked generation stays revoked, a permit is claimed once |
| State append broker `state-append-broker.mjs` | a session with one append worker over a pipe, a queue, the request in flight | dispatch, serve, reconcile a lost answer, close | a definite answer is true for good; a request is never repeated to find out |
| Launcher `launcher.mjs` | phases of dry runs and permit-scoped audits, issued permits, a hold | start, dry run, audit, register, issue, withdraw, revoke | the outcome reported is the one on record; nothing begins after a failure; every run ends |
| Scopes, ceremony semantics, contracts, canonical forms | none | validation of one record | shape only |
| Platform, native helper, build integrity, identity | kernel lock, peer credentials, file hashes | thin wrappers over system calls | I/O |
| Custody durable store `custody/durable-store.mjs` | five namespaces, a pending directory, a latch | append, read, inventory, close | acknowledged or readable records are durable and whole |
| Custody CAS `custody/cas.mjs` | objects by digest, private temporaries, handles, a latch | prepare, verifyPrepared, publishNoReplace, inspectCrashState, integrity reads | a published object is durable; one operation created it; doubt is visible |
| Custody adapter and journal `adapter.mjs`, `journal.mjs` | streams, capabilities, supporting records, receipts, journal events | handle, appendSemantic, persistPrimaryReceipt, persistSupporting | evidence never runs ahead of what it proves; the journal can be reopened |
| Admission, coordinator, integrity relay, recovery classification | capabilities; a descriptor relay process | issue, claim, transition; deliver, verify, terminate | a capability is used once, before it expires |
| Restriction ledger, operations, authority `restriction/` | a receipted ledger, authority events, the primary name, capability and receiver | submit, correct, shut access down, delete the primary name, revoke | the name goes only while every gate holds; records attest what happened; nothing follows a revocation |
| Recovery and resolvers `recovery*.mjs` | resolver pairs, correspondences, a chain of checkpoints | reconstruct, classify, resolve, append an assessment, finalize it | what is retained always reconstructs; an assessment is authorized by the state it was classified on; a cut finalization can be finished |
| Backup and restore `backup-restore/` | record namespaces and a journal, an object store, staging and promotion roots | create, decide retention, attest, authorize, restore, classify | only whole, verified generations are exposed; a retention decision cancels what comes after it; what was answered lasts |
| Data plane `data-plane/` | the accepted bundles, a disposable candidate database | preflight, plan, write, verify, replay | whatever the preflight accepts the database accepts; an accepted bundle stays acceptable; lineage is grounded |
| SQL schema `data/migrations` | tables, validating and freezing triggers | migrate, insert | a row enters once, after what it refers to, and never changes |

**Interactions.** The launcher owns the kernel lock, asks the append worker to
commit to the control store, and drives one operation at a time. The custody
adapter takes importer requests over a socket, acts on the CAS, and sends every
request and response to the journal broker, which writes them to the durable
store; a coordinator adds the journal events. The restriction ledger is appended
to under a kernel lock by records, recoveries and the deletion's own steps; the
resolvers read it, and their assessments are appended to it. Backups read the
custody objects and the restriction controls through resolvers at every stage.
Everything durable there is a directory of immutable files made by write, fsync,
link without replacement, fsync of the directory, unlink of the temporary name. The
data plane stands apart: it checks a bundle of evidence rows against those of the
bundles before it, writes it into a private copy of the database in one
transaction, and keeps the copy only if every bundle in it passes its check again.

**What is hard.** Two store instances over one directory; a process killed between
any two file operations; an fsync whose directory entry is still volatile; an I/O
error half way through a cleanup; a retry after a lost answer; recovery that is
interrupted itself; the asynchronous adapter, whose awaits let another call in
between the effect and its evidence; capabilities that expire during a call.
A revocation that lands between a check and its effect; a record persisted in
several durable steps under somebody else's feet. One set of rules stated twice, in
JavaScript and in SQL triggers, over histories of bundles with times of their own
choosing. `PROJECT.json` lists 40 such hazards at their lines, with the properties
that cover each.

## 2. The modules

| Module | Models | Correspondence |
|---|---|---|
| `StateStoreDisk` | the directory of the control store as a value | record with `head`, `commits`, `pend` (pending files), `alock`, `olock`, `intent`; the pure parts of the code: `_refresh`'s structural checks (`Opens`, `Reasons`), `Held`, `_publishIncident` and the acceptance conditions of the recoveries (`FreshAccepted`, `RetryAccepted`, `PreGenesisAccepted`) |
| `StateStore` | the processes over it | `fs` is what they see, `disk` what an fsync has made durable; one action per file-system change of `_appendEvents`, `beginOperation`, `endOperation` and the four recovery calls; `Kill`, `Exit`, `IoError`, `PowerLoss` |
| `StateStoreProps` | its properties and the inductive invariant | refinement mapping to `DurableLog` |
| `DurableLog` | what the store promises a caller: an append-only log, of which what was acknowledged is never lost | abstract specification |
| `StateStoreProofs` | proofs about `StateStore`: types, exclusion and `NoFork`; the history and its durable part, operation locks and the refinement | section 5 |
| `ControlLedger`, `ControlLedgerProps` | what the control store records: generation pairs, seals, permits, operations, authority, and the four recoveries as they judge contents | `log`, `head`, `pending`, `mutex`, `lock`; one action per writing call, each of which may be cut at any stage of its publish (`Cut`); `Replays` is what opening the store makes of all of it |
| `ControlLedgerProofs` | proofs about `ControlLedger`: what a commit adds to the record, and the invariants one commit keeps; then about the broker and the launcher over it | section 5 |
| `AppendBroker` | client and worker of the append session, over `ControlLedger` | `queue`, `flight`, `answers`; the worker may die or answer late at any stage of an append, and `Reconciled` reads the store as `reconcileAfterResponseLoss` does |
| `Launcher`, `LauncherProps` | the launcher over `AppendBroker` | one action from each await to the next of the dry run, the audit and the side calls |
| `NoReplaceFiles` | files, names, temporaries and what a power loss may leave, shared by the two custody stores | a name refers to a file and a file has bytes; links are counted as the code counts them |
| `DurableStore` | the custody durable store | `append` from its checks to its return in up to 8 steps, with the EEXIST path and the cleanup in its catch |
| `RestrictedCas` | the CAS | `prepare`, `verifyPrepared`, `publishNoReplace` and `inspectCrashState`, one action per file operation |
| `Custody` | adapter, admission, coordinator and journal broker composed | one action per piece of code between two awaits; the CAS and the store appear as one step each, with the outcomes the two modules above allow; `lapsed` is what an open rests on and has expired (seal, handoff), `expired` the sources and capabilities |
| `DurableStoreProofs`, `CustodyProofs` | proofs about the durable store and about `Custody` | section 5 |
| `ArtifactProofs` | proofs about what is kept of an artifact: its object in the CAS (`RestrictedCas`), its rows in the evidence tables (`EvidenceImport`); two parts that share nothing | section 5 |
| `RestrictionLedger` | the D9.4 ledger: what may follow what, the projection with its gates, the authority's history | `ledger` (receipted records), `bare` (a target without its receipt), `events` |
| `Restriction`, `RestrictionProps` | submissions, corrections, shutdown, primary deletion and revocation by several callers | one action per await or durable effect; `RemoveName` and `Sync` are the native helper's |
| `RestrictionProofs` | proofs about `Restriction`: the laws of the ledger and what a caller in the lock knows | section 5 |
| `RecoveryResolvers`, `ResolverProps` | classification, resolution, genesis and finalization of recovery assessments | one action per durable append; `journal` is the receipt order of the ledger above |
| `ResolverProofs` | proofs about `RecoveryResolvers` | section 5 |
| `BackupHistory` | the namespaces and the journal of D9.5 | target first, then a receipt under a number read before |
| `BackupRestore`, `BackupProps` | every call of the D9.5 runtime but the restore drill | one action per file operation and observation; an append in five (`AppendSeal`, `AppendCheck`, `AppendHead`, `AppendTarget`, `AppendReceipt`), since no lock covers it; replays are the calls `backupAgain` and `restoreAgain` |
| `BackupProofs` | proofs about `BackupRestore` | section 5 |
| `EvidenceTables` | the evidence tables of migration 005 with the insert triggers that guard them | a row is a record named by its bundle and place; one operator per trigger; `PlanTables` is the writer's order |
| `EvidencePreflight` | the semantic preflight of one manifest | one operator per loop or closing check of `preflightEvidenceBundle`, judging a row by the rows before it |
| `EvidenceImport`, `EvidenceProps` | the import call and the replay of accepted bundles | the manifest is chosen row by row as the preflight reads it; then plan, one step per table of the transaction, commit, verification of the candidate |
| `MC_*` | instances for TLC | |

`StateStore` and `ControlLedger` look at one file from two sides: the first at
how a commit reaches the disk, file operation by file operation, the second at
what the commits say and who may write them, with the publish reduced to the
stages at which it can be cut. `Launcher` extends `AppendBroker`, which extends
`ControlLedger`: the composed run drives the real semantics of permits and
operations through lost answers.

The three layers of custody meet at two places. `Custody` treats a broker append
as *done*, *failed, nothing left*, or *latched* (its record or its pending name
left): the outcomes of `DurableStore`'s `Returns`, `Ends(p, FALSE)` and
`Ends(p, TRUE)`. A publication that is cut short leaves the object absent, linked
with its temporary, or settled (`CutPublications`): what `RestrictedCas` leaves
before, between and after its link and unlink. The correspondence is by reading;
a refinement that checks it is in the plan.

In `Custody` a message exchange is the number of its records that are on disk
(0 to 3) because the code writes request, subject or effect, and response in
that order and the constructor counts exactly these.

## 3. Runs and bounds

| Run | Module | Question | Distinct states |
|---|---|---|---|
| `kill` | StateStore | With processes killed anywhere (twice), do exclusion, one begin and one end, truthful audits and recoverability hold? | 354 thousand |
| `crash` | StateStore | With kills, I/O errors, torn writes and power losses, is the history one durable chain; does the store implement `DurableLog`; does the invariant of the proofs hold? | 1.1 million |
| `live` | StateStore | Does every call return, and does an operator's repeated recovery converge? | 148 thousand |
| `ledger` | ControlLedger | Whatever is cut and recovered, does the history replay, does each nonce and permit serve once, is a revoked generation silent, and is a cleanup possible? | 306 thousand |
| `launcher` | Launcher | With overlapping calls, lost and late answers and a dying worker, are answers and outcomes true, does nothing begin after a failure, does every run end? | 649 thousand |
| `store` | DurableStore | Are acknowledged and readable records durable and whole? | 872 thousand |
| `cas` | RestrictedCas | Are published objects durable, created once, and doubtful ones reported? | 1.1 million |
| `custody` | Custody | Can overlapping calls, expiry, failing appends and restarts put evidence ahead of fact, repeat an effect, or leave a journal its own constructor refuses? | 2.8 million |
| `restriction` | Restriction | Can a hold, a revocation or a failure between check and unlink remove a name that should stay, or leave a removal unrecorded or a false record? | 1.6 million |
| `backup` | BackupRestore | Can racing processes, failures, kills or movement expose a generation that is not whole and verified, undo an answer, or make the classification false? | 292 thousand |
| `resolvers` | RecoveryResolvers | Over a moving journal, with a failure or kill between any two appends, is every assessment authorized, does what is retained reconstruct, can a cut finalization be finished? | 112 thousand |
| `evidence` | EvidenceImport | Do the triggers accept what the preflight accepts, and does an accepted bundle stay acceptable, when later bundles move, withdraw and restore copies with times set back, or derive, reuse and interpret artifacts; is every lineage grounded and acyclic? | 2.2 million |

Why these are enough:

- *Control store.* `MaxSeq = 3` allows an activation, a begin and a terminal
  commit (the three kinds of append), plus the recovery audits, which the bound
  does not stop. Two processes race for both locks. Two faults are an interrupted
  call and an interrupted recovery of it, or two interruptions of one recovery.
- *Recovery steps.* In the passing runs of the control store a kill or a failure
  strikes every recovery step except the ones left out by `ResumableSteps` and
  `DurableSteps` in `MC_StateStore`. Those steps leave what a retry refuses or
  what a power loss takes back; section 6 describes each of them at its line. The
  theorems leave out the same steps as `DurableSteps` (`DurableRecovery`) and as
  `ResumableSteps` (`Resumable`), and bound neither the faults nor the history.
- *Custody stores.* Two contents for one record code meet every branch of EEXIST
  (own record, other record, half a record). `MaxFiles = 3` is one file for each of
  two processes and one left by a crash. Faults are not bounded at all.
- *Ledger.* `MaxCommits = 5` is activation, seal, permit, begin and end, or any
  shorter course with a rotation, a revocation and one audited recovery
  (`OneRecovery`); `MaxTime` and one lifetime let generations and permits expire
  in the middle. Operation ids are interchangeable, and only invariants are
  checked under that symmetry.
- *Launcher.* One dry run, one audit with two recipients (six in the code: the
  loop over them is the same) and one other call: each pair of them meets at
  every await. Random ids never meet those of a record (`Drawn`, `Named`), and the
  ceremony up to the issued permit is a choice of initial states.
- *Restriction.* One operator shuts down and deletes, the other caller submits,
  corrects and revokes; one hold and one deletion stream. `MaxFaults = 1`: one
  failure at any durable step, or one power loss before the name is synced; giving
  up at an await is not bounded. The clock moves with the ledger, and `Window = 1`
  is the closed second of the destructive snapshot. `MaxTime = 13` lets the longest
  course of a deletion end.
- *Backup.* Two backup sets, two restores of one target, two working processes and
  one operator. `MaxUpsets = 1` is one failure, kill or movement of retention,
  controls or source in a behaviour. Three constraints of the instance order the
  preparation (`Prepared`: a second backup only overlaps the first before a restore
  is prepared, a restore is repeated once one has its last record), make replays of a
  backup while there is one manifest, with nothing of a restore after them (`Replays`),
  and let a further retention decision meet one restore only (`OneRestoreMoved`). What
  they cut off is in the theorems.
- *Resolvers.* Two operations in two versions (the same operation repeated with
  other times), one other journal record, a revocation and one fault;
  `MaxFaults = 2` was checked too (353 thousand states).
- *Custody.* Two operations that share an artifact make the CAS reuse path and the
  flags across operations matter; two calls are enough for one to run at every
  await of the other. `MaxFaults = 1` is one failing append or CAS call in each
  behaviour, beside a death at every step and `MaxExpired = 2`: any two of the seals,
  handoffs and capabilities expire, each at any step. The same properties were checked
  with `MaxFaults = 2` and `MaxExpired = 1` (2.3 million states, a minute on four
  workers). `MaxRestarts = 1` gives a stream before and after the restart.
- *Evidence.* `Scenarios` bounds the histories: each scenario gives the number of
  bundles, the rows each may have per list, and the values and times the rows carry;
  `scenario` is chosen at the start and never changes. `Custody` has three bundles: an
  artifact placed by the first, two custody events and a run in the second, one of
  each in the third, enough for a copy to be restricted and restored, relocated,
  tombstoned and restored later, placed a second time, or withdrawn as of a time
  before a run that used it (the times of retrievals and custody events lie on both
  sides of each other). *Quarantined* is left out: every rule treats it as
  *restricted*. `Lineage` has two bundles, three runs, two derived artifacts and two
  candidates of one chain: outputs reused, inputs derived
  by an earlier bundle or by the run before, corrections. One creation time for all
  bundles leaves every order of the rows' own times open. Copies, backends and
  derived artifacts are interchangeable (`Alike`); no liveness is checked there.

Deadlock is checked for `DurableStore`, `RestrictedCas`, `Restriction` and
`EvidenceImport`. It is not for the others: a behaviour may end when the bound on
appends or on time is reached, in a fail-closed hold, or when a constructor refuses what it finds.

What the runs show beyond "no error":

- *kill*: `PublishRecoverable` says that once every process is gone, what an
  interrupted publish left is accepted by the recovery, or it is one of four
  holds the code refuses on purpose (`FailClosedHold`: a torn pending file, an
  unanchored commit beside a lock without a lease, a lock without a lease before
  genesis, a mutex that appeared after the intent of a recovery). `TruthfulDiscard` says
  that a recovery never records as *discarded uncommitted* something that is part of the
  history; both need the regime of this run, kills alone (section 6, line 2008), and the
  theorems about them drop its bounds on kills and on the history.
- *crash*: `HistoryIntact` is that the store can always be opened again, and that a
  power loss now would keep all that was acknowledged. `ImplementsLog` maps the anchored commits to the abstract log: no step,
  recoveries and power losses included, changes an entry or drops one whose append
  has returned. `HInv` is the inductive invariant of section 5, checked here before
  it was proved. `OperationGuarded` is the reason for the catch clauses in
  `beginOperation`: a begin that failed after its commit keeps its lock.
- *cas*: `UnsettledReported` is the reason the CAS unlinks its temporary last: an
  object a power loss may take back is always classified as ambiguous.
- *custody*: `Reopenable` says the constructor accepts everything the broker can
  have written, with exactly three exceptions: a pending name left in the store, a
  supporting exchange cut short, and a request never answered whose acknowledgement
  came after what it rests on had expired: the source or the preparation capability,
  or for `open_staged` the bundle seal or the collector handoff. The second is
  documented (`docs/d9-3-1-primary-custody-runtime.md:41`), the third is in section
  6. `OneUnsettled` needs the two
  in-flight flags *and* the latch of the CAS: a publication that throws does so
  before `primaryPublicationInFlight` is set (`adapter.mjs:247-248`).
- *ledger*: `Reopens` holds although three pieces of code judge a commit: the
  append (`_authorityForAppend`), the replay (`authorityForCommit`) and the recovery
  of an interrupted publish, which writes a commit of its own past both.
- *launcher*: `AnswersTruthful` is about every way an answer can be lost. An
  unmoved head does not mean that nothing was written, and killing the worker
  before the store is read is what makes `absent` final. `NoWorkAfterHold` rests on
  the store: a run that passed its own checks before another failed is refused
  there.
- *restriction*: `RemovedOnlyWhenAllowed` is about the instant of the unlink, not of
  the preflight: it is the projection repeated under the lock that makes it true
  (its mutant removes that). `RemovalRecorded` shows why the record is prepared
  before the effect: checked again afterwards it may be refused.
- *backup*: a stage observes the retention leaf, and `append` then checks the history,
  reads its head, and puts the record and its receipt; no lock covers any of it. A
  decision that falls between the head and the receipt makes the receipt collide. One
  that falls between the observation and the head does not, and the stage is receipted
  after it (section 6). `MovementCancels` says that this window is one stage wide: every
  later stage that revalidates is cancelled, and what is exposed had no decision before
  the start of its promotion. The five steps of an append are separate so that this is
  so in the model too. `AnswersLast` asks less of a replayed backup than of the first:
  TLC found that its final receipt may be on record without ever reaching the journal.
- *resolvers*: `Finalizes` excuses a further record behind the assessment. TLC found
  that an operation cut between its checkpoint and its link can be overtaken by
  the next assessment, after which its link can never be persisted; the documents
  foresee it (each prefix stops with `reconciliation_required`).
- *evidence*: `ReplayAccepts` is why `databaseContext` drops the rows of later
  bundles, and not their receipts only: with them, a run is judged by custody that
  was reported, set back in time, after it was accepted. `AcceptedIsWritten` found the
  disagreement of section 6 and shows that it is the only one among the rules modelled.

Every property of a passing run has a mutant in `PROJECT.json`: a small change to
a definition, kept beside the original in its module, that makes TLC find it
violated.

## 4. Fairness

Safety is checked without fairness. Three runs have liveness properties.

- `CallsReturn` assumes weak fairness of the steps of a running call
  (`AppendStep`, `RecoveryStep`): the code is synchronous, so a call that has
  begun runs on unless its process dies. No call is obliged to begin and no fault
  is obliged to strike.
- `RecoveryConverges` also assumes an operator (`Operator`): each of the four
  recovery entry points is tried again and again while it is applicable (strong
  fairness, since another recovery may disable it for a while), and processes that
  stay behind with a lease are ended. That is an assumption about people, which
  the documentation makes (`docs/d9-1-launcher-bootstrap-control.md:132`), and the
  property says what they get for it: a writable store, a permanent hold by a
  recovery-required operation, or one of the fail-closed holds.
- `RunEnds` (launcher): the client, the worker, the doubles and the timers act
  (weak fairness of the broker's steps and of each run's). A request in flight is
  answered or its deadline passes, because `withTimeout` is a timer of the client's
  own process. Nobody need call.
- `Finalizes` (resolvers): a stopped process is started again, a call that runs
  proceeds or is refused (weak fairness, the code is synchronous under a lock), and
  the caller of an assessment that has its receipt resolves and appends it again
  and again (strong fairness, since a crash disables it for a while): what
  `persistD941RecoveryAssessmentLink` asks of its caller. A revocation or another
  record ends the obligation.
- Custody has no liveness property: a failed mutation stops the adapter for good,
  by design (`D931_ADAPTER_RECOVERY_REQUIRED`).

Recovery calls are guarded by `Quiesced` and `NoRecovery`: every former owner is
dead and recoveries do not overlap. The code does not enforce this for every
entry point; line 132 of the same document obliges the caller to.

## 5. Proofs

Every theorem holds for every set of processes, operations, calls, records and
artifacts, every bound and every choice of faults. The assumptions are those the
modules state of their constants: `DiskAssumption` and `StoreAssumption` (control
store), `LedgerAssumption` (what it records), `FilesAssumption` with `CodeAssumption` or `CasAssumption` (the two custody
stores), `CustodyAssumption` (custody), `RestrictionAssumption` and
`BoundsAssumption` (restriction), `ResolverAssumption` (resolvers), `BoundsAssumption`, `PlacesAssumption` and
`NoneIsNothing` (backups), `LauncherAssumption` and another `NoneIsNothing` (launcher),
`EvidenceAssumption`, `ScenarioAssumption` and `OutcomeAssumption` (evidence). They give types, keep `None` and `Torn` apart from real
values, and say that a record has one code, that an object's name is its digest, that a
backup set has one object and a restore one target. TLC evaluates each in the passing runs.

| Theorem | Statement |
|---|---|
| `StateStoreProofs!TypeCorrect` | `Spec => []TypeOK` |
| `StateStoreProofs!Invariance` | `Spec => []IInv` |
| `StateStoreProofs!HistoryNeverForks` | `Spec => []NoFork`: no two commits share a sequence |
| `StateStoreProofs!MutexExcludes` | `Spec => []MutexExclusion` |
| `StateStoreProofs!OperationsStartAndEndOnce` | `Spec => []OneStartOneEnd` |
| `StateStoreProofs!StoreInvariance` | `DurableRecovery` implies `Spec => []HInv` |
| `StateStoreProofs!HistoryStaysIntact` | `DurableRecovery` implies `Spec => []HistoryIntact` |
| `StateStoreProofs!OperationsAreGuarded` | `DurableRecovery` implies `Spec => []OperationGuarded` |
| `StateStoreProofs!KillInvariance` | `KillsOnly` implies `Spec => []KillInv` |
| `StateStoreProofs!DiscardsAreTruthful` | `KillsOnly` implies `Spec => []TruthfulDiscard` |
| `StateStoreProofs!PublishesAreRecoverable` | `Resumable` implies `Spec => []PublishRecoverable` |
| `StateStoreProofs!StoreImplementsLog` | `DurableRecovery` implies `Spec => ImplementsLog`, the refinement of `DurableLog` |
| `ControlLedgerProofs!LedgerTypes` | `Spec => []TypeOK` |
| `ControlLedgerProofs!LogReopens` | `Spec => []Reopens`: what was linked always replays |
| `ControlLedgerProofs!SilentGenerations` | `Spec => []RevokedIsSilent` |
| `ControlLedgerProofs!PermitsOnce` | `Spec => []PermitsServeOnce` |
| `ControlLedgerProofs!AlwaysCleanable` | `Spec => []CleanupPossible` |
| `ControlLedgerProofs!SessionsKeepTheStore` | `SessionSpec =>` the four properties above hold in every launcher session too |
| `ControlLedgerProofs!AnswersAreTruthful` | `SessionSpec => []AnswersTruthful` |
| `ControlLedgerProofs!OutcomesAreTrue` | `SessionSpec => []OutcomesTrue` |
| `ControlLedgerProofs!NoWorkIsBegunAfterHold` | `SessionSpec => NoWorkAfterHold` (an action property) |
| `DurableStoreProofs!TypeCorrect`, `!RecordsAreDurable` | `Spec => []TypeOK`, `Spec => []RecordsDurable` |
| `ArtifactProofs!TypeCorrect` | `Spec => []TypeOK` |
| `ArtifactProofs!PublishedIsDurable` | `Spec => []PublishedDurable` |
| `ArtifactProofs!CreatorIsUnique` | `Spec => []OneCreator` |
| `ArtifactProofs!UnsettledIsReported` | `Spec => []UnsettledReported` |
| `ArtifactProofs!WrittenReplays` | `ImportSpec => []ReplayAccepts` |
| `ArtifactProofs!LineageIsGrounded` | `ImportSpec => []LineageGrounded` |
| `ArtifactProofs!AcceptedWrites` | `ImportSpec => AcceptedIsWritten` (an action property) |
| `CustodyProofs!TypeCorrect` | `Spec => []TypeOK` |
| `CustodyProofs!ReceiptsAreFounded` | `Spec => []ReceiptFounded` |
| `CustodyProofs!ReservationsHold` | `Spec => ReservationHolds` (an action property) |
| `CustodyProofs!OneIsUnsettled` | `Spec => []OneUnsettled` |
| `CustodyProofs!StoreReopens` | `Spec => []Reopenable` |
| `RestrictionProofs!TypeCorrect` | `RestrictionSpec => []TypeOK` |
| `RestrictionProofs!RemovalsAreAllowed` | `RestrictionSpec => RemovedOnlyWhenAllowed` (an action property) |
| `RestrictionProofs!RevocationSilences` | `RestrictionSpec => SilentAfterRevocation` (an action property) |
| `RestrictionProofs!ReceiptsAreTruthful` | `RestrictionSpec => []ReceiptTruthful` |
| `RestrictionProofs!RemovalsAreRecorded` | `RestrictionSpec => []RemovalRecorded` |
| `ResolverProofs!ResolverTypes` | `ResolverSpec => []Types` |
| `ResolverProofs!OnlyAuthorizedIsAppended` | `ResolverSpec => []Authorized` |
| `ResolverProofs!RetainedReconstructs` | `ResolverSpec => []Reconstructs` |
| `BackupProofs!BackupTypes` | `BackupSpec => []TypeOK` |
| `BackupProofs!OnlyVerifiedIsExposed` | `BackupSpec => []ExposedOnlyVerified` |
| `BackupProofs!DecisionsCancel` | `BackupSpec => []MovementCancels` |
| `BackupProofs!AnswersStand` | `BackupSpec => []AnswersLast` |
| `BackupProofs!ClassificationsHold` | `BackupSpec => []ClassificationTrue` |

**The hypothesis `DurableRecovery`.** Four theorems assume that no fault strikes a
publish recovery at `r.linksync` or `r.headsync`, between a link or a rename of its
own and the fsync after it; faults at every other step of it, and anywhere else, are
allowed. Without it the four are false: a resumed recovery does not repeat those two
fsyncs, and a later power loss takes back what it built on (section 6, lines 2104 and
2092). It restricts a constant, `RecoveryFaultPcs`; run `crash` uses the largest value
that satisfies it.

**The hypotheses `KillsOnly` and `Resumable`.** What a kill leaves is of one append, and
the recovery tells it by the lease of `append.lock`; an I/O error after the rename of HEAD
leaves a file no lease speaks of (2008), and a power loss may take a commit its intent
names (2064). So `KillsOnly` says that `FaultKinds` holds kills alone, and `Resumable`
also that no publish recovery is killed at `r.rmdir` or `r.rename` (2081) or inside one of
its writes. Without them the two properties are false; run `kill` uses the largest
constants that satisfy `Resumable`.

**`IInv`, exclusion and forks.** `NoFork` is not inductive: a process about to link
has computed its sequence earlier, from a snapshot taken before it had the mutex.
What makes it safe is the second look under the mutex. So `BaseInv` says that a
process between that check and its link still extends the last commit, that
nothing is unanchored and no recovery pending. This stays true because nobody
else writes meanwhile (`MutexInv`: who is inside the mutex made the directory that
stands there) and no recovery runs (`AloneInv`). A recovery links an audit commit
itself: `AuditInv` says that the audit of a durable intent comes after every other
commit, `RecoveryInv` says where in a recovery such an intent exists, and
`FreshAuditIsNext` computes its sequence. Power losses bring back what the disk
holds, so `DurableInv` relates disk to directory.

**Operations once.** A second begin or end is refused by a look at the history
(`Started`, `Ended`) that may be old by the time of the link. `SubjectInv` says that
whoever appends an end has the operation's begin behind it, `FirstInv` that past the
check under the mutex the history holds no other record of its kind, nor a permanent
hold. Nothing need be known of durability, so this theorem has no hypothesis: a power
loss only removes commits.

**History and durability.** `HistoryInv` has four parts. `ChainInv`: every commit up
to HEAD is on disk, none is two beyond the durable HEAD, and what was acknowledged is
not above it. `WriterInv`: how far the process in the mutex has come, pc by pc.
`IntentInv`: what a durable intent says of the commit it is about and of its audit,
for as long as it stands. `ResumeInv`: how far a recovery has come, and that what it
skipped is on disk already. `IntentInv` and `ResumeInv` need `DurableRecovery`.

**Operation locks.** That an operation in progress is locked is a fact about three
places, the history, the lock directory and the process between them, and each moves
by itself. `Guarded` says which operations still need their lock: begun, and not ended
durably (an end that a power loss may take back does not count). `GuardInv`: the lock
of each stands with its lease, durable, and no audit is about it; so one is guarded at
most. `HolderInv`: one process at a time holds the
lock, and from its mkdir on it appends about that operation alone. `TokenInv`: a lock
is identified by the HEAD it was made at, so that an audit, which comes later, is
never taken for one of the next lock. `LagInv`: a HEAD not yet durable has somebody
to synchronize it, the owner of append.lock or an intent. `EndingInv`: what a process
appending an end or the audit of a lock knows. The proof found an error of the model:
the token of a lock was the HEAD the processes see, which a power loss can take
back and a later commit reach again; the code compares a digest that never repeats,
and the token is now the durable HEAD.

**What a kill leaves.** `LeftInv` says that, as long as no recovery has begun, every name
that lies about and the commit beyond HEAD belong to the one append whose lease is in
`append.lock`. It is not inductive alone: `AppenderAt` says, pc by pc, which files that append
has put by then, `AnnouncedInv` what a durable intent announces (an audit one
beyond the commit it finalizes, never above the next sequence), and `ResumerAt` which of the
announced files are still there and where HEAD is: a recovery that dies after any step
leaves what the next one computes again. A `KillStrikes` lemma shows that the invariant
outlives the process. `RetryInv` adds, under `Resumable`, that after a kill nothing lies
about but the files of the intent and of its audit, and that the lock is the one the
intent sealed. The proof found an error of the model and a hold the run's two kills do not
reach: the retry compares the digest of the lease (2081), where the model compared its
owner; and a mutex may appear after the intent (section 6, line 2083).

**Refinement.** The abstract log is the sequence of anchored commits and the length of
which callers know. `EntryRight` says that up to HEAD a sequence number has one commit,
in the directory and on disk alike, so `CommitAt`'s choice is never open; `KnownInv`
that what callers know of is anchored. `StepIsLogged` maps each step to the append of
one entry (a recovery anchors the interrupted commit and its audit one after the
other), to an acknowledgement, in a power loss to the loss of entries nobody knows
of, or to a stutter.

**Layout.** `StateStoreProofs` types each group of steps through lemmas about the
vocabulary (`DirectoryUpdates`, `MovesType`, ...); then come frame facts (`Frame`,
`Alone`), preservation one conjunct at a time (`AlonePreserved`, `MutexPreserved`,
`RecoveryPreserved`, `BasePreserved`, `HistoryPreserved`), power loss by itself
(`PowerPreserved`), `NextInvariant` and the temporal step. The history and the operation
locks follow in the same order, one lemma per conjunct of `HistoryInv` and `LockInv` and
per group of steps.

**What the store records.** Every property of `ControlLedger` is about the log, and a
step either leaves the log alone or appends one commit that a replay accepts
(`Growth`): an append because its rules imply those of the replay
(`AppendableReplays`), a publish recovery because the pair it answers to is on record
as valid at the time it names (`RecoveryPair`). Authority is the delicate part. A
recovery judges by the past: by the pair in force when the interrupted commit was
written, at the start of the orphaned operation, or at its own activation. So the proof
needs that the past does not change: commits are in the order of their times
(`TimesInv`), hence a pair that was valid at a time stays so on record whatever is
appended later (`WasValidGrows`); pairs are numbered in the order of their activation
(`PairsInv`) and revoked only afterwards (`RevokedInv`); an operation's pair was valid at
its start (`StartsInv`). `DiskInv` says what a mutex or an unanchored commit tells of
the publish that was cut short: either nothing of it is linked, and the pair it was
tried under is still found by the time in the lease (`Attempted`), or it is the last
commit. What a commit adds is one of eight forms (`Forms`), and `PermitInv`, by those
forms, ties the steps of a permit to the one operation that claimed it: `PermitState`
reads only the steps, `Operations` only the begins, and one commit writes both. The
proof found an error of the model: `PermitState`, and two definitions of `AppendBroker`
and `Launcher`, chose among overlapping guards with `CASE`, which TLC resolves in their
order and TLA+ does not; they are conditionals now.

**The launcher.** A session is the store of `ControlLedger` with the broker's queue and the
launcher's calls in front of it, and its invariant `SessionInv` contains `IInv`: the worker's
append is one commit that a replay accepts at the time in the request (`Attempts`), which may
be before the clock, so `Growth` serves both specifications. What is added follows a call on
its way. `CallsApart`: a call is in the queue, in flight or answered, once. `CallsAsk`: what a
request asks for is what its caller decided, and the caller still waits where it sent it;
`RunInv` what the caller has been told to be where it is. Answers are true because of
`SinceInv` and `WritesInv`: with *k* the length of the log when the session began, every later
commit is the work of an answered request or of the one in flight, and of that one there is
at most one commit, found beyond the head that was inspected before the send. So the
reconciliation, which looks for the request's commit there after the worker is dead, finds
what there is. A request carries a time no commit had before the session, and this keeps one
append from being taken for another of the past. `GuardInv` is why nothing begins after a
failure: an operation begun by a run whose begin was answered, or is about to be, either keeps
its lock or leaves a reason the store refuses appends for, until it has ended without effect;
a hold means that a run has begun and not so ended (`HoldInv`). The proof found an error of
the model: `CeremonyInit` allowed a ceremony's log that does not replay, its permit window
beyond its pair's, which no ceremony leaves.

**The custody stores.** Both proofs begin with the laws of the file vocabulary: what
`Linked`, `Unlinked` and a power loss do to names and temporaries (`ImageUpdates`,
`PowerLossImage`). In both stores the
crux is the order file, name, temporary: a name is given only to a file whose bytes
are synchronized (`NamesInv`), and a name not yet durable still has its temporary
(`EntriesInv`), which is how the next call or process meets it. `Progress` says, pc by pc, what a call has
made sure of, `PendingInv` who owns a temporary. In the CAS, `HandlesInv` gives each
process files of its own and `CreatorInv` says that whoever linked the name is the
only one who can report a creation.

**Custody's inductive invariants.** That a receipt has its object cannot be seen
from the broker alone: the broker checks records, the object is in the CAS. The
link is the publish request, which the adapter sends only after the publication.
So `CallInv` says what a call in progress knows (its object is settled, its
operation started), `RequestInv` that every request on disk carries that knowledge
over the death of its call, and `EvidenceInv` that what the broker validated before
its first record is still there. All three survive because records only
accumulate: `MessagesAccumulate`, `EventsAccumulate`, `ReceiptsAccumulate`, and
`ObjectsStay` for the object, which another operation may publish again and a
restart may drop only when it was never synchronized. `Writers` says which steps
write which records, `CallSteps` how a call moves; each is used by every
preservation lemma.

`OneUnsettled` and `Reopenable` need to count: `MutationInv` says that at most one
mutation is `Unfinished`, that the flag is up or the CAS latched while it is, and that
the call which goes on with it is the one that began it; `OpeningInv` that one call
opens the stream of an operation; `MessageInv` which exchanges a call and a finished
stage have behind them; `OrderInv` and `OnceInv` that the records on disk are in the
order of the stream and no effect is performed twice, which is what a constructor
that finds them relies on.

**Restriction.** The removal is allowed by a projection, and what the property speaks
of is the plain history, so two laws of the ledger join them. `NoHoldIsOpen`: as of
the head or later, the last record of a hold's stream counts in the projection
(`LastCounts`), because its effective point is not beyond its persistence time, the
persistence times increase (`OrderInv`), and only what comes after a record can
supersede it. `TombstoneStands`: after a tombstone only its revocation follows
(`TombstoneInv`), and a projection that counts the tombstone would count that too.
`CourseInv` gives the receipt its four records, each once and in order. What the
records attest (`AttestedInv`) survives because no effect is undone: an unsynced
removal is not attested yet. `Knows` is what a caller in the lock knows: the head and
the events are those it took the lock at, and the record whose effect is under way was
prepared before any revocation and still is. So `TargetKeeps` finds that the check
repeated after the effect refuses nothing, which is `RemovalInv`, and a caller with
a revocation before it finds no session alive (`NothingRevoked`), which is `Silent`.
Each step is one lemma (`SubmitKeeps`, ... `TickKeeps`); those that persist nothing
go through `QuietKeeps`, and `StepKeeps` and `OthersKnow` say once why the other
callers are not disturbed.

**The recovery resolvers.** Journal and namespaces only grow, and every correction is
bound to the journal's tip when it is appended, so the corrections are sorted by tip
(`Sorted`). A place is requested once (`Unique`, from `Unclaimed`), and the stages of an
operation are bound to the receipt after its request (`Follows`), so no other operation can
write a stage there (`PlaceIsFree`). A request saw a checkpoint at its own tip
(`Grounded`): when the operation's checkpoint is appended at the next tip, that one is
still the last, since a checkpoint in between would have the tip of one of the two. So
`ChainFollowsReceipts` needs no invariant of its own. `JournalInv` carries what was
requested and observed into the journal; it survives because the records of an operation
with a receipt are resolved and never written again (`RecordInv`, and `CallInv`, by which
an operation being resolved has no receipt). Nothing is assumed of faults: a call may end
between any two appends (`EndingKeeps`).

**Backups and restores.** Nothing here takes a lock on the history; two unique numbers
stand in for it. A record's code belongs to whoever put it (`CodesInv`, `PendingInv`),
so that the process with its plan on record is a restore's only one (`RunnerInv`), and a
receipt's number was read before its record was put. Reads that follow one another are
never taken for one: what a restore reads of the retention decisions is on record when it
is read and on the journal once the history was found complete (`ReadInv`), so every stage
stands in the journal behind the decision its plan binds (`FoundedInv`). And because one
process only runs the restore, all the stages behind it are on the journal when it observes
the leaf: a decision before any of them would be on record, and be the leaf. So from an
observation to what it is for, the decision stands at every earlier stage (`ObservedInv`),
which is `MovementCancels` when the stage is receipted or the generation exposed. The lock file of a target gives `LocksInv`,
one restore at work on it, whose place says what its directories are (`ProgressInv`) and
which stages are on the journal (`StagedInv`). `GenerationInv` is what survives the restore:
a generation is whole and of a restore with seven stages on record; one that cannot be
reached is still under its lock; and if its maker still runs it is past the rename, so no
other run's *finally* shuts it (`GenerationStays`). An answered restore has no run left
that could (`Restored`), an answered backup has a chain of receipts that can only be
found in order (`OrderInv`, `Ordered`), and its object no name that is linked twice, since
a name is linked only by the process that publishes the object first (`ReadableStays`). A
replay finds what a first run left and nobody takes away (`BackedAgain`, `RestoredBefore`):
that of a restore rests on the lock file, which an unfinished one keeps, and that of a backup
on each final record following a prior one with a receipt (`LastInv`). That a
replayed backup is of the manifest it looks up rests on manifest numbers being unique over
all sets (`OnlyOne`). The proof splits by what a step does to the call (`Kinds`), to the history
(`HistoryKinds`), to the roots (`RootKinds`) and to the store (`StoreKinds`), with one
preservation lemma per conjunct.

**The import of evidence.** `ImportInv` says that every accepted bundle passes its replay
(`Stored`) and that every row the manifest has so far passed its own check, the closed
lists theirs (`RowsOk`, `ListsInv`). It survives because a check looks back only: rows of a
list are numbered as they are read (`Numbered`), so a row added behind it leaves what a
check saw as it was (`ArtifactStays` to `ListsStay`), and an accepted bundle leaves the
context of every bundle before it as it was (`ContextStays`, which is where the code's
restriction to earlier sequences is needed). When the last list is closed the rows have
passed the whole preflight (`AllAccepts`), which makes `WrittenReplays`.

Lineage rests on what `GroundedIn` can hold: retained bodies and what outputs produced
(`GroundedBound`). It is a fold over the runs, and the library's theorems on functions
defined by induction take an operator as a parameter; so that the function exists, and
that it stays within this bound, is shown by the least number for which it would not
(`LeastNumber`, `FoldExists`, `FoldBound`). Then a derived artifact has an output in the
bundle that introduced it or before, and the input of a run one before that run.

`AcceptedWrites` compares two readings of the same tables: the preflight goes by the
manifest, the triggers by the order of the tables. `ReadAsWritten` says which tables each
trigger sees as the preflight saw them. Two differ. When an output is inserted all runs
of its bundle are in the table, later ones too; without outputs they add no edge to a
chain of artifacts (`SameReach`). When a run is inserted no output of its bundle is: that
is the exception the property names (`Chained`, section 6). And where the rules differ
rather than the rows: the trigger asks that a candidate's run succeeded, the preflight only
that it produced something, which none but a successful run does, in whichever bundle
(`ProducerSucceeded`).

**Only model-checked.** Liveness under fairness stays with TLC (`CallsReturn`,
`RecoveryConverges`, `RunEnds`, `Finalizes`): the provers have no rule for `ENABLED`. Every
safety property of every run is a theorem, the refinement of `DurableLog` included;
`DurableRecovery`, `KillsOnly` and `Resumable` are hypotheses of some of them.

## 6. Where code and documentation disagree

These were met while modelling, several of them as TLC counterexamples. The
properties are stated so that they hold of the code as it is; where one had to leave
a case out, its comment or this list says which.

*Control store* (`control-plane/state-store.mjs`)

- 2081: the publish recovery removes `append.lock` recursively, first the lease,
  then the directory. A crash in between leaves a directory without a lease, which
  the retry refuses with `STATE_RECOVERY_AMBIGUOUS`; the intent can then never be
  resumed. `tests/d9-1-state.test.mjs:1171` says "resumes and audits every protected
  crash boundary". `PublishRecoverable` is checked and proved with that step left out of
  those a kill may precede (`ResumableSteps`, `Resumable`). A recovery that dies between its temporary
  HEAD and the rename (2092) leaves a `head-*.pending` name outside its intent,
  refused in the same way.
- 2083: an intent stays on disk when its recovery dies. The recoveries of operation
  locks (2134, 2190) meet it only in the check of their append, under a new
  `append.lock` (1302). A kill before that check leaves a mutex the intent did not seal,
  and the publish recovery is refused for good ("an append mutex appeared after the recovery
  intent was sealed"). It takes three kills: the proof of `PublishRecoverable` met it,
  beyond the bound of the runs; `MutexAfterIntent` is the fourth hold.
- 2104: a resumed recovery that finds its audit commit linked compares it and
  replaces HEAD without synchronizing `commits/`; line 118 of the document says that
  a record is published after its directory was synchronized.
- 2092: a publish recovery killed between its rename of HEAD and the fsync of the root
  (337-346) is resumed past both, since HEAD names the affected commit already and
  `append.lock` is gone, and goes on to link its audit. A power loss then takes HEAD
  back and leaves two commits beyond it, which no recovery accepts. It takes three faults:
  the proof of `HistoryIntact` met it, beyond the bound of the runs. `DurableRecovery` and
  `DurableSteps` leave out this step and the one of line 2104.
- 1993: a `recovery.operation-no-effect` commit may be written after its generation
  expired (its authority is that of the operation's start), but cut short before
  the HEAD rename it is recovered under the pair active at its own `written_at`,
  and every retry fails with `STATE_ACTIVE_GENERATION_EXPIRED`. Line 126: "an
  otherwise valid cleanup does not become impossible merely because the responsible
  generation later expires". `CleanupPossible` therefore speaks of ordinary commits.
- 2134: the audit of a lock is recognized by a digest of the lock directory. A crash
  inside the removal changes the digest, and the retry writes a second audit; line 126
  says "a crash after the recovery audit can retry exactly without duplicating that
  audit".
- 2008: an append that fails after the rename of HEAD (an I/O error in the fsync of
  the root) releases its mutex and leaves its pending file. With no mutex the recovery
  does not connect that file with the commit HEAD names, and records it as
  *discarded uncommitted pending*, affecting no commit. Only the audit is untrue.
- 2064: a publish recovery makes its intent durable before it synchronizes `commits/`
  (2090). A power loss in between may take the commit the intent finalizes, and the
  intent is then refused for good. `PublishRecoverable` is checked without power loss.
- 2195: a kill inside the removal of `operation.lock` after a recovery-required
  terminal leaves an empty lock directory no call removes. The store is held for
  good at that point anyway.
- 2179: `recoverNoEffectAfterCrash` does not test whether the owner of
  `operation.lock` is alive; line 132 of the document obliges the caller to prove it
  dead, and the model takes that as the guard of every recovery call.

*Custody* (`custody/`)

- `docs/d9-3-1-primary-custody-runtime.md:43` says that any unresolved
  acknowledgement fault after persistence latches the broker. `protectedAppend`
  (`journal.mjs:160-167`) latches only if the store's inventory fails afterwards: an
  append that failed before its link leaves the broker in service, its request
  reserved. `Custody` models the code (outcome *failed*); the reservation holds.
- `journal.mjs:923`, `942`, `960`, `964`: the constructor judges an unanswered request
  by the time of its acknowledgement, against the seal and the handoff (`178`, `203`)
  for `open_staged`, against its capability for the others. The adapter tests them when a
  call begins (`adapter.mjs:95`, `198`, `admission.mjs:172`), before its first await, and
  `persistSupporting` does not test them at all, although line 43 of the document above
  names the unexpired bundle seal among what the broker pins at acceptance and at
  persistence. If one expires in that await and the process then dies before the answer
  is persisted, the journal cannot be opened again (`D931_SUPPORTING_CHAIN_CORRUPT`).
  This is `late` and the third exception of `Reopenable`; an answer persisted in the
  same process removes it, because it carries the time of the call's beginning.
- `journal.mjs:1251`: `appendSemantic` tests the freshness of a request it has
  persisted already, unlike `persistPrimaryReceipt`, so an eventless request older
  than 300 s reserves its operation and cannot be completed.
- `durable-store.mjs:180`: a second process that meets a record between another's
  link and unlink counts two links and latches itself; `cas.mjs:325`:
  `inspectCrashState` between a healthy prepare and its publish latches the
  instance. Both fail closed and both are in the models.

*Restriction* (`restriction/`)

- `operations.mjs:140`: the authorization is projected as of the unlink record's
  `effective_at`, which may lie anywhere in the second after the ledger head, while
  `recorded_at`, `persisted_at` and the removal come later; a name can be removed
  although its authorization has ended. `docs/d9-4-restriction-deletion-contracts.md:187`
  says an authorization expiring between execution start and unlink stops the
  operation. TLC finds it with a lifetime that ends inside the window; the run uses
  a longer one.
- `authority.mjs:196`: a revocation's time is read before the lock is waited for. Of
  two revocations that land in the other order the later makes `validateEventChain`
  fail for good.
- `recovery.mjs`: `reconstructD941RecoveryState` computes an `unreceipted_target`
  state, but reads the head first, which throws when there is one.

*Resolvers* (`restriction/recovery-resolvers.mjs`)

- `docs/d9-recovery-resolver-durability-extension.md:41,45` promises that a record
  is bound to the head it was built on. `persistBatch` and `persistIdentityV13` read
  the head again just before the append; with two runtimes on one store a record
  can be bound to a predecessor it has not seen, and the namespace never
  reconstructs. The model has one runtime, as the documents assume elsewhere.
- A composite request persisted without its response blocks its operation for
  good, a component request without a response does not; a request persisted
  before the chronology check claims its place in the journal although the append
  is refused. Any journal record that is no assessment moves the head past the
  checkpoint and ends recovery for good (by design). All are in the model.
- `finalizeLegacyV12Progression` and `persistLegacyV11AssessmentLink` are never
  called.

*Backup and restore* (`backup-restore/`)

- `runtime.mjs:216`: `createBackup` looks for a manifest of its operation before it
  stages bytes and seals its own later without looking again. Two processes given
  one operation append two manifests; a later replay verifies the first and fails
  with `D951_BACKUP_PROJECTION_MISMATCH`, although
  `tests/d9-5-1-backup-runtime.test.mjs:23` says "exact accepted backup replay is a
  no-op".
- `runtime.mjs:451`: the generation is opened (`chmod`) before its promotion is on
  record. A process killed in between leaves it reachable at stage 7;
  `docs/d9-5-0-backup-restore-contracts.md:140` says that reconstructed bytes remain
  inaccessible. `ExposedOnlyVerified` checks what does hold.
- `runtime.mjs:423`: a stage observes the retention leaf before `append` reads the head
  of the journal (`history.mjs:72`). A decision, target and receipt, that another process
  appends in between goes unseen: the history is complete, no number collides, and the
  stage is receipted after it. Likewise nothing ties the observations at lines 447 and
  451 to the rename and the `chmod` that follow them.
  `docs/d9-5-0-backup-restore-contracts.md:140` says that "source-head or retention-head
  movement cancels promotion", and line 186 to "re-resolve and compare source heads" at a
  restriction or deletion concurrent with a restore. `MovementCancels` is what holds: the
  next stage that revalidates is cancelled, so a decision receipted before the start of
  the promotion keeps the bytes from being exposed, and after an exposure that it missed
  the call throws at the next stage and shuts the generation.
- `runtime.mjs:170`: the replay of a backup checks that the history is complete and then
  reads the receipts anew. The process that makes the set may append its final receipt's
  record in between and die before its entry in the journal: the replay has answered
  success, and every later call finds the history incomplete.
- A process killed between the *completed* receipt and the removal of its lock is
  never replayed, although line 162 and the classification of a restore say
  `exact_replay_no_op`; and a lock left by another operation makes the replay of a
  completed restore refused.
- `runtime.mjs:381`: the deletion-aware assessment, and a drill's plan, are taken as
  the last by record name, not by time.

*Data plane* (`data-plane/`)

- `writer-worker.mjs:153`: the writer inserts every processing run before any output,
  and the trigger of the runs demands that a derived input already have an output of an
  earlier run (`data/migrations/005_tranche_2a_source_quarantine.sql:405`). A manifest
  whose second run consumes what its first produced passes the preflight
  (`preflight.mjs:833`) and is refused inside the transaction.
  `docs/schema-v2-tranche-2a.md:381` asks to "Preflight every SQL-enforced rule without
  writing" and says that "a semantic-preflight rejection must occur before `BEGIN`";
  line 180 allows such a manifest. `AcceptedIsWritten` holds for every other manifest.
  The production runtime does not get there: its pilot profile admits no processing at
  all (section 7).
- `bytes.mjs:214`: the verification of a candidate fails with `CUSTODY_UNAVAILABLE`
  when a current copy is restricted or quarantined, so no bundle that ends in such a
  copy can be imported, although the preflight and the triggers accept it.
  `docs/tranche-2a-importer-custody.md:349` has the restriction appended as a manifest
  event, and line 437 only asks for integrity-only authorization. In the model it is
  the outcome *unavailable*: a copy can be restricted and restored within one bundle.
- `bytes.mjs:211`: the no-op verification of bundle k opens the copies that were
  current at k. Line 437 of the document speaks of every *current* copy; once a later
  bundle has relocated or tombstoned one and its object was removed, the replay of k
  looks for bytes that are gone. Bytes are not in the model.

## 7. What is abstracted or not modelled

- Digests, names, signatures and actors are values that are equal or not. Contract
  shapes, canonical JSON, role bindings and approvals are taken to check what they
  check.
- `StateStore` has no I/O error while a lock is being released; a kill there, between
  the removal of the lease and of its directory, is modelled for every lock. What a
  commit says is in `ControlLedger`, which in turn reduces a publish to the stages
  where it can be cut. Their agreement is by reading.
- In `Custody` the runtime generation and the bindings of its components stay active;
  seals, handoffs and capabilities expire. The clock advances between a failed call and its retry, so a
  repeated message has another time and collides with the one on disk; receipts and
  events may be repeated exactly (the client keeps the request). Integrity access
  (`seal_custody_access`, `open_custody`) and `abandon` paths are left out.
- `Launcher`: `scopeAudit`, `resolveControlReference` and the handle-delivery audit
  only read and are left out; handoffs take the path of seals. A store that cannot
  be opened before a send is not modelled.
- `Restriction`: other subjects, the restriction and quarantine kinds (they behave
  like holds in every gate), clearance revocation, backup directives and the failure
  kinds that no code appends. A failure is modelled where it leaves something
  (receipt, sync, target); elsewhere it is giving up.
- `RecoveryResolvers`: one runtime, restarted. The five sources that never move and
  the pairs of component records are merged into the one that observes the journal.
  Times are left out: whether the time a record claims is still acceptable is open,
  and every check on it may refuse (`Refuse`).
- `BackupRestore`: one copy per set instead of three, one object shared by both
  sets; drills, sessions, validity windows and digests are left out. `Privileged` is
  whether the process may move a directory whose mode forbids it (448-449).
  Some reads that follow one another in a call are one step. `verifyCompleteState` is as
  of its first read, the journal's (its second can only find more records, and then
  refuses). `Unmoved` compares controls, checkpoint and retention, which never move back:
  when the last read finds nothing moved, nothing had moved at the first. A code that is
  taken stays taken, and the exclusive create checks it again. The first checks of a
  restore (363-378) are one step, and so are the head and the assessment it binds (191,
  381) with the look for a plan; no invariant rests on those being of one instant. The
  last verification of a first backup (253) is one step, when all its receipts are on the
  journal. The last step of a repeated restore (379-399) reads records that stay and then
  the lock file, on which its conclusion rests.
- `exactReplays` returns a remembered response without effect; it is not an action.
- `EvidenceImport`: locations, redirects, principals and attribution, HTTP fields and
  representation profiles, digests, spans, stored bytes and the manifest's parsing;
  `captured_at` is the completion of a retrieval and `completed_at` of a run its
  recording. *Observed* and *HTTP failed* retrievals go with *network failed*, and of
  the five processing methods two remain. The bootstrap bundle is accepted beforehand.
  Any row may be refused for a reason that is left out (`Refuse`). The clone of the
  database, the comparison of digests around a call and the reconstruction from zero
  are left out. The runtime of the repository always applies the pilot profile (a
  bootstrap and one document, no processing, no candidates); the rules modelled here
  are those the preflight states for any manifest, which the component tests reach
  with a runtime of their own.
  `LineageStands` repeats the check of grounded inputs on the runs on record (818) and
  not that of their cycles (822): acceptance made the same check on the same edges
  (`RunOutputsOk`), and rows never change. The column checks of migration 005 on URLs and
  `Vary` (36, 123) are stricter than the preflight in values that are not in the model;
  `AcceptedIsWritten` speaks of the rules modelled.
- The triggers that forbid updates and deletes are one statement each; the other
  migrations, the HTTP API and the front end keep no protocol state between requests. The contract validators under `docs/schema` (20,000 lines, half of the
  implementation by size) are batch programs over fixtures.
- Every component with status `not_modelled` in `PROJECT.json` has its reason there.

## 8. The plan

The components with state of their own and with concurrency are modelled. What is
left, in order of importance:

1. Integrity access and its relay as a second stream of `Custody`.
2. A refinement that checks `Custody`'s one-step appends against `DurableStore`, and
   the stages of `ControlLedger`'s `Cut` against `StateStore`.
3. Restore drills, two resolver runtimes on one store, and the stored bytes behind the
   evidence rows.
