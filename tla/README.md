# A TLA+ model of subtrans

`subtrans` is a command-line program that prepares a media library in three
workflows: **metadata** (TMDB to NFO, poster, fanart and a manifest),
**subtitles** (acquire, translate, check and publish a subtitle with its
manifest) and **migration** (build a plan, approve its hash, apply it).  Files
live on local directories or FTP servers; the progress of long jobs is in a
SQLite database.  There is no daemon: every command is a process of its own, may
be killed at any point, may be run again, and may run beside another one on the
same database and the same files.  That is what makes the program hard, and it
is what the modules here are about.

Line references such as `state.rs:193` are to files under `src/`.

## 1. Inventory

| Component | State it keeps | Operations | Interacts with | Hard parts | What makes it correct |
|---|---|---|---|---|---|
| State store (`state.rs`) | tables `jobs`, `events`, `job_actions` | claim, renew, transition, fail, register_action, set_action_state | called by the migration executor and the subtitle pipeline of any number of processes | clock read before the lock is waited for, fail() judging by an earlier read, leases, a unique index nobody releases | one process per live lease, a faithful event log, nothing finished out of two half runs, a destination reserved once |
| Migration executor (`migration/executor.rs`) | none but the store and the files | preflight, claim, register, promote, verify, remove, commit | state store, source and destination storage | interruption between any file operation and its record; expired leases; conflicts | no planned byte is lost, no unknown file is replaced, the record never says more than the files, re-running finishes |
| Storage (`storage/*.rs`) | the files | exists, sha256, upload_atomic, rename, remove, streaming | executor, planner, pipelines | check-then-act, lost replies, cut transfers, backup files | publication is all or nothing |
| Planner, classifier (`migration/planner.rs`, `classifier.rs`) | a plan document | build, hash, verify, review | storage listing, manifests, config | collisions, sidecars, determinism | one destination per file, nothing pending is executed, the hash pins everything |
| Subtitle pipeline (`subtitles/mod.rs`, `artifact.rs`) | output, backup and manifest beside the video; a job | acquire, translate, verify, publish | state store, storage, external tools, an LLM | crash between output and manifest, jobs of different settings with the same output, hand edits | a ready manifest always describes the published output |
| Translation (`subtitles/translation.rs`) | batches and an audit queue | translate, split, retry, review, correct | LLM | partial and wrong answers, termination | every cue is answered exactly once or nothing is published |
| Quality, SRT (`quality.rs`, `srt.rs`) | none | parse, format, judge | pipeline | boundaries | the format round-trips |
| Metadata (`metadata.rs`) | NFO, images, manifest | search, select, publish | TMDB, storage | crash between two files, user edits, expiry | the user's own files are kept |
| Configuration, command line (`config.rs`, `main.rs`) | none | parse, validate, dispatch | all | | |
| Scripts (`tools/`) | | | none of the program's processes | | |

The hazards these parts are exposed to are listed, each at its line and with the
properties that would notice it going wrong, in `PROJECT.json`.

## 2. Modules

| Module | Models | Built on |
|---|---|---|
| `JobTable` | the `jobs` table as its callers rely on it: state, owner, a lease that is live or not | |
| `ActionLedger` | the `job_actions` table and its unique destination key | `JobTable` |
| `StateStore` | the `jobs` and `events` tables as SQLite keeps them: clock, lease_until, revision, event log, the wait for the write lock | implements `JobTable` |
| `Mover` | what applying a plan promises, without stores, leases or transports | |
| `Migration` | `apply_plan` by any number of processes over the store and the files | `ActionLedger`; implements `Mover` |
| `Classifier` | what a path and its overrides say of a film: the decision table of `classify_path`, `selection_for` | |
| `Planner` | from the metadata gate to an approved execution: build, plan file, review, the start of `apply` | `Classifier` |
| `Acquisition` | where an English source comes from: files beside the film, tracks, OCR, speech; what beats what | |
| `Subtitle` | `process_video` by any number of processes: cache, job, acquisition, archive, publication | `JobTable`, `Acquisition` |
| `Translation` | the translation of one subtitle and its review, with a model that may answer anything | |
| `Metadata` | NFO, poster, fanart and manifest of one film, by any number of runs in three modes | |
| `MC...` | small instances for TLC | |
| `..._proofs` | theorems | |

`StateStore`, `Migration` and `Subtitle` meet in `JobTable`: the first shows (by
TLC and by proof) that the SQLite table with its clock is a `JobTable`; the other
two use its operators as their calls of the store.  `Planner` ends where
`Migration` begins: at the preflight of an approved plan, whose files and
destinations `Migration` takes as a constant.  `Translation` is the inside of the
one step `Translate` of `Subtitle`, and what `Metadata` publishes is the
`metadata` of a film in `Planner`.

### StateStore

A call of the store reads the clock first (`Begin`) and only then waits, up to
`BusyTimeout` (30 s, `state.rs:41`), for the write lock under which its
transaction runs (`Claim`, `Renew`, `Transition`, `FailWrite`).  The lock makes a
transaction one step; the reading it uses may be old, and `Tick` may not let it
become older than the timeout, after which the call has returned an error
(`Abandon`).  `fail()` is two steps, because it reads the state of the job before
its transition begins.  An abandoned call also stands for a process that dies.
`owner IS NULL` is `NoOne`; a key that is not in the table is the state `NONE`.

### Migration

Each process has a program counter whose values are the points of `apply_plan`
at which it reads or writes something others can see.  A file is one of: the
bytes the plan fingerprinted at some source (named by that source; equal SHA-256
is taken as equal content), `Foreign` bytes, a `Torn` prefix, or `Absent`.

| Code | Actions |
|---|---|
| `preflight_plan` | `Start`, `Preflight` |
| `apply_item`, claim to STAGING | `ClaimJob`, `Recheck` (a COMMITTED job), `Register`, `ToStaging` |
| promotion loop | `RenewToPromote`, `Look`, `CheckTarget`, `SetPromoted` |
| `try_server_side_rename` | `RenameCheck`, `ServerRename` (which may be refused or lose its reply), `RenameRecheck` |
| streaming, hard link, staged copy | `Stream` (the connection may be cut), `HardLink`, `StageCopy` |
| `upload_atomic`, local | `Upload`: one rename over the final name |
| `upload_atomic`, FTP | `Upload`, `Protect` (final to backup), `Publish` (temporary to final, or the undo whose result is ignored), `Cleanup` |
| `verify_*` | `Verify`, `VerifyAll`, `FinalVerify` |
| removal loop, commit | `ToVerified`, `ToRemoving`, `RenewToRemove`, `LookToRemove`, `CheckSource`, `Remove`, `SetRemoved`, `Commit` |
| `let _ = state.fail(..)` | `FailJob` |

`IoError` makes any step of a process return an error; `Crash` ends a process
anywhere; `LeaseRunsOut` passes the end of a lease; `Edit` is another program
that puts a file into either tree.  A `Link` is the pair of endpoint kinds of the
config, chosen at the start, and decides which transport is tried.

Three constants say how bad the environment is, so that a run can show what a
property needs: `CutStreams` (a cut connection may look like the end of the
file), `Overruns` (a step of a live process may outlast its lease), `EditRaces`
(other programs may act between a check and the write that relies on it).

### Classifier and Planner

A path is the record of its `Markers`: a range of episodes, a paired marker
(`S01E02`), a season or an episode by itself, a year, the word of a release, a
date, the 4K label.  `Classify` is `classify_path`, rule by rule; `Planned` and
`Selection` are what the plan and the metadata make of it with the overrides.
Any combination of markers is a path of the model; the regular expressions that
find them are not.  Each of them reads all of the text, also what another one has
found: `S01E02-4K` is a label and the episodes 2 to 4, so the markers of a path
with a label are not the markers without it and the label besides.  The section
"The 4K label" below says what comes of that.  (`classify_path` also rejects seasons above 99; its patterns
take two digits, so no path gets there.)

A film's name is the sequence of its parts, so that a sidecar is "the name of the
film and more", and a destination is a record of a root, a directory, a name and
an extension in which names are compared as `Fold` folds them (`safe_component`,
`dotify`, lower case).  Templates are the sets of the fields they use; the layout
depends on kind and label.

| Code | Actions |
|---|---|
| `ensure_before` of `metadata.rs`, listing | `Start`: one step; overlapping runs are in `Metadata` |
| `build_plan`, a film: readiness, blockers | `Assess` |
| `build_plan`, a film: `fingerprint`, `sidecars_for` | `Hash`: one step for the film and its sidecars |
| `mark_destination_collisions`, `PlanDocument::new`, `write` | `Write` |
| `PlanDocument::read`, `verify_config`, review | `Review` |
| `apply_plan_inner`, the checks before the preflight | `BeginApply` |
| `preflight_plan`, a file | `Preflight(look)`: one step, by the order of the plan, the film after its sidecars |

Between any two steps a file is changed, removed or put back, a subtitle becomes
ready or ceases to be, metadata are lost, settings or an override are edited, the
plan file is edited or written anew, and so between two files of a preflight,
which hashes for hours on FTP.  A hash is the document it was taken of.  `held`
is a history variable that no guard reads: the contents each file has had since
the execution began, for as long as its preflight lasts.

### Acquisition and Subtitle

A text is what the properties tell apart: how it was obtained, from which cut of
the film, with which worker, and its score.  `Resolve` is
`resolve_existing_source` and `Generated` is `acquire_generated_source`; a tool
may fail where it usually does not.  `Subtitle` has one process per program
counter again:

| Code | Actions |
|---|---|
| the listing, `run_on_storage` | `Begin` (with or without --force; the standing settings or others) |
| `read_ready_artifact` | `ReadManifest`, `HashOutput`, `HashSource`: before the job for the cache, after the publication for readiness, `READINESS_ATTEMPTS` times |
| `resolve_existing_source` | `ResolveSource` |
| claim and transitions | `ClaimJob`, `ToAcquiring`, `RenewAcquired`, `ToTranslating`, `RenewTranslated`, `ToVerified`, `Complete`, `FailJob` |
| `acquire_generated_source`, `persist_generated` | `Acquire`, `Persist`, `ConfirmSource` |
| `translate` | `Translate` |
| `guard_existing_output` | `Guard`, `ReadOutput`, `Archive` |
| publication | `Upload`, `Confirm`, `UploadManifest` |

`IoError`, `Crash` and `LeaseRunsOut` as in `Migration`; a lease may end during an
acquisition or a translation, and not between the renewal after the translation
and the end, which are a few file operations.  People finish a subtitle by hand
(`Edit`), put an external file beside the film, or replace the film.

### Translation

`phase` says where `translate()` is; `cursor` and `work` are the ranges of
`batch_ranges` that are not taken yet and the deque `pending`.

| Code | Actions |
|---|---|
| the loop over batches | `NextBatch`, `NextReview` |
| a request that failed and is sent again | `Retry` |
| `translate_range_adaptive` | `Answer` (some of the cues; the others one by one), `SplitBatch`, `KeepSource` |
| `queue_quality_concerns` | `QueueConcerns` |
| `request_audit_corrections` | `Reformat` |
| `audit_alignment` | `Correct`, `ReviewError`, `FinishReview` |
| the gates on the whole | `Render` |

The answer of the model is chosen freely: a text for any part of the cues it was
asked for, each good or English.

### Metadata

One process per run, in the mode and with the settings it was started with:
`ReadManifest` and `Check` are the cache; `LookManifest`, `LookFiles` what
`process_video` finds beside the film; `Answered` and `Retry` the requests to
TMDB; `Publish`, `Upload`, `UploadManifest` the publication, a file at a time and
the manifest last.  `Interrupted` is an error or a crash, which leave the same
behind.  `Revise` is a new revision of TMDB's record, `Age` the end of
`refresh_after_days`, `PutFile` and `RemoveFile` are people.

## 3. Properties and runs

| Run | Properties | Instance | States |
|---|---|---|---|
| `store` | `TypeOK`, `AuditTrail`, `FinishedByOneRun`, `LeaseHonoured`, `ImplementsTable` | a migration and a subtitle job, 2 processes | 1.0 M |
| `migration_recovery` | `TypeOK`, `LedgerTruthful`, `ImplementsMover`, `Recoverable` | one plan, 2 items, 3 files, all 5 links, 2 processes | 73 k |
| `migration_contention` | `NoDataLoss`, `ForeignKept` | 2 plans that want one destination for different files, 4 links, 2 processes | 1.7 M |
| `planner` | `TypeOK`, `EveryFilmPlanned`, `DestinationsDistinct`, `EvidenceComplete`, `ApprovalHolds`, `MetadataAgrees` | single films of every kind of markers, one whose title leaves nothing for a path, four libraries of 2 films and a sidecar, 3 settings | 1.2 M |
| `subtitle` | `TypeOK`, `HandMadeKept`, `OnePublisherPerJob`, `EmbeddedBeforeSpeech`, `ExternalVerified`, `Recoverable` | 2 cuts of a film, 2 workers, 2 models, 2 processes | 1.0 M |
| `translation` | `TypeOK`, `EachCueOnce`, `NothingQuestionableRendered`, `LogInOrder`, `SettledByCorrection`, `Terminates` | 6 cues of uneven length | 7.6 k |
| `metadata` | `TypeOK`, `OneRecord`, `HandMadeKept`, `Recoverable` | 2 cuts, 2 records, 2 settings; 2 runs that overlap, or one with more faults | 893 k |
| `cut_stream` | `NoDataLoss` violated | cut streams and overrun leases together | |
| `race` | `ForeignKept` violated | edits between check and use | |
| `replan` | `Replannable` violated | 2 plans for the same files | |
| `subtitle_stale` | `KeyTellsTheSource` violated | a film with a bitmap track, a change of the OCR worker | |
| `metadata_overwrite` | `HandMadeKept` violated | a file replaced by hand after a finished run | |

*store.*  `AuditTrail`: the events of a job chain from its first claim to its
present state and its revision counts them, however stale the state was that
`fail()` had read.  `FinishedByOneRun`: a job that is COMMITTED or READY was
taken through its whole pipeline by one process without anybody's claim in
between.  `LeaseHonoured`: while a lease is live nobody else gets the job, and
its holder never shortens the lease with an old clock reading; this needs
lease >= busy timeout, which `config.rs:560` guarantees.  `ImplementsTable`: the
refinement to `JobTable`.

*migration_recovery.*  Within the leases the code grants, and with two faults
anywhere (errors, crashes, lost replies, cut transfers): what the store records
is true of the files (`LedgerTruthful`); every step is a step of `Mover`: files
of an item arrive before any of its sources goes, in plan order, and what has
arrived stays; and the plan is committed in the end when it is run again and
again (`Recoverable`).  The last one is claimed where no destination holds
anything but planned bytes: after a torn copy has been published the program
stops, as documented, until somebody removes it.

*migration_contention.*  Leases may run out under a working process here, and
another program may put one file anywhere outside the windows of `Window`.
Reservations keep the two plans apart and the hash checks keep foreign content
in place.  The run leaves out cut streams and edits in the windows: the next
runs show that the properties fail with them.

*planner.*  `EveryFilmPlanned`: a film that was listed has one item, whatever
happens to it before the plan is written.  `DestinationsDistinct`: one pass of
`mark_destination_collisions` over the ready items is enough, for two files of
one film too.  `EvidenceComplete`: nothing without an override is ready without a
season and an episode, or a year and no sign of either; one exception, a paired
marker with episode 0, is in the property and among the hazards.
`ApprovalHolds`: whatever is edited between build, review and apply, what begins
to be moved is the document that was reviewed, under the configuration it was
built for, and each of its files has held the bytes that were hashed at some
moment since the execution began.  More is not true of the code: a file may change
after `preflight_plan` has looked at it and before it has looked at the last one.
The executor hashes each file again before it uses it, which is in `Migration`.
`MetadataAgrees`: the metadata that travel with a film are of the same kind and
episode, as long as the migration override is the one they were fetched under.

*The 4K label.*  `classifier.rs:44-46`, `README.md` and `docs/V2_SCOPE_DECISIONS.md`
say that 4K and the like never decide what a film is.  No run states this, because
it is not so: the digit of `4K` is a number to the expressions that look for
seasons and episodes.  Read off the expressions:

| Path | Without the label | With it | By |
|---|---|---|---|
| `Open.Season.2006.Deluxe.4K.BluRay.mkv` | movie, 0.96 | season 20, episode 4, 0.99 | `classifier.rs:205` |
| `WALL-E.4K.2008.BluRay.mkv` | movie, 0.96 | pending, an episode 4 | `classifier.rs:277` |
| `Show.S01E02-4K.mkv` | S1 E2, 0.99 | pending, episodes 2 to 4 | `classifier.rs:228` |
| `Show/Season 1/01.4K.mkv` | S1 E1, 0.97 | pending, no bare number | `classifier.rs:294` |

The first is a movie planned as an episode.  What the models show holds of such
paths too, since it is checked for whatever the expressions find.

*subtitle.*  `HandMadeKept`: a subtitle finished by hand stays or is archived.
`OnePublisherPerJob`: a process that lost its lease over a long translation stops
before it touches a file.  `EmbeddedBeforeSpeech` and `ExternalVerified`: the
order of the sources, over the history of runs that left files behind.
`Recoverable`: with the standing settings repeated, ready again and again, and
ready for good once runs no longer overlap.

*translation.*  `EachCueOnce` and `LogInOrder` are about the deque, which is
halved and filled again at its front; `NothingQuestionableRendered` and
`SettledByCorrection` about English that was kept for want of an answer;
`Terminates` about the whole.

*metadata.*  `OneRecord`: files of runs that overlapped are never taken for one
ready set.  `HandMadeKept` and `Recoverable` as above; a default run may also end
in the refusal the code gives for files without a manifest.

The violation runs state what the repository's documents say and
show that the code does otherwise; `PROJECT.json` quotes the lines under
"findings".

**Bounds.**  Two processes are enough for every interleaving of a holder and a
claimant, and after a crash the other one takes over.  An item of two files has
a sidecar that comes first and a video that comes last; the second item makes the
loop over items, the exit and the rerun over a committed item happen.  Two
faults (`MaxFaults`) let a run be interrupted while it recovers from an earlier
interruption; one is used where two plans and overrun leases already multiply the
states.  `ftp_ftp` takes the steps of `same_ftp` without the rename, so the
contention run drops it.  In `store`, `MaxEvents` = 6 lets a pipeline of five
states finish after an earlier claim; `MaxNow` = 3 with a lease and a timeout of
one second lets a lease run out, be renewed late, and be taken over.

`planner`: the classifier is a function of one film, so its table is gone through
with libraries of one film and one event; what takes several files is in four
libraries with four events each, made so that the case happens: names that differ
in case, an edition whose sidecar two films claim, two cuts of one episode with a
sidecar under a name of its own, an unfinished download.  Four events are
an edit before the build, one within it, and two between build, review and apply.
`subtitle`: two cuts of the film differ in the tracks they have, the first track
in rank yields nothing, and one fault with one edit lets an interrupted run be
followed by other settings, a hand edit or a new cut.  `translation`: 6 cues with
batches of 3 and 4 characters fill a range by its size, by its characters and by
one long cue; a retry, a second request and a halving to single cues all happen.
`metadata`: with two processes one edit and no fault, with one process two of
each; overlaps and interruptions do not need each other, since an interrupted run
is a run that stops early and the others find the same files.  `Backdrop` = {1}: the
first of the two records has a backdrop, so that a revision can take the fanart
away.  The other way round `HandMadeKept` fails: a fanart put beside a film whose
record had none is in no manifest, and a run after the revision writes over it,
as in `metadata_overwrite`.

**Symmetry** permutes processes, in the migration runs without liveness.
(`AnyPlan`, the plan a process at rest points to, is a constant and is not
permuted.)

**Fairness** (`FairSpec`).  Weak fairness of a started process (`Run`): the code
has no wait but I/O with timeouts.  Weak fairness of starting every approved
plan, or the standing subtitle or metadata run: the operator or a scheduler runs
the command again, which is the recovery the documents describe.  Weak fairness
of a lease running out when its owner is gone: time passes.  No fairness is
assumed of errors, crashes or edits, and their number is bounded.  In
`Translation` it is WF of `Next`: one thread that is never blocked.  `Planner`
states no liveness: every step of it is one command of an operator.

**Deadlock** is checked in `migration_recovery`, `translation`, `subtitle` and
`metadata`.  The other runs end where the bounds on events, time or faults are
used up.

## 4. Proofs

All proofs hold for any sets of jobs, processes, plans, films, names and files
and any bounds; they rest on the assumptions named in the modules
(`LeaseAssumption`, `KindAssumption`, `OwnerAssumption`, `IdentityAssumption`,
`PlanAssumption`, `FileAssumption`, `ClassifierAssumption`, `PlannerAssumption`,
`TranslationAssumption`, `AcquisitionAssumption`, `SubtitleAssumption`,
`MetadataAssumption`), which TLC evaluates on every run.  A theorem that needs
more says so in its `ASSUME`: `Overruns`, `CutStreams`, `EditRaces`, `EditManaged`
and `MaxEdits` are the switches that the runs set too, and where a hypothesis
forbids something, a run named below shows what happens otherwise.

* `StateStore_proofs`: `TypeCorrect`, `AuditTrailKept`, `FinishedByOneRunAlways`,
  `LeasesHonoured`, `TableImplemented`.  `FinishedByOneRun` is not inductive; the
  proof carries `Pipeline`/`OneRun` for every unfinished state too (an open job
  has the first n states of its pipeline as its last n events, all by its owner).
  `LeaseHonoured` rests on three facts about clock readings: a pending call's
  reading is at most `BusyTimeout` old, an owned row is open, and a lease was
  granted by a reading that is not in the future, which with
  `BusyTimeout <= LeaseSeconds` gives that no late renewal shortens a lease.
  The refinement uses both.
* `JobTable_proofs`: what each operation on a job writes, and from that that a job
  has an owner exactly while it is open (`OwnersMatchStates`).  Migration and
  subtitles share it.
* `Migration_proofs`: `DestinationsReservedOnce` for the ledger; `TypeCorrect`, by
  the parts of the state (store, files, places of the processes), with `AtStart`
  as the strengthening; `TablesRespected`: every step of the processes is a step
  of both tables, so the two theorems about them hold in every run of any plans.
* `MigrationSafety_proofs`: the four safety properties of the two migration runs.
  * `LedgerKept`, that is `LedgerTruthful` under `Overruns = FALSE` and
    `MaxEdits = 0` (a working process keeps its lease, nobody else edits the
    trees; without them a process that has lost its job may write over what
    another one has recorded).  Cut streams, crashes, lost replies and plans that
    share files are included.  The inductive invariant `SafeInv` says of a process
    between its claim and its commit that it holds the job (`Holder`) and has
    registered the actions it works on (`Reserver`), that the action it is
    bringing to its destination is still PLANNED (`Writer`), and that what it is
    about to record is so at this moment (`Witnessed`); and of the ledger that
    each row is about the planned action of its index (`AsPlanned`).  With
    `OneReservation` no two of them share a destination, so nobody writes over
    what a process has verified or recorded.
  * `ForeignIsKept`, under `EditRaces = FALSE` (no edit by another program between
    a check and its use; run `race`), with any overruns and cut streams:
    a process within the window has foreign content neither before it nor in its
    hands (`ForeignInv`).
  * `NothingIsLost`, under `CutStreams = FALSE`, and `NothingIsLostInTime`, under
    `Overruns = FALSE` and `MaxEdits = 0`: `NoDataLoss` holds if one of the two
    evils is absent, and run `cut_stream` shows that it fails with both.  In the
    first case several processes may write one destination, and what saves the
    file is that they all bring the same bytes: a destination belongs to one
    action for good (`BookInv`, the part of `SafeInv` that needs no lease), and
    each process finds it free, or its file there, or has its file in a backup
    (`LossInv`).  In the second case a process is alone at its destination
    (`FreeInv`) and goes on only from what it has verified.
  * `MoverImplemented`: the refinement of `Mover`, under the conditions of
    `LedgerKept` and `SourcesApart`, that each planned file goes to one place,
    whichever plans it is in.  Without the latter, a plan may remove a file while
    another one is still copying it elsewhere, and the copy that arrives then is
    no step of `Mover`, which copies what is there.  `MoveInv` says of a process that its destination is free until it writes
    there (`Free`), that the file it brings is still at its source (`InPlace`),
    and that all actions it has passed are as far as its loops have taken them
    (`Onward`); each action then is one step of `Mover` or a stutter (`StepMoves`).
* `Planner_proofs`: all six properties of the run `planner`.  The inductive
  invariant has a part for the build (`BuildInv`: its items are those of the
  films before the cursor, each with the evidence it needs), one for the plan
  file (`PlanInv`: it is about the document that was *hashed*, since the other one
  may be edited at any time; `Reads` makes the two equal), one for the execution
  (`ApplyInv`) and one for metadata (`MetadataInv`: each is a selection that could
  be told, under the override recorded with it).  For the files an execution looks
  at, `FilesInv` says that a plan is of files of the library, and `LookInv` that
  what is now in a file is among what it has held and that a file no longer on
  the list has held what was approved; the step that empties the list gives
  `ApprovalsHold`.  `EvidentClass` and `SelectionAgrees` are the facts about the
  decision table, by its cases.
* `Translation_proofs`: all five safety properties of the run `translation`.  The
  deque is replaced only at its head; `Replaced` shows what that keeps, `HalvesOf`
  and `SinglesOf` what the replacements are.  The invariant then says that what
  is queued is what is untranslated (`Translated`), and that in the review all
  that must be corrected lies among what is queued and all that was corrected
  before it (`Reviewed`).  That a set of cues can be listed in order (`Listing`)
  and that a range ends somewhere (`RangeEndType`) come from the least-number
  principle (`Least`), by contradiction with a smallest counterexample, since the
  library's induction theorems take an operator the installed provers cannot
  instantiate.
* `Subtitle_proofs`: `TypeCorrect`, which rests on what a process carries to each
  step (`Sound`); `TableRespected`; and the four safety properties of the run
  `subtitle`, each from one invariant of its own.  `OneProcessPublishes`: who
  publishes is the owner of a live lease (`HoldersPublish`), because the last
  renewal before is refused to anyone else, and nobody can take a live lease.
  `HandMadeIsKept`, under `EditRaces = FALSE` (nobody finishes the subtitle between
  the archive and the upload, which no check could notice): what is archived is
  the output of this moment (`HandInv`).  `TextBeforeSpeech`: whatever was
  recognised was recognised in a cut without English text (`SpokenInv`).
  `ExternalIsVerified`: as long as the film has not been replaced, all that was
  taken from it is of it, and an external text was compared or could not be
  (`CutInv`).
* `Metadata_proofs`: `TypeCorrect`; `ReadyIsOfOneRecord`, from what a run holds,
  which is of one work from its answer to its manifest (`Progress`), and hence
  what any manifest lists (`ManifestInv`); `HandMadeIsKept`, under
  `EditManaged = FALSE` (a file is put where no manifest is: run
  `metadata_overwrite`) and `BackdropsGoOnly` (no revision of a record gains a
  backdrop: see the bounds).  Its invariant says that a manifest tells of each
  file made by hand that it is not the program's (`Told`), and that every run knows
  of it, has it yet to ask for, or has no business with it (`Aware`, `Spared`).

Only model-checked are the liveness properties, `Recoverable` of three modules and
`Terminates`: fairness and ENABLED are out of the prover's reach.  The properties of
the runs that expect a violation are refuted by TLC.  Every other property of
every run is the subject of a theorem.

## 5. Not modelled

Contents below the level of "these bytes or not"; a hash collision; modification
of a file in place through a hard link; directories and their creation; size and
metadata checks before a hash (the hash decides); the check for staging space;
payloads of rows and events; the schema upgrade of `StateStore::open`; a clock
that is set back; process ids that are reused with the same start time.  Path
validation and listings of the storages.

How text becomes a decision: the regular expressions of the classifier, glob
patterns, the SRT parser and formatter, the scores of a source, the similarity of
two subtitles, TMDB's candidates and their ranking.  Each enters a model as an
attribute that may have any value the code can give it.  What is left of these
parts is computation over strings, which unit tests reach better than a model
checker.

The excludes and the limit of a scan, dry runs and reports; two archives of one
output in the same second; the files of other films in `Subtitle` and `Metadata`.
The components marked `not_modelled` in `PROJECT.json`, with the reasons given
there: the configuration is read once and has no state, the command line calls
one entry point per subcommand, the scripts of `tools/` are not part of the
program.

## 6. Plan

1. The storages by themselves: `upload_atomic` of both backends against an
   abstract store in which a publication is one step, with the leftovers of a
   crash.
2. Sidecars across films: an item that claims a file of another one, from the
   plan through the execution.
3. Proofs: that a plan `Planner` writes and approves satisfies `PlanAssumption` of
   `Migration`, so that the theorems about both hold of one history; what the
   operators of `Acquisition` and `Classifier` return, as lemmas of their own.
