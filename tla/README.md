# TLA+ models of the WUDA law job radar's production path

The repository collects job postings from official pages and publishes them as
a static site. Nobody watches it run: scheduled jobs on disposable machines
request pages under authorizations that an operator may revoke at any moment,
and everything the system knows is kept as commits on one branch of a git
repository. There is no lock server and no database on that path. Whatever is
promised about it (one request in the world at a time, never under a revoked
authority, never faster than approved, no record lost) has to follow from the
compare-and-swap of a `git push` and from the rules by which records are
admitted. That is where these models start.

Paths below are relative to `src/`; `continuous-acquisition.ts` stands for
`lib/application/source-admission/continuous-acquisition.ts`, and files without
a directory are in `lib/production-persistence/`.

## 1. Inventory

### The branch and its writers

| Component | State | Operations | What makes it correct |
|---|---|---|---|
| Continuous acquisition ledger (`continuous-acquisition.ts`, `continuous-source-context.ts`) | the records GRANT, REVOKE, RESERVE, COMPLETE, RECOVER, in order, hash-chained | issue, revoke, reserve, close, recover, replay | each record is admitted by a rule over the records before it; at most one reservation is open; what was ever admitted replays |
| Continuous request gate (`continuous-request-gate.ts`) | the checkout of its run | `executeContinuousRequest`: reserve, push, look again, request, close, push; `executeSupportingInspectionRequest` | a request leaves only while its attempt holds the gate, once |
| Source registry persistence (`git-source-registry-persistence.ts`) | versions and records as loaded from the checkout's HEAD, the loaded head | load and replay, `appendVersion`, `publishContinuousRecord`, `assertAuthoritativeHead` | no version changes under an open reservation; a push never discards a record |
| Production root (`zero-cost-production-composition-root.ts`) | a temporary clone per run, the expected parent, in-process single-writer flag | `run`, `issue…`, `revoke…`, `recoverContinuousAttempt`, `restore`, `prepareEvidenceLossRecovery` | a run's outcome is one commit on top of exactly what the run saw; a failed run leaves its attempt open rather than guessed at |
| Fencing verification (`git-incident-fencing-context.ts`, `continuous-fencing-evidence.ts`) | none (fixed incident data at a fixed commit) | accept or refuse the evidence of a recovery | an attempt is recovered only when its worker cannot go on |
| Source execution records (`source-execution-outcome.ts`, `…-request-intent.ts`, `…-request-plan.ts`) | one intent and one outcome per run | seal, write, read and cross-check, recover a lost outcome | every committed outcome agrees with intent, plan, attempts and acquisitions; a closed attempt ends up in an outcome |
| Scheduler batch (`production-scheduler-batch.ts`, `scheduler-batch-manifest.ts`, `scheduler-source-enumeration.ts`) | one manifest per batch id | enumerate, run each source group, retry once on a lost race, commit the manifest | each eligible authorization is accounted for exactly once; a repeated batch repeats no request |
| Append-only execution store and journal (`git-append-only-execution-store.ts`, `production-journal.ts`) | journal head, entries, sealed snapshots | append, list, snapshot, prepare for commit | append-only; head and entries agree after a crash |
| Raw object persistence (`git-raw-object-persistence.ts`) | bytes by hash, acquisition bundles | put, read, append bundle | bytes are what their hash says |

### Around it

| Component | State | Operations | What makes it correct |
|---|---|---|---|
| Source admission register (`lib/application/source-admission/`) | admissions, reviews, one-shot authorizations | submit, review, authorize, consume, continuous commands | one-shot authority is consumed once; unattended authority only from the ledger |
| Source scheduler (`lib/source-scheduler/`) | schedules, health, dispatched runs | register, claim, complete, reconcile, pause, disable | one run per schedule at a time; a source an operator stopped or review caught is not started again |
| Collection runtime (`lib/collection-runtime/`) | one run's pages, budget, results | run, retry, paginate, classify | requests within budget and plan; partial results never pass as complete |
| Public release publication (`lib/public-presentation/publication.ts`) | immutable releases, pointer, writer lock, receipts | publish, roll back, recover a lock | a reader sees a whole release; the pointer moves forward unless explicitly rolled back |
| Public site build and Pages (`lib/public-presentation/`) | none that is shared | restore, project, build, carry assets over | what is published is a function of the commit |
| Source discovery (`lib/source-discovery/`) | budget records and findings on their own branch | reserve, request, record, propose | never above the budget; findings are append-only |
| Lifecycle guard, shadow persistence (`lib/ingestion/lifecycle`, `…/persistence`) | missing streaks, a SQLite shadow | observe a run, decide, append versions | a posting is closed on trustworthy evidence only |
| Presentation decision (`lib/ingestion/pipeline/presentation-*.ts`) | per position a series of revisions, audits of migrations, read models | decide, retain, migrate, materialize, read the snapshot | what is shown is what was decided last, of a candidate not excluded; no history is lost or settled silently |
| Eligibility (`lib/ingestion/pipeline/`: projector, evidence, resolutions, assessments, artifact chain) | issued evidence, revisions of resolutions and assessments | issue evidence, resolve facts, assess | a definite verdict follows from confirmed evidence, and unknown is neither success nor failure |
| Trusted chain (`trusted-chain-composition-root.ts`, `…-restoration.ts`) | the journal of a run's commands | replay, execute, journal | a command is journaled only with what it produced |
| Normalization trackers, parsers, the phase-1 engine (`lib/ingestion/`) | version chains; otherwise pure | derive, compare | versions only change when content does |
| Adapters, read APIs, web, live canaries, legacy sync | none that is shared | parse, project, render | example-based; not modelled |

### How they interact

A batch (a job of a workflow) calls the production root once per source. The
root clones the branch, loads and replays it through the source registry
persistence, commits the request intent, and lets the collection runtime ask
for pages through the gate. Each gated request pushes two records. Then the
trusted chain journals what it derives, and the outcome is squashed to one
commit and pushed. Operators' commands (`control`) clone, append one record or
version, and push. All of them share nothing but the branch. Discovery keeps a
branch of its own and only proposes; the publication reads commits of the branch
and writes a directory.

What is hard: every process works on a checkout that may be stale the moment it
was made; a push may be refused, or succeed with its acknowledgement lost; a
machine may vanish at any step with a request in flight; clocks are those of
different machines; and every load replays history under today's rules, so one
bad record would stop everything. The publication has no remote to compare with, only
a directory, a lock file and renames. The hazards, each at its line, are listed in
`PROJECT.json`.

## 2. What is modelled

### ContinuousRecords

The constant-level half: the kinds of commits, what a history says (`Open`,
`CurrentGrant`, `Revoked`, `Usable`, …) and the rule of each record. It uses no
variables, so that rules can be stated, tested and proved about apart from who
applies them.

* A **history** is the sequence of the branch's commits. A hash identifies
  everything below it, so a head *is* a history; comparing heads is comparing
  histories.
* `GrantRule`, `RevokeRule`, `ReserveRule`, `CloseRule` are
  `issueContinuousRecord` … `closeContinuousRecord`, guard by guard;
  `Replayable` is `replayContinuousRecords`. `IssueAllowed`, `ReserveAllowed`
  and `VersionAllowed` add what a command checks against the versions of its
  own checkout and replay does not.
* A source's definition, endpoint, admission and allowlist entry are abstracted
  to a *source* with numbered revisions (the position of the commit) and one
  flag, `usable`, that says whether they form a context that
  `validateContinuousContext` accepts. A grant is bound to a revision
  (`IsBinding`). Two exact targets and their hashes are members of `Target`.
* An attempt id and its holder id are fresh UUIDs drawn together: the pair of
  the run and the number of its request.

### ContinuousGate

Executors and operators over one `remote`, each with a checkout (`base`), a
commit made and not yet pushed (`staged`) and a control state. Actions follow
the code between two points at which another process can be noticed:

| Action | Code |
|---|---|
| `CloneRemote`, `PushIntent` | `run`: clone, load, plan, intent commit and push |
| `Reserve`, `PushReserve`, `VerifyHead`, `Send`, `Close`, `PushClose` | `executeContinuousRequest` and `publishContinuousRecord` |
| `Settle`, `PushOutcome`, `Finish` | outcome commit (`squashAndCommit`) and push, or an end without one |
| `StaleHead`, `DenyReserve`, `DenyClose` | the exceptions: a moved branch, a refused reservation, a clock behind its own reservation |
| `Crash`, `LoseAck` | the process ends at any step; the push took effect and the process does not know |
| `Issue`, `Revoke`, `Recover`, `Revise`, `PushCommand`, `DropCommand` | `control` and `appendVersion`, a fresh clone, one commit, one push |
| `Tick` | real time |

`Push` is the fast-forward compare-and-swap. The code looks at the remote head
just before it pushes as well; a model of both would only add a state in which
the second look fails, which `StaleHead` covers. Commits made by a run's squash
hold no ledger record. A run that brings new source versions itself
(`source_versions`) makes no gated request, so what it does to the branch is
that of `Revise`. Every reading of a clock is within `Skew` of real time.
`Fenced` is what the verifier is trusted to decide: the executor of the attempt
has ended. How a particular incident's evidence shows this is not modelled.

### ExclusiveGate

The abstract specification: at most one attempt holds the gate, an attempt
never holds it twice, a request leaves only while its attempt holds it, once.
`ContinuousGate` implements it with `holder` read off the open reservations of
the branch, `used` off all its reservations and `sent` off the requests that
left. So does `Discovery` (`Turn`), whose attempts are a run's requests by their
position and whose holder is the unresolved reservation of the ledger; as the
ledger may be one that earlier runs left, the gate may start in the hands of an
attempt, with others behind it.

### MCContinuousGate

Model values and the instances' starting points: where an operator has issued
one grant and nothing else has happened, which `Spec` reaches from the empty
branch, so that the bounds are spent on what comes later. `ReissueSpec` is
`Spec` without the commits that never enable a request.

### Publication, MCPublication

The delivery directory of the public site and the commands that change it. Its
state is what is on disk: the release `current.json` names (`pointer`), the
complete release directories (`releases`), the provenance receipts, each
absent, partial or complete (`receipts`), and the creator of the lock file
(`lock`). A release is what its content hash identifies: commit, base path and
whatever else two builds may differ in. A pointer's hash is determined by the
release it names, so comparing hashes is comparing releases.

A process runs one command. It reads the pointer and builds (`BeginPublish`; an
operator's `BeginRollback`), takes the lock or fails (`TakeLock`, `FindLocked`),
compares (`CheckPublish`, `Repeat`, `CheckRollback`, `Refuse`), archives the
release, creates the receipt and fills it (`ArchiveRelease`, `OpenReceipt`,
`WriteReceipt`; `KeepReceipt` and `RefuseReceipt` if there is one), compares
again and renames (`ComparePointer`, `ReplacePointer`). Every step under the
lock may throw (`Fail`: the lock is removed on the way out) or be the last
(`Crash`: it is not). `ClearLock` is the operator who has confirmed that the
writer of a lock is gone. Staging directories and temporary files have names
nobody else uses and are left out; a release appears by one rename.
`MCPublication` gives commits the shape of a fork: `c2` and `c3` follow `c1`.

### SourceExecutions, SchedulerBatch, MCSchedulerBatch

`SourceExecutions` is the constant level: the branch as a sequence of INTENT,
RESERVE, COMPLETE, RECOVER, OUTCOME, REVOKE and MANIFEST commits, and what the
readers of it derive: which attempt is pending, which closed one no outcome
binds, which executions of a batch are committed, whether an intent's evidence
was lost (`source-execution-outcome.ts`, `scheduler-source-enumeration.ts`,
`scheduler-batch-manifest.ts`). An attempt is named by the position of its
reservation.

`SchedulerBatch` runs several processes over that branch. A process is at
selection, at a group of one endpoint's targets, inside an execution, at its
failure, or at the manifest:

| Action | Code |
|---|---|
| `StartBatch`, `Select`, `RefuseSelection`, `NextGroup` with `SkipRecovered`, `RefusePartial`, `DeferUnadapted` | `runProductionSchedulerBatch` up to and around its loop over groups |
| `Execute`, `PushIntent`, `PushReserve`, `Send`, `PushClose`, `Conclude`, `PushOutcome` | one call of the production root: intent, gated requests, outcome |
| `FindMoved`, `FailSend`, `Deny`, `Collide`, `LosePush`, `FailPush`, `LoseAck` | how it ends otherwise: a head that moved, a failed request, a denied reservation, a push that is refused, fails or took effect unnoticed |
| `Confirm`, `FailConfirm`, `FindOutcome`, `ExecuteAgain`, `RefuseAgain`, `GiveUp`, `DeferBlocked`, `RefuseFailed` | what the batch makes of it: confirm by reading the branch again, repeat once, defer, or end |
| `FinishGroups`, `Resolve`, `EndUnresolved`, `AppendManifest`, `LoseManifest`, `FailManifest` | the two tries to append the manifest, each on the state it reads anew |
| `Crash`, `Revoke`, `Recover`, `RecordLoss`, `Tick` | the machine, operators, time |

The gate's own steps are `ContinuousGate`'s; here one push stands for a
reservation and one for its closing. `MCSchedulerBatch` starts from four
branches earlier batches leave: one authorization revoked (`SingleRevoked`), an
outcome that was lost (`SingleLost`), a pair of which one half was requested
again by another batch (`PairHalved`), and a pair of which two runs of one batch
both left outcomes (`PairTwice`).

### DiscoveryLedger, Discovery, MCDiscovery

`DiscoveryLedger` reads the branch of discovery: unresolved reservations,
revoked scopes, cooldown and back-off per organization and target, budgets.
`Discovery` gives several processes a `DiscoveryRoot` each: `Create`, `Restore`,
`Reserve`, `Deny`, `EnterSend`, `Observe`, `RefuseSend`, `Send`, `Answer`,
`Overrun`, `Revoke`, `Crash`. A call runs without interruption from one `await`
to the next, so each such stretch is an action; a commit is accepted when the
head is the one the root knows (`git update-ref` with an old value), fails
otherwise, and may also fail or take effect unnoticed. `Pasts` are the ledgers
earlier runs may have left; `PastsAssumption` asks of them what the properties ask
of every ledger, as they are ledgers the same program wrote. What a ledger is to be
like in time (`Timed`, `Spaced`, `Rested`) stands at the end of `DiscoveryLedger`.

### Collection, MCCollection

`CollectionRunner`'s loop over the pages of one endpoint: `TakePlan` or a reason
not to (`StopAtPages`, `SkipVisited`, `StopAtBudget`), the attempts of a page
(`Request`, `FailRequest`, `LeaveRetries`, `Abort`), what is done with the answer
(`RefusePage`, `StopAtContent`, `KeepPage`), the link to a next page (`Follow`,
`FollowMalformed`) and the classification (`Conclude`). What the adapter and the
transport answer is chosen freely. `Assessed` and `Trusted` are what the
production root makes of the result, with the last verified content of the
endpoint (`assessRun`, `trusted-acquisition-evidence.ts`).

### Presentation, MCPresentation

Production runs decide what is shown of each position. A run replays the head it
cloned (`Begin`), revises dispositions or records one once more (`Revise`,
`ReviseAgain`), decides (`Reuse`, `Issue`), keeps what it must not show (`Retain`),
journals what cannot be projected as in need of review (`Review`), migrates the
decisions of the first contract (`Migrate…`), materializes the read model of any
revision (`Materialize`), and is built or
refused as a whole by the read snapshot (`Finish`), pushed if its head is still
the branch's (`Push`, `PushOutcome`) or dropped (`Drop`). A *book* is what a
journal holds of presentation: per position the series of revisions, the audits,
retained outcomes and read models. `Begin` reads the head after the run's own
intent and reservation pushes, since the expected parent is taken there
(`zero-cost-production-composition-root.ts:686` and 724) and so is a migration's
anchor (979). A semantic projection is the record of what it tells apart.

### Eligibility, MCEligibility

A *case* is a parsed posting, what its candidate may bring, and the times
commands may name. `Issue` adds an item of evidence; `Resolve` answers each fact
of the posting from evidence a command names and keeps an answer given before;
`Assess` names one revision of each resolution, computes all of them again from
the evidence of its own command, and keeps the verdict. Of an assessment the model
holds the evidence its command named (`named`, which the journal of commands
keeps) beside what the assessment itself lists of it (`listed`):
`uniqueCandidateEvidence` takes items for one that differ in nothing but when they
were observed (`Said`) and lists the first named, here any of them (`Listings`).
An item is usable from when it is observed (`seen`), and then for the time it is
effective (`from`, `to`), which is asked of different dates (`AppliesAt`,
`Current`). The operators between
follow the pipeline: the conditions the projector makes of clauses and what each
is about (`Conditions`, `ApplicableLevels`, `CohortsOf`, `Alternatives`), the
rule of each kind of fact (`AnswerSingle`, `AnswerQualification`, `AnswerState`,
`AnswerLevel`, `AnswerMajor`), and the three-valued logic (`AndTruth`, `OrTruth`,
`ConditionResult`, `Verdict`). A refused command changes nothing and is not an
action. Evidence is issued in batches, which nothing can interrupt; here item by
item. Assertions of a citizenship or a status exist as samples only
(`lib/ingestion/domain/eligibility.ts:216`), so that in production facts about
them stay unanswered.

## 3. Runs

| Run | Question | Instance |
|---|---|---|
| `gate_whole` | does anything change under a request in flight; does every branch replay; is a push ever destructive; is every behaviour one of `ExclusiveGate`; does a live run give the gate back | 2 runs, 1 operator, 1 authorization, after one grant, 4 commits, time 0–1, fair runs |
| `gate_cadence` | does a re-issued interval, or a clock that is off, let two requests come too close | 1 grant, intervals {1, 3}, skew 1, time 0–3, 4 commits, an operator who only re-issues and recovers |
| `publication_safety` | can a reader meet a pointer that names less than a release; can a newer release be overwritten unseen; does a living writer give the lock back | 3 fair commands, 3 commits of a forked history |
| `publication_leftover` | is what a failed command leaves out of a retry's way | 2 commands; **violated** |
| `batch_safety` | is an attempt ever accounted for twice; is a manifest ever stale; does a run that failed, repeated and recovered seal what agrees with the branch and itself | 2 processes, 2 batches, endpoints of two and of one target, 4 pasts, 2 starts, 2 executions, 1 incident |
| `batch_unresolved` | can what stops scheduling always be resolved | the same; **violated** |
| `discovery_safety` | can two requests be open; can one leave twice, or unrecorded, or under a revoked scope; do failures back off; is every behaviour one of `ExclusiveGate` | 2 roots, 3 runs, 2 scopes with a target each of one organization, 2 pasts, 4 commits, time 0–3 |
| `collection_safety` | are bounds kept; is a partial collection ever called complete; has each page left out a reason | 4 plans of up to three pages, 7 kinds of answers, budget 4, 1 retry |
| `presentation_safety` | is what is shown what was decided last; are exclusions, histories and committed decisions kept; what refuses a run | 2 racing runs, 2 positions, 3 histories, 3 heads, 2 revisions, 3 commands |
| `presentation_migration` | can a blocked position be migrated once its conflict is resolved | the same; **violated** |
| `eligibility_safety` | is a verdict definite exactly when it should be, that of its evidence and of what it keeps of it, and of documents alone; is every answer borne out | 9 postings, 2 times, 2 revisions, 2 assessments |
| `eligibility_levels` | has who is eligible for "both levels in law" both | 1 posting; **violated** |

### Why these bounds

*Gate.* Two runs and one operator suffice for every race in the code, since each
compare-and-swap is between one process and whoever moved the branch; `MaxCommits`
bounds the history beyond which operators commit nothing (runs still may) and
leaves room for revise, revoke and recover around a run's two records. One
request per run is enough because a second request starts from the same state a
first one does; the second run plays it, with the additional freedom of a stale
checkout. In `gate_cadence` the intervals differ by more than the skew can hide.

*Publication.* Three commands are what can go wrong between two of them (a
publication, another that overtakes it or a rollback, a recovery after either
died); a command never waits and never repeats.

*Batch.* A batch repeats an execution at most once and tries its manifest at most
twice; two starts let the same batch be repeated or another race it. The pasts
stand for earlier batches, so that one incident more is enough for each of the
hazards.

*Discovery.* Two earlier failures of one organization and two roots reach the
second doubling; the third run has another target of the same organization,
because failures are counted by both.

*Collection.* Three pages are one more than the shortest plan in which one page
is stopped, one repeats the content of another and one is collected; four
requests run out in the middle of a page's retries.

*Presentation.* One run decides everything, the other only retains an outcome: it
takes part in the race, and what it could publish the first could have. Two
revisions and three commands are enough to go from one meaning to another and
back. A third opportunity has the second's position and a composition that is not
projected.

*Eligibility.* Each posting is the smallest in which one rule decides; evidence
of each of its items may be absent, present, conflicting, claimed or not yet
effective, in any order of commands. A credential and a cohort are observed twice,
on the day asked of and after it, so that an assessment may list the later one.

Symmetry is used where processes are interchangeable and no liveness is checked.
Deadlock checking is off throughout: runs, commands, batches and collections end,
and bounds stop the rest.

### What the violated runs show

Each is a disagreement between what the repository says and what the code does;
`PROJECT.json` quotes the lines.

* `publication_leftover`: a provenance receipt is created under its final name
  before it is written. A failure in between leaves what every repetition of the
  command refuses, where the documents name the lock and complete releases as
  all that can be left.
* `batch_unresolved`: when an execution of two targets dies after its first
  answer, no attempt is pending that could be recovered, and the loss of a
  multi-target execution cannot be recorded. Scheduling stops for all sources.
* `presentation_migration`: a position whose migration was blocked and is
  migrated later has two audits, and the snapshot demands exactly one; the run
  fails with everything it decided.
* `eligibility_levels`: the facts "bachelor in law" and "master in law" of one
  clause share one applicability, "either level", so that one law degree answers
  both.

### Fairness

Only the gate and the publication have liveness properties. `Fairness` is weak
fairness of each run's, or command's, own next step. Every wait of a live run is
a git command or a fetch with a time limit, and of a command a file operation,
after which it goes on or throws. Nothing is assumed of crashes, of operators, of
acknowledgements or of the clock; `GateSettles` is therefore not "every attempt
is closed" (a crashed run's attempt waits for an operator's recovery, as the
document says) but that no live run keeps the gate for ever, and `LockSettles`
that a lock is given back or its writer is dead. A batch, a discovery root and a
collection wait for nobody but their own calls; what stops them for good is
stated as safety (`Resolvable`, `OneUnresolved`, `StopExplained`).

## 4. Proofs

All for any values of the constants: any sets of runs, operators, processes,
authorizations, targets, commits, pages, candidates, positions and postings, any
intervals and any bounds. They rest on the assumptions named in the modules: the
types of constants, that operators are not runs, positive intervals, null values
that are not members, and what is said below of the two `PastsAssumption`s and of
`IdentityAssumption`. TLC evaluates each of them in the runs, and every inductive
invariant was checked by TLC on the run's instance before it was proved.

* **`ContinuousGateProofs`**: first lemmas about histories (what appending one
  commit does to `Open`, `Pending`, `CurrentGrant`, `Revoked`, `VersionsOf`; that
  a prefix of a replayable history is replayable), then `TypeCorrect`. `TypeOK` is
  not inductive, since `Send` and `Close` read the last commit of a checkout as a
  reservation; `Hands` adds what each control state says of `base[e]` and
  `staged[e]` (`HandsHold`).
* **`ContinuousGateSafety`**: `GateIsHeld`, `AuthorityStands`, `BranchReplays`.
  The inductive invariant `Ledger` says that the branch replays, that at most one
  reservation is open and its authority stands, that a run in hand of the gate
  has the open attempt, that a staged record is admitted by its rule on its
  base, and that attempts not yet drawn appear nowhere. A push is then the
  whole argument: it succeeds only if the base is the branch, so what was
  admitted on the one is admitted on the other. The steps that move the branch
  under a run in flight (intents, outcomes) leave the records alone.
  * `BranchGrows` and `ImplementsExclusiveGate`: a further invariant says that a
    request was sent only by attempts that were drawn, so that none leaves twice;
    each action is mapped to `Acquire`, `Send`, `Release` or a stutter.
  * `CadenceHolds`: two requests say nothing of each other; the records between
    them do. `Paced` says that the closings of one target are spaced by the
    interval of the earlier, that an open reservation is spaced from all of them by
    both its own interval and theirs, and that every request has its reservation on
    the branch and no closing, there or about to be pushed, dated before it left by
    more than the skew (`Recorded`). A new request is compared with the reservation
    it leaves under, an old one with the closing of its attempt: one skew each.

* **`PublicationProofs`**: `PublicationTyped`, `PointerAlwaysComplete`,
  `PointerMovesAsSeen`. `Inv` adds to the types that whoever is in a critical
  state created the lock that is there (`LockHeld`), that a publication's release
  follows the one it expects (`Intent`), and how far each command has come for
  what is on disk (`Progress`). Between comparison and rename nobody else moves
  the pointer, because he would be in a critical state too. Nothing is assumed of
  `Descends`, not even that it is an order.

* **`CollectionProofs`**: `CollectionTyped`, `CollectionBounded`,
  `CompleteIsComplete`, `StopsAreExplained`. `Inv` is `TypeOK` with `Inside` (a
  run never leaves its endpoint), `Tries` (how often each page may have been
  requested at each control state), `Covered` (each planned page is still to come,
  was visited, or a stop is on record) and `Marked` (whatever was left out or
  failed has marked the run partial). That `COMPLETE` means complete is then a
  count of results against plans.

* **`SchedulerBatchProofs`**: `RequestsBoundOnce`, `ManifestsAreSettled`. `Sound`
  says of the branch what both properties say of each of its prefixes; `Relied`
  says of each process that what it will push was computed on a prefix of the
  branch, so that an accepted push extends exactly what it was computed on.
  `PastsAssumption` asks the same of the branches to start from. `Types` adds the
  counters.
  * `SealsAgree`: `Agree` says that a group of authorizations is in one place at a
    time. What is left to do, what is being executed, what this run has committed
    and what is deferred have no authorization in common, and each committed
    execution has its outcome, which nothing takes from a branch that only grows.
    The outcomes a run *recovers* are exempt from being apart. The property
    checked here once was that a seal never fails; its proof failed at exactly that
    place, and a larger instance shows why (section 5, the first of "Observed on
    the way").

* **`DiscoveryProofs`**: `Types`, `OneAtATime`, `SendsOnce`, `Silence`,
  `BackingOff`, `TakingTurns`. Each root is right about the ledger it has seen, a
  prefix of the branch (`Knowing`), and what it writes is accepted only if that
  prefix is the branch. What makes the invariant
  more than this is a root whose commit failed: it halts with a budget nobody else
  has seen, and may still write it by a revocation, so `Knowing` asks of a halted
  root that its budget would fit the branch if the branch had not moved (`Fits`). A
  budget only ever gains requests and never loses that one was sent (`Carried`);
  `Told` says that what has left is on the ledger as sent, and `Sole` that no two
  roots hold one request and that nobody holds one that has left; together they
  make that a request leaves once. `PastsAssumption` asks of the ledgers to start
  from what the properties ask of all.
  * `BackingOff`: when a request is reserved, `assertRepositoryGate` looks at all
    observations of the ledger, so what is to be rested is rested *then*. What
    remains is that nothing said of an older request changes afterwards: how long
    the row of failures is that ends with an observation depends on the
    observations before it in time, and a ledger gains reservations and
    observations only at the present (`Extends`). So each request that was rested
    stays so (`RestedStays`), whoever's budget is written, and one that is still
    open is observed at a time no reservation lies behind (`OrderlyAnswered`). The
    row need not be counted, only compared: it is as long in the longer ledger
    (`RowKept`, `OrderKept`), and the interval after it is the one `Rest` gives
    (`Intervals`). A halted root may write a budget that nobody has seen; `KInv`
    therefore keeps `Extends` for every root whose head is the branch, and says of a
    root under way that its request is the open one.
  * `TakingTurns` maps each action to `Acquire`, `Send`, `Release` or a stutter of
    `ExclusiveGate` with the same invariant. A revocation stutters, but where it is
    that of a root which halted after its commit had failed: its revocation writes
    the budget with it and so may acquire or release the gate
    (`EffectIsTurn`).

* **`EligibilityProofs`**: `Types`, `ThreeValuedVerdict`, `VerdictBound`,
  `ClaimsDecideNothing`, `AnswersBorneOut`. The posting is fixed, so an answer
  computed of a set of evidence is the same whenever it is computed; `IInv` says
  that an assessment is the one of the evidence its command named, that what it
  lists is a listing of that (`Records`), and that two of them differ in what they
  assessed. `VerdictBound` has two halves. That the verdict is the one of the
  named evidence is in `IInv`. That it is also the one of what the assessment
  keeps, the items listed and those its answers refer to, is `KeptSaysTheSame`:
  assertions of a state have their time of observation within and are not taken
  for one (`StateKept`), and any other answer refers to items that give it by
  themselves (`OthersKept`); only whether a condition applies is decided by
  cohorts no answer refers to (`CohortsKept`), and by the exception
  `CohortListedLate` those listed were usable whenever the one dropped was
  (`SaidAlike`). The properties are then lemmas about the evaluation. One per rule
  says what a `MATCH` and a `NOT_MATCH` of it stand on (`SingleStands`,
  `QualificationStands`, `StateStands`, `CredentialStands`). `ThreeValued`,
  `ConditionTold` and `VerdictTold` read a three-valued formula as what it says of
  all ways the unknown facts may turn out; they need that no fact occurs in two
  conditions, so that the ways are independent. `DefiniteOfDocuments` shows that a
  definite answer in production does not change when everything a document does
  not verify is left out. `AnswersStand` states that a fact called failed has no
  evidence that satisfies it, with one exception the proof insisted on
  (`OutsideLaw`): a credential with a background other than law fails "a law
  major" whatever program codes it names, since nothing compares the two.

* **`PresentationProofs`**: `PresentationTyped`, `HistoryAlwaysAgrees`,
  `CurrentAlwaysLatest`, `ExclusionAlwaysRespected`, `DecisionsAlwaysKept`,
  `RefusalsExplained`. `Held` is an invariant of books (its parts `HistoryHeld`,
  `LatestHeld`, `ExclusionHeld`, `MigrationHeld`, `SeriesHeld`, `PlaceHeld`); each
  command keeps it, and `Racing` carries it across `Push`: a run's book extends
  the branch's as long as its head is the branch's. `HeldBuilds` goes through the
  snapshot's checks one by one for `RefusalsExplained`. `IdentityAssumption` is
  what `resolvePositionIdentity` guarantees: a source occurrence has one position.

### What stays with TLC

* `GateSettles` and `LockSettles`: liveness under fairness is out of the prover's
  reach.
* The violated runs' properties, which cannot be proved.

## 5. What is not modelled and why

* **Parsers, rule tables and adapters.** The requirement parser, the phase-1
  eligibility engine (called by tests only), position-bound source compositions,
  the live canaries and the per-site adapters are more than half of the lines
  under `lib/`. They are deterministic functions of text and bytes; their tests
  are examples, and a model of them would be a copy. `Eligibility` takes what
  the parser hands on as its input.
* **Program directories, CR#11 projections of majors, conditional branches.**
  Further rules of the same resolver. `Eligibility` has one rule of each shape.
* **Hashes, schemas and files of the branch.** A history stands for its hash and
  for the files it determines. That two different records never share a hash,
  and that a file on disk is the one that was written, is assumed.
* **Evidence of fencing.** `Fenced` says what the verifier is trusted with; the
  rules by which it recognises one incident are data, not behaviour. Whether the
  incident's worker has really ended is decided outside the program
  (`git-incident-fencing-context.ts:157`).
* **The append-only execution store and raw objects.** They write into a run's
  own checkout, which nobody else sees before its push. The comparison of the
  journal head before an append (`git-append-only-execution-store.ts:882`)
  guards against a second writer in one process.
* **The one-shot path.** Supporting inspections and one-shot live canary
  authorizations use the same branch by other records; planned.
* **The in-memory source scheduler and `guardMissing`.** Tests call them; no
  production path does.
* **The machine.** Power loss, file systems that reorder renames, a remote that
  lies about its head. The design documents exclude the first two themselves.
* **Legacy Supabase synchronisation, the deployment of GitHub Pages, workflow
  scheduling**: outside services. No property leans on a workflow's concurrency
  group.

### Hazards without a property

Each hazard in `PROJECT.json` names the properties about it. Left out there,
because no model reaches them: the two comparisons of a publication's pointer hash
may see the same hash of a pointer that moved twice in between
(`publication.ts:129`), which is harmless since a hash determines the release; what
a fencing verifier and the execution store decide (above); and what the in-memory
scheduler (`source-scheduler.ts:183`) and `guardMissing`
(`source-run-missing-guard.ts:41`) do with a source paused or a run repeated
meanwhile, which no production path asks them.

### Observed on the way

What the models made visible and no run states, because the repository promises
nothing definite about it, because it is small, or because it takes more actors
than the runs have:

* Two runs of one batch may leave outcomes that overlap, and then no run of that
  batch can end with a manifest. One executes both targets of an endpoint and
  commits its outcome; the other, started before that, selects once the second
  target has been revoked (or is cooling down), executes the first alone, under
  another execution id, and commits its outcome too. If neither lives to its
  manifest, every later run recovers both outcomes and
  `assertSchedulerBatchManifest` throws `SCHEDULER_BATCH_DUPLICATE_SOURCE`
  (`scheduler-batch-manifest.ts:229`), where docs/production-scheduler-batch.md
  says that rerunning the same batch appends the missing manifest. The workflow
  that exists gives each attempt its own batch id and runs one at a time. No
  request is lost or sent twice by it, and other batches go on. The run
  `batch_safety` starts from such a branch (`PairTwice`).
* The rollback guard of `reserveContinuousRecord` (`continuous-acquisition.ts:229`)
  compares with the last timed record only, and a revocation puts its own time on
  record unchecked; docs/revocable-continuous-acquisition-implementation.md:83 says
  rollback denies an attempt. Cadence is not affected: `gate_cadence`.
* A rollback of the public site asks that its release is archived
  (`publication.ts:216`), not that it was ever current, where
  docs/superpowers/specs/2026-09-27-public-presentation-delivery-design.md:206
  says the previous one. A publication that failed before its switch leaves such
  a release.
* Retries of a page do not wait for the minimum request interval
  (`collection-runner.ts:235`); under the gate the ledger's cadence holds anyway.
* An explicitly empty page after a failed one is classified `SUSPICIOUS_EMPTY`
  (`collection-runner.ts:250`), where docs/phase-2-collection-runtime.md:17 says
  `FAILED`; `assessRun` corrects it.
* A failed name resolution in discovery is recorded as `POLICY_DENIED`, which is
  not a network failure and so ends a row of failures.
* `OpportunityRecallTracker.register` answers a rediscovery with the candidate's
  first disposition (`opportunity-recall-tracker.ts:320`), which
  `production-trusted-chain-execution-binding.ts:94` hands to `decide`; after a
  later disposition `decide` refuses it, and the run that met the candidate again
  fails.
* A migration takes the recall disposition its first-contract decision named,
  though it may have been superseded.
* `SourceScheduler.complete` sets a schedule `ACTIVE` whatever became of it
  meanwhile (`source-scheduler.ts:188`).
* A condition whose cohort does not apply to the candidate is answered `UNKNOWN`,
  so a mandatory one keeps the verdict at `NEEDS_REVIEW`.
* `MASTER` scope alone becomes the mode `GRADUATE`
  (`approved-requirement-projector.ts:741`), which a doctorate answers;
  docs/p1-change-request-12-requirement-logic-modality-applicability.md:460 maps it
  to `SPECIFIC_DEGREE:MASTER`.
* Credentials that are incomplete or not confirmed are left out before a fact is
  answered, so the others may fail it although one left out might satisfy it;
  the same document, line 596, says that a candidate's unknown never becomes
  false.
* An assessment may list an item of evidence that had not been observed at its
  `as_of`. `uniqueCandidateEvidence` (`position-bound-eligibility-assessment.ts:1339`)
  takes items for one that differ only in `observed_at` and source references, and
  lists the first named; `evidenceAppliesAt`
  (`position-bound-predicate-resolution.ts:1324`) uses an item only if it was
  observed by then. The answers refer to the items they used by id, so what was used
  is known still, but for a cohort: no answer refers to the one that made a condition
  apply, and if its later observation is listed in its place the assessment
  contains nothing its verdict follows from. The journal has the command with all
  it named. `VerdictOfEvidence` excepts this case (`CohortListedLate`) and would be
  violated without; the test "assessment seals complete provenance and supporting
  resolutions" (`tests/pipeline/position-bound-eligibility-assessment.test.ts:266`)
  names no item twice.
* An unprojectable decision is journaled with the status
  `SEMANTIC_PROJECTION_REVIEW_REQUIRED` and the root goes on
  (`trusted-chain-composition-root.ts:785`).
* Of two verified versions of one credential the favourable one decides, and the
  evidence of a superseded manifest stays usable.

## 6. Plan

*Built:* the gate (`ContinuousRecords`, `ContinuousGate`, `ExclusiveGate`), the
publication, batches over source executions, discovery, collection, presentation
and eligibility. Left, in the order of what a failure would cost:

1. `AppendBranch`: the abstract append-only branch with compare-and-swap that
   gate, executions, batches and presentation all write to, with the refinements
   of `ContinuousGate` and `SchedulerBatch`.
2. Supporting inspections as a further process of `ContinuousGate`: one shot,
   never beside an open reservation.
3. `Eligibility`: the CR#11 projection of majors and program directories, whose
   three-valued answers differ from those of codes.
4. The other commands of the trusted chain as a journal of dependent records, and
   the position and opportunity version chains they extend.
5. `ExecutionJournal`: head and entries of the execution store over a failure
   between two writes.

Bounds throughout: two processes of a kind, one or two of each name, one more
commit than the shortest interesting history; a run is to finish within two or
three minutes, so that all of them are repeated with every change.

Theorems: every invariant and every action property of a passing run is proved,
and so are both refinements of `ExclusiveGate`. Next are the refinement of
`AppendBranch` by the batches once it is written, and what a manifest says of the
outcomes it refers to as a relation between batches.
