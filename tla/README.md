# Formal model of openapi-agent-lab

openapi-agent-lab serves an API contract as a deterministic "world" that agents
work against, runs trials and studies of such agents, and grades them from the
evidence the runs sealed. This directory models what that evidence rests on:
the served world and its store, the runner that exposes it to an agent and ends
with a verdict, the study that launches trials from a frozen schedule, and the
corpus that compares a world with the provider it imitates. TLC checks the
models on small instances; TLAPS proves every safety invariant the runs check, and
the refinement of the world's pipeline, for every instance.
`PROJECT.json` maps each definition to the lines it stands for.

Line numbers below are relative to `packages/<package>/src` unless a longer path
is given.

## The system

| Component | State it keeps | Operations | What makes it correct |
| --- | --- | --- | --- |
| Gateway listener (`gateway/listener.ts`) | ingress counter, events, per-connection closures | accept, upload, answer, finish, close | one trace event per request, with the outcome the wire had |
| Gateway pipeline (`gateway/server.ts`) | one promise chain per state object | refuse, stage, fault, replay, conflict, behavior, validate, commit, roll back | exchanges take effect one at a time, all or nothing; every request is answered |
| World state (`environment/environment.ts`) | open allocation, staged services, override, last committed row | stage, commit, rollback, deliver, reset, advance, checkpoint, fork, restore | memory agrees with the store after every exception; a fork continues as its parent |
| Idempotency (`environment/idempotency.ts`) | pending record; cached responses | lookup, stage, flush, discard, expire, evict | an identity changes the world once; a replay repeats what was committed |
| Fault rules (`environment/faults.ts`) | counters, stream position, rows | match, count, draw, persist, reset, restore | an occurrence strikes once; the stored position is neither behind a row nor ahead of memory |
| Operator control (`environment/control.ts`) | queue of 128, recorded results | reset, advance, checkpoint, fork, describe | a control id takes effect once and its result is final |
| State store (`state-store/store.ts`) | requests, events, state, cache, deliveries, world, controls | transactions over them | rows, events and state commit together |
| Checkpoint directories (`environment/checkpoint-dir.ts`) | sealed files | stage, write, rename, sweep, read | a torn write never verifies |
| Behavior runtime (`behavior-runtime`) | pending calls, the child's queue | create, describe, initialize, handle, project, close | replies match calls; every call and the process end |
| Schema workers (`core/schema`) | registry, queue, threads | register, dispatch, time out, respawn, close | a slow schema is bounded and loses no job |
| Exposure (`runner/exposure.ts`) and event streams (`evidence/trace.ts`) | admissions, exchange records, ordered buffers | admit, answer, complete, disconnect, close | every exchange is recorded once, in order, with what the wire got |
| Trial (`runner/trial.ts`) | stage queue, session events, guard, operator signal | set up, run, classify, finalize, release | the verdict is one its facts support; everything is released |
| Agent process (`agent-adapter/process.ts`) | process group, timers, listeners, capture | spawn, capture, time out, signal, kill, drain | the group is gone and the outcome is decided once |
| Batch (`runner/run.ts`) | lanes, ledger, cohort | launch, record, recover, stop | each assignment is accounted for once |
| Study (`scheduler`, `study`) | frozen schedule, assignment ledger, completion record | append, activate, launch, abort, complete | the ledger is lawful, replacements are those the policy owes |
| Analysis (`report/aggregate.ts`, `study/analyze.ts`) | none over time | attempts to slots, worst case, contrasts | a contrast compares the same blocks on both sides |
| Corpus (`corpus`, `apps/cli` corpus.ts) | cases, bindings, cleanup ledger, request budget | run steps, poll, create, retry, clean up, report | what a run leaves behind it tells; the report agrees with the steps |
| Manual serving (`apps/cli` serve.ts, world.ts) | control directory: stores, markers, credentials, trace | serve, resume, fork, finalize | one identity, one numbering of the trace, over crashes |
| Evidence bundles (`evidence/artifacts.ts`) | files, manifests, completion pointers | write, seal, verify | sealed evidence is complete and unchanged; a reader takes nothing unsealed for sealed |
| Compilers, packs, study documents, evaluation, reports, tools, CLI parsing | none over time | pure functions of documents | golden tests |

**How they interact.** The listener, or the exposure of a trial, calls
`handleGatewayRequest`. The pipeline of a stateful world waits for the previous
one on a promise chain, opens a request row, asks fault rules and cache, and
else calls the behavior child over a pipe. The reply is validated by a schema
worker and committed in one SQLite transaction. What became of the response is
reported back by callback, and a delivery row is written. The operator's socket
runs controls on a second chain: a reset calls the same child and rewrites the
same store. A trial spawns an agent process, whose output and exit come by
callback, beside a wall-time guard and the operator's abort; it appends stage
facts through a queue. A batch or a study launches trials and appends to one
ledger. `oal serve` puts the same listener and world into a directory that a
later process may resume.

**The hard behaviours.** The pipeline awaits between reading the state and
committing it, and the operator's chain is not the pipeline's. A store
transaction may throw: SQLite undoes its rows, not what the process holds in
memory. Reports from the wire, output of children, timers and signals arrive in
any order, some after the state they were about has gone. Appends to evidence
files may fail while later records wait behind them. Processes die between two
writes and others go on with what they left. A provider may do what it was asked
and lose the answer.

## Modules

| Module | Models | Builds on |
| --- | --- | --- |
| `World` | pipeline, world state, cache, fault phases, controls, store | |
| `AtomicWorld` | the promise of one generation: each exchange in one step | |
| `WorldAtomic` | the refinement mapping from `World` to `AtomicWorld` | both |
| `WorldInvariant` | the inductive invariant `IInv` | `WorldAtomic` |
| `WorldProofs` | the invariant and the refinement, proved | `WorldInvariant`, TLAPS |
| `SafetyProofs` | what follows for clients and operators | `WorldProofs` |
| `MCWorld` | small worlds | `WorldInvariant` |
| `IdempotencyCache`, `FaultEngine`, `WorldLineage`, `CheckpointDirectory`, `ControlQueue`, `WorkerPool`, `Listener`, `BehaviorHost` | the parts around the pipeline | |
| `MCServices` | those eight, one per behavior | all eight |
| `ServiceProofs` | proofs about cache, faults, lineage, checkpoints, controls | those five, TLAPS |
| `ConnectionProofs` | proofs about listener, host, worker pool, serve | `Listener`, `BehaviorHost`, `WorkerPool`, `ServeCommand`, TLAPS |
| `AgentProcess` | one agent process group | |
| `Disposition` | the terminal classification | |
| `Trial` | `runTrial` over an agent process | `AgentProcess`, `Disposition` |
| `Batch` | the lanes of a batch | `Disposition` |
| `Exposure` | exposed world and event streams | |
| `ServeCommand` | commands on one control directory | |
| `MCRunner` | trial, process, batch, exposure, serve, one per behavior | the five above |
| `RunnerProofs` | proofs about process, batch and trial | `Trial`, `Batch`, TLAPS |
| `ExposureProofs` | the proof about an exposed world | `Exposure`, TLAPS |
| `AssignmentLedger` | schedule and ledger | |
| `StudyRun` | `executeStudyRun` | `AssignmentLedger` |
| `StudyAnalysis` | attempts, slots, contrasts | `StudyRun` |
| `GithubTarget`, `CorpusRun` | a corpus run over the provider or local worlds | |
| `BundleSeal` | seals of trials and their batch, and their readers | |
| `MCStudy` | study, ledger, analysis, corpus, bundle, one per behavior | `StudyAnalysis`, `CorpusRun`, `BundleSeal` |
| `LedgerProofs` | proofs about ledger, study and analysis | `StudyAnalysis`, TLAPS |
| `EvidenceProofs` | proofs about seals and corpus runs | `BundleSeal`, `CorpusRun`, TLAPS |
| `MCListener`, `MCExposure` | instances for two violations | |

In all of them an action is one stretch of a process between two awaits, one
callback, or one step of the environment. Payloads are abstract: a request is a
model value with a key and a fingerprint, a state is a history of what was
written.

### World

The awaits are the call into the child (`pipe.pc = "behavior"`), the response
validation (`"validate"`) and, for a reset, the child's initialize
(`control.pc = "initialize"`). Decisions that need none, such as a replay, are
one action from `stage()` to the end of `commit()`.

Domain state and service positions are the set of request sequences whose
writes or draws they contain. A write adds its own sequence to the snapshot it
was computed from, so a lost update, a dirty read and a write that survives its
rollback are all visible. A row keeps its request, terminal status, transition
and the generation it was staged or committed in (a history variable).

`FailurePoints` says where a store transaction may throw: before the row closes
(`"early"`), after it (`"late"`: the cache write or COMMIT itself), in the fault
or cache lookup (`"consult"`), in the row update of a rollback (`"rollback"`).
`CommitThrows` and `Rollback` write down what stays in memory. `RejectRequest`
is every refusal before staging; `BehaviorFails` a behavior that times out,
throws or breaks its protocol; `RefuseResponse` a response that fails
validation, negotiation or its size limit. `Submit` is the synchronous start of
a control, `ApplyReset` the transaction after the child answered,
`RecordControl` the stored result.

### Around the pipeline (`MCServices`)

- `IdempotencyCache`: identities scoped by policy, entries that expire in
  virtual time and are evicted at a limit, with resets between lookup and commit.
- `FaultEngine`: counters and draws in memory and in the store; `Persist` may
  throw; resets, checkpoints and restores move the position.
- `WorldLineage`: worlds as the inputs they took, checkpoints, forks and restored
  worlds; equal inputs must give equal worlds.
- `CheckpointDirectory`: each file system step of a write, two writers, a source
  that changes while it is copied, and a death anywhere; `Accepts` is the
  reader's verification.
- `ControlQueue`: admission up to the limit, lookup, effect, record, each of
  which may fail, and operators who repeat an id.
- `WorkerPool`: registry, queue, dispatch, deadlines the parent enforces, and
  threads that block, fail to start or die.
- `Listener`: `handled` is the sequence the pipeline was started with, `ingress`
  the number the request was given; the code's one counter serves for both.
- `BehaviorHost`: pipes, the map of pending calls, a timer per call. A reply
  carries the call it was computed for, which the code does not have, so that
  `Correlated` can compare.

### The runner (`MCRunner`)

- `AgentProcess`: the leader may ignore SIGINT and SIGTERM, fork, and keep its
  pipe open; time limit, abort, escalation and drain are timers.
- `Trial`: setup, the queue of stage facts, the session writer, the agent of
  `AgentProcess`, wall-time guard, operator signal, classification by
  `Disposition`, finalization, and one write or adapter call that fails anywhere.
- `Batch`: lanes launch and append to the ledger; a launch may throw, an append
  may fail, an operator or a defect stops the batch, recovery writes the rest.
- `Exposure`: slots, limits, two planes behind one port, the serialized gateway
  and two files whose records must come in the order of their reservation.
- `ServeCommand`: a directory with stores, RUN_ID, pid, FINALIZED, credentials
  and trace; fresh, resumed and forked commands that check, open, serve,
  finalize, and die at any step. What a process left is all the next one has.

### Study, corpus and evidence (`MCStudy`)

- `AssignmentLedger`: what an append accepts, which reserve an activation takes.
- `StudyRun`: primaries in launch order, replacements the frozen policy owes,
  the reasons that abort, and the completion record.
- `StudyAnalysis`: which attempt counts for a slot, what the worst case makes of
  it, and when a contrast is refused.
- `GithubTarget`: the request budget, retries of reads, creates whose answer is
  lost and that are looked for in pages of open issues, the ledger of what is to
  be closed. The provider is external and shared with others.
- `CorpusRun`: steps, bindings, polls, cleanup steps and the report, over the
  provider or over local worlds that may leak.
- `BundleSeal`: a file is the number of its lines and a digest what was digested.
  Appends are offered and land later; a manifest is collected directory by
  directory, renamed into place, and named by a pointer that is opened and then
  written; the process may die at any step. `Late` names what may change behind
  a seal: exchanges of a trial whose exposure was closed over them, the streams
  of a trial that threw, evaluations added later. One reader loads, opens the
  manifest and checks it, as `oal report`, `oal evaluate` or `oal study analyze`.

## Runs

| Run | Instance | Shows |
| --- | --- | --- |
| `WorldFailures` | a request, its retry and an unkeyed one; all fault phases and failure points | `StateIsSerial`, `EventTrail`, `AtMostOnce`, `ServedIsDurable`, `LostIsCut` |
| `WorldClean` | three requests of one key, one with another fingerprint; all fault phases, nothing throws | `ReplayOfCommitted`, `OutcomeRecorded`, `ExchangeEndsClean`; implements `AtomicSpec` |
| `WorldControls` | two requests, two control ids, resets at two generations and an advance; lookups that throw | `IInv`, `ControlOnce`, `ControlsFinal`, `ClockForward`, `EveryRequestAnswered` |
| `Services` | the eight parts | `CacheIsTrue`, `FaultsAreRecorded`, `ForksContinue`, `PublishedIsWhole`, `ControlsTakeEffectOnce`, `JobsAreServed`, `TraceIsTrue`, `Correlated`, `EverythingEnds` |
| `Runner` | the five parts | `Released`, `VerdictIsEarned`, `LedgerCloses`, `NothingSurvives`, `ResultIsTrue`, `BatchAccounts`, `NoLaunchAfterStop`, `ExchangesAreTraced`, `ServeIsAccountable`, `EverythingEnds` |
| `Study` | the five parts | `LedgerIsLawful`, `ReplacementsAreLawful`, `CompletionIsTrue`, `EstimatesAreSound`, `CorpusLeavesNothing`, `CasesAreTrue`, `EvidenceIsSealed` |

`MCServices`, `MCRunner` and `MCStudy` choose a part in the initial state and
let it run; the others keep still. The parts share no state in what is checked
of them, so this explores each as a specification of its own would.

**Why the bounds are enough.** Two requests of one key make a retry; a third
without a key adds a second write (a key writes once), a third with another
fingerprint a conflict. Every pair of exchanges that can disturb each other
through memory (a pending record, override, position or allocation left behind)
has a third to show it. Two control ids suffice for a repetition after the other
took effect, and payloads name generations 1 and 2, so that an outdated and a
premature expectation both occur. In `Services` a clock of one step expires the
shorter lifetime, three commits overflow a limit of one and of two, four fault
evaluations pass an occurrence before and after a restore, two worlds are a
parent and a fork with three inputs to diverge and agree, two writers overlap at
every step, five sends repeat an advance and a reset around a queue of two and
one failing record, and three jobs compete for two threads, a queue of one and a
registry of one. In `Runner` a script of two lines has one before and one after
the turn's end; one write or adapter call
may fail, at any point of a trial; three assignments on two lanes have one
launched late; three exchanges
on two slots reach each limit; and three commands are an original, the one that
resumes it and one that comes beside. In `Study` two cells in two blocks with
two reserves each allow a replacement of a replacement, one in the other cell,
and the exhaustion of each; a corpus of three cases has lost, cut and refused
answers within five requests, two pages and one foreign issue that shifts them.
A batch of one trial has both scopes: trials write disjoint directories and meet
only in the ledger, which is flushed; a trace of two lines lands before,
between and behind the two seals.
`MaxRequests`, `QueueLimit`, `MaxConcurrent` and their like are limits of the
code, set low enough to be reached.

Runs disable TLC's deadlock check: a world that answered everyone, a trial that
ended or a study that completed has nothing left to do. `EveryRequestAnswered`
and `EverythingEnds` say that nothing stops earlier, except for studies,
corpora and bundles, which are checked for safety alone.

## Fairness

`World!FairSpec` is weak fairness of the pipeline: the event loop runs what is
ready, the call into the child has a timer (`behavior-runtime/host.ts:279`),
response validation ends by the worker's deadline, and store calls are
synchronous. The composed specifications assume weak fairness of `Owed`, what the
part at work owes by itself: callbacks that are due, timers that were armed, the
parent's side of a pool, pending appends. Since one part is at work and each
step it owes is a finite stretch towards rest, fairness of the disjunction is
enough. `Listener` also assumes that an upload ends (Node's `requestTimeout`), and
that an
ended stream finishes or closes, `Exposure` that an upload ends or is cut, and
`Batch` that each trial it launched ends, which `EverythingEnds` shows of `Trial`.
Clients, operators, behavior children,
worker threads and agents owe nothing: a child may hang, an agent may ignore
every signal but SIGKILL, a resumed serve may never come.

## Disagreements the runs show

Six runs check a statement the repository makes, and TLC refutes it.

- `WorldLostReset` (`OldWritesStayGone`): the operator's chain is not the data
  path's (`environment/control.ts:420`, against its comment at line 9 and
  SPEC.md:8269). A reset that lands between a behavior's reply and its commit is
  overwritten, because `commit()` reads the revision it then expects.
- `WorldCacheLeak` (`ReplayOfCommitted`): a commit that throws before its row
  closes leaves the pending cache record; the next exchange commits it.
- `WorldWedged` (`AllocationOwned`): an exception between `stage()` and the close
  of the row leaves the allocation, and every later request fails to stage.
- `ListenerSequence` (`OwnSequence`): overlapping connections share a sequence.
- `ExposureRecords` (`OneRecordEach`): a refused request for a document is
  completed in the API trace under a number of the documentation stream.
- `StudyAborts` (`AbortStops`): an operator's interrupt or a batch-wide defect in
  the trial of a replacement does not stop the study.

### Others, without a run

Found while modelling, by reading or by a TLC trial of a named formula; the
models contain the behaviour, and the checked properties exclude just that.

World and store:

- A delivery report is attributed to the last committed row
  (`DeliveredIsFinished`; `listener.ts:309`, `environment.ts:628`, `633`).
- Service positions staged by a commit that threw are published by the next
  (`environment.ts:605`, against the comment at 474-477); its row stays pending
  (SPEC.md:8218); the clock tick of an undone transaction stays (`store.ts:713`);
  its `terminalOverride` labels the next row replayed (`server.ts:552`).
- A reset moves the clock to the virtual epoch, not to the declared initial time
  (`environment.ts:741`, against `state-store/src/clock.ts:101-105`;
  `ResetIsBaseline`, SPEC.md:8332-8334).
- An advance whose record failed is applied again (`AdvanceOnce`,
  `control.ts:549`, SPEC.md 48.3); a control whose effect throws is answered 500
  and not recorded, and an aborted upload rejects unhandled.
- A later cached entry may be evicted before an older one (`OldestEvictedFirst`,
  SPEC.md:3088), and lifetimes and limits of the writing policy apply to all.
- Faults `timeout` and `disconnect` of `before_behavior` are consumed without
  effect. A failed checkpoint is recorded by `openEnvironment` and unrecorded by
  a restored world. `openRestoredEnvironment` starts the host before it opens
  the store, outside its `try`.
- Concurrent checkpoint writers sweep each other's staging directory
  (`WrittenIsReadable`, SPEC.md 48.4).
- `start()` of a behavior host that fails leaves the child running
  (`environment.ts:841`, SPEC.md:2932). A job of a schema worker past its
  deadline fails only when a worker frees.

Runner and evidence:

- `committedEffects` of an exchange may hold another's (`EffectsAreOwn`,
  `exposure.ts:807`). A failed append of one record turns the answered 200 of
  another into a 500. The last buffered record is lost if nothing completes
  after it.
- Finalization reads the trace without waiting for exchanges in flight
  (`trial.ts:634`). `participant_spawned` is recorded before a spawn that fails
  (`SpawnedMeansSpawned`, SPEC.md:3789). An `http.request` line after
  `turn.completed` makes `runTrial` throw. The wall-time limit ends an agent as
  cancelled, by SIGINT. A failing setup claims its ledger was written. The child
  of a scenario leaks if `finalState()` throws. An operator's abort between
  two checks is lost. Descendants that left the group outlive the run.
- Exchanges still in flight when an exposure closes land behind the manifest of
  the trial (`PayloadsPrecede`, SPEC 24.3): the trial is refused afterwards, and
  the batch above it may seal and verify all the same, since `verify()` enters no
  child manifest (`ParentImpliesChild`, SPEC 24.4, "recursive verification",
  `artifacts.ts:5`).
- `oal evaluate` loads a run before it verifies it, grades what it loaded
  (`GradedIsVerified`, `evaluate.ts:365`, against its comment at 368), and needs no
  completion pointer. `verifyArtifactsOf` refuses the symlinks a manifest records
  (`run-tree.ts:768`, `artifacts.ts:309`). The participant's workspace lies in the
  trial's directory, so a process that outlives the trial may change sealed files.
- Read but not modelled: an interrupted `putBlob` leaves a truncated blob that
  later writes take for the whole one (`artifacts.ts:217`), `verify()` does not
  see added files, and `manifest_digest_mismatch` cannot be reported.

Serving by hand:

- A serve of a scenario can never be resumed once its world was initialized:
  `openEnvironment` initializes it again and the store refuses
  (`MatchingResumes`, `environment.ts:884`; SPEC.md AC-030, AC-098).
- FINALIZED is written while the listener is open, and trace and world change
  behind it (`FinalizedIsImmutable`; SPEC.md:4111, comment at serve.ts:1324).
- Two resumes, or a resume beside a shutdown, both pass their checks and number
  the trace twice. A crash while RUN_ID is rewritten, or before it is written,
  leaves a directory that can be neither resumed nor restarted. A resume has no
  `--run-dir` and goes on in another evidence directory. Preflight refuses the
  credentials file the crashed serve left; a fork leaves its own at shutdown.

Study and analysis:

- The policy ORs disposition and integrity (`events.ts:698-703`, SPEC.md:1551).
  `worstCaseSlotTally` counts a censored unresolved slot as unresolved
  (`aggregate.ts:728-731`, SPEC 27.2). `censorClassFor` gives a post-control
  `harness_aborted` with intact evidence "none" (`aggregate.ts:215-224`).
- `assignmentStates` shows a reserve as unused that may still be activated. A gap
  in an explicit `launch_order` makes later default events rejected. A bad clock
  drops an owed activation without a trace.

Corpus:

- A failing teardown replaces the failed result of a case (`engine.ts:1009`,
  against its comment at 983). A case whose steps were all lost and whose
  cleanup passed gets a behavioral pass (1019-1021). A binding missing after a
  lost step is an assertion failure. A failed close makes every later teardown
  fail.
- A second lost create next to an open issue of one's own stays uncertain and
  leaks; shifting pages make duplicates; a 201 whose body cannot be read leaves
  an issue nobody knows. A local serve leaks when its credentials cannot be read
  (`corpus.ts:529-549`, "Never leak a serve"). A rate-limit delay beyond a
  poll's deadline does not end the case as the provider's failure (SPEC 48.5).

## Proofs

Eight modules hold the proofs. Each theorem is about a whole specification, for
every value of its constants that the assumptions below allow, and every bound.
Each safety invariant and each step property a passing run checks is stated by a
theorem.

| Module | Theorems |
| --- | --- |
| `WorldProofs` | `Invariant` (`Spec => []IInv`); from it `TypeCorrect`, `EventTrailHolds`, `NoUncommittedEffectHolds`, `AtMostOnceHolds`; `Implements`: `Spec => AtomicSpec` under `OneGeneration` (no controls, commits fail only behind the row) |
| `SafetyProofs` | `ServedIsDurableHolds`, `LostIsCutHolds`, `ControlsFinalHolds`, `ClockForwardHolds`, `AnsweredOnce`; `ControlOnceHolds` for a finite set of controls; `StateIsSerialHolds` without an operator; `ReplayOfCommittedHolds` and `OutcomeRecordedHolds` under `LateOnly` (no commit fails before its row); `ExchangeEndsCleanHolds` where nothing throws and no operator acts |
| `ServiceProofs` | `CheckpointsAreWhole`, `ControlsOnce`, `FaultsRecorded`, `ForksGoOn`, `CachesAreTrue` |
| `ConnectionProofs` | `TracesAreTrue`, `RepliesAreCorrelated`, `ServesAreAccountable`, `JobsServed` |
| `RunnerProofs` | `ProcessInvariant`, `NothingSurvivesARun`, `ResultIsAlwaysTrue`; `BatchInvariant`, `AssignmentsAreAccounted`, `LaunchesStop`; `TrialInvariant`, `TrialsRelease`, `VerdictsAreEarned`, `LedgersClose`, `TrialReturnsAccepted` |
| `ExposureProofs` | `ExchangesTraced` |
| `LedgerProofs` | `LedgerLawful` for any caller of the ledger, `StudyLawful`, `CompletionsAreTrue`, `ReplacementsLawful`, `EstimatesSound` |
| `EvidenceProofs` | `SealsAreTrue`, `NothingLeft`, `CasesTrue` |

The premises of the world's theorems are those without which the property fails,
as `WorldCacheLeak` and `WorldLostReset` show; that controls are finitely many is
there to count them. The other theorems have no premise.

### The arguments

None of the properties is inductive alone; what is added says what the code keeps
true between two awaits.

**World.** `AtMostOnce` needs that an identity with an effect is in the cache
(`TransitionsCached`), that the exchange in flight runs under an identity that is
not (`InFlightUncached`), and that only a successful behavior has a transition
(`CandidateFromSnapshot`), whose outcome the policy caches. With controls it also
needs that no row belongs to a later generation (`RowGenerations`): a reset
empties the cache, and then no row of the new generation may exist. `EventTrail`
and `NoUncommittedEffect` need that a new row lies beyond the counter
(`RowsBelowCount`), that the row being committed is still pending (`StagedRow`),
and that a row without an event has no transition (`TransitionsClosed`). The proof
splits `IInv` into types, the committed log (`LogInv`) and the exchange in flight
(`PipeInv`). `OpenRowLog` covers every step that touches one row without closing
it, `CommitLog` every commit, `ResetHalves` the reset; each action is an instance
of one of them. The refinement adds `SerialInv`: memory is what the log says when
no exchange is in flight. `SafetyProofs` adds what ties the answers, the cache
(`ReplayInv`), the draws (`CleanInv`) and the row counter to the log.

**Around the pipeline.** `CheckpointInv` says what of its own files the staging
directory of a writer may still hold at each step of it, whoever swept it since,
and that a directory that was renamed into place holds files of one write. A
control takes effect once because a repetition finds the record of its id or a
queue that still holds it (`ControlInv`). The position of a fault rule lies
between the rows behind it and memory (`PositionsCover`). A fork continues as its
parent because each world is where its inputs since a checkpoint lead from what
was written there (`InputsLead`, with an explicit chain of what can be observed
between, so that no induction is needed). Each part of `CacheInv` is one holder of
a cached run: the table, a query under way, a reply, and what has expired or was
evicted.

**Connections.** The trace of a request agrees with the wire and with the closure
of its connection (`WireFits`, `RunningFits`). The pending map of a behavior host
holds the calls that wait, under ids that grow (`PendingFits`, `IdsAgree`,
`IdsGrow`), and the child works at the oldest of its queue (`BusyFits`). In a
control directory (`ServeInv`) what the store and the world record decides who
works on them, whatever a command found when it looked (`IdentityFits`); as long
as no resume began beside another command, one at a time works there, so numbering
and markers are those of that command (`OrderFits`), and one that ended by itself
was the last (`LastFits`). `PoolInv` says that a job is queued, runs in one slot
or has settled, once; that the registry of a thread is one of bundles that were
posted; that each worker was spawned for a job that has begun, or for one that
waits (`Spare`), so that spawning ends; and that none waits while a worker is
idle. `Pump` is a loop in the code; in the model it is the function `rounds`,
recursive in the jobs left to look at. Its existence is proved by the least index
at which two candidates would disagree (`RoundsAreDefined`), and `PumpFits`
follows it round by round.

**Runner.** The invariant of the process says, for each phase of a run, which of
leader, descendants, timers and listeners may exist; that nothing is left follows
from the last phase. That of a batch follows an assignment from its lane to the
ledger. That of a trial ties what is held to how far `runTrial` is (`HeldFits`),
the queue of stage facts to what was appended (`StagesFit`), the writer of the
session to its events (`SessionFits`), signals and guard to the classification
(`SignalsFit`, `ExitFits`); a verdict is then earned by the facts that led to it
(`Earned`). An exposure counts the slots it holds (`SlotsFit`), keeps both files
in the order of their reservation (`FilesInOrder`) and runs one gateway exchange
at a time (`PipelineFits`). While no append failed and no request for a document
was refused (`Quiet`), what is buffered waits for a record of an earlier sequence,
which somebody holds (`PendingWaits`, `Covered`), and what a socket was told and a
record says follow from what the gateway did (`ToldFits`, `EffectsFit`).

**Study.** An event of the ledger has those it requires earlier in the sequence.
`StudyInv` relates the phase of `executeStudyRun`, the launch under way and the
completion record to the ledger; `ReplacementInv` adds the cause and the ceiling
of each activation (`ActivationsFit`, `CeilingFits`) and that whatever the policy
owes for the primaries the loops have passed was decided (`DecisionsFit`). In any
table of attempts their order tells those of a slot apart (`ToldApart`), so each
slot has a first attempt and, when one is eligible, a supplier. In a study only a
launched trial proves anything (`LaunchesProve`, in `AnalysisInv`), so a slot is
that of one primary, with its own trial and at most one replacement (`ChainsAre`);
a trial whose end is not in the ledger leaves its block incomplete
(`OpenEndsRefuse`), and the contrast is refused.

**Evidence.** `SealInv` says of each scope, for the step its writer is at, which
lines are in its files, which of them the manifest has recorded (`ScopeFits`), and
of the reader what it has loaded and opened (`ReaderFits`). A corpus run
(`CorpusInv`) holds numbers of its own issues only (`OwnFits`); what its ledger
says is closed stays closed, and a teardown is still to close what is not in the
ledger (`ClosedFits`). The bound on what it does not know of is a count: issues
unknown and creates in transit are at most the uncertain creates reported, one
more while a create is sent for a step that has not been marked (`CountFits`). A
report (`RecordFits`) splits into the main steps that ran and the cleanup steps
after them, and its status is that of the prefix.

Counts (`ControlOnce`, slots, ceilings, the creates of a corpus) are about
cardinalities of finite sets under one insertion or along an injection.

### Assumptions

Assumptions on constants, which TLC evaluates in the runs:

- of the world, `RequestAssumption` (keys and fingerprints are functions of the
  request), `LimitAssumption` (natural numbers), `PolicyAssumption` (a policy
  caches its successes, and nothing but successes and declared errors; one that
  does not cache successes promises nothing about retries),
  `EnvironmentAssumption` (the vocabulary of failure points and payloads),
  `NoneAssumption`;
- that limits, bounds and times are natural numbers and a list is a list:
  `CacheAssumption`, `TimeAssumption`, `RulesAssumption`, `ServeAssumption`,
  `ScriptAssumption`, `TrialAssumption`, `BatchAssumption`, `CorpusAssumption`;
- that finitely many requests, exchanges or jobs are made, which says nothing of
  how many: `ControlsAssumption`, `ExposureAssumption`, and `PoolAssumption`, which
  also has a positive number of workers, as `resolveLimits` demands;
- that a placeholder is no value it stands beside: `AbsentAssumption`,
  `SealAssumption`, and parts of `CacheAssumption`, `ScheduleAssumption`,
  `StudyAssumption`;
- of a frozen study, `ScheduleAssumption` (assignments are primaries or held
  replacements), `OrderAssumption` (the sort keys of the primaries of a block
  differ), `StudyAssumption` (the timings a policy may have, and a ceiling of 0
  where it activates nothing), `TableAssumption` (a table of attempts is finite
  and run ids are distinct);
- `OutcomesAssumption`: what a trial returns to its batch is not an outcome the
  batch itself hands out. `TrialReturnsAccepted` proves it of `Trial`.

### Only model-checked

Liveness under fairness (`EveryRequestAnswered`, `EverythingEnds`), which the
prover does not handle. The refinement is claimed, and proved, for one generation
only; `AtomicSpec` says nothing of a world under an operator. That the six
violations exist is TLC's to show, by counterexample.


## Not modelled

- What is a pure function of documents: contract compilers, YAML, packs and
  study documents, mocks, tool descriptions, rubric evaluation, statistics,
  report rendering, CLI parsing, diagnostics, digests and paths. These are most
  of the repository's lines, keep no state between calls, and a definition for
  each would be the program again; golden tests compare their outputs.
- The contract side of the pipeline (routing, authentication, parameters,
  negotiation, generation): one nondeterministic refusal or response.
- The contents of requests, states and responses: identities and histories.
- Custom rate-limit state of a world, the run identity check, exports of the
  store and the decoding of its columns.
- The sealed workspace, plan and preflight of a trial; the header of a study run
  and its seeds.
- Of evidence bundles: the manifest of a study, blobs, symlinks, added files,
  redaction, and a writer outside the program.
- A failing `start()` of the behavior host is modelled as an abandoned child;
  no property holds of it.
