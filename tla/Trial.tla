-------------------------------- MODULE Trial --------------------------------
(***************************************************************************)
(* One trial from setup to its terminal record: runTrial of                *)
(* packages/runner/src/trial.ts with setupTrial (setup.ts), the stage      *)
(* ledger (lifecycle.ts) and a process adapter (agent-generic, agent-codex)*)
(* whose process is module AgentProcess.                                   *)
(*                                                                         *)
(* Stage facts and session events are queued by synchronous callbacks and  *)
(* appended asynchronously, while the participant runs, the wall-time      *)
(* guard counts and the operator may interrupt at any moment.              *)
(***************************************************************************)
EXTENDS AgentProcess, Disposition, SequencesExt

CONSTANTS
  Scenario,   \* whether the trial has a behavior child (scenario mode)
  ModelNamed, \* whether the run context names a model
  MaxTime,    \* bound: distinct clock readings
  MaxFaults   \* bound: failures of the artifact store and of the adapter

ASSUME TrialAssumption ==
  Scenario \in BOOLEAN /\ ModelNamed \in BOOLEAN /\ MaxTime \in Nat /\ MaxFaults \in Nat

VARIABLES
  at,         \* how far runTrial is
  scenario,   \* the behavior child: "off", "open", "closed"
  exposure,   \* the gateway of the trial: "none", "open", "closed"
  ledger,     \* lifecycle.jsonl: the stages recorded, in order
  stages,     \* StageQueue: offered, chain, failed
  session,    \* SessionWriter: whether events are owed to the sink, failed
  facts,      \* SessionFacts: what the session events proved
  interrupted,\* the operator's AbortSignal
  hooked,     \* whether runTrial listens to it
  guard,      \* whether the wall-time timer is armed
  signals,    \* when the operator signal and the timeout were noticed
  clock,      \* the injected clock
  status,     \* what the adapter made of the process result
  record,     \* run.completed.json, or NoRecord
  faults      \* failures left

trialOwn == <<at, scenario, exposure, ledger, stages, session, facts,
              interrupted, hooked, guard, signals, clock, status, record, faults>>
trialVars == <<trialOwn, processVars>>

NoRecord == [disposition |-> "unwritten"]

\* section 22.3 order; the operator signal is outside it.
ORDERED_STAGES ==
  <<"scheduled", "workspace_prepared", "server_ready", "participant_spawned",
    "model_started", "participant_control_started", "api_started",
    "turn_completed", "report_present", "report_valid",
    "finalization_started", "evidence_finalized">>
OperatorStage == "operator_signal_received"
StageNames == ToSet(ORDERED_STAGES) \cup {OperatorStage}
orderIndexOf(s) == CHOOSE i \in DOMAIN ORDERED_STAGES : ORDERED_STAGES[i] = s

lastOrderIndex ==
  LET ordered == {orderIndexOf(s) : s \in ToSet(ledger) \ {OperatorStage}}
  IN  IF ordered = {} THEN 0
      ELSE CHOOSE i \in ordered : \A j \in ordered : j <= i

TrialTypeOK ==
  /\ ProcessTypeOK
  /\ at \in {"start", "setup", "exposed", "open", "prepare", "running", "ran",
             "flush", "reported", "conclude", "manifest", "terminal",
             "done", "threw"}
  /\ scenario \in {"off", "open", "closed"}
  /\ exposure \in {"none", "open", "closed"}
  /\ ledger \in Seq(StageNames)
  /\ stages \in [offered : SUBSET StageNames, chain : Seq(StageNames), failed : BOOLEAN]
  /\ session \in [owed : BOOLEAN, failed : BOOLEAN]
  /\ facts \in [spawned : BOOLEAN, modelStarted : BOOLEAN, apiStarted : BOOLEAN]
  /\ interrupted \in BOOLEAN /\ hooked \in BOOLEAN /\ guard \in BOOLEAN
  /\ signals \in [operator : {Never} \cup 0 .. MaxTime,
                  timeout : {Never} \cup 0 .. MaxTime]
  /\ clock \in 0 .. MaxTime
  /\ status \in {"none", "completed", "failed", "timed_out", "cancelled",
                 "provider_failed", "spawn_failed"}
  /\ record.disposition \in Dispositions \cup {"unwritten", "classified"}
  /\ faults \in 0 .. MaxFaults

TrialInit ==
  /\ ProcessInit
  /\ at = "start"
  /\ scenario = "off" /\ exposure = "none"
  /\ ledger = << >>
  /\ stages = [offered |-> {}, chain |-> << >>, failed |-> FALSE]
  /\ session = [owed |-> FALSE, failed |-> FALSE]
  /\ facts = [spawned |-> FALSE, modelStarted |-> FALSE, apiStarted |-> FALSE]
  /\ interrupted = FALSE /\ hooked = FALSE /\ guard = FALSE
  /\ signals = [operator |-> Never, timeout |-> Never]
  /\ clock = 0
  /\ status = "none"
  /\ record = NoRecord
  /\ faults = MaxFaults

Ended == at \in {"done", "threw"}
Goto(p) == at' = p
Fault == faults > 0 /\ faults' = faults - 1
NoFault == UNCHANGED faults
CloseScenario == scenario' = IF scenario = "open" THEN "closed" ELSE scenario

-----------------------------------------------------------------------------
(***************************************************************************)
(* The stage queue and the ledger                                          *)
(***************************************************************************)

holds(sq, s) == s \in sq.offered \/ s \in ToSet(ledger)

Offer(sq, s) ==
  IF holds(sq, s) THEN sq
  ELSE [sq EXCEPT !.offered = @ \cup {s}, !.chain = Append(@, s)]

OfferIf(sq, condition, s) == IF condition THEN Offer(sq, s) ELSE sq

\* TrialLifecycle.record: write-once, forward only, the operator signal free.
Recordable(s) ==
  IF s = OperatorStage THEN TRUE
  ELSE s \notin ToSet(ledger) /\ orderIndexOf(s) > lastOrderIndex

\* One link of the chain. A failure latches; later stages are dropped.
AppendStage ==
  /\ stages.chain # << >>
  /\ LET s == Head(stages.chain)
         rest == [stages EXCEPT !.chain = Tail(@)]
     IN  \/ /\ stages.failed \/ s \in ToSet(ledger)
            /\ stages' = rest
            /\ UNCHANGED ledger /\ NoFault
         \/ /\ ~stages.failed /\ s \notin ToSet(ledger) /\ Recordable(s)
            /\ ledger' = Append(ledger, s)
            /\ stages' = rest /\ NoFault
         \/ /\ ~stages.failed /\ s \notin ToSet(ledger)
            /\ IF Recordable(s) THEN Fault ELSE NoFault
            /\ stages' = [rest EXCEPT !.failed = TRUE]
            /\ UNCHANGED ledger
  /\ UNCHANGED <<processVars, at, scenario, exposure, session, facts,
                 interrupted, hooked, guard, signals, clock, status, record>>

\* The session chain catches up, or fails and drops what follows. Nothing
\* reads the session file before the flush, so that is when it is settled.
AppendSession ==
  /\ at = "flush" /\ session.owed
  /\ \/ session' = [session EXCEPT !.owed = FALSE] /\ NoFault
     \/ /\ ~session.failed /\ Fault
        /\ session' = [owed |-> FALSE, failed |-> TRUE]
  /\ UNCHANGED <<processVars, at, scenario, exposure, ledger, stages, facts,
                 interrupted, hooked, guard, signals, clock, status, record>>

\* observeSessionEvent: the stage facts one normalized event proves.
Observe(sq, f, event) ==
  LET f1 == CASE event = "agent.started" ->
                   [f EXCEPT !.spawned = TRUE, !.modelStarted = @ \/ ModelNamed]
              [] event = "argv.recorded" -> [f EXCEPT !.modelStarted = TRUE]
              [] event = "http.request" -> [f EXCEPT !.apiStarted = TRUE]
              [] OTHER -> f
      s1 == OfferIf(sq, event = "agent.started", "participant_spawned")
      s2 == OfferIf(s1, event = "agent.started" /\ ModelNamed
                          /\ ~holds(s1, "participant_control_started"),
                    "model_started")
      s3 == OfferIf(s2, event = "turn.completed", "turn_completed")
      s4 == OfferIf(s3, f1.spawned /\ (f1.modelStarted \/ f1.apiStarted),
                    "participant_control_started")
      s5 == OfferIf(s4, f1.spawned /\ f1.apiStarted, "api_started")
  IN  [queue |-> s5, facts |-> f1]

-----------------------------------------------------------------------------
(***************************************************************************)
(* Setup                                                                   *)
(***************************************************************************)

\* finalizeSetupFailure: manifest and record of a trial that never spawned.
SetupFailure ==
  \/ /\ NoFault
     /\ record' = [disposition |-> "invalid_setup",
                   censor |-> "pre_control_nonparticipant"]
     /\ Goto("done")
  \/ Fault /\ UNCHANGED record /\ Goto("threw")

\* Scenario mode boots the behavior child first.
OpenScenario ==
  /\ at = "start"
  /\ \/ /\ scenario' = IF Scenario THEN "open" ELSE "off"
        /\ Goto("setup") /\ NoFault /\ UNCHANGED record
     \/ Scenario /\ UNCHANGED scenario /\ SetupFailure
  /\ UNCHANGED <<processVars, exposure, ledger, stages, session, facts, interrupted,
                 hooked, guard, signals, clock, status>>

\* setupTrial up to the exposure. An identity that exists or a ledger that
\* cannot be opened is not a TrialSetupError; an exposure that fails is.
SetupStarts ==
  /\ at = "setup"
  /\ \/ /\ ledger' = <<"scheduled">>
        /\ exposure' = "open"
        /\ Goto("exposed") /\ NoFault /\ UNCHANGED <<scenario, record>>
     \/ /\ ledger' = <<"scheduled", "finalization_started", "evidence_finalized">>
        /\ CloseScenario /\ UNCHANGED exposure
        /\ SetupFailure
     \/ /\ Fault /\ Goto("threw")
        /\ ledger' \in {<< >>, <<"scheduled">>}
        /\ CloseScenario /\ UNCHANGED <<exposure, record>>
  /\ UNCHANGED <<processVars, stages, session, facts, interrupted, hooked, guard,
                 signals, clock, status>>

\* setupTrial after the exposure: any failure closes it and the ledger.
SetupFinishes ==
  /\ at = "exposed"
  /\ \/ /\ ledger' = ledger \o <<"workspace_prepared", "server_ready">>
        /\ Goto("open") /\ NoFault
        /\ UNCHANGED <<scenario, exposure, record>>
     \/ /\ \E prefix \in {<< >>, <<"workspace_prepared", "server_ready">>} :
             ledger' = ledger \o prefix
                         \o <<"finalization_started", "evidence_finalized">>
        /\ exposure' = "closed" /\ CloseScenario
        /\ SetupFailure
  /\ UNCHANGED <<processVars, stages, session, facts, interrupted, hooked, guard,
                 signals, clock, status>>

\* The session sink, then the operator listener and the wall-time guard. A
\* listener added to a signal that was aborted before is never called.
OpenSession ==
  /\ at = "open"
  /\ \/ /\ hooked' = ~interrupted /\ guard' = TRUE
        /\ Goto("prepare") /\ NoFault /\ UNCHANGED <<scenario, exposure>>
     \/ /\ Fault /\ exposure' = "closed" /\ CloseScenario
        /\ Goto("threw") /\ UNCHANGED <<hooked, guard>>
  /\ UNCHANGED <<processVars, ledger, stages, session, facts, interrupted, signals,
                 clock, status, record>>

-----------------------------------------------------------------------------
(***************************************************************************)
(* The agent runs                                                          *)
(***************************************************************************)

\* Only the moments of the two signals are compared, so time passes only
\* while one of them is known and the other may still come.
Tick ==
  /\ at \in {"prepare", "running"} /\ clock < MaxTime
  /\ signals.operator # Never \/ signals.timeout # Never
  /\ clock' = clock + 1
  /\ UNCHANGED <<processVars, at, scenario, exposure, ledger, stages, session,
                 facts, interrupted, hooked, guard, signals, status, record, faults>>

\* Mutant: the finally block forgets the operator's listener.
LeaveRunListening == guard' = FALSE /\ hooked' = hooked /\ exposure' = "closed"

\* The finally block of runTrial.
LeaveRun == guard' = FALSE /\ hooked' = FALSE /\ exposure' = "closed"

PrepareThrows ==
  /\ at = "prepare"
  /\ Fault /\ LeaveRun /\ CloseScenario /\ Goto("threw")
  /\ UNCHANGED <<processVars, ledger, stages, session, facts, interrupted, signals,
                 clock, status, record>>

\* adapter.run: both process adapters report agent.started and argv.recorded,
\* and then spawn.
StartAgent ==
  /\ at = "prepare"
  /\ LET first == Observe(stages, facts, "agent.started")
         second == Observe(first.queue, first.facts, "argv.recorded")
     IN  stages' = second.queue /\ facts' = second.facts
  /\ session' = [session EXCEPT !.owed = TRUE]
  /\ Spawn \/ SpawnThrows
  /\ Goto("running")
  /\ UNCHANGED <<scenario, exposure, ledger, interrupted, hooked, guard, signals,
                 clock, status, record, faults>>

\* Output reaches the event sink line by line.
Hear ==
  /\ at = "running"
  /\ Read
  /\ LET seen == Observe(stages, facts, Head(pipe))
     IN  stages' = seen.queue /\ facts' = seen.facts
  /\ session' = [session EXCEPT !.owed = TRUE]
  /\ UNCHANGED <<at, scenario, exposure, ledger, interrupted, hooked, guard, signals,
                 clock, status, record, faults>>

\* The process and its timers; what a descendant adds is left to module
\* AgentProcess. The guard was armed earlier for the same
\* duration, so the process limit never runs ahead of it.
ProcessSteps ==
  /\ at = "running"
  /\ \/ Leader \/ Due
     \/ ~guard /\ LimitFires
  /\ UNCHANGED trialOwn

\* controller.abort(): the process stops if it listens, and a spawn that
\* follows sees the aborted signal.
AbortController == IF aborted THEN UNCHANGED processVars ELSE Abort

OperatorInterrupts ==
  /\ ~interrupted /\ ~Ended
  /\ interrupted' = TRUE
  /\ IF hooked
     THEN /\ signals' = [signals EXCEPT !.operator = clock]
          /\ stages' = Offer(stages, OperatorStage)
          /\ hooked' = FALSE
          /\ AbortController
     ELSE UNCHANGED <<processVars, signals, stages, hooked>>
  /\ UNCHANGED <<at, scenario, exposure, ledger, session, facts, guard, clock,
                 status, record, faults>>

\* Mutant: the guard notes the timeout and stops nothing.
GuardOnlyNotes ==
  /\ guard
  /\ guard' = FALSE
  /\ signals' = [signals EXCEPT !.timeout = clock]
  /\ UNCHANGED <<processVars, at, scenario, exposure, ledger, stages, session, facts,
                 interrupted, hooked, clock, status, record, faults>>

GuardFires ==
  /\ guard
  /\ guard' = FALSE
  /\ signals' = [signals EXCEPT !.timeout = clock]
  /\ AbortController
  /\ UNCHANGED <<at, scenario, exposure, ledger, stages, session, facts, interrupted,
                 hooked, clock, status, record, faults>>

\* classify() of the adapters. Whether a nonzero exit is a provider failure (a
\* start that never spoke has that status too) or a plain one, and whether a
\* clean exit left its final message, depends on output and configuration.
Classified(r) ==
  IF r.spawnError THEN {"spawn_failed"}
  ELSE IF r.timedOut THEN {"timed_out"}
  ELSE IF r.cancelled THEN {"cancelled"}
  ELSE IF r.exit = "zero" THEN {"completed", "failed"}
  ELSE {"provider_failed", "failed"}

AgentReturns ==
  /\ at = "running" /\ result # NoResult
  /\ status' \in Classified(result)
  /\ session' = [session EXCEPT !.owed = TRUE]   \* final_output, agent.exited
  /\ LeaveRun
  /\ signals' = IF status' = "timed_out" /\ signals.timeout = Never
                THEN [signals EXCEPT !.timeout = clock] ELSE signals
  /\ Goto("ran")
  /\ UNCHANGED <<processVars, scenario, ledger, stages, facts, interrupted, clock,
                 record, faults>>

-----------------------------------------------------------------------------
(***************************************************************************)
(* Finalization                                                            *)
(***************************************************************************)

\* Final state, projection and events are read before the child closes.
ReadScenario ==
  /\ at = "ran"
  /\ CloseScenario
  /\ Goto("flush")
  /\ UNCHANGED <<processVars, exposure, ledger, stages, session, facts, interrupted,
                 hooked, guard, signals, clock, status, record, faults>>

\* Mutant: a chain that is still running counts as flushed.
NotAwaited == TRUE

Drained == stages.chain = << >>
Kept == ~session.owed

\* stages.flush() and session.flush(), then the report; a failed chain throws.
FlushAndReport ==
  /\ at = "flush" /\ Drained /\ Kept
  /\ IF stages.failed \/ session.failed
     THEN Goto("threw") /\ UNCHANGED stages
     ELSE /\ \E report \in {"none", "text", "valid"} :
               LET present == OfferIf(stages, report # "none", "report_present")
                   valid == OfferIf(present, report = "valid", "report_valid")
               IN  stages' = Offer(valid, "finalization_started")
          /\ Goto("reported")
  /\ UNCHANGED <<processVars, scenario, exposure, ledger, session, facts,
                 interrupted, hooked, guard, signals, clock, status, record, faults>>

FlushAgain ==
  /\ at = "reported" /\ Drained
  /\ IF stages.failed THEN Goto("threw") ELSE Goto("conclude")
  /\ UNCHANGED <<processVars, scenario, exposure, ledger, stages, session, facts,
                 interrupted, hooked, guard, signals, clock, status, record, faults>>

FailureFact(exchangesLost) ==
  IF exchangesLost \/ status = "spawn_failed" THEN "infrastructure"
  ELSE IF status = "provider_failed" THEN "provider" ELSE "none"

\* The artifacts, the evaluation and the disposition; evidence_finalized is
\* recorded with it. What damage the trace or the workspace took is input.
Conclude ==
  /\ at = "conclude"
  /\ \E exchangesLost \in BOOLEAN, damaged \in {{}, {"api_trace"}, {"surface"}} :
       /\ exchangesLost => damaged = {"api_trace"}
       /\ LET requirements ==
                [id \in {"api_trace", "lifecycle_ledger", "surface",
                         "session_events", "final_state"} |->
                   IF id \in damaged THEN "corrupt" ELSE "ok"]
              disposition ==
                classifyDisposition(
                  [stages |-> ToSet(ledger), operatorAt |-> signals.operator,
                   timeoutAt |-> signals.timeout, budgetAt |-> Never,
                   invalidSetup |-> FALSE, failure |-> FailureFact(exchangesLost),
                   exit |-> result.exit, notStarted |-> FALSE])
          IN  record' =
                [disposition |-> "classified", pending |-> disposition,
                 integrity |-> evidenceIntegrityOf(requirements),
                 censor |-> classifyCensorClass(
                    disposition,
                    "participant_control_started" \in ToSet(ledger),
                    requirements)]
  /\ ledger' = Append(ledger, "evidence_finalized")
  /\ Goto("manifest")
  /\ UNCHANGED <<processVars, scenario, exposure, stages, session, facts,
                 interrupted, hooked, guard, signals, clock, status, faults>>

\* A write of an artifact, of the last stage, of the manifest or of the
\* terminal record that fails is thrown.
WriteThrows ==
  /\ at \in {"conclude", "manifest"}
  /\ Fault /\ Goto("threw")
  /\ record' = NoRecord
  /\ UNCHANGED <<processVars, scenario, exposure, ledger, stages, session, facts,
                 interrupted, hooked, guard, signals, clock, status>>

WriteRecord ==
  /\ at = "manifest"
  /\ record' = [disposition |-> record.pending, censor |-> record.censor,
                integrity |-> record.integrity]
  /\ Goto("done")
  /\ UNCHANGED <<processVars, scenario, exposure, ledger, stages, session, facts,
                 interrupted, hooked, guard, signals, clock, status, faults>>

-----------------------------------------------------------------------------
Runner ==
  \/ OpenScenario \/ SetupStarts \/ SetupFinishes \/ OpenSession
  \/ StartAgent \/ Hear \/ AgentReturns \/ ReadScenario \/ FlushAndReport
  \/ FlushAgain \/ Conclude \/ WriteRecord \/ AppendStage \/ AppendSession
  \/ GuardFires

TrialNext == Runner \/ PrepareThrows \/ WriteThrows \/ Tick \/ ProcessSteps
             \/ OperatorInterrupts

\* Every await of the runner resolves and every callback that is due runs; the
\* participant, the operator and the disk owe nothing. No step is ever undone,
\* so that something due is always taken next is all the fairness needed.
TrialFairness ==
  WF_trialVars(Runner \/ (at = "running" /\ Due /\ UNCHANGED trialOwn))

TrialSpec == TrialInit /\ [][TrialNext]_trialVars /\ TrialFairness

-----------------------------------------------------------------------------
(***************************************************************************)
(* Properties                                                              *)
(***************************************************************************)

\* Whatever route a trial ends by, its port, its behavior child, its timer
\* and its operator listener are gone ("on every exit route", trial.ts).
Released ==
  Ended => /\ exposure # "open" /\ scenario # "open"
           /\ ~guard /\ ~hooked

\* The ledger is closed by evidence_finalized: no callback that is still
\* queued, no late signal, adds a stage after it.
LedgerCloses ==
  [][("evidence_finalized" \in ToSet(ledger)) => ledger' = ledger]_trialVars

\* An operator signal that decides a disposition is in the ledger, and every
\* event the agent reported is in the session file, before the record says so.
RecordBacked ==
  at = "done" /\ record.disposition # "invalid_setup" =>
    /\ signals.operator # Never => OperatorStage \in ToSet(ledger)
    /\ ~session.owed /\ ~session.failed /\ ~stages.failed
    /\ Last(ledger) = "evidence_finalized"

\* A trial counts as completed only when the agent said its turn completed,
\* left with code zero, and neither a limit nor the operator stopped it.
CompletedIsEarned ==
  at = "done" /\ record.disposition = "completed" =>
    /\ "turn.completed" \in ToSet(heard)
    /\ result.exit = "zero" /\ ~result.spawnError
    /\ signals.timeout = Never /\ signals.operator = Never

\* The limit outranks a late answer: a guard that fired before the agent
\* returned makes the trial timed out, unless the operator was strictly first.
LimitOutranks ==
  at = "done" /\ signals.timeout # Never =>
    record.disposition =
      IF signals.operator # Never /\ signals.operator < signals.timeout
      THEN "operator_interrupted" ELSE "timed_out"

\* The disposition of a trial is one its own facts support, and the files of
\* the trial hold those facts.
VerdictIsEarned ==
  TrialTypeOK /\ CompletedIsEarned /\ LimitOutranks /\ RecordBacked

\* A started trial ends.
TrialEnds == at # "start" ~> Ended

(***************************************************************************)
(* Claims of the repository that the code does not keep                    *)
(***************************************************************************)

\* SPEC.md: "record participant_spawned only after successful process/session
\* creation".
SpawnedMeansSpawned ==
  "participant_spawned" \in ToSet(ledger) /\ result # NoResult => ~result.spawnError
=============================================================================
