------------------------------- MODULE StudyRun -------------------------------
(***************************************************************************)
(* executeStudyRun() of packages/study/src/run.ts: the primaries of a      *)
(* schedule one after the other, the held slots the frozen policy          *)
(* activates, what aborts a study, and its completion record. The trials   *)
(* end as they like; a clock that yields no time stamp is a fault.         *)
(***************************************************************************)
EXTENDS AssignmentLedger

CONSTANTS
  Policies,     \* the replacement policies a plan may freeze
  Outcomes,     \* TrialOutcome: [disposition, integrity, wide, control, passed]
  ClockFaults   \* bound of readings of the clock that are no time stamp

\* A frozen plan that activates nothing has no ceiling to reach.
ASSUME StudyAssumption ==
  /\ Absent \notin {"executor_failed", "batch_wide_launcher_defect",
                    "operator_interrupted", "harness_aborted", "corrupt", "missing"}
  /\ \A p \in Policies :
       /\ p.timing \in {"immediate_after_terminal", "after_primary_schedule"}
       /\ p.ceiling \in Nat
       /\ p.kind = "held-same-cell" \/ p.ceiling = 0

VARIABLES
  policy,       \* plan.policy
  loop,         \* the first loop launches primaries, the second activates
  phase,        \* what the loop does next
  turn,         \* the primary it is at
  current,      \* the assignment that runs, or Absent
  launchOrder,  \* launches so far
  abortReason,
  badReadings,  \* readings of the clock that were no time stamp
  declined,     \* primaries whose activation the clock refused (history)
  evidence,     \* what each launched trial proves, once it ended (history)
  completed     \* the completion record, or Absent

studyVars == <<log, policy, loop, phase, turn, current, launchOrder,
               abortReason, badReadings, declined, evidence, completed>>
order == PrimaryOrder

NoEvidence == [a \in {} |-> Absent]

StudyInit ==
  /\ LedgerInit
  /\ policy \in Policies
  /\ loop = 1 /\ phase = "plan" /\ turn = 1 /\ current = Absent
  /\ launchOrder = 0 /\ abortReason = Absent
  /\ badReadings = 0 /\ declined = {}
  /\ evidence = NoEvidence /\ completed = Absent

AtPrimary == turn <= Len(order)

Plain(a, kind) ==
  [assignment |-> a, kind |-> kind, target |-> Absent, block |-> Absent,
   order |-> Absent, disposition |-> Absent, integrity |-> Absent]

\* append() at a good reading of the clock, and at a bad one.
Appended(d) == AppendAssignmentEvent(d) /\ UNCHANGED badReadings
Refused ==
  /\ badReadings < ClockFaults
  /\ badReadings' = badReadings + 1
  /\ UNCHANGED log

\* continue, and break: where the running loop goes, and why it aborts.
Continue(reason) ==
  /\ turn' = turn + 1 /\ current' = Absent
  /\ phase' = IF loop = 1 THEN "plan" ELSE "activate"
  /\ abortReason' = reason
  /\ UNCHANGED loop
Break(reason) ==
  /\ turn' = Len(order) + 1 /\ current' = Absent
  /\ phase' = IF loop = 1 THEN "plan" ELSE "activate"
  /\ abortReason' = reason
  /\ UNCHANGED loop

-----------------------------------------------------------------------------
\* planned, which a study that was aborted follows with not_started.
PlanPrimary ==
  /\ loop = 1 /\ phase = "plan" /\ AtPrimary
  /\ \/ /\ Appended(Plain(order[turn], "planned"))
        /\ phase' = IF abortReason = Absent THEN "launch" ELSE "skip"
        /\ current' = order[turn]
        /\ UNCHANGED <<loop, turn, abortReason>>
     \/ Refused /\ Break(abortReason)
  /\ UNCHANGED <<policy, launchOrder, declined, evidence, completed>>

SkipPrimary ==
  /\ phase = "skip"
  /\ Appended(Plain(current, "not_started")) \/ Refused
  /\ Continue(abortReason)
  /\ UNCHANGED <<policy, launchOrder, declined, evidence, completed>>

\* What a run that was refused an event leaves: a primary ends its loop, a
\* replacement aborts the study.
Invalid ==
  IF current \in Primaries THEN Break(abortReason)
  ELSE IF loop = 1 THEN Continue("executor_failed") ELSE Break("executor_failed")

LaunchDraft == [Plain(current, "launched") EXCEPT !.order = launchOrder]

CountLaunch == launchOrder + 1

\* runAssignment(), up to the call of the executor.
Launch ==
  /\ phase = "launch"
  /\ \/ /\ Appended(LaunchDraft)
        /\ launchOrder' = CountLaunch
        /\ phase' = "running"
        /\ UNCHANGED <<loop, turn, current, abortReason>>
     \/ Refused /\ Invalid /\ UNCHANGED launchOrder
  /\ UNCHANGED <<policy, declined, evidence, completed>>

\* abortReasonOf().
abortReasonOf(o) ==
  IF o.wide THEN "batch_wide_launcher_defect"
  ELSE IF o.disposition \in {"operator_interrupted", "harness_aborted"}
  THEN o.disposition ELSE Absent

TerminalDraft(o) ==
  [Plain(current, "terminal") EXCEPT
     !.disposition = o.disposition, !.integrity = o.integrity]

\* Only the outcome of a primary is asked for a reason to abort.
AfterTrial(o) ==
  IF current \in Held THEN Continue(abortReason)
  ELSE IF abortReasonOf(o) = Absent /\ policy.timing = "immediate_after_terminal"
  THEN phase' = "activate" /\ UNCHANGED <<loop, turn, current, abortReason>>
  ELSE Continue(abortReasonOf(o))

\* runAssignment() after the executor answered.
TrialEnds(o) ==
  /\ phase = "running"
  /\ \/ Appended(TerminalDraft(o)) /\ AfterTrial(o)
     \/ Refused /\ Invalid
  /\ evidence' = [a \in DOMAIN evidence \cup {current} |->
                    IF a = current THEN o ELSE evidence[a]]
  /\ UNCHANGED <<policy, launchOrder, declined, completed>>

\* What a trial proves whose executor threw: nothing that was finalized.
Thrown(control) ==
  [disposition |-> "harness_aborted", integrity |-> "missing", wide |-> FALSE,
   control |-> control, passed |-> FALSE]

\* runAssignment() when the executor threw. The terminal event carries no
\* integrity, and the run is aborted whether it was recorded or not.
TrialThrows ==
  /\ phase = "running"
  /\ \/ Appended([Plain(current, "terminal") EXCEPT !.disposition = "harness_aborted"])
     \/ Refused
  /\ IF loop = 1 THEN Continue("executor_failed") ELSE Break("executor_failed")
  /\ \E control \in BOOLEAN :
       evidence' = [a \in DOMAIN evidence \cup {current} |->
                      IF a = current THEN Thrown(control) ELSE evidence[a]]
  /\ UNCHANGED <<policy, launchOrder, declined, completed>>

-----------------------------------------------------------------------------
\* tryActivate() is asked for a primary with a terminal fact.
Answerable ==
  /\ Has(log, order[turn], "terminal")
  /\ Replaceable(log, policy, order[turn])

Activate ==
  /\ phase = "activate" /\ AtPrimary /\ Answerable
  /\ \/ /\ Appended(Activation(log, order[turn]))
        /\ current' = Chosen(log, Schedule[order[turn]].cell)
        /\ phase' = "launch"
        /\ UNCHANGED <<loop, turn, abortReason, declined>>
     \/ /\ Refused
        /\ declined' = declined \cup {order[turn]}
        /\ Continue(abortReason)
  /\ UNCHANGED <<policy, launchOrder, evidence, completed>>

Decline ==
  /\ phase = "activate" /\ AtPrimary /\ ~Answerable
  /\ Continue(abortReason)
  /\ UNCHANGED <<log, policy, launchOrder, badReadings, declined, evidence, completed>>

\* The end of a loop: the second one follows the first when nothing aborted.
EndLoop ==
  /\ phase \in {"plan", "activate"} /\ ~AtPrimary
  /\ IF /\ loop = 1 /\ abortReason = Absent
        /\ policy.timing = "after_primary_schedule"
     THEN loop' = 2 /\ turn' = 1 /\ phase' = "activate"
     ELSE phase' = "derive" /\ UNCHANGED <<loop, turn>>
  /\ UNCHANGED <<log, policy, current, launchOrder, abortReason, badReadings,
                 declined, evidence, completed>>

-----------------------------------------------------------------------------
\* The terminal events that abort a study, by its own disposition.
Aborting == {i \in DOMAIN log :
  log[i].kind = "terminal"
  /\ log[i].disposition \in {"operator_interrupted", "harness_aborted"}}
FirstAborting == CHOOSE i \in Aborting : \A j \in Aborting : i <= j

Count(S) == Cardinality(S)

\* Mutant: only the loops' own reason makes a study aborted.
RecordByReason ==
  [status |-> IF abortReason # Absent THEN "aborted" ELSE "completed",
   reason |-> abortReason,
   activated |-> Count({i \in DOMAIN log : log[i].kind = "activated"}),
   heldUnused |-> Count(HeldUnused(log)),
   notStarted |-> Count({a \in Primaries : ~Has(log, a, "launched")})]

\* deriveStudyCompleted(), when every primary is settled.
CompletionRecord ==
  LET aborted == abortReason # Absent \/ Aborting # {}
  IN  [status |-> IF aborted THEN "aborted" ELSE "completed",
       reason |-> IF abortReason # Absent THEN abortReason
                  ELSE IF aborted THEN log[FirstAborting].disposition ELSE Absent,
       activated |-> Count({i \in DOMAIN log : log[i].kind = "activated"}),
       heldUnused |-> Count(HeldUnused(log)),
       notStarted |-> Count({a \in Primaries : ~Has(log, a, "launched")})]

Derive ==
  /\ phase = "derive"
  /\ phase' = "done"
  /\ \/ /\ completed' = IF primaryScheduleSettled(log) THEN CompletionRecord ELSE Absent
        /\ UNCHANGED badReadings
     \/ Refused /\ UNCHANGED completed
  /\ UNCHANGED <<log, policy, loop, turn, current, launchOrder, abortReason,
                 declined, evidence>>

StudyNext ==
  \/ PlanPrimary \/ SkipPrimary \/ Launch
  \/ \E o \in Outcomes : TrialEnds(o)
  \/ TrialThrows
  \/ Activate \/ Decline \/ EndLoop \/ Derive

StudySpec == StudyInit /\ [][StudyNext]_studyVars

-----------------------------------------------------------------------------
\* The index of the activation of a held slot, and what was known before it.
ActivationOf(h) == CHOOSE i \in DOMAIN log :
  log[i].assignment = h /\ log[i].kind = "activated"
Before(i) == SubSeq(log, 1, i - 1)

\* A replacement has a cause the frozen policy names, is of the cell of what it
\* replaces and the lowest reserve left, comes at the time the policy says,
\* and never beyond the ceiling (events.ts activateHeldSlot). A study that was
\* completed without an abort left no primary that was owed one.
LawfulReplacements ==
  /\ \A h \in Held : Has(log, h, "activated") =>
       LET i == ActivationOf(h)
           p == log[i].target
           cell == Schedule[h].cell
       IN  /\ Has(Before(i), p, "terminal")
           /\ policyMatches(policy, evidence[p].disposition, evidence[p].integrity)
           /\ Schedule[p].cell = cell
           /\ \A o \in Held :
                Schedule[o].cell = cell /\ Schedule[o].reserve < Schedule[h].reserve =>
                  Has(Before(i), o, "activated")
           /\ Count(Activated(log, cell)) <= policy.ceiling
           /\ IF policy.timing = "after_primary_schedule"
              THEN primaryScheduleSettled(Before(i))
              ELSE log[i - 1].assignment = p
  /\ phase = "done" /\ abortReason = Absent /\ completed # Absent =>
       \A p \in Primaries :
         \/ ~policyMatches(policy, evidence[p].disposition, evidence[p].integrity)
         \/ \E i \in DOMAIN log : log[i].kind = "activated" /\ log[i].target = p
         \/ p \in declined
         \/ Count(Activated(log, Schedule[p].cell)) >= policy.ceiling
         \/ HeldUnused(log) \cap {h \in Held : Schedule[h].cell = Schedule[p].cell} = {}

\* The same of a study that launched a trial, whose ledger nobody else writes.
ReplacementsAreLawful == launchOrder > 0 => LawfulReplacements

\* The completion record tells what happened: every assignment is counted once,
\* nothing was running, a completed study launched every primary to a terminal
\* fact and no trial of it ended in an operator's or the harness's abort, and
\* an aborted one names its first reason (run.ts deriveStudyCompleted).
CompletionIsTrue ==
  completed # Absent =>
    LET ran == {a \in Assignments : Has(log, a, "launched")}
    IN  /\ Count(ran) <= Count(Primaries) - completed.notStarted + completed.activated
        /\ completed.activated + completed.heldUnused = Count(Held)
        /\ completed.notStarted = Count({a \in Primaries : Has(log, a, "not_started")})
        /\ completed.status = "completed" =>
             /\ completed.notStarted = 0 /\ completed.reason = Absent
             /\ \A a \in ran :
                  /\ Has(log, a, "terminal")
                  /\ evidence[a].disposition \notin {"operator_interrupted", "harness_aborted"}
             /\ \A h \in Held : Has(log, h, "activated") => h \in ran
        /\ completed.status = "aborted" => completed.reason # Absent

\* No trial starts after one that stops the study: SPEC.md 1585
\* (operator_interruption: abort) and 3853 (a batch-wide defect fails fast).
AbortStops ==
  \A i, j \in DOMAIN log :
    /\ i < j /\ log[i].kind = "terminal" /\ log[j].kind = "launched"
    /\ log[i].assignment \in DOMAIN evidence
    =>
      abortReasonOf(evidence[log[i].assignment]) = Absent
=============================================================================
