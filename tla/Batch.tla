-------------------------------- MODULE Batch --------------------------------
(***************************************************************************)
(* One frozen batch: runBatch of packages/runner/src/run.ts. Lanes launch  *)
(* trials one after another, every launch and every end is appended to the *)
(* assignment ledger, and whatever stops the batch, each assignment must   *)
(* end with one terminal fact. A trial is what module Trial is to its      *)
(* caller: it returns an outcome or throws.                                *)
(***************************************************************************)
EXTENDS Naturals, Sequences, FiniteSets, SequencesExt, Disposition

CONSTANTS
  Count,         \* trials of the plan
  Parallel,      \* lanes
  TrialOutcomes, \* the outcomes a trial may return
  LedgerFaults   \* bound: ledger appends that may fail

ASSUME BatchAssumption ==
  Count \in Nat \ {0} /\ Parallel \in Nat \ {0} /\ LedgerFaults \in Nat

\* A trial that returns was started and spawned, so what it returns is neither
\* of the two outcomes the batch itself hands out (TrialReturnsAccepted,
\* RunnerProofs).
Accepted ==
  [disposition : Dispositions \ {"harness_aborted", "not_started"},
   censor : CensorClasses, integrity : Integrity, evaluated : BOOLEAN]

ASSUME OutcomesAssumption == TrialOutcomes \subseteq Accepted

Trials == 1 .. Count
Lanes == 1 .. (IF Parallel < Count THEN Parallel ELSE Count)

VARIABLES
  lane,      \* what each lane does: 0 between trials, a trial, Left
  nextIndex, \* the next trial to launch
  launched,  \* launchedIndices
  outcomes,  \* the outcome of each trial, or Unknown
  control,   \* trials whose ledger on disk shows that control started
  stop,      \* the operator's signal
  defect,    \* defect.code: "none", "batch_defect", "ledger_write_failed"
  assignments,    \* AssignmentLedger: chain of records owed, written, failed
  lfaults,   \* ledger faults left
  step,      \* "running", "joined", "recorded", "flushed", "completed"
  cohort     \* cohort-evaluation.json, once written

batchVars == <<lane, nextIndex, launched, outcomes, control, stop, defect, assignments,
               lfaults, step, cohort>>

Left == Count + 1
Unknown == [disposition |-> "unknown"]
Outcome(d, c, i, evaluated) ==
  [disposition |-> d, censor |-> c, integrity |-> i, evaluated |-> evaluated]
Event(kind, i, d, c) == [kind |-> kind, trial |-> i, disposition |-> d, censor |-> c]

BatchTypeOK ==
  /\ lane \in [Lanes -> 0 .. Left]
  /\ nextIndex \in 1 .. Count + 1
  /\ launched \subseteq Trials /\ control \subseteq Trials
  /\ \A i \in Trials : outcomes[i].disposition \in Dispositions \cup {"unknown"}
  /\ stop \in BOOLEAN
  /\ defect \in {"none", "batch_defect", "ledger_write_failed"}
  /\ lfaults \in 0 .. LedgerFaults
  /\ step \in {"running", "joined", "recorded", "flushed", "completed"}

BatchInit ==
  /\ lane = [l \in Lanes |-> 0]
  /\ nextIndex = 1
  /\ launched = {} /\ control = {}
  /\ outcomes = [i \in Trials |-> Unknown]
  /\ stop = FALSE /\ defect = "none"
  /\ assignments = [chain |-> << >>, written |-> << >>, failed |-> FALSE]
  /\ lfaults = LedgerFaults
  /\ step = "running"
  /\ cohort = Unknown

-----------------------------------------------------------------------------
Record(l, event) == [l EXCEPT !.chain = Append(@, event)]

\* The ledger's chain: a failed append is remembered, and the chain goes on.
AppendEvent ==
  /\ assignments.chain # << >>
  /\ \/ /\ assignments' = [assignments EXCEPT !.chain = Tail(@),
                                    !.written = Append(@, Head(assignments.chain))]
        /\ UNCHANGED lfaults
     \/ /\ lfaults > 0 /\ lfaults' = lfaults - 1
        /\ assignments' = [assignments EXCEPT !.chain = Tail(@), !.failed = TRUE]
  /\ UNCHANGED <<lane, nextIndex, launched, outcomes, control, stop, defect, step, cohort>>

Interrupt ==
  /\ ~stop /\ stop' = TRUE
  /\ UNCHANGED <<lane, nextIndex, launched, outcomes, control, defect, assignments, lfaults,
                 step, cohort>>

\* Mutant: a lane looks at the defect only.
HaltedByDefect == defect # "none" \/ nextIndex > Count

Halted == defect # "none" \/ stop \/ nextIndex > Count

\* One turn of a lane's loop.
Launch(l) ==
  /\ lane[l] = 0 /\ ~Halted
  /\ lane' = [lane EXCEPT ![l] = nextIndex]
  /\ nextIndex' = nextIndex + 1
  /\ launched' = launched \cup {nextIndex}
  /\ assignments' = Record(assignments, Event("launched", nextIndex, "unknown", "unknown"))
  /\ UNCHANGED <<outcomes, control, stop, defect, lfaults, step, cohort>>

LeaveLane(l) ==
  /\ lane[l] = 0 /\ Halted
  /\ lane' = [lane EXCEPT ![l] = Left]
  /\ UNCHANGED <<nextIndex, launched, outcomes, control, stop, defect, assignments, lfaults,
                 step, cohort>>

\* The trial's stage queue writes that the participant took control. A trial
\* that threw may still have that append in flight.
ControlLands(i) ==
  /\ i \in launched /\ outcomes[i] = Unknown /\ i \notin control
  /\ control' = control \cup {i}
  /\ UNCHANGED <<lane, nextIndex, launched, outcomes, stop, defect, assignments, lfaults,
                 step, cohort>>

TrialReturns(l, o) ==
  /\ lane[l] \in Trials
  /\ o.censor = "pre_control_nonparticipant" <=> lane[l] \notin control
  /\ o.disposition = "operator_interrupted" => stop
  /\ outcomes' = [outcomes EXCEPT ![lane[l]] = o]
  /\ assignments' = Record(assignments, Event("terminal", lane[l], o.disposition, o.censor))
  /\ lane' = [lane EXCEPT ![l] = 0]
  /\ UNCHANGED <<nextIndex, launched, control, stop, defect, lfaults, step, cohort>>

TrialThrows(l) ==
  /\ lane[l] \in Trials
  /\ defect' = "batch_defect"
  /\ lane' = [lane EXCEPT ![l] = 0]
  /\ UNCHANGED <<nextIndex, launched, outcomes, control, stop, assignments, lfaults, step,
                 cohort>>

Join ==
  /\ step = "running" /\ \A l \in Lanes : lane[l] = Left
  /\ step' = "joined"
  /\ UNCHANGED <<lane, nextIndex, launched, outcomes, control, stop, defect, assignments,
                 lfaults, cohort>>

\* abortedTrialOutcome: the first launched trial without an outcome gets the
\* one its ledger on disk supports.
Recovered(i) ==
  LET requirements == [id \in {"primary"} |-> "missing"]
  IN  Outcome("harness_aborted",
              classifyCensorClass("harness_aborted", i \in control, requirements),
              evidenceIntegrityOf(requirements), FALSE)

Open == {i \in launched : outcomes[i] = Unknown}

Recover ==
  /\ step = "joined" /\ Open # {}
  /\ LET i == CHOOSE x \in Open : \A y \in Open : x <= y
     IN  /\ outcomes' = [outcomes EXCEPT ![i] = Recovered(i)]
         /\ assignments' = Record(assignments, Event("terminal", i, Recovered(i).disposition,
                                           Recovered(i).censor))
  /\ UNCHANGED <<lane, nextIndex, launched, control, stop, defect, lfaults, step, cohort>>

\* Mutant: counted from the index after the next.
NotStartedBehindNext == {i \in Trials : i > nextIndex}

NotStarted == Trials \ launched

RecordNotStarted ==
  /\ step = "joined" /\ Open = {}
  /\ assignments' =
       [assignments EXCEPT !.chain = @ \o
          [n \in 1 .. Cardinality(NotStarted) |->
             Event("not_started", Cardinality(launched) + n, "not_started",
                   "pre_control_nonparticipant")]]
  /\ step' = "recorded"
  /\ UNCHANGED <<lane, nextIndex, launched, outcomes, control, stop, defect, lfaults,
                 cohort>>

Flush ==
  /\ step = "recorded" /\ assignments.chain = << >>
  /\ defect' = IF assignments.failed THEN "ledger_write_failed" ELSE defect
  /\ step' = "flushed"
  /\ UNCHANGED <<lane, nextIndex, launched, outcomes, control, stop, assignments, lfaults,
                 cohort>>

\* buildCohortEvaluation: what the batch says about its trials.
CountOf(P(_)) == Cardinality({i \in launched : P(outcomes[i])})

CohortEvaluation ==
  [primary |-> Count,
   launched |-> Cardinality(launched),
   notStarted |-> Cardinality(NotStarted),
   dispositions |->
     [d \in Dispositions |->
        LET in(o) == o.disposition = d
        IN  CountOf(in) + IF d = "not_started" THEN Cardinality(NotStarted) ELSE 0],
   integrity |-> [x \in Integrity |-> LET in(o) == o.integrity = x IN CountOf(in)],
   censors |-> [c \in CensorClasses |-> LET in(o) == o.censor = c IN CountOf(in)],
   evaluated |-> LET in(o) == o.evaluated IN CountOf(in),
   notEvaluated |-> (LET in(o) == ~o.evaluated IN CountOf(in))
                      + Cardinality(NotStarted)]

\* The cohort evaluation, the manifest and batch.completed.json.
Complete ==
  /\ step = "flushed"
  /\ cohort' = IF launched = {} THEN cohort ELSE CohortEvaluation
  /\ step' = "completed"
  /\ UNCHANGED <<lane, nextIndex, launched, outcomes, control, stop, defect, assignments, lfaults>>

BatchSteps ==
  \/ AppendEvent \/ Join \/ Recover \/ RecordNotStarted \/ Flush \/ Complete
  \/ \E l \in Lanes : Launch(l) \/ LeaveLane(l) \/ TrialThrows(l)
                      \/ \E o \in TrialOutcomes : TrialReturns(l, o)

BatchNext == BatchSteps \/ Interrupt \/ \E i \in Trials : ControlLands(i)

\* Every trial ends (TrialEnds of module Trial), and the batch goes on.
BatchSpec == BatchInit /\ [][BatchNext]_batchVars /\ WF_batchVars(BatchSteps)

-----------------------------------------------------------------------------
(***************************************************************************)
(* Properties                                                              *)
(***************************************************************************)

Records(kind, i) ==
  Cardinality({n \in DOMAIN assignments.written :
                 assignments.written[n].kind = kind /\ assignments.written[n].trial = i})

\* Every assignment of a completed batch has exactly one end in the ledger:
\* launched and terminal, or not started, never both; with a ledger that
\* failed, no end is doubled or contradicted.
OneEndEach ==
  step \in {"flushed", "completed"} =>
    \A i \in Trials :
      LET all == <<Records("launched", i), Records("terminal", i),
                   Records("not_started", i)>>
      IN  IF assignments.failed
          THEN /\ \A n \in 1 .. 3 : all[n] <= 1
               /\ all[3] = 1 => all[1] + all[2] = 0
          ELSE all \in {<<1, 1, 0>>, <<0, 0, 1>>}

\* What the batch returned and what its ledger says of a trial agree, and a
\* trial whose control is on disk is never reported as pre-control.
LedgerTellsOutcome ==
  /\ \A n \in DOMAIN assignments.written :
       assignments.written[n].kind = "terminal" =>
         LET o == outcomes[assignments.written[n].trial]
         IN  assignments.written[n].disposition = o.disposition
             /\ assignments.written[n].censor = o.censor
  /\ \A i \in Trials :
       outcomes[i] # Unknown /\ outcomes[i].censor # "pre_control_nonparticipant" =>
         i \in control

\* A trial that threw and a ledger that lost a record always surface.
DefectSurfaces ==
  step = "completed" =>
    /\ assignments.failed => defect = "ledger_write_failed"
    /\ (\E i \in Trials : outcomes[i].disposition = "harness_aborted") => defect # "none"

\* The cohort accounts for every assignment once in each breakdown.
Total(f) == FoldFunction(LAMBDA a, b : a + b, 0, f)
CohortAddsUp ==
  cohort # Unknown =>
    /\ cohort.launched + cohort.notStarted = cohort.primary
    /\ Total(cohort.dispositions) = cohort.primary
    /\ Total(cohort.integrity) = cohort.launched
    /\ Total(cohort.censors) = cohort.launched
    /\ cohort.evaluated + cohort.notEvaluated = cohort.primary

\* Nothing is launched once the operator or a defect stopped the batch.
NoLaunchAfterStop ==
  [][stop \/ defect # "none" => launched' = launched]_batchVars

\* Every assignment is accounted for once, in the ledger, in what the batch
\* returned and in its cohort, whatever stopped the batch.
BatchAccounts ==
  /\ BatchTypeOK
  /\ OneEndEach
  /\ LedgerTellsOutcome
  /\ DefectSurfaces
  /\ CohortAddsUp

\* The batch has finalized ("The batch always finalizes", run.ts).
BatchFinalized == step = "completed"
=============================================================================
