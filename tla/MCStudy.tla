------------------------------- MODULE MCStudy -------------------------------
(* A study for TLC: every behavior executes one, or appends what it likes   *)
(* to a ledger, or only looks at the slots of one table of attempts. Next to *)
(* it, and without anything in common, the run of a corpus, and a batch that *)
(* seals its evidence.                                                      *)
EXTENDS StudyAnalysis, CorpusRun, BundleSeal

CONSTANT MaxEvents

VARIABLE part

vars == <<part, analysisVars, corpusVars, sealVars>>

\* Two cells in two blocks, with two reserves each; the blocks are in
\* different orders.
TwoByTwo == BuildSchedule({"a", "b"}, {1, 2}, {0, 1})
Keys == [p \in Primaries |-> IF p[2] = "a" THEN p[3] ELSE 3 - p[3]]
ScheduledNames == DOMAIN Schedule

EndsAs(disposition, integrity, wide, control, passed) ==
  [disposition |-> disposition, integrity |-> integrity, wide |-> wide,
   control |-> control, passed |-> passed]
SomeOutcomes ==
  {EndsAs("completed", "intact", FALSE, TRUE, TRUE),
   EndsAs("infrastructure_failed_pre_control", "missing", FALSE, FALSE, FALSE),
   EndsAs("infrastructure_failed_post_control", "corrupt", FALSE, TRUE, FALSE),
   EndsAs("operator_interrupted", "intact", FALSE, TRUE, FALSE)}
AbortingOutcomes ==
  {EndsAs("infrastructure_failed_pre_control", "missing", FALSE, FALSE, FALSE),
   EndsAs("infrastructure_failed_pre_control", "missing", TRUE, FALSE, FALSE),
   EndsAs("operator_interrupted", "intact", FALSE, TRUE, FALSE)}

\* The rules of the pilot plan in SPEC.md 1551.
Policy(timing, ceiling) ==
  [kind |-> "held-same-cell", timing |-> timing, ceiling |-> ceiling,
   rules |-> {[disposition |-> "infrastructure_failed_pre_control", integrities |-> {}],
              [disposition |-> "infrastructure_failed_post_control",
               integrities |-> {"corrupt", "missing"}]}]
SomePolicies ==
  {Policy("immediate_after_terminal", 2), Policy("after_primary_schedule", 1)}

\* What an arbitrary caller appends about two primaries of a cell and its
\* reserves, and about an assignment nobody scheduled.
P(block) == <<"primary", "a", block>>
H(reserve) == <<"held_replacement", "a", reserve>>
SomeDrafts ==
  [assignment : {P(1), P(2), H(0), H(1)}, kind : EventKinds \ {"activated"},
   target : {Absent}, block : {Absent}, order : {Absent, 1},
   disposition : {Absent}, integrity : {Absent}]
  \cup
  [assignment : {P(1), H(0), H(1)}, kind : {"activated"},
   target : {P(1), P(2), H(0), Absent}, block : {1, 2}, order : {Absent},
   disposition : {Absent}, integrity : {Absent}]

\* Three attempts at one or two assignments, originals or replacements.
Attempts(run) ==
  {[run |-> run, assignment |-> assignment, replaces |-> replaces,
    control |-> censor # "pre_control_nonparticipant", censor |-> censor,
    passed |-> FALSE] :
     assignment \in {1, 2}, replaces \in {1, 2, Absent},
     censor \in {"none", "instrumentation_censor", "pre_control_nonparticipant"}}
NoTable == {}
NoTables == {NoTable}
SomeTables ==
  NoTables \cup {{f, g, h} : f \in Attempts(1), g \in Attempts(2), h \in Attempts(3)}

\* Two cases of a corpus for any target and one for emulators only.
CaseStep(id, op, attempts, needs, binds) ==
  [id |-> id, op |-> op, attempts |-> attempts, waits |-> 1, needs |-> needs,
   binds |-> binds]
SomeCorpus ==
  <<[emulatorOnly |-> FALSE,
     main |-> <<CaseStep("create", "create", 0, {}, TRUE),
                CaseStep("read", "read", 2, {"create"}, FALSE)>>,
     cleanup |-> <<CaseStep("close", "update", 0, {"create"}, FALSE)>>],
    [emulatorOnly |-> FALSE,
     main |-> <<CaseStep("again", "create", 0, {}, FALSE)>>,
     cleanup |-> <<CaseStep("polled", "update", 2, {}, FALSE)>>],
    [emulatorOnly |-> TRUE,
     main |-> <<CaseStep("reset", "operator", 0, {}, TRUE)>>, cleanup |-> << >>]>>

Init ==
  /\ AnalysisInit /\ CorpusInit /\ SealInit
  /\ \/ part \in {"study", "ledger"} /\ table = NoTable
     \/ /\ part \in {"corpus", "bundle"} /\ table = NoTable
        /\ policy = Policy("after_primary_schedule", 1)
     \/ part = "slots" /\ policy = Policy("after_primary_schedule", 1)
  /\ part # "corpus" => targetId = "local" /\ permitted

Next ==
  /\ UNCHANGED <<part, table>>
  /\ \/ part = "corpus" /\ CorpusNext /\ UNCHANGED <<studyVars, sealVars>>
     \/ part = "bundle" /\ SealNext /\ UNCHANGED <<studyVars, corpusVars>>
     \/ part = "study" /\ StudyNext /\ UNCHANGED <<corpusVars, sealVars>>
     \/ /\ part = "ledger" /\ UNCHANGED <<corpusVars, sealVars>> /\ Len(log) < MaxEvents
        /\ \E d \in SomeDrafts : AppendAssignmentEvent(d)
        /\ UNCHANGED <<policy, loop, phase, turn, current, launchOrder, abortReason,
                       badReadings, declined, evidence, completed>>

Spec == Init /\ [][Next]_vars
==============================================================================
