----------------------------- MODULE Disposition -----------------------------
(***************************************************************************)
(* The terminal classification of one trial: packages/runner/src/          *)
(* disposition.ts. Disposition, censor class and evidence integrity are    *)
(* functions of persisted facts, decided by the first rule that applies.   *)
(***************************************************************************)
EXTENDS Integers, Sequences, FiniteSets

Never == -1   \* a moment that did not come (null in the code)

Dispositions ==
  {"completed", "agent_incomplete", "agent_failed", "timed_out",
   "budget_exhausted", "operator_interrupted", "provider_failed_pre_control",
   "provider_failed_post_control", "infrastructure_failed_pre_control",
   "infrastructure_failed_post_control", "harness_aborted", "not_started",
   "invalid_setup"}

CensorClasses ==
  {"none", "pre_control_nonparticipant", "administrative_censor",
   "instrumentation_censor"}

Integrity == {"intact", "corrupt", "missing"}
Statuses == {"ok", "corrupt", "missing", "unavailable"}

\* The consequence of the first rule whose condition holds; the last applies
\* always.
FirstRule(rules) ==
  rules[CHOOSE i \in DOMAIN rules :
          rules[i][1] /\ \A j \in 1 .. i - 1 : ~rules[j][1]][2]

earliest(left, right) ==
  CASE left = Never -> right
    [] right = Never -> left
    [] OTHER -> IF left < right THEN left ELSE right

\* Mutant: only a signal is a failed exit.
failedBySignal(exit) == exit = "signal"

failedExit(exit) == exit \in {"nonzero", "signal"}

\* input: stages, operatorAt, timeoutAt, budgetAt, invalidSetup, failure
\* ("none", "provider", "infrastructure"), exit ("none", "zero", "nonzero",
\* "signal"), notStarted.
classifyDisposition(input) ==
  LET control == "participant_control_started" \in input.stages
      spawned == "participant_spawned" \in input.stages
      fired == earliest(input.timeoutAt, input.budgetAt)
      split(pre, post) == IF control THEN post ELSE pre
  IN  FirstRule(<<
        <<input.operatorAt # Never
            /\ (fired = Never \/ input.operatorAt < fired),
          "operator_interrupted">>,
        <<input.timeoutAt # Never, "timed_out">>,
        <<input.budgetAt # Never, "budget_exhausted">>,
        <<input.invalidSetup /\ ~spawned, "invalid_setup">>,
        <<input.failure = "provider",
          split("provider_failed_pre_control", "provider_failed_post_control")>>,
        <<input.failure = "infrastructure",
          split("infrastructure_failed_pre_control",
                "infrastructure_failed_post_control")>>,
        <<control /\ failedExit(input.exit), "agent_failed">>,
        <<"turn_completed" \in input.stages, "completed">>,
        <<spawned, "agent_incomplete">>,
        <<input.notStarted, "not_started">>,
        <<TRUE, "harness_aborted">> >>)

\* requirements: the status of each evidence requirement.
classifyCensorClass(disposition, controlStarted, requirements) ==
  FirstRule(<<
    <<~controlStarted, "pre_control_nonparticipant">>,
    <<disposition \in {"operator_interrupted", "harness_aborted"},
      "administrative_censor">>,
    <<\E id \in DOMAIN requirements : requirements[id] # "ok",
      "instrumentation_censor">>,
    <<TRUE, "none">> >>)

evidenceIntegrityOf(requirements) ==
  LET statuses == {requirements[id] : id \in DOMAIN requirements}
  IN  FirstRule(<< <<statuses \subseteq {"ok"}, "intact">>,
                   <<"corrupt" \in statuses, "corrupt">>,
                   <<TRUE, "missing">> >>)
=============================================================================
