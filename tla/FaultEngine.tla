----------------------------- MODULE FaultEngine -----------------------------
(***************************************************************************)
(* The fault engine of a world (packages/environment/src/faults.ts) and    *)
(* the matching of its rules (packages/behavior-api/src/faults.ts): its    *)
(* position is held in memory and in the store, and a consumption moves    *)
(* the position and adds a row in one transaction, which may throw.        *)
(***************************************************************************)
EXTENDS Naturals, Sequences, FiniteSets

CONSTANTS
  Rules,            \* declared rules in order, see DeclaredRule
  Sample,           \* whether the draw at each stream position is low
  RuleOperations,   \* operations a request may name
  MaxEvaluations    \* bound of evaluated phases

\* The rules are a list.
ASSUME RulesAssumption == Rules \in Seq({Rules[i] : i \in DOMAIN Rules})

VARIABLES
  memory,      \* [counters, stream]: this.counters and this.prng
  durable,     \* the fault_state row
  advanced,    \* this.advanced
  consumed,    \* the fault_consumptions rows, in order
  struck,      \* history: faults the pipeline was told to apply
  round,       \* resets so far
  evaluations, \* evaluations so far
  resetting    \* the fault position a reset committed and not yet published

faultVars == <<memory, durable, advanced, consumed, struck, round, evaluations,
               resetting>>

Phases == {"before_behavior", "before_commit", "after_commit"}
RuleIds == {Rules[i].id : i \in DOMAIN Rules}

\* validateFaultRules(): what a rule of a started world looks like. gate is the
\* predicate and the window, as the inputs that pass them; wanted the occurrence
\* numbers, {} for any; chance whether it declares a probability.
DeclaredRule(r) ==
  /\ r.phase = "before_commit" => r.action = "corrupt_candidate"
  /\ r.phase = "after_commit" => r.action = "disconnect"
  /\ r.phase = "before_behavior" => r.action # "corrupt_candidate"
RulesValid ==
  /\ \A i \in DOMAIN Rules : DeclaredRule(Rules[i])
  /\ \A i, j \in DOMAIN Rules : Rules[i].id = Rules[j].id => i = j

Baseline == [counters |-> [r \in RuleIds |-> 0], stream |-> 1]
NoPosition == [counters |-> [r \in RuleIds |-> 0], stream |-> 0]

FaultInit ==
  /\ RulesValid
  /\ memory = Baseline
  /\ durable = Baseline
  /\ advanced = FALSE
  /\ consumed = <<>> /\ struck = {}
  /\ round = 0 /\ evaluations = 0
  /\ resetting = NoPosition

-----------------------------------------------------------------------------
\* The rules an evaluation may consider: of its phase and its operation.
Declared(phase, operation) ==
  {i \in DOMAIN Rules : Rules[i].phase = phase /\ Rules[i].operation = operation}

\* Rule i fires as the next occurrence of its own count.
Fires(i, low) ==
  /\ Rules[i].wanted # {} => memory.counters[Rules[i].id] + 1 \in Rules[i].wanted
  /\ Rules[i].chance => low

\* The first rule that fires, 0 when none does: it ends the evaluation.
FirstMatch(cs, low) ==
  IF \E i \in cs : Fires(i, low)
  THEN CHOOSE i \in cs : Fires(i, low) /\ \A j \in cs : Fires(j, low) => i <= j
  ELSE 0

\* matchFault() counts a candidate before its occurrence and its probability
\* are looked at, and never reaches the ones behind the rule that fires.
Counted(cs, first) == {i \in cs : first = 0 \/ i <= first}

\* A rule before the behavior only answers with a response: other actions are
\* consumed and recorded, and nothing is applied.
Applied == {Rules[i].id : i \in {j \in DOMAIN Rules :
              Rules[j].phase = "before_behavior" => Rules[j].action = "response"}}
Told(row) == {row[i] : i \in {j \in DOMAIN row : row[j].rule \in Applied}}

\* Mutant: the position is written in a transaction before the row.
PersistInTwo(position, row) ==
  \/ durable' = position /\ consumed' = consumed \o row /\ struck' = struck \cup Told(row)
  \/ consumed' = consumed \o row /\ UNCHANGED <<durable, struck>>

\* persist(): one transaction that takes everything or throws, and then
\* nothing is applied to the exchange.
Persist(position, row) ==
  \/ durable' = position /\ consumed' = consumed \o row /\ struck' = struck \cup Told(row)
  \/ UNCHANGED <<durable, consumed, struck>>

\* evaluate() for one phase of an exchange whose request and time meet the
\* predicates and windows of the rules cs.
Evaluate(phase, cs) ==
  LET draws == \E i \in DOMAIN Rules : Rules[i].phase = phase /\ Rules[i].chance
      low == draws /\ Sample[memory.stream]
      first == FirstMatch(cs, low)
      counted == Counted(cs, first)
      position == [counters |-> [r \in RuleIds |-> memory.counters[r] +
                                   Cardinality({i \in counted : Rules[i].id = r})],
                   stream |-> IF draws THEN memory.stream + 1 ELSE memory.stream]
      row == IF first = 0 THEN <<>>
             ELSE <<[rule |-> Rules[first].id, round |-> round,
                     occurrence |-> position.counters[Rules[first].id]]>>
  IN  /\ evaluations < MaxEvaluations
      /\ resetting = NoPosition
      /\ evaluations' = evaluations + 1
      /\ memory' = position
      /\ IF first # 0 \/ advanced \/ counted # {} \/ draws
         THEN advanced' = FALSE /\ Persist(position, row)
         ELSE UNCHANGED <<advanced, durable, consumed, struck>>
      /\ UNCHANGED <<round, resetting>>

\* The transaction of resetWorldEffect(), once here: it writes the baseline
\* position and the next generation, or throws and leaves both.
ResetStore(ok) ==
  /\ resetting = NoPosition /\ round = 0
  /\ durable' = IF ok THEN Baseline ELSE durable
  /\ resetting' = IF ok THEN Baseline ELSE NoPosition
  /\ round' = IF ok THEN round + 1 ELSE round
  /\ UNCHANGED <<memory, advanced, consumed, struck, evaluations>>

\* restorePosition(), in the same turn of the event loop.
PublishReset ==
  /\ resetting # NoPosition
  /\ memory' = resetting
  /\ advanced' = FALSE
  /\ resetting' = NoPosition
  /\ UNCHANGED <<durable, consumed, struck, round, evaluations>>

\* A checkpoint of this world is restored and goes on in its place: state() is
\* exported from memory, and the constructor of the new engine takes it over.
RestoreCheckpoint ==
  /\ resetting = NoPosition
  /\ memory' = memory
  /\ advanced' = FALSE
  /\ durable' = memory
  /\ UNCHANGED <<consumed, struck, round, evaluations, resetting>>

FaultNext ==
  \/ \E phase \in Phases, operation \in RuleOperations :
       \E cs \in SUBSET Declared(phase, operation) : Evaluate(phase, cs)
  \/ \E ok \in BOOLEAN : ResetStore(ok)
  \/ PublishReset \/ RestoreCheckpoint

FaultSpec == FaultInit /\ [][FaultNext]_faultVars

-----------------------------------------------------------------------------
\* A declared occurrence strikes once in a generation, also when the store
\* threw while it was consumed and when the world was checkpointed and restored
\* in between; a fault the pipeline can apply is applied exactly when its row is there, and the stored
\* position is never behind a row nor ahead of memory (faults.ts persist,
\* restorePosition: SPEC.md 48.6).
FaultsAreRecorded ==
  /\ \A i, j \in DOMAIN consumed : consumed[i] = consumed[j] => i = j
  /\ struck = Told(consumed)
  /\ \A i \in DOMAIN consumed : consumed[i].round = round =>
       /\ resetting = NoPosition
       /\ consumed[i].occurrence <= durable.counters[consumed[i].rule]
  /\ resetting = NoPosition =>
       \A r \in RuleIds : durable.counters[r] <= memory.counters[r]
=============================================================================
