---------------------------- MODULE StudyAnalysis ----------------------------
(***************************************************************************)
(* From attempts to analysis slots (packages/report/src/aggregate.ts) and  *)
(* from slots to a contrast of two cells (packages/study/src/analyze.ts).  *)
(* An attempt is [run, assignment, replaces, control, censor, passed]; run *)
(* and assignment are numbers, in the order of the identifiers.            *)
(***************************************************************************)
EXTENDS StudyRun

CONSTANT Tables   \* the tables of attempts a report resolves

\* A table is finite, and no two attempts are one run.
ASSUME TableAssumption ==
  \A facts \in Tables :
    /\ IsFiniteSet(facts)
    /\ \A f \in facts :
         f.run \in Nat /\ f.assignment \in Nat /\ f.replaces \in Nat \cup {Absent}
    /\ \A f, g \in facts : f.run = g.run => f = g

VARIABLE table    \* the attempts of a report, of this study or of others

analysisVars == <<studyVars, table>>

\* censorClassFor().
censorClassFor(disposition, control, integrity) ==
  IF control /\ disposition = "operator_interrupted" THEN "administrative_censor"
  ELSE IF control /\ integrity # "intact" THEN "instrumentation_censor"
  ELSE IF ~control THEN "pre_control_nonparticipant" ELSE "none"

\* eligibleForSlot.
Eligible(f) == f.control /\ f.censor = "none"
Censored(f) == f.censor \in {"administrative_censor", "instrumentation_censor"}
Original(f) == f.replaces = Absent

\* Mutant: attempts are taken by their runs alone.
byRun(f, g) == f.run < g.run

\* compareAttempts(): originals, then by assignment, then by run.
compareAttempts(f, g) ==
  IF Original(f) # Original(g) THEN Original(f)
  ELSE IF f.assignment # g.assignment THEN f.assignment < g.assignment
  ELSE f.run < g.run

RootOf(f) == IF Original(f) THEN f.assignment ELSE f.replaces
Chain(facts, root) == {f \in facts : RootOf(f) = root}
Siblings(facts, root) == {f \in Chain(facts, root) : Original(f)}

\* Attempts in their order: the first of some, and one with those before it.
FirstOf(attempts) ==
  CHOOSE f \in attempts : \A g \in attempts : f = g \/ compareAttempts(f, g)
UpTo(attempts, f) == {g \in attempts : f = g \/ compareAttempts(g, f)}

\* The attempts of a slot: the chain of a root, or, when several primaries
\* share it, each of them, the replacements with the first.
SlotAttempts(facts) ==
  {Chain(facts, root) :
     root \in {r \in {RootOf(f) : f \in facts} : Cardinality(Siblings(facts, r)) <= 1}}
  \cup
  {IF \A g \in Siblings(facts, RootOf(f)) : g.run >= f.run
   THEN {f} \cup {g \in Chain(facts, RootOf(f)) : ~Original(g)} ELSE {f} :
     f \in {f \in facts : Original(f) /\ Cardinality(Siblings(facts, RootOf(f))) > 1}}

\* The first eligible attempt supplies the slot; a censor up to it makes the
\* slot a worst-case failure.
Resolve(attempts) ==
  LET able == {f \in attempts : Eligible(f)}
      chain == IF able = {} THEN attempts ELSE UpTo(attempts, FirstOf(able))
  IN  [root |-> RootOf(FirstOf(attempts)), attempts |-> attempts,
       resolved |-> able # {},
       supplier |-> IF able = {} THEN Absent ELSE FirstOf(able),
       worstCase |-> \E f \in chain : Censored(f)]

resolveSlots(facts) == {Resolve(s) : s \in SlotAttempts(facts)}

\* worstCaseSlotTally().
Resolved(slots) == {s \in slots : s.resolved}
Passed(slots) == {s \in Resolved(slots) : s.supplier.passed}
WorstSuccesses(slots) == {s \in Passed(slots) : ~s.worstCase}

-----------------------------------------------------------------------------
\* The attempts of a study: what its launched trials prove, replacements with
\* the primary they were activated for. Identifiers follow the schedule.
NumberOf(a) ==
  IF a \in Held THEN Len(order) + 1 ELSE CHOOSE i \in DOMAIN order : order[i] = a
TargetOf(a) ==
  IF a \in Held THEN NumberOf(log[ActivationOf(a)].target) ELSE Absent
FactOf(a) ==
  LET e == evidence[a]
  IN  [run |-> NumberOf(a), assignment |-> NumberOf(a), replaces |-> TargetOf(a),
       control |-> e.control, passed |-> e.passed,
       censor |-> censorClassFor(e.disposition, e.control, e.integrity)]

\* cellSlots(): the slots of one cell's trials.
CellSlots(cell) ==
  resolveSlots({FactOf(a) : a \in {a \in DOMAIN evidence : Schedule[a].cell = cell}})

\* The primaries of a cell whose slot was never resolved refuse their blocks.
UnresolvedIn(cell) ==
  {p \in Primaries : /\ Schedule[p].cell = cell
                     /\ NumberOf(p) \notin {s.root : s \in Resolved(CellSlots(cell))}}

\* Mutant: only the ledger refuses a block.
RefusedByLedger(cells) == IncompleteBlocks(log, policy)

RefusedBlocks(cells) ==
  IncompleteBlocks(log, policy)
    \cup UNION {{Schedule[p].block : p \in UnresolvedIn(c)} : c \in cells}

\* blocksOfCell().
BlocksOf(cells) == {Schedule[p].block : p \in {p \in Primaries : Schedule[p].cell \in cells}}

\* analyzeStudyRun(), for the contrast of two cells with pooled evidence.
Estimated(first, second) ==
  /\ BlocksOf({first, second}) \cap RefusedBlocks({first, second}) = {}
  /\ Resolved(CellSlots(first)) # {} /\ Resolved(CellSlots(second)) # {}

\* A study, and a table of attempts somebody reports on.
AnalysisInit == StudyInit /\ table \in Tables
AnalysisSpec == AnalysisInit /\ [][StudyNext /\ UNCHANGED table]_analysisVars

-----------------------------------------------------------------------------
\* A contrast that is estimated compares the same blocks on both sides: one
\* outcome for each primary, of its own trial or the one replacement that was
\* activated for it, with participant control and intact evidence, and every
\* such trial has its terminal fact in the ledger. What the worst case counts
\* as a success passed, too (analyze.ts analyzeStudyRun, aggregate.ts
\* resolveSlots, worstCaseSlotTally).
EstimatesAreBalanced ==
  phase = "done" =>
    \A first, second \in {Schedule[p].cell : p \in Primaries} :
      first # second /\ Estimated(first, second) =>
        \A cell \in {first, second} :
          LET own == {p \in Primaries : Schedule[p].cell = cell}
              slots == Resolved(CellSlots(cell))
          IN  /\ Cardinality(slots) = Cardinality(own)
              /\ {s.root : s \in slots} = {NumberOf(p) : p \in own}
              /\ WorstSuccesses(slots) \subseteq Passed(slots)
              /\ \A s \in slots :
                   /\ ~Censored(s.supplier) /\ s.supplier.control
                   /\ \E a \in DOMAIN evidence :
                        FactOf(a) = s.supplier /\ Has(log, a, "terminal")
                   /\ Cardinality(s.attempts) <= 2

\* Whatever the attempts: each is in one slot, a primary has a slot of its own
\* with at most the replacements of its assignment, the original supplies it
\* when it can, and the worst case counts a slot once: as no success when a
\* censor came before the outcome that supplies it (aggregate.ts 607).
SlotsPartition(facts) ==
  LET slots == resolveSlots(facts)
      originals == {f \in facts : Original(f)}
  IN  /\ \A f \in facts : Cardinality({s \in slots : f \in s.attempts}) = 1
      /\ \A s \in slots :
           /\ Cardinality(s.attempts \cap originals) <= 1
           /\ \A f, g \in s.attempts : RootOf(f) = RootOf(g)
           /\ \A f \in s.attempts \cap originals : Eligible(f) => s.supplier = f
           /\ s.resolved => Eligible(s.supplier)
           /\ ~s.resolved => \A f \in s.attempts : ~Eligible(f)
           /\ (\E f \in s.attempts \cap originals : Censored(f)) => s.worstCase

\* The slots of the table and the contrasts of the study are what they say.
EstimatesAreSound == SlotsPartition(table) /\ EstimatesAreBalanced
=============================================================================
