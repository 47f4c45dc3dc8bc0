--------------------------- MODULE AssignmentLedger ---------------------------
(***************************************************************************)
(* The assignment ledger of a study run (packages/scheduler/src/events.ts) *)
(* over a frozen schedule (schedule.ts): which events an append accepts,   *)
(* which held slot an activation selects, and what is read off it.         *)
(* Time stamps, run names and batches are one Boolean of a draft.          *)
(***************************************************************************)
EXTENDS Naturals, Sequences, FiniteSets

CONSTANTS
  Schedule,   \* assignment -> [kind, cell, block, reserve]
  SortKey,    \* primary -> the place of its digest
  Names,      \* what a caller may name as an assignment
  Facts,      \* the dispositions and integrities of a trial
  Absent      \* null, or a member that was left out

VARIABLE log   \* the events, in order

Assignments == DOMAIN Schedule
Primaries == {a \in Assignments : Schedule[a].kind = "primary"}
Held == {a \in Assignments : Schedule[a].kind = "held_replacement"}

ASSUME ScheduleAssumption ==
  /\ Assignments \subseteq Names
  /\ Absent \notin Names \cup Nat
  /\ IsFiniteSet(Assignments)
  /\ \A a \in Assignments : Schedule[a].kind \in {"primary", "held_replacement"}
  /\ \A h \in Held : Schedule[h].reserve \in Nat

EventKinds == {"planned", "activated", "launched", "terminal", "not_started"}

\* A draft that carries every member, with the ones left out marked.
Draft ==
  [assignment : Names, kind : EventKinds, target : Names \cup {Absent},
   block : Nat \cup {Absent}, order : Nat \cup {Absent},
   disposition : Facts \cup {Absent}, integrity : Facts \cup {Absent}]

-----------------------------------------------------------------------------
\* buildAssignmentSchedule(): every block holds every cell once, every cell
\* has its reserves.
BuildSchedule(cells, blocks, reserves) ==
  [a \in ({"primary"} \X cells \X blocks)
           \cup ({"held_replacement"} \X cells \X reserves) |->
     [kind |-> a[1], cell |-> a[2],
      block |-> IF a[1] = "primary" THEN a[3] ELSE Absent,
      reserve |-> IF a[1] = "primary" THEN Absent ELSE a[3]]]

\* Block after block, by the sort keys within.
InOrder(order) ==
  \A i, j \in DOMAIN order : i < j =>
    \/ Schedule[order[i]].block < Schedule[order[j]].block
    \/ /\ Schedule[order[i]].block = Schedule[order[j]].block
       /\ SortKey[order[i]] < SortKey[order[j]]

\* The order of the primaries.
Orders == [1 .. Cardinality(Primaries) -> Primaries]
PrimaryOrder == CHOOSE order \in Orders : InOrder(order)

\* The sort keys of a block are distinct numbers, so that there is an order.
ASSUME OrderAssumption ==
  /\ \A a \in Primaries : Schedule[a].block \in Nat /\ SortKey[a] \in Nat
  /\ \E order \in Orders : InOrder(order)

-----------------------------------------------------------------------------
\* indexLedger().
Has(l, a, kind) ==
  \E i \in DOMAIN l : l[i].assignment = a /\ l[i].kind = kind
Touched(l, a) == \E i \in DOMAIN l : l[i].assignment = a
Replaced(l, a) == \E i \in DOMAIN l : l[i].target = a
Settled(l, a) == Has(l, a, "terminal") \/ Has(l, a, "not_started")
Launches(l) == {i \in DOMAIN l : l[i].kind = "launched"}

primaryScheduleSettled(l) == \A a \in Primaries : Settled(l, a)

\* checkStageOrder().
StageAllowed(l, d) ==
  LET kind == Schedule[d.assignment].kind
      scheduled == Has(l, d.assignment, "planned") \/ Has(l, d.assignment, "activated")
  IN  CASE d.kind = "planned" -> kind = "primary" /\ ~Touched(l, d.assignment)
        [] d.kind = "activated" ->
             kind = "held_replacement" /\ ~Touched(l, d.assignment)
        [] d.kind = "launched" -> scheduled /\ ~Settled(l, d.assignment)
        [] d.kind = "terminal" -> Has(l, d.assignment, "launched")
        [] d.kind = "not_started" ->
             /\ scheduled
             /\ ~Has(l, d.assignment, "launched")
             /\ ~Has(l, d.assignment, "terminal")

\* checkActivation(): a primary of the schedule that nothing replaces yet, in
\* its block.
ActivationAllowed(l, d) ==
  /\ d.target \in Primaries
  /\ ~Replaced(l, d.target)
  /\ d.block = Schedule[d.target].block

\* The launch order a draft asks for, the number of launches by default.
OrderOf(l, d) ==
  IF d.order = Absent THEN Cardinality(Launches(l)) ELSE d.order

\* Mutant: the order of launches is not compared.
AnyOrder(l, d) == TRUE

\* Every event is compared, also those that record no order.
FollowsLaunches(l, d) == \A i \in Launches(l) : l[i].order < OrderOf(l, d)

\* appendAssignmentEvent().
Accepts(l, d) ==
  /\ d.assignment \in Assignments
  /\ ~Has(l, d.assignment, d.kind)
  /\ StageAllowed(l, d)
  /\ d.kind = "activated" => ActivationAllowed(l, d)
  /\ FollowsLaunches(l, d)

\* The event of a draft: only a launch records its order.
Recorded(l, d) ==
  [d EXCEPT !.order = IF d.kind = "launched" THEN OrderOf(l, d) ELSE Absent]

AppendAssignmentEvent(d) ==
  /\ Accepts(log, d)
  /\ log' = Append(log, Recorded(log, d))

-----------------------------------------------------------------------------
\* policyMatches(): by the disposition of a rule, or by an integrity it names.
policyMatches(policy, disposition, integrity) ==
  \E rule \in policy.rules :
    \/ rule.disposition = disposition
    \/ integrity \in {"corrupt", "missing"} /\ integrity \in rule.integrities

\* The terminal fact of an assignment, wherever it is.
TerminalOf(l, a) ==
  CHOOSE i \in DOMAIN l : l[i].assignment = a /\ l[i].kind = "terminal"

\* checkActivationTiming().
TimingAllows(l, policy, a) ==
  IF policy.timing = "after_primary_schedule"
  THEN primaryScheduleSettled(l)
  ELSE Len(l) = TerminalOf(l, a)

Activated(l, cell) ==
  {h \in Held : Schedule[h].cell = cell /\ Has(l, h, "activated")}

\* Mutant: any cell's reserve will do.
AnyReserve(l, cell) == {h \in Held : ~Has(l, h, "activated")}

Reserves(l, cell) ==
  {h \in Held : Schedule[h].cell = cell /\ ~Has(l, h, "activated")}

\* activateHeldSlot(), up to the choice: the failed primary has one terminal
\* fact that the policy answers, at this time, and its cell has capacity.
Replaceable(l, policy, a) ==
  LET failed == l[TerminalOf(l, a)]
      cell == Schedule[a].cell
  IN  /\ ~Replaced(l, a)
      /\ policyMatches(policy, failed.disposition, failed.integrity)
      /\ policy.kind = "held-same-cell"
      /\ TimingAllows(l, policy, a)
      /\ Cardinality(Activated(l, cell)) < policy.ceiling
      /\ Reserves(l, cell) # {}

\* The choice: the lowest reserve.
Chosen(l, cell) ==
  CHOOSE h \in Reserves(l, cell) :
    \A o \in Reserves(l, cell) : Schedule[h].reserve <= Schedule[o].reserve

Activation(l, a) ==
  [assignment |-> Chosen(l, Schedule[a].cell), kind |-> "activated",
   target |-> a, block |-> Schedule[a].block, order |-> Absent,
   disposition |-> Absent, integrity |-> l[TerminalOf(l, a)].integrity]

-----------------------------------------------------------------------------
\* heldUnusedAssignments().
HeldUnused(l) == {h \in Held : ~Has(l, h, "activated")}

\* blockCompletion(): the primaries whose block stays open, because neither
\* their own fact nor that of their replacement is kept as an outcome.
Keeps(l, policy, a) ==
  /\ Has(l, a, "terminal")
  /\ LET fact == l[TerminalOf(l, a)]
     IN  ~policyMatches(policy, fact.disposition, fact.integrity)
ReplacementOf(l, a) ==
  {h \in Held : \E i \in DOMAIN l :
     l[i].assignment = h /\ l[i].kind = "activated" /\ l[i].target = a}
Missing(l, policy) ==
  {a \in Primaries :
     ~\E x \in {a} \cup ReplacementOf(l, a) : Keeps(l, policy, x)}
IncompleteBlocks(l, policy) == {Schedule[a].block : a \in Missing(l, policy)}

-----------------------------------------------------------------------------
\* Any caller may append what is accepted, one event at a time.
LedgerInit == log = <<>>
LedgerStep == \E d \in Draft : AppendAssignmentEvent(d)
LedgerSpec == LedgerInit /\ [][LedgerStep]_log

\* No assignment has two events of one kind.
OneOfEachKind(l) ==
  \A i, j \in DOMAIN l :
    l[i].assignment = l[j].assignment /\ l[i].kind = l[j].kind => i = j

\* What comes before what: a fact about a trial follows its launch, a launch
\* or a refusal follows the schedule, and nothing is both launched and not
\* started.
StagesInOrder(l) ==
  \A i \in DOMAIN l :
    LET a == l[i].assignment
        Before(kind) ==
          \E j \in DOMAIN l : j < i /\ l[j].assignment = a /\ l[j].kind = kind
    IN  /\ l[i].kind = "planned" => a \in Primaries
        /\ l[i].kind = "activated" => a \in Held
        /\ l[i].kind = "terminal" => Before("launched")
        /\ l[i].kind \in {"launched", "not_started"} =>
             Before("planned") \/ Before("activated")
        /\ l[i].kind = "launched" => ~Has(l, a, "not_started")

\* One held slot answers one primary, in its block, and no primary is
\* answered twice.
OneReplacementEach(l) ==
  \A i \in DOMAIN l : l[i].kind = "activated" =>
    /\ l[i].target \in Primaries
    /\ l[i].block = Schedule[l[i].target].block
    /\ \A j \in DOMAIN l :
         l[j].kind = "activated" /\ l[j].target = l[i].target => i = j

\* Launches are ordered as they happened.
LaunchesInOrder(l) ==
  \A i, j \in Launches(l) : i < j => l[i].order < l[j].order

\* Whoever appends, in whatever order: at most one event of each kind, stages
\* in order, one replacement each, launches in order (events.ts
\* appendAssignmentEvent).
LedgerIsLawful ==
  /\ \A i \in DOMAIN log : log[i].assignment \in Assignments
  /\ OneOfEachKind(log)
  /\ StagesInOrder(log)
  /\ OneReplacementEach(log)
  /\ LaunchesInOrder(log)
=============================================================================
