---------------------------- MODULE LedgerProofs ----------------------------
(* Machine-checked proofs about the assignment ledger: whoever appends, and *)
(* in a study run in particular, for every schedule, policy and outcome;    *)
(* then about its completion record, its replacements and the estimates of  *)
(* its analysis.                                                            *)
EXTENDS StudyAnalysis, FiniteSetTheorems, WellFoundedInduction, TLAPS

\* The members every draft carries.
Members == {"assignment", "kind", "target", "block", "order", "disposition",
            "integrity"}

\* What is appended to: a sequence of anything, lawful so far.
IsLog(l) == \E S : l \in Seq(S)
Lawful == IsLog(log) /\ LedgerIsLawful

\* A draft has every member and one of the kinds.
IsDraft(d) == d = [m \in Members |-> d[m]] /\ d.kind \in EventKinds

\* The event of a draft keeps what the draft says of everything but the order.
LEMMA RecordedKeeps ==
  ASSUME NEW l, NEW d, IsDraft(d)
  PROVE  /\ Recorded(l, d).assignment = d.assignment
         /\ Recorded(l, d).kind = d.kind
         /\ Recorded(l, d).target = d.target
         /\ Recorded(l, d).block = d.block
         /\ d.kind = "launched" => Recorded(l, d).order = OrderOf(l, d)
  BY DEF Recorded, IsDraft, Members

\* What a longer log adds: one place, behind the others.
LEMMA Grows ==
  ASSUME NEW l, IsLog(l), NEW e
  PROVE  /\ IsLog(Append(l, e))
         /\ DOMAIN Append(l, e) = DOMAIN l \cup {Len(l) + 1}
         /\ Append(l, e)[Len(l) + 1] = e
         /\ \A i \in DOMAIN l :
              i \in Nat /\ i < Len(l) + 1 /\ Append(l, e)[i] = l[i]
<1>1. PICK S : l \in Seq(S)
  BY DEF IsLog
<1>2. l \in Seq(S \cup {e}) /\ e \in S \cup {e}
  BY <1>1
<1>3. Append(l, e) \in Seq(S \cup {e})
  BY <1>2
<1>4. /\ Len(l) \in Nat /\ DOMAIN l = 1 .. Len(l)
      /\ Len(Append(l, e)) = Len(l) + 1
      /\ DOMAIN Append(l, e) = 1 .. Len(l) + 1
      /\ \A i \in 1 .. Len(l) : Append(l, e)[i] = l[i]
      /\ Append(l, e)[Len(l) + 1] = e
  BY <1>2, <1>3
<1>5. 1 .. Len(l) + 1 = (1 .. Len(l)) \cup {Len(l) + 1}
  BY <1>4
<1> QED
  BY <1>3, <1>4, <1>5 DEF IsLog

-----------------------------------------------------------------------------
\* An accepted draft leaves the ledger lawful: each of its parts, in turn.
LEMMA AppendKeepsLawful ==
  ASSUME Lawful, NEW d, IsDraft(d), AppendAssignmentEvent(d)
  PROVE  Lawful'
<1> DEFINE e == Recorded(log, d)
           n == Len(log) + 1
<1>1. /\ e.assignment = d.assignment /\ e.kind = d.kind
      /\ e.target = d.target /\ e.block = d.block
      /\ d.kind = "launched" => e.order = OrderOf(log, d)
  BY RecordedKeeps
<1>2. /\ IsLog(log) /\ log' = Append(log, e) /\ Accepts(log, d)
      /\ d.kind \in EventKinds
  BY DEF AppendAssignmentEvent, Lawful, IsDraft
<1>3. /\ IsLog(log')
      /\ DOMAIN log' = DOMAIN log \cup {n}
      /\ log'[n] = e
      /\ \A i \in DOMAIN log : i \in Nat /\ i < n /\ log'[i] = log[i]
  BY <1>2, Grows
<1>4. n \in Nat
  BY <1>2 DEF IsLog
<1> HIDE DEF e, n
<1>5. \A i \in DOMAIN log' : log'[i].assignment \in Assignments
  BY <1>1, <1>2, <1>3 DEF Lawful, LedgerIsLawful, Accepts
<1>6. OneOfEachKind(log')
  BY <1>1, <1>2, <1>3 DEF Lawful, LedgerIsLawful, OneOfEachKind, Accepts, Has
<1>7. LaunchesInOrder(log')
  BY <1>1, <1>2, <1>3, <1>4
  DEF Lawful, LedgerIsLawful, LaunchesInOrder, Launches, Accepts, FollowsLaunches
<1>8. OneReplacementEach(log')
  BY <1>1, <1>2, <1>3
  DEF Lawful, LedgerIsLawful, OneReplacementEach, Accepts, ActivationAllowed,
      Replaced
<1>9. StagesInOrder(log')
  <2>1. \A a, k : Has(log', a, k) <=> Has(log, a, k) \/ (e.assignment = a /\ e.kind = k)
    BY <1>3 DEF Has
  <2>2. /\ d.kind = "planned" => d.assignment \in Primaries
        /\ d.kind = "activated" => d.assignment \in Held
        /\ d.kind = "terminal" => Has(log, d.assignment, "launched")
        /\ d.kind \in {"launched", "not_started"} =>
             \/ Has(log, d.assignment, "planned")
             \/ Has(log, d.assignment, "activated")
        /\ d.kind = "launched" => ~Has(log, d.assignment, "not_started")
        /\ d.kind = "not_started" => ~Has(log, d.assignment, "launched")
    BY <1>2 DEF Accepts, StageAllowed, Settled, Primaries, Held, EventKinds
  <2>3. SUFFICES ASSUME NEW i \in DOMAIN log'
        PROVE LET a == log'[i].assignment
                  Before_(kind) == \E j \in DOMAIN log' :
                    j < i /\ log'[j].assignment = a /\ log'[j].kind = kind
              IN  /\ log'[i].kind = "planned" => a \in Primaries
                  /\ log'[i].kind = "activated" => a \in Held
                  /\ log'[i].kind = "terminal" => Before_("launched")
                  /\ log'[i].kind \in {"launched", "not_started"} =>
                       Before_("planned") \/ Before_("activated")
                  /\ log'[i].kind = "launched" => ~Has(log', a, "not_started")
    BY DEF StagesInOrder
  <2>4. CASE i = n
    BY <1>1, <1>3, <2>1, <2>2, <2>4 DEF Has
  <2>5. CASE i \in DOMAIN log
    <3>1. /\ log[i].kind = "planned" => log[i].assignment \in Primaries
          /\ log[i].kind = "activated" => log[i].assignment \in Held
          /\ log[i].kind = "terminal" =>
               \E j \in DOMAIN log : j < i
                 /\ log[j].assignment = log[i].assignment /\ log[j].kind = "launched"
          /\ log[i].kind \in {"launched", "not_started"} =>
               \E j \in DOMAIN log : j < i
                 /\ log[j].assignment = log[i].assignment
                 /\ log[j].kind \in {"planned", "activated"}
          /\ log[i].kind = "launched" => ~Has(log, log[i].assignment, "not_started")
      BY <2>5 DEF Lawful, LedgerIsLawful, StagesInOrder
    <3>2. log[i].kind = "launched" => Has(log, log[i].assignment, "launched")
      BY <2>5 DEF Has
    <3>3. log[i].kind = "launched" => ~Has(log', log[i].assignment, "not_started")
      BY <1>1, <2>1, <2>2, <3>1, <3>2
    <3> QED
      BY <1>3, <2>5, <3>1, <3>3
  <2> QED
    BY <1>3, <2>4, <2>5
<1> QED
  BY <1>3, <1>5, <1>6, <1>7, <1>8, <1>9 DEF Lawful, LedgerIsLawful

\* A lawful ledger that no step changes is lawful still.
LEMMA StutterKeepsLawful == Lawful /\ UNCHANGED log => Lawful'
  BY DEF Lawful, IsLog, LedgerIsLawful, OneOfEachKind, StagesInOrder,
         OneReplacementEach, LaunchesInOrder, Launches, Has

\* The empty ledger is lawful.
LEMMA EmptyIsLawful == LedgerInit => Lawful
<1> SUFFICES ASSUME log = << >> PROVE Lawful
  BY DEF LedgerInit
<1>1. log \in Seq({}) /\ DOMAIN log = {}
  OBVIOUS
<1> QED
  BY <1>1 DEF Lawful, IsLog, LedgerIsLawful, OneOfEachKind, StagesInOrder,
              OneReplacementEach, LaunchesInOrder, Launches, Has

\* Whatever callers append, in whatever order, the ledger stays lawful
\* (events.ts appendAssignmentEvent).
THEOREM LedgerLawful == LedgerSpec => []LedgerIsLawful
<1>1. Lawful /\ [LedgerStep]_log => Lawful'
  <2> SUFFICES ASSUME Lawful, [LedgerStep]_log PROVE Lawful'
    OBVIOUS
  <2>1. CASE LedgerStep
    <3>1. PICK d \in Draft : AppendAssignmentEvent(d)
      BY <2>1 DEF LedgerStep
    <3>2. IsDraft(d)
      BY <3>1 DEF Draft, IsDraft, Members
    <3> QED
      BY <3>1, <3>2, AppendKeepsLawful
  <2>2. CASE UNCHANGED log
    BY <2>2, StutterKeepsLawful
  <2> QED
    BY <2>1, <2>2
<1>2. Lawful => LedgerIsLawful
  BY DEF Lawful
<1> QED
  BY EmptyIsLawful, <1>1, <1>2, PTL DEF LedgerSpec

-----------------------------------------------------------------------------
(* A study run appends drafts of its own, one in a step at most.            *)

\* A plain draft of any kind is a draft, that replaces nothing.
LEMMA PlainIsDraft ==
  ASSUME NEW a, NEW k \in EventKinds
  PROVE  IsDraft(Plain(a, k)) /\ Plain(a, k).target = Absent
  BY DEF IsDraft, Plain, Members

\* What one step of a study does to the ledger: only an activation replaces.
AppendsOne ==
  \E d : /\ IsDraft(d) /\ AppendAssignmentEvent(d)
         /\ d.kind # "activated" => d.target = Absent

LEMMA StudyAppends ==
  ASSUME StudyNext
  PROVE  AppendsOne \/ UNCHANGED log
<1> USE DEF Appended, Refused, AppendsOne
<1>1. \A k \in EventKinds : \A a : IsDraft(Plain(a, k)) /\ Plain(a, k).target = Absent
  BY PlainIsDraft
<1>2. {"planned", "launched", "terminal", "not_started", "activated"} \subseteq EventKinds
  BY DEF EventKinds
<1>3. CASE PlanPrimary
  BY <1>1, <1>2, <1>3 DEF PlanPrimary
<1>4. CASE SkipPrimary
  BY <1>1, <1>2, <1>4 DEF SkipPrimary
<1>5. CASE Launch
  <2>1. IsDraft(LaunchDraft) /\ LaunchDraft.target = Absent
    BY <1>2 DEF LaunchDraft, Plain, IsDraft, Members
  <2> QED
    BY <1>5, <2>1 DEF Launch
<1>6. ASSUME NEW o \in Outcomes, TrialEnds(o)
      PROVE  AppendsOne \/ UNCHANGED log
  <2>1. IsDraft(TerminalDraft(o)) /\ TerminalDraft(o).target = Absent
    BY <1>2 DEF TerminalDraft, Plain, IsDraft, Members
  <2> QED
    BY <1>6, <2>1 DEF TrialEnds
<1>7. CASE TrialThrows
  <2> DEFINE d == [Plain(current, "terminal") EXCEPT !.disposition = "harness_aborted"]
  <2>1. IsDraft(d) /\ d.target = Absent
    BY <1>2 DEF Plain, IsDraft, Members
  <2> QED
    BY <1>7, <2>1 DEF TrialThrows
<1>8. CASE Activate
  <2>1. IsDraft(Activation(log, order[turn])) /\ Activation(log, order[turn]).kind = "activated"
    BY <1>2 DEF Activation, IsDraft, Members
  <2> QED
    BY <1>8, <2>1 DEF Activate
<1>9. CASE Decline \/ EndLoop \/ Derive
  BY <1>9 DEF Decline, EndLoop, Derive
<1> QED
  BY <1>3, <1>4, <1>5, <1>6, <1>7, <1>8, <1>9 DEF StudyNext

\* The ledger of a study run is lawful, whatever its trials and its clock do
\* (run.ts executeStudyRun).
THEOREM StudyLawful == StudySpec => []LedgerIsLawful
<1>1. StudyInit => Lawful
  BY EmptyIsLawful DEF StudyInit
<1>2. Lawful /\ [StudyNext]_studyVars => Lawful'
  <2>1. Lawful /\ StudyNext => Lawful'
    BY StudyAppends, AppendKeepsLawful, StutterKeepsLawful DEF AppendsOne
  <2>2. Lawful /\ UNCHANGED studyVars => Lawful'
    BY StutterKeepsLawful DEF studyVars
  <2> QED
    BY <2>1, <2>2
<1>3. Lawful => LedgerIsLawful
  BY DEF Lawful
<1> QED
  BY <1>1, <1>2, <1>3, PTL DEF StudySpec

-----------------------------------------------------------------------------
(***************************************************************************)
(* What a study run does to its ledger                                     *)
(***************************************************************************)

\* One event behind the others, that of a draft the ledger accepts.
Adds(d) ==
  LET n == Len(log) + 1
  IN  /\ Accepts(log, d) /\ n \in Nat /\ n \notin DOMAIN log
      /\ DOMAIN log = 1 .. Len(log)
      /\ DOMAIN log' = DOMAIN log \cup {n} /\ Len(log') = n
      /\ \A i \in DOMAIN log : i \in Nat /\ i < n /\ log'[i] = log[i]
      /\ log'[n].assignment = d.assignment /\ log'[n].kind = d.kind
      /\ log'[n].target = d.target
      /\ log'[n].disposition = d.disposition /\ log'[n].integrity = d.integrity
      /\ \A a, k : Has(log', a, k) <=> Has(log, a, k) \/ (a = d.assignment /\ k = d.kind)

LEMMA AppendedAdds ==
  ASSUME Lawful, NEW d, IsDraft(d), Appended(d) PROVE Lawful' /\ Adds(d)
<1>1. Lawful' /\ IsLog(log) /\ AppendAssignmentEvent(d)
  BY AppendKeepsLawful DEF Appended, Lawful
<1> DEFINE e == Recorded(log, d)
           n == Len(log) + 1
<1>2. /\ e.assignment = d.assignment /\ e.kind = d.kind /\ e.target = d.target
      /\ e.disposition = d.disposition /\ e.integrity = d.integrity
  BY DEF Recorded, IsDraft, Members
<1>3. Accepts(log, d) /\ log' = Append(log, e)
  BY <1>1 DEF AppendAssignmentEvent
<1>4. PICK S : log \in Seq(S)
  BY <1>1 DEF IsLog
<1> HIDE DEF e
<1>5. /\ DOMAIN log' = DOMAIN log \cup {n} /\ log'[n] = e
      /\ \A i \in DOMAIN log : i \in Nat /\ i < n /\ log'[i] = log[i]
  BY <1>1, <1>3, Grows
<1>6. n \in Nat /\ n \notin DOMAIN log /\ DOMAIN log = 1 .. Len(log)
  BY <1>4
<1>7. Len(log') = n
  <2>1. log \in Seq(S \cup {e}) /\ e \in S \cup {e}
    BY <1>4
  <2> QED
    BY <1>3, <2>1
<1>8. \A a, k : Has(log', a, k) <=> Has(log, a, k) \/ (a = d.assignment /\ k = d.kind)
  BY <1>2, <1>5 DEF Has
<1> QED
  BY <1>1, <1>2, <1>3, <1>5, <1>6, <1>7, <1>8 DEF Adds

\* What an accepted event says of its assignment.
LEMMA AcceptedIs ==
  ASSUME NEW d, Accepts(log, d), d.kind \in EventKinds
  PROVE  /\ d.assignment \in Assignments /\ ~Has(log, d.assignment, d.kind)
         /\ d.kind = "planned" => d.assignment \in Primaries
         /\ d.kind = "activated" => d.assignment \in Held
         /\ d.kind = "launched" =>
              /\ ~Has(log, d.assignment, "terminal")
              /\ ~Has(log, d.assignment, "not_started")
         /\ d.kind = "terminal" => Has(log, d.assignment, "launched")
         /\ d.kind = "not_started" => ~Has(log, d.assignment, "launched")
  BY DEF Accepts, StageAllowed, Settled, Primaries, Held, EventKinds

\* What a lawful ledger says of an assignment.
LEMMA LawfulSays ==
  ASSUME Lawful
  PROVE  /\ \A a, k : Has(log, a, k) => a \in Assignments
         /\ \A a : Has(log, a, "planned") => a \in Primaries
         /\ \A a : Has(log, a, "activated") => a \in Held
         /\ \A a : Has(log, a, "terminal") => Has(log, a, "launched")
         /\ \A a : Has(log, a, "launched") =>
              /\ Has(log, a, "planned") \/ Has(log, a, "activated")
              /\ ~Has(log, a, "not_started")
  BY DEF Lawful, LedgerIsLawful, StagesInOrder, Has

-----------------------------------------------------------------------------
(***************************************************************************)
(* The inductive invariant behind the completion record                    *)
(***************************************************************************)
StudyPhases == {"plan", "skip", "launch", "running", "activate", "derive", "done"}

\* Where the loops are: nothing is launched or activated by the first loop once
\* the study is aborted, and only held slots by the second.
PhasesFit ==
  /\ loop \in {1, 2} /\ phase \in StudyPhases
  /\ phase = "skip" => abortReason # Absent
  /\ loop = 1 /\ phase \in {"launch", "running", "activate"} => abortReason = Absent
  /\ loop = 2 => phase \notin {"plan", "skip"}
  /\ loop = 2 /\ phase \in {"launch", "running"} => current \in Held
  /\ phase \in {"launch", "running"} => current \in Assignments
  /\ phase = "running" => Has(log, current, "launched") /\ ~Has(log, current, "terminal")

\* What is open: a primary is refused only by a study that was aborted, and a
\* launch or an activation that nothing followed is the one under way, was
\* aborted over, or is of a primary that stays unsettled.
OpenFits ==
  /\ \A a \in Assignments : Has(log, a, "not_started") => abortReason # Absent
  /\ \A a \in Assignments : Has(log, a, "launched") /\ ~Has(log, a, "terminal") =>
       (phase = "running" /\ a = current) \/ abortReason # Absent \/ a \in Primaries
  /\ \A a \in Assignments : Has(log, a, "activated") /\ ~Has(log, a, "launched") =>
       (phase = "launch" /\ a = current) \/ abortReason # Absent

\* A terminal event says what its trial proved, or nothing of its integrity
\* when the executor threw, which aborted the study.
ProofsFit ==
  \A i \in DOMAIN log : log[i].kind = "terminal" =>
    LET a == log[i].assignment
    IN  /\ a \in DOMAIN evidence
        /\ evidence[a].disposition = log[i].disposition
        /\ \/ evidence[a].integrity = log[i].integrity
           \/ log[i].integrity = Absent /\ abortReason # Absent

CompletedFits ==
  completed # Absent =>
    phase = "done" /\ primaryScheduleSettled(log) /\ completed = CompletionRecord

StudyInv == Lawful /\ PhasesFit /\ OpenFits /\ ProofsFit /\ CompletedFits

\* The reasons of an abort, none of which is null.
Reasons == {"executor_failed", "batch_wide_launcher_defect", "operator_interrupted",
            "harness_aborted"}

\* How a loop goes on: what Continue, Break and Invalid have in common.
LEMMA LoopsOn ==
  ASSUME loop \in {1, 2}, NEW r, Continue(r) \/ Break(r)
  PROVE  /\ loop' = loop /\ abortReason' = r
         /\ phase' \in {"plan", "activate"} /\ (loop = 2 => phase' = "activate")
         /\ loop = 1 => phase' = "plan"
  BY DEF Continue, Break

\* Primaries and held slots are different assignments, and null is no reason.
LEMMA ScheduleSays ==
  /\ Primaries \subseteq Assignments /\ Held \subseteq Assignments
  /\ Assignments = Primaries \cup Held /\ Primaries \cap Held = {}
  /\ IsFiniteSet(Assignments)
  /\ "executor_failed" # Absent /\ "batch_wide_launcher_defect" # Absent
  /\ "operator_interrupted" # Absent /\ "harness_aborted" # Absent
  BY ScheduleAssumption, StudyAssumption DEF Primaries, Held, Assignments

\* A step that adds no terminal event keeps what the terminal events prove.
LEMMA ProofsKept ==
  ASSUME ProofsFit, UNCHANGED evidence, abortReason # Absent => abortReason' # Absent,
         \/ UNCHANGED log
         \/ \E d : Adds(d) /\ d.kind # "terminal"
  PROVE  ProofsFit'
<1>1. CASE UNCHANGED log
  BY <1>1 DEF ProofsFit
<1>2. CASE \E d : Adds(d) /\ d.kind # "terminal"
  <2>1. PICK d : Adds(d) /\ d.kind # "terminal"
    BY <1>2
  <2>2. \A i \in DOMAIN log' : log'[i].kind = "terminal" =>
          i \in DOMAIN log /\ log'[i] = log[i]
    BY <2>1 DEF Adds
  <2> QED
    BY <2>2 DEF ProofsFit
<1> QED
  BY <1>1, <1>2

\* Only a study that derives records its completion.
LEMMA CompletedKept ==
  ASSUME CompletedFits, phase # "done", UNCHANGED completed
  PROVE  CompletedFits'
  BY DEF CompletedFits

-----------------------------------------------------------------------------
(* Each action keeps the parts of the invariant it can disturb.             *)

LEMMA PlanPrimaryKeeps == StudyInv /\ PlanPrimary => StudyInv'
<1> SUFFICES ASSUME StudyInv, PlanPrimary PROVE StudyInv'
  OBVIOUS
<1> DEFINE d == Plain(order[turn], "planned")
<1>1. /\ Lawful /\ PhasesFit /\ OpenFits /\ ProofsFit /\ CompletedFits
      /\ loop = 1 /\ phase = "plan" /\ UNCHANGED <<evidence, completed>>
  BY DEF StudyInv, PlanPrimary
<1>2. d.assignment = order[turn] /\ d.kind = "planned" /\ IsDraft(d)
  BY PlainIsDraft DEF Plain, EventKinds
<1>3. CASE /\ Appended(d) /\ UNCHANGED <<loop, turn, abortReason>>
           /\ phase' = IF abortReason = Absent THEN "launch" ELSE "skip"
           /\ current' = order[turn]
  <2>1. Lawful' /\ Adds(d)
    BY <1>1, <1>2, <1>3, AppendedAdds
  <2>2. order[turn] \in Assignments
    BY <1>2, <2>1, AcceptedIs DEF Adds, EventKinds
  <2> HIDE DEF d
  <2>3. PhasesFit'
    BY <1>1, <1>3, <2>2 DEF PhasesFit, StudyPhases
  <2>4. OpenFits'
    BY <1>1, <1>2, <1>3, <2>1 DEF OpenFits, Adds
  <2>5. ProofsFit'
    BY <1>1, <1>2, <1>3, <2>1, ProofsKept
  <2>6. CompletedFits'
    BY <1>1, CompletedKept
  <2> QED
    BY <2>1, <2>3, <2>4, <2>5, <2>6 DEF StudyInv
<1>4. CASE Refused /\ Break(abortReason)
  <2>1. UNCHANGED log /\ loop' = 1 /\ abortReason' = abortReason /\ phase' = "plan"
    BY <1>1, <1>4 DEF Refused, Break
  <2>2. Lawful'
    BY <1>1, <2>1, StutterKeepsLawful
  <2>3. PhasesFit'
    BY <1>1, <2>1 DEF PhasesFit, StudyPhases
  <2>4. OpenFits'
    BY <1>1, <2>1 DEF OpenFits, Has
  <2>5. ProofsFit'
    BY <1>1, <2>1, ProofsKept
  <2>6. CompletedFits'
    BY <1>1, CompletedKept
  <2> QED
    BY <2>2, <2>3, <2>4, <2>5, <2>6 DEF StudyInv
<1> QED
  BY <1>3, <1>4 DEF PlanPrimary

LEMMA SkipPrimaryKeeps == StudyInv /\ SkipPrimary => StudyInv'
<1> SUFFICES ASSUME StudyInv, SkipPrimary PROVE StudyInv'
  OBVIOUS
<1> DEFINE d == Plain(current, "not_started")
<1>1. /\ Lawful /\ PhasesFit /\ OpenFits /\ ProofsFit /\ CompletedFits
      /\ loop = 1 /\ phase = "skip" /\ UNCHANGED <<evidence, completed>>
      /\ abortReason # Absent
  BY DEF StudyInv, SkipPrimary, PhasesFit
<1>2. d.assignment = current /\ d.kind = "not_started" /\ IsDraft(d)
  BY PlainIsDraft DEF Plain, EventKinds
<1>3. loop' = 1 /\ phase' = "plan" /\ abortReason' = abortReason
  BY <1>1 DEF SkipPrimary, Continue
<1>4. Lawful' /\ (UNCHANGED log \/ Adds(d))
  <2>1. CASE Appended(d)
    BY <1>1, <1>2, <2>1, AppendedAdds
  <2>2. CASE Refused
    BY <1>1, <2>2, StutterKeepsLawful DEF Refused
  <2> QED
    BY <2>1, <2>2 DEF SkipPrimary
<1> HIDE DEF d
<1>5. PhasesFit'
  BY <1>1, <1>3 DEF PhasesFit, StudyPhases
<1>6. OpenFits'
  <2>1. CASE UNCHANGED log
    BY <1>1, <1>3, <2>1 DEF OpenFits, Has
  <2>2. CASE Adds(d)
    BY <1>1, <1>2, <1>3, <2>2 DEF OpenFits, Adds
  <2> QED
    BY <1>4, <2>1, <2>2
<1>7. ProofsFit'
  BY <1>1, <1>2, <1>3, <1>4, ProofsKept
<1>8. CompletedFits'
  BY <1>1, CompletedKept
<1> QED
  BY <1>4, <1>5, <1>6, <1>7, <1>8 DEF StudyInv

\* A run that was refused an event: what it means for the loops.
LEMMA InvalidLoops ==
  ASSUME PhasesFit, phase \in {"launch", "running"}, Invalid
  PROVE  /\ loop' = loop /\ phase' = (IF loop = 1 THEN "plan" ELSE "activate")
         /\ abortReason # Absent => abortReason' # Absent
         /\ current \in Primaries \/ abortReason' # Absent
  BY ScheduleSays DEF Invalid, Continue, Break, PhasesFit

LEMMA LaunchKeeps == StudyInv /\ Launch => StudyInv'
<1> SUFFICES ASSUME StudyInv, Launch PROVE StudyInv'
  OBVIOUS
<1> DEFINE d == LaunchDraft
<1>1. /\ Lawful /\ PhasesFit /\ OpenFits /\ ProofsFit /\ CompletedFits
      /\ phase = "launch" /\ UNCHANGED <<evidence, completed>>
      /\ loop \in {1, 2} /\ current \in Assignments
  BY DEF StudyInv, Launch, PhasesFit
<1>2. d.assignment = current /\ d.kind = "launched" /\ IsDraft(d)
  BY DEF LaunchDraft, Plain, EventKinds, IsDraft, Members
<1>3. CASE Appended(d) /\ phase' = "running" /\ UNCHANGED <<loop, turn, current, abortReason>>
  <2>1. Lawful' /\ Adds(d)
    BY <1>1, <1>2, <1>3, AppendedAdds
  <2>2. ~Has(log, current, "terminal") /\ ~Has(log, current, "not_started")
    BY <1>2, <2>1, AcceptedIs DEF Adds, EventKinds
  <2> HIDE DEF d
  <2>3. PhasesFit'
    BY <1>1, <1>2, <1>3, <2>1, <2>2 DEF PhasesFit, StudyPhases, Adds
  <2>4. OpenFits'
    BY <1>1, <1>2, <1>3, <2>1 DEF OpenFits, Adds
  <2>5. ProofsFit'
    BY <1>1, <1>2, <1>3, <2>1, ProofsKept
  <2>6. CompletedFits'
    BY <1>1, CompletedKept
  <2> QED
    BY <2>1, <2>3, <2>4, <2>5, <2>6 DEF StudyInv
<1>4. CASE Refused /\ Invalid
  <2>1. /\ UNCHANGED log /\ loop' = loop
        /\ phase' = (IF loop = 1 THEN "plan" ELSE "activate")
        /\ abortReason # Absent => abortReason' # Absent
        /\ current \in Primaries \/ abortReason' # Absent
    BY <1>1, <1>4, InvalidLoops DEF Refused
  <2>2. Lawful'
    BY <1>1, <2>1, StutterKeepsLawful
  <2>3. PhasesFit'
    BY <1>1, <2>1 DEF PhasesFit, StudyPhases
  <2>4. \A a : Has(log, a, "activated") => a \notin Primaries
    BY <1>1, LawfulSays, ScheduleSays
  <2>5. OpenFits'
    <3>1. \A a, k : Has(log', a, k) <=> Has(log, a, k)
      BY <2>1 DEF Has
    <3> QED
      BY <1>1, <2>1, <2>4, <3>1 DEF OpenFits
  <2>6. ProofsFit'
    BY <1>1, <2>1, ProofsKept
  <2>7. CompletedFits'
    BY <1>1, CompletedKept
  <2> QED
    BY <2>2, <2>3, <2>5, <2>6, <2>7 DEF StudyInv
<1> QED
  BY <1>3, <1>4 DEF Launch

\* What a trial proved is kept next to what the others did.
Proves(o) ==
  /\ DOMAIN evidence' = DOMAIN evidence \cup {current}
  /\ evidence'[current] = o
  /\ \A a \in DOMAIN evidence : a # current => evidence'[a] = evidence[a]

\* After the trial of the assignment that runs.
LEMMA AfterTrialLoops ==
  ASSUME PhasesFit, phase = "running", NEW o, AfterTrial(o)
  PROVE  /\ loop' = loop /\ phase' \in StudyPhases
         /\ phase' \notin {"launch", "running", "skip", "derive", "done"}
         /\ loop = 2 => phase' = "activate"
         /\ abortReason # Absent => abortReason' # Absent
         /\ loop = 1 /\ phase' = "activate" => abortReason' = Absent
  BY ScheduleSays DEF AfterTrial, Continue, PhasesFit, StudyPhases

LEMMA TrialEndsKeeps ==
  ASSUME StudyInv, NEW o \in Outcomes, TrialEnds(o) PROVE StudyInv'
<1> DEFINE d == TerminalDraft(o)
<1>1. /\ Lawful /\ PhasesFit /\ OpenFits /\ ProofsFit /\ CompletedFits
      /\ phase = "running" /\ UNCHANGED completed
      /\ loop \in {1, 2} /\ current \in Assignments
      /\ Has(log, current, "launched") /\ ~Has(log, current, "terminal")
      /\ loop = 1 => abortReason = Absent
  BY DEF StudyInv, TrialEnds, PhasesFit
<1>2. /\ d.assignment = current /\ d.kind = "terminal" /\ IsDraft(d)
      /\ d.disposition = o.disposition /\ d.integrity = o.integrity
  BY DEF TerminalDraft, Plain, EventKinds, IsDraft, Members
<1>3. Proves(o)
  BY DEF TrialEnds, Proves
<1>4. CompletedFits'
  BY <1>1, CompletedKept
<1>5. \A i \in DOMAIN log : log[i].kind = "terminal" => log[i].assignment # current
  BY <1>1 DEF Has
<1>6. CASE Appended(d) /\ AfterTrial(o)
  <2>1. Lawful' /\ Adds(d)
    BY <1>1, <1>2, <1>6, AppendedAdds
  <2>2. /\ loop' = loop /\ phase' \in StudyPhases
        /\ phase' \notin {"launch", "running", "skip", "derive", "done"}
        /\ loop = 2 => phase' = "activate"
        /\ abortReason # Absent => abortReason' # Absent
        /\ loop = 1 /\ phase' = "activate" => abortReason' = Absent
    BY <1>1, <1>6, AfterTrialLoops
  <2> HIDE DEF d
  <2>3. PhasesFit'
    BY <1>1, <2>2 DEF PhasesFit
  <2>4. OpenFits'
    BY <1>1, <1>2, <2>1, <2>2 DEF OpenFits, Adds
  <2>5. ProofsFit'
    <3> SUFFICES ASSUME NEW i \in DOMAIN log', log'[i].kind = "terminal"
                 PROVE  LET a == log'[i].assignment
                        IN  /\ a \in DOMAIN evidence'
                            /\ evidence'[a].disposition = log'[i].disposition
                            /\ \/ evidence'[a].integrity = log'[i].integrity
                               \/ log'[i].integrity = Absent /\ abortReason' # Absent
      BY DEF ProofsFit
    <3>1. CASE i = Len(log) + 1
      BY <1>2, <1>3, <2>1, <3>1 DEF Adds, Proves
    <3>2. CASE i \in DOMAIN log
      <4>1. log'[i] = log[i] /\ log[i].assignment # current
        BY <1>5, <2>1, <3>2 DEF Adds
      <4> QED
        BY <1>1, <1>3, <2>2, <3>2, <4>1 DEF ProofsFit, Proves
    <3> QED
      BY <2>1, <3>1, <3>2 DEF Adds
  <2> QED
    BY <1>4, <2>1, <2>3, <2>4, <2>5 DEF StudyInv
<1>7. CASE Refused /\ Invalid
  <2>1. /\ UNCHANGED log /\ loop' = loop
        /\ phase' = (IF loop = 1 THEN "plan" ELSE "activate")
        /\ abortReason # Absent => abortReason' # Absent
        /\ current \in Primaries \/ abortReason' # Absent
    BY <1>1, <1>7, InvalidLoops DEF Refused
  <2>2. Lawful'
    BY <1>1, <2>1, StutterKeepsLawful
  <2>3. PhasesFit'
    BY <1>1, <2>1 DEF PhasesFit, StudyPhases
  <2>4. OpenFits'
    <3>1. \A a, k : Has(log', a, k) <=> Has(log, a, k)
      BY <2>1 DEF Has
    <3> QED
      BY <1>1, <2>1, <3>1 DEF OpenFits
  <2>5. ProofsFit'
    BY <1>1, <1>3, <1>5, <2>1 DEF ProofsFit, Proves
  <2> QED
    BY <1>4, <2>2, <2>3, <2>4, <2>5 DEF StudyInv
<1> QED
  BY <1>6, <1>7 DEF TrialEnds

LEMMA TrialThrowsKeeps == StudyInv /\ TrialThrows => StudyInv'
<1> SUFFICES ASSUME StudyInv, TrialThrows PROVE StudyInv'
  OBVIOUS
<1> DEFINE d == [Plain(current, "terminal") EXCEPT !.disposition = "harness_aborted"]
<1>1. /\ Lawful /\ PhasesFit /\ OpenFits /\ ProofsFit /\ CompletedFits
      /\ phase = "running" /\ UNCHANGED completed
      /\ loop \in {1, 2} /\ current \in Assignments
      /\ Has(log, current, "launched") /\ ~Has(log, current, "terminal")
  BY DEF StudyInv, TrialThrows, PhasesFit
<1>2. /\ d.assignment = current /\ d.kind = "terminal" /\ IsDraft(d)
      /\ d.disposition = "harness_aborted" /\ d.integrity = Absent
  BY DEF Plain, EventKinds, IsDraft, Members
<1>3. PICK control \in BOOLEAN : Proves(Thrown(control))
  BY DEF TrialThrows, Proves
<1>4. Thrown(control).disposition = "harness_aborted"
  BY DEF Thrown
<1>5. CompletedFits'
  BY <1>1, CompletedKept
<1>6. \A i \in DOMAIN log : log[i].kind = "terminal" => log[i].assignment # current
  BY <1>1 DEF Has
<1>7. /\ loop' = loop /\ phase' = (IF loop = 1 THEN "plan" ELSE "activate")
      /\ abortReason' # Absent
  BY <1>1, ScheduleSays DEF TrialThrows, Continue, Break
<1>8. Lawful' /\ (UNCHANGED log \/ Adds(d))
  <2>1. CASE Appended(d)
    BY <1>1, <1>2, <2>1, AppendedAdds
  <2>2. CASE Refused
    BY <1>1, <2>2, StutterKeepsLawful DEF Refused
  <2> QED
    BY <2>1, <2>2 DEF TrialThrows
<1> HIDE DEF d
<1>9. PhasesFit'
  BY <1>1, <1>7 DEF PhasesFit, StudyPhases
<1>10. OpenFits'
  BY <1>7 DEF OpenFits
<1>11. ProofsFit'
  <2>1. CASE UNCHANGED log
    BY <1>1, <1>3, <1>6, <1>7, <2>1 DEF ProofsFit, Proves
  <2>2. CASE Adds(d)
    <3> SUFFICES ASSUME NEW i \in DOMAIN log', log'[i].kind = "terminal"
                 PROVE  LET a == log'[i].assignment
                        IN  /\ a \in DOMAIN evidence'
                            /\ evidence'[a].disposition = log'[i].disposition
                            /\ \/ evidence'[a].integrity = log'[i].integrity
                               \/ log'[i].integrity = Absent /\ abortReason' # Absent
      BY DEF ProofsFit
    <3>1. CASE i = Len(log) + 1
      BY <1>2, <1>3, <1>4, <1>7, <2>2, <3>1 DEF Adds, Proves
    <3>2. CASE i \in DOMAIN log
      <4>1. log'[i] = log[i] /\ log[i].assignment # current
        BY <1>6, <2>2, <3>2 DEF Adds
      <4> QED
        BY <1>1, <1>3, <1>7, <3>2, <4>1 DEF ProofsFit, Proves
    <3> QED
      BY <2>2, <3>1, <3>2 DEF Adds
  <2> QED
    BY <1>8, <2>1, <2>2
<1> QED
  BY <1>5, <1>8, <1>9, <1>10, <1>11 DEF StudyInv

LEMMA ActivateKeeps == StudyInv /\ Activate => StudyInv'
<1> SUFFICES ASSUME StudyInv, Activate PROVE StudyInv'
  OBVIOUS
<1> DEFINE d == Activation(log, order[turn])
<1>1. /\ Lawful /\ PhasesFit /\ OpenFits /\ ProofsFit /\ CompletedFits
      /\ phase = "activate" /\ UNCHANGED <<evidence, completed>>
      /\ loop \in {1, 2}
  BY DEF StudyInv, Activate, PhasesFit
<1>2. /\ d.assignment = Chosen(log, Schedule[order[turn]].cell)
      /\ d.kind = "activated" /\ IsDraft(d)
  BY DEF Activation, EventKinds, IsDraft, Members
<1>3. CompletedFits'
  BY <1>1, CompletedKept
<1>4. CASE /\ Appended(d) /\ UNCHANGED <<loop, turn, abortReason, declined>>
           /\ current' = Chosen(log, Schedule[order[turn]].cell)
           /\ phase' = "launch"
  <2>1. Lawful' /\ Adds(d)
    BY <1>1, <1>2, <1>4, AppendedAdds
  <2>2. current' = d.assignment
    BY <1>2, <1>4
  <2>3. d.assignment \in Held
    BY <1>2, <2>1, AcceptedIs DEF Adds, EventKinds
  <2> HIDE DEF d
  <2>4. PhasesFit'
    BY <1>1, <1>4, <2>2, <2>3, ScheduleSays DEF PhasesFit, StudyPhases
  <2>5. OpenFits'
    BY <1>1, <1>2, <1>4, <2>1, <2>2 DEF OpenFits, Adds
  <2>6. ProofsFit'
    BY <1>1, <1>2, <1>4, <2>1, ProofsKept
  <2> QED
    BY <1>3, <2>1, <2>4, <2>5, <2>6 DEF StudyInv
<1>5. CASE Refused /\ Continue(abortReason)
  <2>1. /\ UNCHANGED log /\ loop' = loop /\ abortReason' = abortReason
        /\ phase' = (IF loop = 1 THEN "plan" ELSE "activate")
    BY <1>5 DEF Refused, Continue
  <2>2. Lawful' /\ ProofsFit'
    BY <1>1, <2>1, StutterKeepsLawful, ProofsKept
  <2>3. PhasesFit'
    BY <1>1, <2>1 DEF PhasesFit, StudyPhases
  <2>4. OpenFits'
    BY <1>1, <2>1 DEF OpenFits, Has
  <2> QED
    BY <1>3, <2>2, <2>3, <2>4 DEF StudyInv
<1> QED
  BY <1>4, <1>5 DEF Activate

LEMMA LoopStepsKeep == StudyInv /\ (Decline \/ EndLoop) => StudyInv'
<1> SUFFICES ASSUME StudyInv, Decline \/ EndLoop PROVE StudyInv'
  OBVIOUS
<1>1. /\ Lawful /\ PhasesFit /\ OpenFits /\ ProofsFit /\ CompletedFits
      /\ phase \in {"plan", "activate"} /\ UNCHANGED <<log, evidence, completed>>
      /\ abortReason' = abortReason
  BY DEF StudyInv, Decline, EndLoop, Continue
<1>2. Lawful' /\ ProofsFit' /\ CompletedFits'
  BY <1>1, StutterKeepsLawful, ProofsKept, CompletedKept
<1>3. /\ loop' \in {1, 2}
      /\ loop' = 1 => phase' \in {"plan", "derive"}
      /\ loop' = 2 => phase' \in {"activate", "derive"}
  BY <1>1 DEF Decline, EndLoop, Continue, PhasesFit
<1>4. PhasesFit'
  BY <1>1, <1>3 DEF PhasesFit, StudyPhases
<1>5. OpenFits'
  BY <1>1 DEF OpenFits, Has
<1> QED
  BY <1>2, <1>4, <1>5 DEF StudyInv

LEMMA DeriveKeeps == StudyInv /\ Derive => StudyInv'
<1> SUFFICES ASSUME StudyInv, Derive PROVE StudyInv'
  OBVIOUS
<1>1. /\ Lawful /\ PhasesFit /\ OpenFits /\ ProofsFit /\ CompletedFits
      /\ phase = "derive" /\ phase' = "done"
      /\ UNCHANGED <<log, loop, current, abortReason, evidence>>
  BY DEF StudyInv, Derive
<1>2. Lawful' /\ ProofsFit'
  BY <1>1, StutterKeepsLawful, ProofsKept
<1>3. PhasesFit'
  BY <1>1 DEF PhasesFit, StudyPhases
<1>4. OpenFits'
  BY <1>1 DEF OpenFits, Has
<1>5. /\ primaryScheduleSettled(log)' = primaryScheduleSettled(log)
      /\ CompletionRecord' = CompletionRecord
  BY <1>1 DEF primaryScheduleSettled, Settled, Has, CompletionRecord, Aborting,
              FirstAborting, Count, HeldUnused
<1>6. completed = Absent
  BY <1>1 DEF CompletedFits
<1>7. \/ completed' = IF primaryScheduleSettled(log) THEN CompletionRecord ELSE Absent
      \/ completed' = completed
  BY DEF Derive
<1>8. CompletedFits'
  BY <1>1, <1>5, <1>6, <1>7 DEF CompletedFits
<1> QED
  BY <1>2, <1>3, <1>4, <1>8 DEF StudyInv

LEMMA StudyStutters == StudyInv /\ UNCHANGED studyVars => StudyInv'
<1> SUFFICES ASSUME StudyInv, UNCHANGED studyVars PROVE StudyInv'
  OBVIOUS
<1>1. /\ Lawful /\ PhasesFit /\ OpenFits /\ ProofsFit /\ CompletedFits
      /\ UNCHANGED <<log, loop, phase, current, abortReason, evidence, completed>>
  BY DEF StudyInv, studyVars
<1>2. Lawful' /\ ProofsFit'
  BY <1>1, StutterKeepsLawful, ProofsKept
<1>3. PhasesFit'
  BY <1>1 DEF PhasesFit, StudyPhases, Has
<1>4. OpenFits'
  BY <1>1 DEF OpenFits, Has
<1>5. /\ primaryScheduleSettled(log)' = primaryScheduleSettled(log)
      /\ CompletionRecord' = CompletionRecord
  BY <1>1 DEF primaryScheduleSettled, Settled, Has, CompletionRecord, Aborting,
              FirstAborting, Count, HeldUnused
<1>6. CompletedFits'
  BY <1>1, <1>5 DEF CompletedFits
<1> QED
  BY <1>2, <1>3, <1>4, <1>6 DEF StudyInv

LEMMA StudyStarts == StudyInit => StudyInv
<1> SUFFICES ASSUME StudyInit PROVE StudyInv
  OBVIOUS
<1>1. Lawful /\ log = << >>
  BY EmptyIsLawful DEF StudyInit, LedgerInit
<1>2. /\ loop = 1 /\ phase = "plan" /\ current = Absent /\ abortReason = Absent
      /\ completed = Absent
  BY DEF StudyInit
<1>3. PhasesFit
  BY <1>2 DEF PhasesFit, StudyPhases
<1>4. OpenFits /\ ProofsFit /\ CompletedFits
  BY <1>1, <1>2 DEF OpenFits, ProofsFit, CompletedFits, Has
<1> QED
  BY <1>1, <1>3, <1>4 DEF StudyInv

LEMMA StudySteps == StudyInv /\ [StudyNext]_studyVars => StudyInv'
  BY PlanPrimaryKeeps, SkipPrimaryKeeps, LaunchKeeps, TrialEndsKeeps, TrialThrowsKeeps,
     ActivateKeeps, LoopStepsKeep, DeriveKeeps, StudyStutters DEF StudyNext

-----------------------------------------------------------------------------
(* What the invariant says of the completion record.                        *)

ActivatedEvents == {i \in DOMAIN log : log[i].kind = "activated"}
ActivatedSlots == {h \in Held : Has(log, h, "activated")}
NeverLaunched == {a \in Primaries : ~Has(log, a, "launched")}

\* Every activation is of another held slot.
LEMMA ActivationsAreSlots ==
  ASSUME Lawful
  PROVE  /\ IsFiniteSet(ActivatedEvents)
         /\ Cardinality(ActivatedEvents) = Cardinality(ActivatedSlots)
<1> DEFINE f == [h \in ActivatedSlots |-> CHOOSE i \in ActivatedEvents :
                                             log[i].assignment = h]
<1>1. IsFiniteSet(ActivatedSlots)
  BY ScheduleSays, FS_Subset DEF ActivatedSlots
<1>2. \A h \in ActivatedSlots : f[h] \in ActivatedEvents /\ log[f[h]].assignment = h
  BY DEF ActivatedSlots, ActivatedEvents, Has
<1>3. \A i \in ActivatedEvents : log[i].assignment \in ActivatedSlots
  BY LawfulSays DEF ActivatedEvents, ActivatedSlots, Has
<1>4. \A i, j \in ActivatedEvents : log[i].assignment = log[j].assignment => i = j
  BY DEF ActivatedEvents, Lawful, LedgerIsLawful, OneOfEachKind
<1>5. f \in [ActivatedSlots -> ActivatedEvents]
  BY <1>2
<1>6. DOMAIN f = ActivatedSlots
  OBVIOUS
<1> HIDE DEF f
<1>7. \A i \in ActivatedEvents : \E h \in ActivatedSlots : f[h] = i
  BY <1>2, <1>3, <1>4
<1>8. f \in Bijection(ActivatedSlots, ActivatedEvents)
  BY <1>2, <1>5, <1>6, <1>7 DEF Bijection, Injection, Surjection, IsInjective
<1>9. ExistsBijection(ActivatedSlots, ActivatedEvents)
  BY <1>8 DEF ExistsBijection
<1> QED
  BY <1>1, <1>9, FS_Bijection

\* Nothing ran but primaries that were launched and slots that were activated.
LEMMA LaunchesAreCounted ==
  ASSUME Lawful
  PROVE  Cardinality({a \in Assignments : Has(log, a, "launched")}) <=
           Cardinality(Primaries) - Cardinality(NeverLaunched)
             + Cardinality(ActivatedSlots)
<1> DEFINE ran == {a \in Assignments : Has(log, a, "launched")}
           started == Primaries \ NeverLaunched
<1>1. IsFiniteSet(Primaries) /\ IsFiniteSet(ActivatedSlots)
  BY ScheduleSays, FS_Subset DEF ActivatedSlots
<1>2. ran \subseteq started \cup ActivatedSlots
  BY LawfulSays, ScheduleSays DEF NeverLaunched, ActivatedSlots
<1>3. Primaries \cap NeverLaunched = NeverLaunched
  BY DEF NeverLaunched
<1>4. /\ IsFiniteSet(started)
      /\ Cardinality(started) = Cardinality(Primaries) - Cardinality(NeverLaunched)
  BY <1>1, <1>3, FS_Difference
<1>5. IsFiniteSet(NeverLaunched)
  BY <1>1, FS_Subset DEF NeverLaunched
<1> HIDE DEF ran, started
<1>6. /\ IsFiniteSet(started \cup ActivatedSlots)
      /\ Cardinality(started \cup ActivatedSlots) =
           Cardinality(started) + Cardinality(ActivatedSlots)
             - Cardinality(started \cap ActivatedSlots)
  BY <1>1, <1>4, FS_Union
<1>7. IsFiniteSet(started \cap ActivatedSlots)
  BY <1>4, FS_Intersection
<1>8. Cardinality(ran) <= Cardinality(started \cup ActivatedSlots)
  BY <1>2, <1>6, FS_Subset
<1>9. IsFiniteSet(ran)
  BY <1>2, <1>6, FS_Subset
<1>10. /\ Cardinality(Primaries) \in Nat /\ Cardinality(NeverLaunched) \in Nat
       /\ Cardinality(ActivatedSlots) \in Nat /\ Cardinality(started) \in Nat
       /\ Cardinality(started \cap ActivatedSlots) \in Nat
       /\ Cardinality(started \cup ActivatedSlots) \in Nat
       /\ Cardinality(ran) \in Nat
  BY <1>1, <1>4, <1>5, <1>6, <1>7, <1>9, FS_CardinalityType
<1>11. Cardinality(ran) <=
         Cardinality(Primaries) - Cardinality(NeverLaunched) + Cardinality(ActivatedSlots)
  BY <1>4, <1>6, <1>8, <1>10
<1> QED
  BY <1>11 DEF ran

\* A held slot was activated or is unused.
LEMMA SlotsAreCounted ==
  Cardinality(ActivatedSlots) + Cardinality(HeldUnused(log)) = Cardinality(Held)
<1>1. IsFiniteSet(Held)
  BY ScheduleSays, FS_Subset
<1>2. IsFiniteSet(ActivatedSlots) /\ ActivatedSlots \subseteq Held
  BY <1>1, FS_Subset DEF ActivatedSlots
<1>3. HeldUnused(log) = Held \ ActivatedSlots /\ Held \cap ActivatedSlots = ActivatedSlots
  BY DEF HeldUnused, ActivatedSlots
<1>4. Cardinality(HeldUnused(log)) = Cardinality(Held) - Cardinality(ActivatedSlots)
  BY <1>1, <1>3, FS_Difference
<1>5. Cardinality(Held) \in Nat /\ Cardinality(ActivatedSlots) \in Nat
  BY <1>1, <1>2, FS_CardinalityType
<1> QED
  BY <1>4, <1>5

\* A nonempty set of natural numbers has a least one.
LEMMA LeastOfNaturals ==
  ASSUME NEW S \in SUBSET Nat, S # {}
  PROVE  \E m \in S : \A n \in S : m <= n
<1>1. \E m \in S : \A n \in S : <<n, m>> \notin OpToRel(<, Nat)
  BY WFMin, NatLessThanWellFounded, Zenon
<1>2. PICK m \in S : \A n \in S : <<n, m>> \notin OpToRel(<, Nat)
  BY <1>1
<1>3. ASSUME NEW n \in S PROVE m <= n
  <2>1. <<n, m>> \notin OpToRel(<, Nat)
    BY <1>2
  <2>2. ~(n < m)
    BY <2>1 DEF OpToRel
  <2> QED
    BY <2>2
<1> QED
  BY <1>3

\* An aborting event there is has a first one.
LEMMA FirstAbortingIs == ASSUME Lawful, Aborting # {} PROVE FirstAborting \in Aborting
<1>1. Aborting \subseteq Nat
  BY DEF Aborting, Lawful, IsLog
<1>2. \E i \in Aborting : \A j \in Aborting : i <= j
  BY <1>1, LeastOfNaturals
<1> QED
  BY <1>2 DEF FirstAborting

LEMMA CompletionHolds == StudyInv => CompletionIsTrue
<1> SUFFICES ASSUME StudyInv, completed # Absent
             PROVE  /\ Count({a \in Assignments : Has(log, a, "launched")}) <=
                         Count(Primaries) - completed.notStarted + completed.activated
                    /\ completed.activated + completed.heldUnused = Count(Held)
                    /\ completed.notStarted =
                         Count({a \in Primaries : Has(log, a, "not_started")})
                    /\ completed.status = "completed" =>
                         /\ completed.notStarted = 0 /\ completed.reason = Absent
                         /\ \A a \in {b \in Assignments : Has(log, b, "launched")} :
                              /\ Has(log, a, "terminal")
                              /\ evidence[a].disposition \notin
                                   {"operator_interrupted", "harness_aborted"}
                         /\ \A h \in Held : Has(log, h, "activated") =>
                              h \in {b \in Assignments : Has(log, b, "launched")}
                    /\ completed.status = "aborted" => completed.reason # Absent
  BY DEF CompletionIsTrue
<1>1. /\ Lawful /\ PhasesFit /\ OpenFits /\ ProofsFit
      /\ phase = "done" /\ primaryScheduleSettled(log) /\ completed = CompletionRecord
  BY DEF StudyInv, CompletedFits
<1>2. /\ completed.status = (IF abortReason # Absent \/ Aborting # {} THEN "aborted"
                             ELSE "completed")
      /\ completed.reason = (IF abortReason # Absent THEN abortReason
                             ELSE IF abortReason # Absent \/ Aborting # {}
                             THEN log[FirstAborting].disposition ELSE Absent)
      /\ completed.activated = Cardinality(ActivatedEvents)
      /\ completed.heldUnused = Cardinality(HeldUnused(log))
      /\ completed.notStarted = Cardinality(NeverLaunched)
  BY <1>1 DEF CompletionRecord, Count, ActivatedEvents, NeverLaunched
<1>3. NeverLaunched = {a \in Primaries : Has(log, a, "not_started")}
  BY <1>1, LawfulSays DEF NeverLaunched, primaryScheduleSettled, Settled
<1>4. CASE completed.status = "completed"
  <2>1. abortReason = Absent /\ Aborting = {}
    BY <1>2, <1>4
  <2>2. NeverLaunched = {}
    BY <1>1, <1>3, <2>1, ScheduleSays DEF OpenFits
  <2>3. \A a \in Assignments : Has(log, a, "launched") => Has(log, a, "terminal")
    <3> SUFFICES ASSUME NEW a \in Assignments, Has(log, a, "launched"), ~Has(log, a, "terminal")
                 PROVE  FALSE
      OBVIOUS
    <3>1. a \in Primaries
      BY <1>1, <2>1 DEF OpenFits
    <3> QED
      BY <1>1, <3>1, LawfulSays DEF primaryScheduleSettled, Settled
  <2>4. \A a : Has(log, a, "terminal") =>
          evidence[a].disposition \notin {"operator_interrupted", "harness_aborted"}
    BY <1>1, <2>1 DEF ProofsFit, Aborting, Has
  <2>5. \A h \in Held : Has(log, h, "activated") => Has(log, h, "launched")
    BY <1>1, <2>1, ScheduleSays DEF OpenFits
  <2>6. completed.notStarted = 0
    BY <1>2, <2>2, FS_EmptySet
  <2>7. completed.reason = Absent
    BY <1>2, <2>1
  <2> QED
    BY <1>1, <1>2, <1>3, <1>4, <2>3, <2>4, <2>5, <2>6, <2>7, ScheduleSays,
       ActivationsAreSlots, LaunchesAreCounted, SlotsAreCounted DEF Count
<1>5. CASE completed.status # "completed"
  <2>1. completed.reason # Absent
    <3>1. CASE abortReason # Absent
      BY <1>2, <3>1
    <3>2. CASE abortReason = Absent
      <4>1. Aborting # {} /\ completed.reason = log[FirstAborting].disposition
        BY <1>2, <1>5, <3>2
      <4> QED
        BY <1>1, <4>1, FirstAbortingIs, ScheduleSays DEF Aborting
    <3> QED
      BY <3>1, <3>2
  <2> QED
    BY <1>1, <1>2, <1>3, <1>5, <2>1, ActivationsAreSlots, LaunchesAreCounted,
       SlotsAreCounted DEF Count
<1> QED
  BY <1>4, <1>5

\* The completion record of a study tells what happened to every assignment:
\* what was launched is counted, a completed study has a terminal fact of all
\* it launched and no abort among them, an aborted one has its reason, for any
\* schedule, policy and outcomes (run.ts deriveStudyCompleted).
THEOREM CompletionsAreTrue == StudySpec => []CompletionIsTrue
  BY StudyStarts, StudySteps, CompletionHolds, PTL DEF StudySpec

-----------------------------------------------------------------------------
(***************************************************************************)
(* The inductive invariant behind the replacements                         *)
(***************************************************************************)
Earlier(i, a, kind) ==
  \E j \in DOMAIN log : j < i /\ log[j].assignment = a /\ log[j].kind = kind

\* What was known when the i-th event activated a held slot.
Cause(i) ==
  \E j \in DOMAIN log :
    /\ j < i /\ log[j].assignment = log[i].target /\ log[j].kind = "terminal"
    /\ policyMatches(policy, log[j].disposition, log[j].integrity)
LowestLeft(i) ==
  /\ Schedule[log[i].target].cell = Schedule[log[i].assignment].cell
  /\ \A o \in Held :
       /\ Schedule[o].cell = Schedule[log[i].assignment].cell
       /\ Schedule[o].reserve < Schedule[log[i].assignment].reserve
       => Earlier(i, o, "activated")
InTime(i) ==
  IF policy.timing = "after_primary_schedule"
  THEN \A a \in Primaries : Earlier(i, a, "terminal") \/ Earlier(i, a, "not_started")
  ELSE i - 1 \in DOMAIN log /\ log[i - 1].assignment = log[i].target
ActivationsFit ==
  \A i \in DOMAIN log : log[i].kind = "activated" =>
    Cause(i) /\ LowestLeft(i) /\ InTime(i)

CeilingFits ==
  \A a \in Assignments :
    Cardinality(Activated(log, Schedule[a].cell)) <= policy.ceiling

\* Where the first loop asks for a replacement, its primary has just ended.
TurnFits ==
  /\ policy \in Policies /\ turn \in Nat /\ turn > 0
  /\ loop = 2 => policy.timing = "after_primary_schedule"
  /\ loop = 1 /\ phase = "activate" =>
       /\ policy.timing # "after_primary_schedule" /\ AtPrimary
       /\ Len(log) \in DOMAIN log
       /\ log[Len(log)].assignment = order[turn] /\ log[Len(log)].kind = "terminal"
  /\ loop = 1 /\ phase \in {"launch", "running"} /\ current \in Primaries =>
       AtPrimary /\ current = order[turn]
  /\ phase \in {"launch", "running"} => AtPrimary

\* A primary that ended is owed no replacement.
Decided(p) ==
  \/ \A i \in DOMAIN log : log[i].assignment = p /\ log[i].kind = "terminal" =>
       ~policyMatches(policy, log[i].disposition, log[i].integrity)
  \/ Replaced(log, p) \/ p \in declined
  \/ Cardinality(Activated(log, Schedule[p].cell)) >= policy.ceiling
  \/ Reserves(log, Schedule[p].cell) = {}

\* As long as nothing aborts: the first loop decides each primary as it ends,
\* the second one primary after the other.
DecidedAtOnce ==
  policy.timing # "after_primary_schedule" =>
    \A p \in Primaries : Has(log, p, "terminal") =>
      Decided(p) \/ (phase = "activate" /\ p = order[turn])
DecidedInTurn ==
  loop = 2 /\ primaryScheduleSettled(log) =>
    \A k \in 1 .. Len(order) :
      k < turn \/ (k = turn /\ phase \in {"launch", "running"}) => Decided(order[k])
LoopsEnd ==
  phase \in {"derive", "done"} =>
    ~AtPrimary /\ (policy.timing = "after_primary_schedule" => loop = 2)
DecisionsFit ==
  abortReason = Absent => DecidedAtOnce /\ DecidedInTurn /\ LoopsEnd

\* Only an activation names what it replaces.
TargetsFit ==
  \A i \in DOMAIN log : log[i].kind # "activated" => log[i].target = Absent

ReplacementInv ==
  /\ StudyInv /\ TargetsFit
  /\ ActivationsFit /\ CeilingFits /\ TurnFits /\ DecisionsFit

\* The order of the primaries names each of them.
LEMMA OrderIs ==
  /\ Len(order) \in Nat /\ order \in [1 .. Len(order) -> Primaries]
  /\ \A p \in Primaries : \E k \in 1 .. Len(order) : order[k] = p
<1> DEFINE n == Cardinality(Primaries)
<1>1. order \in Orders /\ InOrder(order)
  BY OrderAssumption DEF order, PrimaryOrder
<1>2. IsFiniteSet(Primaries)
  BY ScheduleSays, FS_Subset
<1>3. n \in Nat
  BY <1>2, FS_CardinalityType
<1>4. order \in [1 .. n -> Primaries]
  BY <1>1 DEF Orders
<1> HIDE DEF n
<1>5. order \in Seq(Primaries) /\ Len(order) = n
  BY <1>3, <1>4
<1>6. \A i, j \in 1 .. n : i < j => order[i] # order[j]
  <2> SUFFICES ASSUME NEW i \in 1 .. n, NEW j \in 1 .. n, i < j, order[i] = order[j]
               PROVE  FALSE
    OBVIOUS
  <2>1. order[i] \in Primaries
    BY <1>4
  <2>2. /\ Schedule[order[i]].block \in Nat
        /\ SortKey[order[i]] \in Nat
    BY <2>1, OrderAssumption
  <2>3. i \in DOMAIN order /\ j \in DOMAIN order
    BY <1>4
  <2>4. \/ Schedule[order[i]].block < Schedule[order[j]].block
        \/ /\ Schedule[order[i]].block = Schedule[order[j]].block
           /\ SortKey[order[i]] < SortKey[order[j]]
    BY <1>1, <2>3 DEF InOrder
  <2>5. CASE Schedule[order[i]].block < Schedule[order[j]].block
    <3>1. Schedule[order[i]].block < Schedule[order[i]].block
      BY <2>5
    <3> QED
      BY <2>2, <3>1
  <2>6. CASE SortKey[order[i]] < SortKey[order[j]]
    <3>1. SortKey[order[i]] < SortKey[order[i]]
      BY <2>6
    <3> QED
      BY <2>2, <3>1
  <2> QED
    BY <2>4, <2>5, <2>6
<1>7. \A i, j \in 1 .. n : order[i] = order[j] => i = j
  BY <1>3, <1>6
<1>8. DOMAIN order = 1 .. n
  BY <1>4
<1>9. order \in Injection(1 .. n, Primaries)
  BY <1>4, <1>7, <1>8 DEF Injection, IsInjective
<1>10. Cardinality(1 .. n) = n
  <2>1. Cardinality(1 .. n) = IF 1 > n THEN 0 ELSE n - 1 + 1
    BY <1>3, FS_Interval
  <2> QED
    BY <1>3, <2>1
<1>11. Cardinality(1 .. n) = Cardinality(Primaries)
  BY <1>10 DEF n
<1>12. order \in Surjection(1 .. n, Primaries)
  BY <1>2, <1>9, <1>11, FS_Injection
<1> QED
  BY <1>3, <1>4, <1>5, <1>12 DEF Surjection

\* The choice of a held slot: one that is left, of the lowest reserve.
LEMMA ChosenIs ==
  ASSUME NEW cell, Reserves(log, cell) # {}
  PROVE  /\ Chosen(log, cell) \in Reserves(log, cell)
         /\ \A o \in Reserves(log, cell) :
              Schedule[Chosen(log, cell)].reserve <= Schedule[o].reserve
<1> DEFINE R == Reserves(log, cell)
           S == {Schedule[h].reserve : h \in R}
<1>1. S \in SUBSET Nat /\ S # {}
  BY ScheduleAssumption DEF Reserves
<1>2. \E m \in S : \A n \in S : m <= n
  <2> HIDE DEF S
  <2> QED
    BY <1>1, LeastOfNaturals
<1>3. \E h \in R : \A o \in R : Schedule[h].reserve <= Schedule[o].reserve
  BY <1>2
<1> QED
  BY <1>3 DEF Chosen

\* The terminal event of an assignment that has one.
LEMMA TerminalIs ==
  ASSUME Lawful, NEW a, Has(log, a, "terminal")
  PROVE  /\ TerminalOf(log, a) \in DOMAIN log
         /\ log[TerminalOf(log, a)].assignment = a
         /\ log[TerminalOf(log, a)].kind = "terminal"
         /\ \A i \in DOMAIN log : log[i].assignment = a /\ log[i].kind = "terminal" =>
              i = TerminalOf(log, a)
<1>1. \E i \in DOMAIN log : log[i].assignment = a /\ log[i].kind = "terminal"
  BY DEF Has
<1>2. /\ TerminalOf(log, a) \in DOMAIN log
      /\ log[TerminalOf(log, a)].assignment = a
      /\ log[TerminalOf(log, a)].kind = "terminal"
  BY <1>1 DEF TerminalOf
<1> QED
  BY <1>2 DEF Lawful, LedgerIsLawful, OneOfEachKind

-----------------------------------------------------------------------------
(* What a longer ledger keeps.                                              *)

\* What was known before an activation is known still.
LEMMA OldActivations ==
  ASSUME NEW d, Adds(d), UNCHANGED policy, ActivationsFit,
         NEW i \in DOMAIN log, log[i].kind = "activated"
  PROVE  Cause(i)' /\ LowestLeft(i)' /\ InTime(i)'
<1>1. Cause(i) /\ LowestLeft(i) /\ InTime(i)
  BY DEF ActivationsFit
<1>2. \A j \in DOMAIN log : j \in DOMAIN log' /\ log'[j] = log[j]
  BY DEF Adds
<1>3. \A a, k : Earlier(i, a, k) => Earlier(i, a, k)'
  BY <1>2 DEF Earlier
<1>4. Cause(i)'
  BY <1>1, <1>2 DEF Cause
<1>5. LowestLeft(i)'
  BY <1>1, <1>2, <1>3 DEF LowestLeft
<1>6. InTime(i)'
  BY <1>1, <1>2, <1>3 DEF InTime
<1> QED
  BY <1>4, <1>5, <1>6

\* A step that activates nothing disturbs neither activations nor ceilings.
LEMMA ActivationsKept ==
  ASSUME ActivationsFit, CeilingFits, UNCHANGED policy,
         \/ UNCHANGED log
         \/ \E d : Adds(d) /\ d.kind # "activated"
  PROVE  ActivationsFit' /\ CeilingFits'
<1>1. CASE UNCHANGED log
  <2>1. ActivationsFit'
    BY <1>1 DEF ActivationsFit, Cause, LowestLeft, InTime, Earlier
  <2>2. CeilingFits'
    BY <1>1 DEF CeilingFits, Activated, Has
  <2> QED
    BY <2>1, <2>2
<1>2. ASSUME NEW d, Adds(d), d.kind # "activated"
      PROVE  ActivationsFit' /\ CeilingFits'
  <2>1. \A i \in DOMAIN log' : log'[i].kind = "activated" =>
          i \in DOMAIN log /\ log[i].kind = "activated"
    BY <1>2 DEF Adds
  <2>2. ActivationsFit'
    BY <1>2, <2>1, OldActivations DEF ActivationsFit
  <2>3. \A h : Has(log', h, "activated") <=> Has(log, h, "activated")
    BY <1>2 DEF Adds
  <2>4. \A cell : Activated(log', cell) = Activated(log, cell)
    BY <2>3 DEF Activated
  <2>5. CeilingFits'
    BY <2>4 DEF CeilingFits
  <2> QED
    BY <2>2, <2>5
<1> QED
  BY <1>1, <1>2

\* A primary that ended and is owed nothing is never owed anything again.
LEMMA DecidedStays ==
  ASSUME NEW p \in Primaries, Decided(p), Has(log, p, "terminal"),
         UNCHANGED policy, policy \in Policies, declined \subseteq declined',
         \/ UNCHANGED log
         \/ \E d : Adds(d)
  PROVE  Decided(p)'
<1>1. CASE UNCHANGED log
  BY <1>1 DEF Decided, Replaced, Activated, Reserves, Has
<1>2. ASSUME NEW d, Adds(d) PROVE Decided(p)'
  <2> DEFINE cell == Schedule[p].cell
  <2>1. /\ \A i \in DOMAIN log : i \in DOMAIN log' /\ log'[i] = log[i]
        /\ \A a, k : Has(log, a, k) => Has(log', a, k)
        /\ \A i \in DOMAIN log' : i \in DOMAIN log \/ i = Len(log) + 1
        /\ ~Has(log, d.assignment, d.kind)
        /\ log'[Len(log) + 1].assignment = d.assignment
        /\ log'[Len(log) + 1].kind = d.kind
    BY <1>2 DEF Adds, Accepts
  <2>2. CASE \A i \in DOMAIN log : log[i].assignment = p /\ log[i].kind = "terminal" =>
               ~policyMatches(policy, log[i].disposition, log[i].integrity)
    <3>1. \A i \in DOMAIN log' : log'[i].assignment = p /\ log'[i].kind = "terminal" =>
            i \in DOMAIN log
      BY <2>1
    <3>2. \A i \in DOMAIN log' : log'[i].assignment = p /\ log'[i].kind = "terminal" =>
            ~policyMatches(policy', log'[i].disposition, log'[i].integrity)
      BY <2>1, <2>2, <3>1
    <3> QED
      BY <3>2 DEF Decided
  <2>3. CASE Replaced(log, p)
    BY <2>1, <2>3 DEF Decided, Replaced
  <2>4. CASE p \in declined
    BY <2>4 DEF Decided
  <2>5. CASE Cardinality(Activated(log, cell)) >= policy.ceiling
    <3>1. IsFiniteSet(Activated(log', cell)) /\ IsFiniteSet(Activated(log, cell))
      BY ScheduleSays, FS_Subset DEF Activated
    <3>2. Activated(log, cell) \subseteq Activated(log', cell)
      BY <2>1 DEF Activated
    <3>3. Cardinality(Activated(log, cell)) <= Cardinality(Activated(log', cell))
      BY <3>1, <3>2, FS_Subset
    <3>4. /\ Cardinality(Activated(log, cell)) \in Nat
          /\ Cardinality(Activated(log', cell)) \in Nat /\ policy.ceiling \in Nat
      BY <3>1, FS_CardinalityType, StudyAssumption
    <3>5. Cardinality(Activated(log', cell)) >= policy.ceiling
      BY <2>5, <3>3, <3>4
    <3> QED
      BY <3>5 DEF Decided
  <2>6. CASE Reserves(log, cell) = {}
    BY <2>1, <2>6 DEF Decided, Reserves
  <2> QED
    BY <2>2, <2>3, <2>4, <2>5, <2>6 DEF Decided
<1> QED
  BY <1>1, <1>2

\* A step that ends no primary.
EndsNoPrimary ==
  \/ UNCHANGED log
  \/ \E d : Adds(d) /\ (d.kind \in {"terminal", "not_started"} => d.assignment \notin Primaries)

LEMMA AtOnceKept ==
  ASSUME DecidedAtOnce, TurnFits, loop = 2 \/ phase # "activate",
         UNCHANGED policy, declined \subseteq declined', EndsNoPrimary
  PROVE  DecidedAtOnce'
<1> SUFFICES ASSUME policy.timing # "after_primary_schedule", NEW p \in Primaries,
                    Has(log', p, "terminal")
             PROVE  Decided(p)'
  BY DEF DecidedAtOnce
<1>1. Has(log, p, "terminal")
  BY DEF EndsNoPrimary, Adds, Has
<1>2. Decided(p)
  BY <1>1 DEF DecidedAtOnce, TurnFits
<1> QED
  BY <1>1, <1>2, DecidedStays DEF EndsNoPrimary, TurnFits

LEMMA InTurnKept ==
  ASSUME loop = 2, StudyInv, DecidedInTurn, TurnFits, abortReason = Absent,
         UNCHANGED policy, declined \subseteq declined', EndsNoPrimary,
         \A k \in 1 .. Len(order) :
           k < turn' \/ (k = turn' /\ phase' \in {"launch", "running"}) =>
             k < turn \/ (k = turn /\ phase \in {"launch", "running"})
  PROVE  DecidedInTurn'
<1> SUFFICES ASSUME primaryScheduleSettled(log'), NEW k \in 1 .. Len(order),
                    k < turn' \/ (k = turn' /\ phase' \in {"launch", "running"})
             PROVE  Decided(order[k])'
  BY DEF DecidedInTurn, order
<1>1. primaryScheduleSettled(log)
  BY DEF primaryScheduleSettled, Settled, EndsNoPrimary, Adds, Has
<1>2. order[k] \in Primaries
  BY OrderIs
<1>3. Has(log, order[k], "terminal")
  BY <1>1, <1>2, ScheduleSays DEF primaryScheduleSettled, Settled, StudyInv, OpenFits
<1>4. Decided(order[k])
  BY <1>1 DEF DecidedInTurn
<1>5. \A p \in Primaries : Decided(p) /\ Has(log, p, "terminal") => Decided(p)'
  BY DecidedStays DEF EndsNoPrimary, TurnFits
<1>6. order' = order
  BY DEF order
<1> QED
  BY <1>2, <1>3, <1>4, <1>5, <1>6

-----------------------------------------------------------------------------
(* Each action keeps what the replacements rest on.                         *)

Replacing == ActivationsFit /\ CeilingFits /\ TurnFits /\ DecisionsFit

LEMMA PlanPrimaryReplaces == StudyInv /\ Replacing /\ PlanPrimary => Replacing'
<1> SUFFICES ASSUME StudyInv, Replacing, PlanPrimary PROVE Replacing'
  OBVIOUS
<1> DEFINE d == Plain(order[turn], "planned")
<1>1. /\ Lawful /\ ActivationsFit /\ CeilingFits /\ TurnFits /\ DecisionsFit
      /\ loop = 1 /\ phase = "plan" /\ AtPrimary /\ UNCHANGED <<policy, declined>>
      /\ abortReason' = abortReason /\ loop' = 1
      /\ Len(order) \in Nat /\ order' = order
  BY OrderIs DEF StudyInv, Replacing, PlanPrimary, Break, order
<1>2. d.assignment = order[turn] /\ d.kind = "planned" /\ IsDraft(d)
  BY PlainIsDraft DEF Plain, EventKinds
<1>3. UNCHANGED log \/ Adds(d)
  BY <1>1, <1>2, AppendedAdds DEF PlanPrimary, Refused
<1> HIDE DEF d
<1>4. ActivationsFit' /\ CeilingFits'
  BY <1>1, <1>2, <1>3, ActivationsKept
<1>5. /\ turn' \in Nat /\ turn' > 0 /\ phase' \in {"plan", "launch", "skip"}
      /\ phase' = "launch" => turn' = turn /\ current' = order[turn]
  BY <1>1 DEF PlanPrimary, Break, TurnFits
<1>6. TurnFits'
  BY <1>1, <1>5 DEF TurnFits, AtPrimary
<1>7. EndsNoPrimary
  BY <1>2, <1>3 DEF EndsNoPrimary
<1>8. DecisionsFit'
  BY <1>1, <1>5, <1>7, AtOnceKept DEF DecisionsFit, DecidedInTurn, LoopsEnd
<1> QED
  BY <1>4, <1>6, <1>8 DEF Replacing

LEMMA SkipPrimaryReplaces == StudyInv /\ Replacing /\ SkipPrimary => Replacing'
<1> SUFFICES ASSUME StudyInv, Replacing, SkipPrimary PROVE Replacing'
  OBVIOUS
<1> DEFINE d == Plain(current, "not_started")
<1>1. /\ Lawful /\ ActivationsFit /\ CeilingFits /\ TurnFits
      /\ loop = 1 /\ phase = "skip" /\ UNCHANGED policy
      /\ abortReason' # Absent /\ loop' = 1 /\ phase' = "plan" /\ turn' = turn + 1
  BY DEF StudyInv, Replacing, SkipPrimary, Continue, PhasesFit
<1>2. d.assignment = current /\ d.kind = "not_started" /\ IsDraft(d)
  BY PlainIsDraft DEF Plain, EventKinds
<1>3. UNCHANGED log \/ Adds(d)
  BY <1>1, <1>2, AppendedAdds DEF SkipPrimary, Refused
<1> HIDE DEF d
<1>4. ActivationsFit' /\ CeilingFits'
  BY <1>1, <1>2, <1>3, ActivationsKept
<1>5. TurnFits'
  BY <1>1 DEF TurnFits
<1>6. DecisionsFit'
  BY <1>1 DEF DecisionsFit
<1> QED
  BY <1>4, <1>5, <1>6 DEF Replacing

\* A run that was refused an event: where the loops are then.
LEMMA InvalidReplaces ==
  ASSUME StudyInv, Replacing, phase \in {"launch", "running"}, Refused, Invalid,
         UNCHANGED <<policy, declined>>
  PROVE  Replacing'
<1>1. /\ Lawful /\ ActivationsFit /\ CeilingFits /\ TurnFits /\ DecisionsFit
      /\ PhasesFit /\ UNCHANGED <<log, policy, declined>>
      /\ Len(order) \in Nat /\ order' = order
  BY OrderIs DEF StudyInv, Replacing, Refused, order
<1>2. /\ loop' = loop /\ phase' = (IF loop = 1 THEN "plan" ELSE "activate")
      /\ abortReason # Absent => abortReason' # Absent
      /\ current \in Primaries \/ abortReason' # Absent
  BY <1>1, InvalidLoops
<1>3. ActivationsFit' /\ CeilingFits'
  BY <1>1, ActivationsKept
<1>4. turn' \in Nat /\ turn' > 0
  BY <1>1 DEF Invalid, Continue, Break, TurnFits
<1>5. TurnFits'
  BY <1>1, <1>2, <1>4 DEF TurnFits, PhasesFit
<1>6. DecisionsFit'
  <2> SUFFICES ASSUME abortReason' = Absent PROVE DecidedAtOnce' /\ DecidedInTurn' /\ LoopsEnd'
    BY DEF DecisionsFit
  <2>1. loop = 1 /\ abortReason = Absent
    BY <1>1, <1>2, ScheduleSays DEF PhasesFit
  <2> QED
    BY <1>1, <1>2, <2>1, AtOnceKept
    DEF DecisionsFit, DecidedInTurn, LoopsEnd, EndsNoPrimary
<1> QED
  BY <1>3, <1>5, <1>6 DEF Replacing

LEMMA LaunchReplaces == StudyInv /\ Replacing /\ Launch => Replacing'
<1> SUFFICES ASSUME StudyInv, Replacing, Launch PROVE Replacing'
  OBVIOUS
<1> DEFINE d == LaunchDraft
<1>1. /\ Lawful /\ ActivationsFit /\ CeilingFits /\ TurnFits /\ DecisionsFit
      /\ phase = "launch" /\ UNCHANGED <<policy, declined>>
      /\ loop \in {1, 2} /\ Len(order) \in Nat /\ order' = order
  BY OrderIs DEF StudyInv, Replacing, Launch, PhasesFit, order
<1>2. d.assignment = current /\ d.kind = "launched" /\ IsDraft(d)
  BY DEF LaunchDraft, Plain, EventKinds, IsDraft, Members
<1>3. CASE Appended(d) /\ phase' = "running" /\ UNCHANGED <<loop, turn, current, abortReason>>
  <2>1. Adds(d)
    BY <1>1, <1>2, <1>3, AppendedAdds
  <2> HIDE DEF d
  <2>2. ActivationsFit' /\ CeilingFits'
    BY <1>1, <1>2, <2>1, ActivationsKept
  <2>3. TurnFits'
    BY <1>1, <1>3 DEF TurnFits, AtPrimary
  <2>4. EndsNoPrimary
    BY <1>2, <2>1 DEF EndsNoPrimary
  <2>5. DecisionsFit'
    <3> SUFFICES ASSUME abortReason = Absent
                 PROVE  DecidedAtOnce' /\ DecidedInTurn' /\ LoopsEnd'
      BY <1>3 DEF DecisionsFit
    <3>1. DecidedAtOnce'
      BY <1>1, <2>4, AtOnceKept DEF DecisionsFit
    <3>2. CASE loop = 2
      BY <1>1, <1>3, <2>4, <3>1, <3>2, InTurnKept DEF DecisionsFit, LoopsEnd
    <3>3. CASE loop = 1
      BY <1>3, <3>1, <3>3 DEF DecidedInTurn, LoopsEnd
    <3> QED
      BY <1>1, <3>2, <3>3
  <2> QED
    BY <2>2, <2>3, <2>5 DEF Replacing
<1>4. CASE Refused /\ Invalid
  BY <1>1, <1>4, InvalidReplaces
<1> QED
  BY <1>3, <1>4 DEF Launch

LEMMA TrialEndsReplaces ==
  ASSUME StudyInv, Replacing, NEW o \in Outcomes, TrialEnds(o) PROVE Replacing'
<1> DEFINE d == TerminalDraft(o)
<1>1. /\ Lawful /\ ActivationsFit /\ CeilingFits /\ TurnFits /\ DecisionsFit /\ PhasesFit
      /\ phase = "running" /\ UNCHANGED <<policy, declined>>
      /\ loop \in {1, 2} /\ current \in Assignments
      /\ Len(order) \in Nat /\ order' = order
  BY OrderIs DEF StudyInv, Replacing, TrialEnds, PhasesFit, order
<1>2. d.assignment = current /\ d.kind = "terminal" /\ IsDraft(d)
  BY DEF TerminalDraft, Plain, EventKinds, IsDraft, Members
<1>3. CASE Appended(d) /\ AfterTrial(o)
  <2>1. Adds(d)
    BY <1>1, <1>2, <1>3, AppendedAdds
  <2> HIDE DEF d
  <2>2. ActivationsFit' /\ CeilingFits'
    BY <1>1, <1>2, <2>1, ActivationsKept
  <2>3. CASE current \in Held
    <3>1. /\ turn' = turn + 1 /\ loop' = loop /\ abortReason' = abortReason
          /\ phase' = IF loop = 1 THEN "plan" ELSE "activate"
      BY <1>3, <2>3 DEF AfterTrial, Continue
    <3>2. TurnFits'
      BY <1>1, <3>1 DEF TurnFits
    <3>3. EndsNoPrimary
      BY <1>2, <2>1, <2>3, ScheduleSays DEF EndsNoPrimary
    <3>4. DecisionsFit'
      <4> SUFFICES ASSUME abortReason = Absent
                   PROVE  DecidedAtOnce' /\ DecidedInTurn' /\ LoopsEnd'
        BY <3>1 DEF DecisionsFit
      <4>1. DecidedAtOnce' /\ LoopsEnd'
        BY <1>1, <3>1, <3>3, AtOnceKept DEF DecisionsFit, LoopsEnd
      <4>2. CASE loop = 2
        <5>1. \A k \in 1 .. Len(order) :
                k < turn' \/ (k = turn' /\ phase' \in {"launch", "running"}) =>
                  k < turn \/ (k = turn /\ phase \in {"launch", "running"})
          BY <1>1, <3>1 DEF TurnFits
        <5> QED
          BY <1>1, <3>3, <4>1, <4>2, <5>1, InTurnKept DEF DecisionsFit
      <4>3. CASE loop = 1
        BY <3>1, <4>1, <4>3 DEF DecidedInTurn
      <4> QED
        BY <1>1, <4>1, <4>2, <4>3
    <3> QED
      BY <2>2, <3>2, <3>4 DEF Replacing
  <2>4. CASE current \in Primaries
    <3>1. loop = 1 /\ abortReason = Absent /\ AtPrimary /\ current = order[turn]
      BY <1>1, <2>4, ScheduleSays DEF PhasesFit, TurnFits
    <3>2. CASE /\ policy.timing = "immediate_after_terminal" /\ phase' = "activate"
               /\ UNCHANGED <<loop, turn, current, abortReason>>
      <4>1. /\ Len(log') \in DOMAIN log' /\ log'[Len(log')].assignment = order[turn]
            /\ log'[Len(log')].kind = "terminal"
        BY <1>2, <2>1, <3>1 DEF Adds
      <4>2. TurnFits'
        BY <1>1, <3>1, <3>2, <4>1 DEF TurnFits, AtPrimary
      <4>3. DecidedAtOnce'
        <5> SUFFICES ASSUME NEW p \in Primaries, Has(log', p, "terminal"), p # order[turn]
                     PROVE  Decided(p)'
          BY <1>1, <3>2 DEF DecidedAtOnce
        <5>1. Has(log, p, "terminal")
          BY <1>2, <2>1, <3>1 DEF Adds
        <5>2. Decided(p)
          BY <1>1, <3>1, <3>2, <5>1 DEF DecisionsFit, DecidedAtOnce
        <5> QED
          BY <1>1, <2>1, <5>1, <5>2, DecidedStays DEF TurnFits
      <4> QED
        BY <2>2, <3>1, <3>2, <4>2, <4>3
        DEF Replacing, DecisionsFit, DecidedInTurn, LoopsEnd
    <3>3. CASE ~(abortReasonOf(o) = Absent /\ policy.timing = "immediate_after_terminal")
      <4>1. /\ turn' = turn + 1 /\ loop' = 1 /\ abortReason' = abortReasonOf(o)
            /\ phase' = "plan"
        BY <1>3, <2>4, <3>1, <3>3, ScheduleSays DEF AfterTrial, Continue
      <4>2. TurnFits'
        BY <1>1, <4>1 DEF TurnFits
      <4>3. abortReason' = Absent => policy.timing = "after_primary_schedule"
        BY <1>1, <3>3, <4>1, StudyAssumption DEF TurnFits
      <4>4. DecisionsFit'
        BY <1>1, <4>1, <4>3 DEF DecisionsFit, DecidedAtOnce, DecidedInTurn, LoopsEnd
      <4> QED
        BY <2>2, <4>2, <4>4 DEF Replacing
    <3> QED
      BY <1>3, <2>4, <3>2, <3>3, ScheduleSays DEF AfterTrial
  <2> QED
    BY <1>1, <2>3, <2>4, ScheduleSays
<1>4. CASE Refused /\ Invalid
  BY <1>1, <1>4, InvalidReplaces
<1> QED
  BY <1>3, <1>4 DEF TrialEnds

LEMMA TrialThrowsReplaces == StudyInv /\ Replacing /\ TrialThrows => Replacing'
<1> SUFFICES ASSUME StudyInv, Replacing, TrialThrows PROVE Replacing'
  OBVIOUS
<1> DEFINE d == [Plain(current, "terminal") EXCEPT !.disposition = "harness_aborted"]
<1>1. /\ Lawful /\ ActivationsFit /\ CeilingFits /\ TurnFits
      /\ phase = "running" /\ UNCHANGED policy
      /\ loop \in {1, 2} /\ Len(order) \in Nat
  BY OrderIs DEF StudyInv, Replacing, TrialThrows, PhasesFit
<1>2. d.assignment = current /\ d.kind = "terminal" /\ IsDraft(d)
  BY DEF Plain, EventKinds, IsDraft, Members
<1>3. UNCHANGED log \/ Adds(d)
  BY <1>1, <1>2, AppendedAdds DEF TrialThrows, Refused
<1> HIDE DEF d
<1>4. ActivationsFit' /\ CeilingFits'
  BY <1>1, <1>2, <1>3, ActivationsKept
<1>5. /\ turn' \in Nat /\ turn' > 0 /\ loop' = loop /\ abortReason' # Absent
      /\ phase' = IF loop = 1 THEN "plan" ELSE "activate"
  BY <1>1, ScheduleSays DEF TrialThrows, Continue, Break, TurnFits
<1>6. TurnFits'
  BY <1>1, <1>5 DEF TurnFits
<1>7. DecisionsFit'
  BY <1>5 DEF DecisionsFit
<1> QED
  BY <1>4, <1>6, <1>7 DEF Replacing

\* The primary the loops are at is one of the schedule.
LEMMA TurnIs ==
  ASSUME TurnFits, AtPrimary PROVE turn \in 1 .. Len(order) /\ order[turn] \in Primaries
  BY OrderIs DEF TurnFits, AtPrimary

\* The activation of a held slot, with all that was known.
LEMMA ActivationFits ==
  ASSUME Lawful, ActivationsFit, CeilingFits, TurnFits, AtPrimary, Answerable,
         Adds(Activation(log, order[turn])), UNCHANGED policy
  PROVE  ActivationsFit' /\ CeilingFits'
<1> DEFINE p == order[turn]
           cell == Schedule[p].cell
           h == Chosen(log, cell)
           t == TerminalOf(log, p)
           d == Activation(log, p)
<1>0. PICK n : n = Len(log) + 1
  OBVIOUS
<1>1. p \in Primaries
  BY TurnIs
<1>2. /\ Has(log, p, "terminal") /\ policyMatches(policy, log[t].disposition, log[t].integrity)
      /\ TimingAllows(log, policy, p)
      /\ Cardinality(Activated(log, cell)) < policy.ceiling /\ Reserves(log, cell) # {}
  BY DEF Answerable, Replaceable
<1>3. /\ h \in Held /\ Schedule[h].cell = cell /\ ~Has(log, h, "activated")
      /\ \A o \in Reserves(log, cell) : Schedule[h].reserve <= Schedule[o].reserve
  <2>1. h \in Reserves(log, cell)
    BY <1>2, ChosenIs
  <2>2. \A o \in Reserves(log, cell) : Schedule[h].reserve <= Schedule[o].reserve
    BY <1>2, ChosenIs
  <2> QED
    BY <2>1, <2>2 DEF Reserves
<1>4. d.assignment = h /\ d.kind = "activated" /\ d.target = p
  BY DEF Activation
<1>5. /\ t \in DOMAIN log /\ log[t].assignment = p /\ log[t].kind = "terminal"
  BY <1>2, TerminalIs
<1> HIDE DEF d, h, t, p
<1>6. /\ n \in Nat /\ n \notin DOMAIN log /\ DOMAIN log = 1 .. Len(log)
      /\ DOMAIN log' = DOMAIN log \cup {n}
      /\ \A i \in DOMAIN log : i \in Nat /\ i < n /\ log'[i] = log[i]
      /\ log'[n].assignment = h /\ log'[n].kind = "activated" /\ log'[n].target = p
      /\ \A a, k : Has(log', a, k) <=> Has(log, a, k) \/ (a = h /\ k = "activated")
  BY <1>0, <1>4 DEF Adds, d, p
<1>7. \A a, k : Has(log, a, k) => \E j \in DOMAIN log' :
        j < n /\ log'[j].assignment = a /\ log'[j].kind = k
  BY <1>6 DEF Has
<1>8. Cause(n)'
  BY <1>2, <1>5, <1>6 DEF Cause
<1>9. LowestLeft(n)'
  <2>1. ASSUME NEW o \in Held, Schedule[o].cell = cell, Schedule[o].reserve < Schedule[h].reserve
        PROVE  Has(log, o, "activated")
    <3>1. Schedule[o].reserve \in Nat /\ Schedule[h].reserve \in Nat
      BY <1>3, ScheduleAssumption
    <3>2. o \notin Reserves(log, cell)
      BY <1>3, <2>1, <3>1
    <3> QED
      BY <2>1, <3>2 DEF Reserves
  <2> QED
    BY <1>3, <1>6, <1>7, <2>1 DEF LowestLeft, Earlier
<1>10. InTime(n)'
  <2>1. CASE policy.timing = "after_primary_schedule"
    <3>1. \A a \in Primaries : Has(log, a, "terminal") \/ Has(log, a, "not_started")
      BY <1>2, <2>1 DEF TimingAllows, primaryScheduleSettled, Settled
    <3> QED
      BY <1>7, <2>1, <3>1 DEF InTime, Earlier
  <2>2. CASE policy.timing # "after_primary_schedule"
    <3>1. Len(log) = t
      BY <1>2, <2>2 DEF TimingAllows, t
    <3>2. n - 1 = t
      <4>1. t \in Nat /\ n = t + 1
        BY <1>0, <1>5, <1>6, <3>1
      <4> QED
        BY <4>1
    <3> QED
      BY <1>5, <1>6, <2>2, <3>2 DEF InTime
  <2> QED
    BY <2>1, <2>2
<1>11. ActivationsFit'
  <2>1. Adds(d)
    BY DEF d, p
  <2>2. \A i \in DOMAIN log : log'[i].kind = "activated" => log[i].kind = "activated"
    BY <1>6
  <2>3. \A i \in DOMAIN log : log[i].kind = "activated" =>
          Cause(i)' /\ LowestLeft(i)' /\ InTime(i)'
    BY <2>1, OldActivations
  <2> QED
    BY <1>6, <1>8, <1>9, <1>10, <2>2, <2>3 DEF ActivationsFit
<1>12. CeilingFits'
  <2> SUFFICES ASSUME NEW a \in Assignments
               PROVE  Cardinality(Activated(log', Schedule[a].cell)) <= policy.ceiling
    BY DEF CeilingFits
  <2>1. CASE Schedule[a].cell = cell
    <3>1. Activated(log', cell) = Activated(log, cell) \cup {h}
      BY <1>3, <1>6 DEF Activated
    <3>2. IsFiniteSet(Activated(log, cell)) /\ h \notin Activated(log, cell)
      BY <1>3, ScheduleSays, FS_Subset DEF Activated
    <3>3. /\ Cardinality(Activated(log', cell)) = Cardinality(Activated(log, cell)) + 1
          /\ Cardinality(Activated(log, cell)) \in Nat
      BY <3>1, <3>2, FS_AddElement, FS_CardinalityType
    <3>4. policy.ceiling \in Nat
      BY StudyAssumption DEF TurnFits
    <3> QED
      BY <1>2, <2>1, <3>3, <3>4
  <2>2. CASE Schedule[a].cell # cell
    <3>1. Activated(log', Schedule[a].cell) = Activated(log, Schedule[a].cell)
      BY <1>3, <1>6, <2>2 DEF Activated
    <3> QED
      BY <3>1 DEF CeilingFits
  <2> QED
    BY <2>1, <2>2
<1> QED
  BY <1>11, <1>12

LEMMA ActivateReplaces == StudyInv /\ Replacing /\ Activate => Replacing'
<1> SUFFICES ASSUME StudyInv, Replacing, Activate PROVE Replacing'
  OBVIOUS
<1> DEFINE d == Activation(log, order[turn])
<1>1. /\ Lawful /\ ActivationsFit /\ CeilingFits /\ TurnFits /\ DecisionsFit
      /\ phase = "activate" /\ AtPrimary /\ Answerable /\ UNCHANGED policy
      /\ loop \in {1, 2} /\ Len(order) \in Nat /\ order' = order
  BY OrderIs DEF StudyInv, Replacing, Activate, PhasesFit, order
<1>2. turn \in 1 .. Len(order) /\ order[turn] \in Primaries
  BY <1>1, TurnIs
<1>0. PICK q : q = order[turn]
  OBVIOUS
<1>3. /\ d.assignment = Chosen(log, Schedule[order[turn]].cell)
      /\ d.kind = "activated" /\ d.target = order[turn] /\ IsDraft(d)
  BY DEF Activation, EventKinds, IsDraft, Members
<1>4. CASE /\ Appended(d) /\ UNCHANGED <<loop, turn, abortReason, declined>>
           /\ current' = Chosen(log, Schedule[order[turn]].cell)
           /\ phase' = "launch"
  <2>1. Adds(d)
    BY <1>1, <1>3, <1>4, AppendedAdds
  <2>2. d.assignment \in Held
    BY <1>3, <2>1, AcceptedIs DEF Adds, EventKinds
  <2>3. ActivationsFit' /\ CeilingFits'
    BY <1>1, <2>1, ActivationFits
  <2> HIDE DEF d
  <2>4. TurnFits'
    BY <1>1, <1>3, <1>4, <2>2, ScheduleSays DEF TurnFits, AtPrimary
  <2>5. Decided(q)'
    BY <1>0, <1>1, <1>3, <2>1 DEF Decided, Replaced, Adds
  <2>6. DecisionsFit'
    <3> SUFFICES ASSUME abortReason = Absent
                 PROVE  DecidedAtOnce' /\ DecidedInTurn' /\ LoopsEnd'
      BY <1>4 DEF DecisionsFit
    <3>1. \A p \in Primaries : Decided(p) /\ Has(log, p, "terminal") => Decided(p)'
      BY <1>1, <1>4, <2>1, DecidedStays DEF TurnFits
    <3>2. \A p \in Primaries, k \in {"terminal", "not_started"} :
            Has(log', p, k) => Has(log, p, k)
      BY <1>3, <2>1 DEF Adds
    <3>3. DecidedAtOnce'
      <4> SUFFICES ASSUME policy.timing # "after_primary_schedule", NEW p \in Primaries,
                          Has(log', p, "terminal"), p # q
                   PROVE  Decided(p)'
        BY <1>0, <1>1, <1>4, <2>5 DEF DecidedAtOnce
      <4> QED
        BY <1>0, <1>1, <3>1, <3>2 DEF DecisionsFit, DecidedAtOnce
    <3>4. DecidedInTurn'
      <4> SUFFICES ASSUME loop = 2, primaryScheduleSettled(log'),
                          NEW k \in 1 .. Len(order), k < turn
                   PROVE  Decided(order[k])'
        BY <1>0, <1>1, <1>2, <1>4, <2>5 DEF DecidedInTurn
      <4>1. primaryScheduleSettled(log)
        BY <3>2 DEF primaryScheduleSettled, Settled
      <4>2. order[k] \in Primaries
        BY OrderIs
      <4>3. Has(log, order[k], "terminal")
        BY <4>1, <4>2, ScheduleSays DEF primaryScheduleSettled, Settled, StudyInv, OpenFits
      <4> QED
        BY <1>1, <3>1, <4>1, <4>2, <4>3 DEF DecisionsFit, DecidedInTurn
    <3> QED
      BY <1>4, <3>3, <3>4 DEF LoopsEnd
  <2> QED
    BY <2>3, <2>4, <2>6 DEF Replacing
<1>5. CASE Refused /\ declined' = declined \cup {order[turn]} /\ Continue(abortReason)
  <2>1. /\ UNCHANGED log /\ loop' = loop /\ abortReason' = abortReason /\ turn' = turn + 1
        /\ phase' = (IF loop = 1 THEN "plan" ELSE "activate")
    BY <1>5 DEF Refused, Continue
  <2>2. ActivationsFit' /\ CeilingFits'
    BY <1>1, <2>1, ActivationsKept
  <2>3. TurnFits'
    BY <1>1, <2>1 DEF TurnFits
  <2>4. Decided(q)'
    BY <1>0, <1>1, <1>5 DEF Decided
  <2>5. DecisionsFit'
    <3> SUFFICES ASSUME abortReason = Absent
                 PROVE  DecidedAtOnce' /\ DecidedInTurn' /\ LoopsEnd'
      BY <2>1 DEF DecisionsFit
    <3>1. \A p \in Primaries : Decided(p) /\ Has(log, p, "terminal") => Decided(p)'
      BY <1>1, <1>5, <2>1, DecidedStays DEF TurnFits
    <3>2. DecidedAtOnce'
      <4> SUFFICES ASSUME policy.timing # "after_primary_schedule", NEW p \in Primaries,
                          Has(log, p, "terminal"), p # q
                   PROVE  Decided(p)'
        BY <1>0, <1>1, <2>1, <2>4 DEF DecidedAtOnce
      <4> QED
        BY <1>0, <1>1, <3>1 DEF DecisionsFit, DecidedAtOnce
    <3>3. DecidedInTurn'
      <4> SUFFICES ASSUME loop = 2, primaryScheduleSettled(log),
                          NEW k \in 1 .. Len(order), k < turn + 1, k # turn
                   PROVE  Decided(order[k])'
        BY <1>0, <1>1, <1>2, <2>1, <2>4 DEF DecidedInTurn
      <4>1. order[k] \in Primaries /\ k < turn
        BY <1>2, OrderIs
      <4>2. Has(log, order[k], "terminal")
        BY <4>1, ScheduleSays DEF primaryScheduleSettled, Settled, StudyInv, OpenFits
      <4> QED
        BY <1>1, <3>1, <4>1, <4>2 DEF DecisionsFit, DecidedInTurn
    <3> QED
      BY <2>1, <3>2, <3>3 DEF LoopsEnd
  <2> QED
    BY <2>2, <2>3, <2>5 DEF Replacing
<1> QED
  BY <1>4, <1>5 DEF Activate

LEMMA DeclineReplaces == StudyInv /\ Replacing /\ Decline => Replacing'
<1> SUFFICES ASSUME StudyInv, Replacing, Decline PROVE Replacing'
  OBVIOUS
<1>1. /\ Lawful /\ ActivationsFit /\ CeilingFits /\ TurnFits /\ DecisionsFit
      /\ phase = "activate" /\ AtPrimary /\ ~Answerable
      /\ UNCHANGED <<log, policy, declined>>
      /\ loop \in {1, 2} /\ Len(order) \in Nat /\ order' = order
      /\ loop' = loop /\ abortReason' = abortReason /\ turn' = turn + 1
      /\ phase' = (IF loop = 1 THEN "plan" ELSE "activate")
  BY OrderIs DEF StudyInv, Replacing, Decline, PhasesFit, order, Continue
<1>2. turn \in 1 .. Len(order) /\ order[turn] \in Primaries
  BY <1>1, TurnIs
<1>0. PICK q : q = order[turn]
  OBVIOUS
<1>3. ActivationsFit' /\ CeilingFits'
  BY <1>1, ActivationsKept
<1>4. TurnFits'
  BY <1>1 DEF TurnFits
<1>5. ASSUME Has(log, order[turn], "terminal"), TimingAllows(log, policy, order[turn])
      PROVE  Decided(order[turn])
  <2> DEFINE p == order[turn]
             cell == Schedule[p].cell
  <2>1. ~Replaceable(log, policy, p)
    BY <1>1, <1>5 DEF Answerable
  <2>2. policy.ceiling \in Nat /\ (policy.kind = "held-same-cell" \/ policy.ceiling = 0)
    BY <1>1, StudyAssumption DEF TurnFits
  <2>3. Cardinality(Activated(log, cell)) \in Nat
    <3>1. IsFiniteSet(Activated(log, cell))
      BY ScheduleSays, FS_Subset DEF Activated
    <3> QED
      BY <3>1, FS_CardinalityType
  <2>4. \A i \in DOMAIN log : log[i].assignment = p /\ log[i].kind = "terminal" =>
          i = TerminalOf(log, p)
    BY <1>1, <1>5, TerminalIs
  <2>5. CASE policyMatches(policy, log[TerminalOf(log, p)].disposition,
                           log[TerminalOf(log, p)].integrity)
    <3>1. \/ Replaced(log, p) \/ policy.kind # "held-same-cell"
          \/ ~(Cardinality(Activated(log, cell)) < policy.ceiling)
          \/ Reserves(log, cell) = {}
      BY <1>5, <2>1, <2>5 DEF Replaceable
    <3>2. CASE Replaced(log, p)
      BY <3>2 DEF Decided
    <3>3. CASE Reserves(log, cell) = {}
      BY <3>3 DEF Decided
    <3>4. CASE policy.kind # "held-same-cell" \/ ~(Cardinality(Activated(log, cell)) < policy.ceiling)
      <4>1. Cardinality(Activated(log, cell)) >= policy.ceiling
        BY <2>2, <2>3, <3>4
      <4> QED
        BY <4>1 DEF Decided
    <3> QED
      BY <3>1, <3>2, <3>3, <3>4
  <2>6. CASE ~policyMatches(policy, log[TerminalOf(log, p)].disposition,
                            log[TerminalOf(log, p)].integrity)
    BY <2>4, <2>6 DEF Decided
  <2> QED
    BY <2>5, <2>6
<1>6. DecisionsFit'
  <2> SUFFICES ASSUME abortReason = Absent
               PROVE  DecidedAtOnce' /\ DecidedInTurn' /\ LoopsEnd'
    BY <1>1 DEF DecisionsFit
  <2>1. \A p \in Primaries : Decided(p) /\ Has(log, p, "terminal") => Decided(p)'
    BY <1>1, DecidedStays DEF TurnFits
  <2>2. CASE loop = 1
    <3>1. /\ log[Len(log)].assignment = order[turn] /\ log[Len(log)].kind = "terminal"
          /\ Len(log) \in DOMAIN log /\ policy.timing # "after_primary_schedule"
      BY <1>1, <2>2 DEF TurnFits
    <3>2. Has(log, order[turn], "terminal")
      BY <3>1 DEF Has
    <3>3. TimingAllows(log, policy, order[turn])
      BY <1>1, <3>1, <3>2, TerminalIs DEF TimingAllows
    <3>4. Decided(q)'
      BY <1>0, <1>2, <1>5, <2>1, <3>2, <3>3
    <3>5. DecidedAtOnce'
      <4> SUFFICES ASSUME NEW p \in Primaries, Has(log, p, "terminal"), p # q
                   PROVE  Decided(p)'
        BY <1>0, <1>1, <3>4 DEF DecidedAtOnce
      <4> QED
        BY <1>0, <1>1, <2>1, <3>1 DEF DecisionsFit, DecidedAtOnce
    <3> QED
      BY <1>1, <2>2, <3>5 DEF DecidedInTurn, LoopsEnd
  <2>3. CASE loop = 2
    <3>1. policy.timing = "after_primary_schedule"
      BY <1>1, <2>3 DEF TurnFits
    <3>2. DecidedInTurn'
      <4> SUFFICES ASSUME primaryScheduleSettled(log), NEW k \in 1 .. Len(order), k < turn + 1
                   PROVE  Decided(order[k])'
        BY <1>1, <2>3 DEF DecidedInTurn
      <4>1. order[k] \in Primaries
        BY OrderIs
      <4>2. Has(log, order[k], "terminal")
        BY <4>1, ScheduleSays DEF primaryScheduleSettled, Settled, StudyInv, OpenFits
      <4>3. CASE k = turn
        <5>1. TimingAllows(log, policy, order[turn])
          BY <3>1 DEF TimingAllows
        <5> QED
          BY <1>2, <1>5, <2>1, <4>2, <4>3, <5>1
      <4>4. CASE k # turn
        <5>1. k < turn
          BY <1>2, <4>4
        <5> QED
          BY <1>1, <2>1, <2>3, <4>1, <4>2, <5>1 DEF DecisionsFit, DecidedInTurn
      <4> QED
        BY <4>3, <4>4
    <3> QED
      BY <1>1, <2>3, <3>1, <3>2 DEF DecidedAtOnce, LoopsEnd
  <2> QED
    BY <1>1, <2>2, <2>3
<1> QED
  BY <1>3, <1>4, <1>6 DEF Replacing

LEMMA EndLoopReplaces == StudyInv /\ Replacing /\ EndLoop => Replacing'
<1> SUFFICES ASSUME StudyInv, Replacing, EndLoop PROVE Replacing'
  OBVIOUS
<1>1. /\ ActivationsFit /\ CeilingFits /\ TurnFits /\ DecisionsFit /\ PhasesFit
      /\ phase \in {"plan", "activate"} /\ ~AtPrimary /\ loop \in {1, 2}
      /\ UNCHANGED <<log, policy, declined, abortReason, current>>
      /\ Len(order) \in Nat /\ order' = order
  BY OrderIs DEF StudyInv, Replacing, EndLoop, PhasesFit, order
<1>2. ActivationsFit' /\ CeilingFits'
  BY <1>1, ActivationsKept
<1>3. CASE /\ loop = 1 /\ abortReason = Absent /\ policy.timing = "after_primary_schedule"
           /\ loop' = 2 /\ turn' = 1 /\ phase' = "activate"
  <2>1. TurnFits'
    BY <1>1, <1>3 DEF TurnFits
  <2>2. DecisionsFit'
    BY <1>1, <1>3 DEF DecisionsFit, DecidedAtOnce, DecidedInTurn, LoopsEnd
  <2> QED
    BY <1>2, <2>1, <2>2 DEF Replacing
<1>4. CASE /\ ~(loop = 1 /\ abortReason = Absent /\ policy.timing = "after_primary_schedule")
           /\ phase' = "derive" /\ UNCHANGED <<loop, turn>>
  <2>1. TurnFits'
    BY <1>1, <1>4 DEF TurnFits
  <2>2. DecisionsFit'
    <3> SUFFICES ASSUME abortReason = Absent
                 PROVE  DecidedAtOnce' /\ DecidedInTurn' /\ LoopsEnd'
      BY <1>1 DEF DecisionsFit
    <3>1. LoopsEnd'
      BY <1>1, <1>4 DEF LoopsEnd, AtPrimary
    <3>2. loop = 2 \/ phase # "activate"
      BY <1>1 DEF TurnFits
    <3>3. DecidedAtOnce'
      BY <1>1, <3>2, AtOnceKept DEF DecisionsFit, EndsNoPrimary
    <3>4. CASE loop = 2
      BY <1>1, <1>4, <3>1, <3>3, <3>4, InTurnKept DEF DecisionsFit, EndsNoPrimary
    <3>5. CASE loop = 1
      BY <1>4, <3>1, <3>3, <3>5 DEF DecidedInTurn
    <3> QED
      BY <1>1, <3>4, <3>5
  <2> QED
    BY <1>2, <2>1, <2>2 DEF Replacing
<1> QED
  BY <1>3, <1>4 DEF EndLoop

LEMMA DeriveReplaces == StudyInv /\ Replacing /\ Derive => Replacing'
<1> SUFFICES ASSUME StudyInv, Replacing, Derive PROVE Replacing'
  OBVIOUS
<1>1. /\ ActivationsFit /\ CeilingFits /\ TurnFits /\ DecisionsFit /\ PhasesFit
      /\ phase = "derive" /\ phase' = "done" /\ loop \in {1, 2}
      /\ UNCHANGED <<log, policy, declined, abortReason, current, loop, turn>>
      /\ Len(order) \in Nat /\ order' = order
  BY OrderIs DEF StudyInv, Replacing, Derive, PhasesFit, order
<1>2. ActivationsFit' /\ CeilingFits'
  BY <1>1, ActivationsKept
<1>3. TurnFits'
  BY <1>1 DEF TurnFits
<1>4. DecisionsFit'
  <2> SUFFICES ASSUME abortReason = Absent
               PROVE  DecidedAtOnce' /\ DecidedInTurn' /\ LoopsEnd'
    BY <1>1 DEF DecisionsFit
  <2>1. LoopsEnd' /\ DecidedAtOnce'
    BY <1>1, AtOnceKept DEF DecisionsFit, EndsNoPrimary, LoopsEnd, AtPrimary
  <2>2. CASE loop = 2
    BY <1>1, <2>1, <2>2, InTurnKept DEF DecisionsFit, EndsNoPrimary
  <2>3. CASE loop = 1
    BY <1>1, <2>1, <2>3 DEF DecidedInTurn
  <2> QED
    BY <1>1, <2>2, <2>3
<1> QED
  BY <1>2, <1>3, <1>4 DEF Replacing

LEMMA StutterReplaces == Replacing /\ UNCHANGED studyVars => Replacing'
<1> SUFFICES ASSUME Replacing, UNCHANGED studyVars PROVE Replacing'
  OBVIOUS
<1>1. /\ ActivationsFit /\ CeilingFits /\ TurnFits /\ DecisionsFit
      /\ UNCHANGED <<log, policy, declined, abortReason, current, loop, turn, phase>>
      /\ order' = order
  BY DEF Replacing, studyVars, order
<1>2. ActivationsFit' /\ CeilingFits'
  BY <1>1, ActivationsKept
<1>3. TurnFits'
  BY <1>1 DEF TurnFits, AtPrimary
<1>4. \A p : Decided(p)' <=> Decided(p)
  BY <1>1 DEF Decided, Replaced, Activated, Reserves, Has
<1>5. \A a, k : Has(log', a, k) <=> Has(log, a, k)
  BY <1>1 DEF Has
<1>6. primaryScheduleSettled(log)' <=> primaryScheduleSettled(log)
  BY <1>5 DEF primaryScheduleSettled, Settled
<1>7. DecisionsFit'
  BY <1>1, <1>4, <1>5, <1>6
  DEF DecisionsFit, DecidedAtOnce, DecidedInTurn, LoopsEnd, AtPrimary
<1> QED
  BY <1>2, <1>3, <1>7 DEF Replacing

LEMMA ReplacingStarts == StudyInit => Replacing
<1> SUFFICES ASSUME StudyInit PROVE Replacing
  OBVIOUS
<1>1. /\ log = << >> /\ DOMAIN log = {} /\ policy \in Policies /\ loop = 1 /\ phase = "plan"
      /\ turn = 1
  BY DEF StudyInit, LedgerInit
<1>2. ActivationsFit
  BY <1>1 DEF ActivationsFit
<1>3. CeilingFits
  <2> SUFFICES ASSUME NEW a \in Assignments
               PROVE  Cardinality(Activated(log, Schedule[a].cell)) <= policy.ceiling
    BY DEF CeilingFits
  <2>1. Activated(log, Schedule[a].cell) = {}
    BY <1>1 DEF Activated, Has
  <2>2. policy.ceiling \in Nat
    BY <1>1, StudyAssumption
  <2> QED
    BY <2>1, <2>2, FS_EmptySet
<1>4. TurnFits
  BY <1>1 DEF TurnFits
<1>5. DecisionsFit
  BY <1>1 DEF DecisionsFit, DecidedAtOnce, DecidedInTurn, LoopsEnd, Has
<1> QED
  BY <1>2, <1>3, <1>4, <1>5 DEF Replacing

LEMMA ReplacingSteps ==
  StudyInv /\ Replacing /\ [StudyNext]_studyVars => Replacing'
  BY PlanPrimaryReplaces, SkipPrimaryReplaces, LaunchReplaces, TrialEndsReplaces,
     TrialThrowsReplaces, ActivateReplaces, DeclineReplaces, EndLoopReplaces,
     DeriveReplaces, StutterReplaces DEF StudyNext

-----------------------------------------------------------------------------
(* What the invariant says of the replacements.                             *)

\* The events before the i-th one.
LEMMA BeforeIs ==
  ASSUME Lawful, NEW i \in DOMAIN log
  PROVE  \A a, k : Has(Before(i), a, k) <=> Earlier(i, a, k)
<1>1. PICK S : log \in Seq(S)
  BY DEF Lawful, IsLog
<1>2. /\ i \in Nat /\ 1 <= i /\ i <= Len(log) /\ Len(log) \in Nat
      /\ DOMAIN log = 1 .. Len(log)
  BY <1>1
<1>3. /\ DOMAIN SubSeq(log, 1, i - 1) = 1 .. i - 1
      /\ \A j \in 1 .. i - 1 : SubSeq(log, 1, i - 1)[j] = log[j]
  BY <1>1, <1>2
<1>4. \A j : j \in 1 .. i - 1 <=> j \in DOMAIN log /\ j < i
  BY <1>2
<1> QED
  BY <1>3, <1>4 DEF Has, Before, Earlier

\* What the policy says of a terminal event it says of what the trial proved.
LEMMA EvidenceAnswers ==
  ASSUME ProofsFit, NEW j \in DOMAIN log, log[j].kind = "terminal",
         policyMatches(policy, log[j].disposition, log[j].integrity)
  PROVE  policyMatches(policy, evidence[log[j].assignment].disposition,
                       evidence[log[j].assignment].integrity)
  BY StudyAssumption DEF ProofsFit, policyMatches

LEMMA TargetsStay == Lawful /\ TargetsFit /\ [StudyNext]_studyVars => TargetsFit'
<1> SUFFICES ASSUME Lawful, TargetsFit, [StudyNext]_studyVars PROVE TargetsFit'
  OBVIOUS
<1>1. CASE UNCHANGED log
  BY <1>1 DEF TargetsFit
<1>2. CASE AppendsOne
  <2>1. PICK d : /\ IsDraft(d) /\ AppendAssignmentEvent(d)
                 /\ d.kind # "activated" => d.target = Absent
    BY <1>2 DEF AppendsOne
  <2> DEFINE e == Recorded(log, d)
  <2>2. e.kind = d.kind /\ e.target = d.target
    BY <2>1, RecordedKeeps
  <2>3. IsLog(log) /\ log' = Append(log, e)
    BY <2>1 DEF Lawful, AppendAssignmentEvent
  <2> HIDE DEF e
  <2>4. /\ DOMAIN log' = DOMAIN log \cup {Len(log) + 1}
        /\ log'[Len(log) + 1] = e
        /\ \A i \in DOMAIN log : log'[i] = log[i]
    BY <2>3, Grows
  <2> QED
    BY <2>1, <2>2, <2>4 DEF TargetsFit
<1> QED
  BY <1>1, <1>2, StudyAppends DEF studyVars

LEMMA ReplacementsHold == ReplacementInv => LawfulReplacements
<1> SUFFICES ASSUME ReplacementInv PROVE LawfulReplacements
  OBVIOUS
<1>1. /\ Lawful /\ OpenFits /\ ProofsFit /\ CompletedFits /\ TargetsFit
      /\ ActivationsFit /\ CeilingFits /\ TurnFits /\ DecisionsFit
  BY DEF ReplacementInv, StudyInv
<1>2. ASSUME NEW h \in Held, Has(log, h, "activated")
      PROVE  LET i == ActivationOf(h)
                 p == log[i].target
                 cell == Schedule[h].cell
             IN  /\ Has(Before(i), p, "terminal")
                 /\ policyMatches(policy, evidence[p].disposition, evidence[p].integrity)
                 /\ Schedule[p].cell = cell
                 /\ \A o \in Held :
                      Schedule[o].cell = cell /\ Schedule[o].reserve < Schedule[h].reserve =>
                        Has(Before(i), o, "activated")
                 /\ Count(Activated(log, cell)) <= policy.ceiling
                 /\ IF policy.timing = "after_primary_schedule"
                    THEN primaryScheduleSettled(Before(i))
                    ELSE log[i - 1].assignment = p
  <2> DEFINE i == ActivationOf(h)
             p == log[i].target
  <2>1. i \in DOMAIN log /\ log[i].assignment = h /\ log[i].kind = "activated"
    BY <1>2 DEF ActivationOf, Has
  <2> HIDE DEF i
  <2>2. Cause(i) /\ LowestLeft(i) /\ InTime(i)
    BY <1>1, <2>1 DEF ActivationsFit
  <2>3. \A a, k : Has(Before(i), a, k) <=> Earlier(i, a, k)
    BY <1>1, <2>1, BeforeIs
  <2>4. Has(Before(i), p, "terminal")
    BY <2>2, <2>3 DEF Cause, Earlier
  <2>5. policyMatches(policy, evidence[p].disposition, evidence[p].integrity)
    BY <1>1, <2>2, EvidenceAnswers DEF Cause
  <2>6. /\ Schedule[p].cell = Schedule[h].cell
        /\ \A o \in Held :
             Schedule[o].cell = Schedule[h].cell /\ Schedule[o].reserve < Schedule[h].reserve =>
               Has(Before(i), o, "activated")
    BY <2>1, <2>2, <2>3 DEF LowestLeft
  <2>7. Count(Activated(log, Schedule[h].cell)) <= policy.ceiling
    BY <1>1, ScheduleSays DEF CeilingFits, Count
  <2>8. IF policy.timing = "after_primary_schedule"
        THEN primaryScheduleSettled(Before(i))
        ELSE log[i - 1].assignment = p
    BY <2>2, <2>3 DEF InTime, primaryScheduleSettled, Settled
  <2> QED
    BY <2>4, <2>5, <2>6, <2>7, <2>8 DEF i
<1>3. ASSUME phase = "done", abortReason = Absent, completed # Absent, NEW p \in Primaries
      PROVE  \/ ~policyMatches(policy, evidence[p].disposition, evidence[p].integrity)
             \/ \E i \in DOMAIN log : log[i].kind = "activated" /\ log[i].target = p
             \/ p \in declined
             \/ Count(Activated(log, Schedule[p].cell)) >= policy.ceiling
             \/ HeldUnused(log) \cap {h \in Held : Schedule[h].cell = Schedule[p].cell} = {}
  <2>1. Has(log, p, "terminal")
    BY <1>1, <1>3, ScheduleSays
    DEF CompletedFits, primaryScheduleSettled, Settled, OpenFits
  <2>2. primaryScheduleSettled(log) /\ DecidedAtOnce /\ DecidedInTurn /\ LoopsEnd
    BY <1>1, <1>3 DEF CompletedFits, DecisionsFit
  <2>3. Decided(p)
    <3>1. CASE policy.timing # "after_primary_schedule"
      BY <1>3, <2>1, <2>2, <3>1 DEF DecidedAtOnce
    <3>2. CASE policy.timing = "after_primary_schedule"
      <4>1. loop = 2 /\ ~AtPrimary
        BY <1>3, <2>2, <3>2 DEF LoopsEnd
      <4>2. PICK k \in 1 .. Len(order) : order[k] = p
        BY OrderIs
      <4>3. k < turn
        BY <1>1, <4>1, <4>2, OrderIs DEF AtPrimary, TurnFits
      <4> QED
        BY <2>2, <4>1, <4>2, <4>3 DEF DecidedInTurn
    <3> QED
      BY <3>1, <3>2
  <2>4. CASE \A i \in DOMAIN log : log[i].assignment = p /\ log[i].kind = "terminal" =>
               ~policyMatches(policy, log[i].disposition, log[i].integrity)
    <3>1. PICK i \in DOMAIN log : log[i].assignment = p /\ log[i].kind = "terminal"
      BY <2>1 DEF Has
    <3>2. evidence[p].disposition = log[i].disposition /\ evidence[p].integrity = log[i].integrity
      BY <1>1, <1>3, <3>1 DEF ProofsFit
    <3> QED
      BY <2>4, <3>1, <3>2
  <2>5. CASE Replaced(log, p)
    BY <1>1, <2>5, ScheduleSays, ScheduleAssumption DEF Replaced, TargetsFit
  <2>6. CASE p \in declined
    BY <2>6
  <2>7. CASE Cardinality(Activated(log, Schedule[p].cell)) >= policy.ceiling
    BY <2>7 DEF Count
  <2>8. CASE Reserves(log, Schedule[p].cell) = {}
    BY <2>8 DEF Reserves, HeldUnused
  <2> QED
    BY <2>3, <2>4, <2>5, <2>6, <2>7, <2>8 DEF Decided
<1> QED
  BY <1>2, <1>3 DEF LawfulReplacements

\* A replacement has a cause the frozen policy names, in the cell of what it
\* replaces, at the time the policy says and below its ceiling, and a study
\* that was not aborted owes none, for any schedule, policy and outcomes
\* (run.ts tryActivate, events.ts activateHeldSlot).
THEOREM ReplacementsLawful ==
  StudySpec => [](LawfulReplacements /\ ReplacementsAreLawful)
<1>1. StudyInit => ReplacementInv
  BY StudyStarts, ReplacingStarts
  DEF ReplacementInv, Replacing, TargetsFit, StudyInit, LedgerInit
<1>2. ReplacementInv /\ [StudyNext]_studyVars => ReplacementInv'
  BY StudySteps, ReplacingSteps, TargetsStay DEF ReplacementInv, Replacing, StudyInv
<1>3. ReplacementInv => LawfulReplacements /\ ReplacementsAreLawful
  BY ReplacementsHold DEF ReplacementsAreLawful
<1> QED
  BY <1>1, <1>2, <1>3, PTL DEF StudySpec

-----------------------------------------------------------------------------
(***************************************************************************)
(* The slots of any table of attempts. The order of attempts tells those   *)
(* of a slot apart (ToldApart), so each slot has a first attempt and, when *)
(* one is eligible, a supplier; and every attempt is in the share of one   *)
(* root or of one original (SlotOf).                                       *)
(***************************************************************************)
ToldApart(s) ==
  /\ \A f \in s : f.run \in Nat /\ f.assignment \in Nat
  /\ \A f, g \in s :
       /\ Original(f) <=> Original(g)
       /\ f.assignment = g.assignment /\ f.run = g.run
       => f = g
OneOriginal(s) == \A f, g \in s : Original(f) /\ Original(g) => f = g

\* What compareAttempts() says, condition by condition.
LEMMA CompareIs ==
  ASSUME NEW f, NEW g
  PROVE  /\ Original(f) /\ ~Original(g) => compareAttempts(f, g)
         /\ ~Original(f) /\ Original(g) => ~compareAttempts(f, g)
         /\ (Original(f) <=> Original(g)) /\ f.assignment = g.assignment =>
              (compareAttempts(f, g) <=> f.run < g.run)
         /\ (Original(f) <=> Original(g)) /\ f.assignment # g.assignment =>
              (compareAttempts(f, g) <=> f.assignment < g.assignment)
<1>1. CASE Original(f) <=> Original(g)
  <2>1. Original(f) = Original(g)
    BY <1>1 DEF Original
  <2> QED
    BY <1>1, <2>1 DEF compareAttempts
<1>2. CASE ~(Original(f) <=> Original(g))
  <2>1. Original(f) # Original(g)
    BY <1>2 DEF Original
  <2> QED
    BY <1>2, <2>1 DEF compareAttempts
<1> QED
  BY <1>1, <1>2

\* Attempts that are told apart have a first one: an original when there is
\* one, of the least assignment, and of the least run of that.
LEMMA FirstOfIs ==
  ASSUME NEW s, s # {}, ToldApart(s)
  PROVE  /\ FirstOf(s) \in s
         /\ \A g \in s : FirstOf(s) = g \/ compareAttempts(FirstOf(s), g)
<1>1. PICK t \in SUBSET s : /\ t # {}
                            /\ \A f, g \in t : Original(f) <=> Original(g)
                            /\ \A f \in t, g \in s \ t : Original(f) /\ ~Original(g)
  <2>1. CASE \E f \in s : Original(f)
    <3> WITNESS {f \in s : Original(f)} \in SUBSET s
    <3> QED
      BY <2>1
  <2>2. CASE \A f \in s : ~Original(f)
    <3> WITNESS s \in SUBSET s
    <3> QED
      BY <2>2
  <2> QED
    BY <2>1, <2>2
<1>2. \A f \in s : f.run \in Nat /\ f.assignment \in Nat
  BY DEF ToldApart
<1>3. PICK a \in {f.assignment : f \in t} : \A b \in {f.assignment : f \in t} : a <= b
  <2>1. {f.assignment : f \in t} \in SUBSET Nat /\ {f.assignment : f \in t} # {}
    BY <1>1, <1>2
  <2> HIDE DEF Original
  <2> QED
    BY <2>1, LeastOfNaturals
<1>4. PICK r \in {f.run : f \in {f \in t : f.assignment = a}} :
        \A b \in {f.run : f \in {f \in t : f.assignment = a}} : r <= b
  <2>1. /\ {f.run : f \in {f \in t : f.assignment = a}} \in SUBSET Nat
        /\ {f.run : f \in {f \in t : f.assignment = a}} # {}
    BY <1>1, <1>2, <1>3
  <2> QED
    BY <2>1, LeastOfNaturals
<1>5. PICK f \in t : f.assignment = a /\ f.run = r
  BY <1>4
<1>6. ASSUME NEW g \in s PROVE f = g \/ compareAttempts(f, g)
  <2>1. CASE g \notin t
    BY <1>1, <1>5, <2>1, CompareIs
  <2>2. CASE g \in t /\ g.assignment # a
    <3>1. a <= g.assignment /\ a \in Nat /\ g.assignment \in Nat
      BY <1>1, <1>2, <1>3, <1>5, <2>2
    <3>2. f.assignment < g.assignment
      BY <1>5, <2>2, <3>1
    <3> QED
      BY <1>1, <1>5, <2>2, <3>2, CompareIs
  <2>3. CASE g \in t /\ g.assignment = a
    <3>1. r <= g.run /\ r \in Nat /\ g.run \in Nat
      BY <1>1, <1>2, <1>4, <1>5, <2>3
    <3>2. CASE g.run = r
      BY <1>1, <1>5, <2>3, <3>2 DEF ToldApart
    <3>3. CASE g.run # r
      <4>1. f.run < g.run
        BY <1>5, <3>1, <3>3
      <4> QED
        BY <1>1, <1>5, <2>3, <4>1, CompareIs
    <3> QED
      BY <3>2, <3>3
  <2> QED
    BY <2>1, <2>2, <2>3
<1>7. \E x \in s : \A g \in s : x = g \/ compareAttempts(x, g)
  BY <1>1, <1>5, <1>6
<1> QED
  BY <1>7 DEF FirstOf

\* What resolving a slot comes to: its original supplies it when it can, and
\* makes it a failure of the worst case when it is censored.
LEMMA ResolveIs ==
  ASSUME NEW s, s # {}, ToldApart(s), OneOriginal(s)
  PROVE  /\ Resolve(s).attempts = s
         /\ \E f \in s : Resolve(s).root = RootOf(f)
         /\ Resolve(s).resolved => Resolve(s).supplier \in s /\ Eligible(Resolve(s).supplier)
         /\ ~Resolve(s).resolved => \A f \in s : ~Eligible(f)
         /\ \A f \in s : Original(f) /\ Eligible(f) => Resolve(s).supplier = f
         /\ \A f \in s : Original(f) /\ Censored(f) => Resolve(s).worstCase
<1> DEFINE able == {f \in s : Eligible(f)}
<1>1. FirstOf(s) \in s
  BY FirstOfIs
<1>2. /\ Resolve(s).attempts = s /\ Resolve(s).root = RootOf(FirstOf(s))
      /\ Resolve(s).resolved <=> able # {}
  BY DEF Resolve
<1>3. CASE able = {}
  <2>1. \A f \in s : ~Eligible(f)
    BY <1>3
  <2>2. Resolve(s).worstCase <=> \E f \in s : Censored(f)
    BY <1>3 DEF Resolve
  <2> QED
    BY <1>1, <1>2, <1>3, <2>1, <2>2
<1>4. CASE able # {}
  <2> DEFINE first == FirstOf(able)
  <2>1. ToldApart(able)
    BY DEF ToldApart
  <2>2. first \in able /\ \A g \in able : first = g \/ compareAttempts(first, g)
    <3> HIDE DEF able
    <3> QED
      BY <1>4, <2>1, FirstOfIs
  <2>3. Resolve(s).supplier = first
    BY <1>4 DEF Resolve
  <2>4. Resolve(s).worstCase <=> \E f \in UpTo(s, first) : Censored(f)
    BY <1>4 DEF Resolve
  <2> HIDE DEF first
  <2>5. ASSUME NEW f \in s, Original(f), Eligible(f) PROVE first = f
    <3>1. CASE Original(first)
      BY <2>2, <2>5, <3>1 DEF OneOriginal
    <3>2. CASE ~Original(first)
      BY <2>2, <2>5, <3>2, CompareIs
    <3> QED
      BY <3>1, <3>2
  <2>6. ASSUME NEW f \in s, Original(f), Censored(f) PROVE f \in UpTo(s, first)
    <3>1. CASE Original(first)
      BY <2>2, <2>6, <3>1 DEF OneOriginal, UpTo
    <3>2. CASE ~Original(first)
      BY <2>2, <2>6, <3>2, CompareIs DEF UpTo
    <3> QED
      BY <3>1, <3>2
  <2>7. \A f \in s : Original(f) /\ Eligible(f) => Resolve(s).supplier = f
    BY <2>3, <2>5
  <2>8. \A f \in s : Original(f) /\ Censored(f) => Resolve(s).worstCase
    BY <2>4, <2>6
  <2>9. Resolve(s).supplier \in s /\ Eligible(Resolve(s).supplier)
    BY <2>2, <2>3
  <2> QED
    BY <1>1, <1>2, <1>4, <2>7, <2>8, <2>9
<1> QED
  BY <1>3, <1>4

\* The attempts of a slot of its own that an original of several has.
Share(facts, f) ==
  IF \A g \in Siblings(facts, RootOf(f)) : g.run >= f.run
  THEN {f} \cup {g \in Chain(facts, RootOf(f)) : ~Original(g)} ELSE {f}
Single(facts, root) == Cardinality(Siblings(facts, root)) <= 1

LEMMA SharesAre ==
  ASSUME NEW facts
  PROVE  SlotAttempts(facts) =
           {Chain(facts, root) : root \in {r \in {RootOf(f) : f \in facts} : Single(facts, r)}}
           \cup {Share(facts, f) : f \in {f \in facts : Original(f) /\ Cardinality(Siblings(facts, RootOf(f))) > 1}}
  BY DEF SlotAttempts, Share, Single

LEMMA ShareIs ==
  ASSUME NEW facts, NEW f \in facts, Original(f)
  PROVE  /\ f \in Share(facts, f)
         /\ Share(facts, f) \subseteq Chain(facts, RootOf(f))
         /\ \A g \in Share(facts, f) : Original(g) => g = f
         /\ \A g \in Share(facts, f) : ~Original(g) =>
              \A h \in Siblings(facts, RootOf(f)) : h.run >= f.run
         /\ (\A h \in Siblings(facts, RootOf(f)) : h.run >= f.run) =>
              \A g \in Chain(facts, RootOf(f)) : ~Original(g) => g \in Share(facts, f)
<1>1. f \in Chain(facts, RootOf(f))
  BY DEF Chain
<1>2. CASE \A h \in Siblings(facts, RootOf(f)) : h.run >= f.run
  <2>1. Share(facts, f) = {f} \cup {g \in Chain(facts, RootOf(f)) : ~Original(g)}
    BY <1>2 DEF Share
  <2> QED
    BY <1>1, <1>2, <2>1
<1>3. CASE ~\A h \in Siblings(facts, RootOf(f)) : h.run >= f.run
  <2>1. Share(facts, f) = {f}
    BY <1>3 DEF Share
  <2> QED
    BY <1>1, <1>3, <2>1
<1> QED
  BY <1>2, <1>3

\* With one original of a root its attempts are one slot.
LEMMA SingleIs ==
  ASSUME NEW facts, IsFiniteSet(facts), NEW root
  PROVE  /\ Cardinality(Siblings(facts, root)) \in Nat
         /\ Single(facts, root) <=> OneOriginal(Chain(facts, root))
<1> DEFINE S == Siblings(facts, root)
<1>1. IsFiniteSet(S) /\ Cardinality(S) \in Nat
  <2>1. S \in SUBSET facts
    BY DEF Siblings, Chain
  <2> QED
    BY <2>1, FS_Subset, FS_CardinalityType
<1>2. OneOriginal(Chain(facts, root)) <=> \A f, g \in S : f = g
  BY DEF OneOriginal, Siblings
<1>3. Single(facts, root) <=> Cardinality(S) <= 1
  BY DEF Single
<1> HIDE DEF S
<1>4. Cardinality(S) <= 1 <=> \A f, g \in S : f = g
  <2>1. CASE S = {}
    BY <2>1, FS_EmptySet
  <2>2. CASE S # {}
    <3>1. PICK f : f \in S
      BY <2>2
    <3>2. Cardinality(S) # 0
      BY <1>1, <2>2, FS_EmptySet
    <3>3. Cardinality(S) = 1 <=> \E x : S = {x}
      BY <1>1, FS_Singleton
    <3>4. (\A x, y \in S : x = y) => S = {f}
      BY <3>1
    <3> QED
      BY <1>1, <3>2, <3>3, <3>4
  <2> QED
    BY <2>1, <2>2
<1> QED
  BY <1>1, <1>2, <1>3, <1>4 DEF S

\* Every slot has attempts of one root and of one original at most.
LEMMA SlotsAre ==
  ASSUME NEW facts, IsFiniteSet(facts), NEW s \in SlotAttempts(facts)
  PROVE  /\ s # {} /\ s \subseteq facts /\ OneOriginal(s)
         /\ \A f, g \in s : RootOf(f) = RootOf(g)
<1>1. CASE \E r \in {RootOf(f) : f \in facts} : Single(facts, r) /\ s = Chain(facts, r)
  <2>1. PICK r \in {RootOf(f) : f \in facts} : Single(facts, r) /\ s = Chain(facts, r)
    BY <1>1
  <2>2. OneOriginal(s)
    BY <2>1, SingleIs
  <2> QED
    BY <2>1, <2>2 DEF Chain
<1>2. CASE \E f \in facts : Original(f) /\ s = Share(facts, f)
  <2>1. PICK f \in facts : Original(f) /\ s = Share(facts, f)
    BY <1>2
  <2>2. /\ f \in s /\ s \subseteq Chain(facts, RootOf(f))
        /\ \A g \in s : Original(g) => g = f
    BY <2>1, ShareIs
  <2> QED
    BY <2>2 DEF Chain, OneOriginal
<1> QED
  BY <1>1, <1>2, SharesAre

\* Every attempt is in one slot.
LEMMA SlotOf ==
  ASSUME NEW facts, IsFiniteSet(facts), \A f \in facts : f.run \in Nat,
         \A f, g \in facts : f.run = g.run => f = g,
         NEW f \in facts
  PROVE  \E s \in SlotAttempts(facts) :
           f \in s /\ \A t \in SlotAttempts(facts) : f \in t => t = s
<1> DEFINE root == RootOf(f)
<1>1. f \in Chain(facts, root) /\ root \in {RootOf(g) : g \in facts}
  BY DEF Chain
<1>2. \A r : f \in Chain(facts, r) => r = root
  BY DEF Chain
<1>3. \A g \in facts : Original(g) /\ f \in Share(facts, g) => RootOf(g) = root
  BY <1>2, ShareIs
<1> HIDE DEF root
<1>4. Cardinality(Siblings(facts, root)) \in Nat
  BY SingleIs
<1>5. CASE Single(facts, root)
  <2>1. Chain(facts, root) \in SlotAttempts(facts)
    BY <1>1, <1>5, SharesAre
  <2>2. ASSUME NEW t \in SlotAttempts(facts), f \in t PROVE t = Chain(facts, root)
    <3>1. CASE \E r : t = Chain(facts, r)
      BY <1>2, <2>2, <3>1
    <3>2. CASE \E g \in facts : /\ Original(g) /\ Cardinality(Siblings(facts, RootOf(g))) > 1
                                /\ t = Share(facts, g)
      BY <1>3, <1>4, <1>5, <2>2, <3>2 DEF Single
    <3> QED
      BY <3>1, <3>2, SharesAre
  <2> QED
    BY <1>1, <2>1, <2>2
<1>6. CASE ~Single(facts, root)
  <2>1. Cardinality(Siblings(facts, root)) > 1
    BY <1>4, <1>6 DEF Single
  <2>2. ASSUME NEW t \in SlotAttempts(facts), f \in t
        PROVE  \E g \in facts : Original(g) /\ RootOf(g) = root /\ t = Share(facts, g)
    <3>1. CASE \E r : Single(facts, r) /\ t = Chain(facts, r)
      BY <1>2, <1>6, <2>2, <3>1
    <3>2. CASE \E g \in facts : Original(g) /\ t = Share(facts, g)
      BY <1>3, <2>2, <3>2
    <3> QED
      BY <3>1, <3>2, SharesAre
  <2>3. CASE Original(f)
    <3>1. Share(facts, f) \in SlotAttempts(facts) /\ f \in Share(facts, f)
      BY <2>1, <2>3, SharesAre, ShareIs DEF root
    <3>2. ASSUME NEW t \in SlotAttempts(facts), f \in t PROVE t = Share(facts, f)
      <4>1. PICK g \in facts : Original(g) /\ t = Share(facts, g)
        BY <2>2, <3>2
      <4>2. g = f
        BY <2>3, <3>2, <4>1, ShareIs
      <4> QED
        BY <4>1, <4>2
    <3> QED
      BY <3>1, <3>2
  <2>4. CASE ~Original(f)
    <3>1. \A g : g \in Siblings(facts, root) <=> g \in facts /\ RootOf(g) = root /\ Original(g)
      BY DEF Siblings, Chain
    <3>2. Siblings(facts, root) # {}
      BY <2>1, FS_EmptySet
    <3>3. /\ {g.run : g \in Siblings(facts, root)} \in SUBSET Nat
          /\ {g.run : g \in Siblings(facts, root)} # {}
      BY <3>1, <3>2
    <3>4. PICK m \in Siblings(facts, root) : \A g \in Siblings(facts, root) : m.run <= g.run
      <4>1. \E a \in {g.run : g \in Siblings(facts, root)} :
              \A b \in {g.run : g \in Siblings(facts, root)} : a <= b
        BY <3>3, LeastOfNaturals
      <4> QED
        BY <4>1
    <3>5. m \in facts /\ RootOf(m) = root /\ Original(m)
      BY <3>1, <3>4
    <3>6. \A g \in Siblings(facts, root) : g.run >= m.run
      BY <3>1, <3>4
    <3>7. Share(facts, m) \in SlotAttempts(facts)
      BY <2>1, <3>5, SharesAre
    <3>8. f \in Share(facts, m)
      BY <1>1, <2>4, <3>5, <3>6, ShareIs
    <3>9. ASSUME NEW t \in SlotAttempts(facts), f \in t PROVE t = Share(facts, m)
      <4>1. PICK g \in facts : Original(g) /\ RootOf(g) = root /\ t = Share(facts, g)
        BY <2>2, <3>9
      <4>2. \A h \in Siblings(facts, root) : h.run >= g.run
        BY <2>4, <3>9, <4>1, ShareIs
      <4>3. g \in Siblings(facts, root)
        BY <3>1, <4>1
      <4>4. m.run >= g.run /\ g.run >= m.run
        BY <3>4, <3>6, <4>2, <4>3
      <4>5. m.run = g.run
        BY <3>5, <4>4
      <4> QED
        BY <3>5, <4>1, <4>5
    <3> QED
      BY <3>7, <3>8, <3>9
  <2> QED
    BY <2>3, <2>4
<1> QED
  BY <1>5, <1>6

\* The slots of a table partition its attempts.
LEMMA TablesPartition ==
  ASSUME NEW facts \in Tables
  PROVE  SlotsPartition(facts)
<1> DEFINE slots == resolveSlots(facts)
           originals == {f \in facts : Original(f)}
<1>1. /\ IsFiniteSet(facts) /\ \A f \in facts : f.run \in Nat /\ f.assignment \in Nat
      /\ \A f, g \in facts : f.run = g.run => f = g
  BY TableAssumption
<1>2. ASSUME NEW s \in SlotAttempts(facts)
      PROVE  s # {} /\ s \subseteq facts /\ ToldApart(s) /\ OneOriginal(s)
  BY <1>1, SlotsAre DEF ToldApart
<1>3. \A s \in SlotAttempts(facts) : Resolve(s).attempts = s
  BY <1>2, ResolveIs
<1>4. ASSUME NEW f \in facts PROVE Cardinality({s \in slots : f \in s.attempts}) = 1
  <2>1. PICK s \in SlotAttempts(facts) :
          f \in s /\ \A t \in SlotAttempts(facts) : f \in t => t = s
    BY <1>1, SlotOf
  <2>2. {t \in slots : f \in t.attempts} = {Resolve(s)}
    BY <1>3, <2>1 DEF resolveSlots
  <2> HIDE DEF slots
  <2> QED
    BY <2>2, FS_Singleton
<1>5. ASSUME NEW r \in slots
      PROVE  /\ Cardinality(r.attempts \cap originals) <= 1
             /\ \A f, g \in r.attempts : RootOf(f) = RootOf(g)
             /\ \A f \in r.attempts \cap originals : Eligible(f) => r.supplier = f
             /\ r.resolved => Eligible(r.supplier)
             /\ ~r.resolved => \A f \in r.attempts : ~Eligible(f)
             /\ (\E f \in r.attempts \cap originals : Censored(f)) => r.worstCase
  <2>1. PICK s \in SlotAttempts(facts) : r = Resolve(s)
    BY <1>5 DEF resolveSlots
  <2>2. /\ s # {} /\ s \subseteq facts /\ ToldApart(s) /\ OneOriginal(s)
        /\ \A f, g \in s : RootOf(f) = RootOf(g)
    BY <1>1, <1>2, SlotsAre
  <2>3. r.attempts = s
    BY <1>3, <2>1
  <2>4. Cardinality(s \cap originals) <= 1
    <3>1. CASE s \cap originals = {}
      BY <3>1, FS_EmptySet
    <3>2. CASE s \cap originals # {}
      <4>1. PICK f \in s \cap originals : TRUE
        BY <3>2
      <4>2. s \cap originals = {f}
        BY <2>2, <4>1 DEF OneOriginal
      <4>3. Cardinality({f}) = 1
        BY FS_Singleton
      <4> QED
        BY <4>2, <4>3
    <3> QED
      BY <3>1, <3>2
  <2>5. /\ r.resolved => r.supplier \in s /\ Eligible(r.supplier)
        /\ ~r.resolved => \A f \in s : ~Eligible(f)
        /\ \A f \in s : Original(f) /\ Eligible(f) => r.supplier = f
        /\ \A f \in s : Original(f) /\ Censored(f) => r.worstCase
    BY <2>1, <2>2, ResolveIs
  <2> QED
    BY <2>2, <2>3, <2>4, <2>5
<1> QED
  BY <1>4, <1>5 DEF SlotsPartition

-----------------------------------------------------------------------------
(***************************************************************************)
(* The slots of a cell of a study. Only a launched trial proves anything   *)
(* (LaunchesProve); with the lawful ledger each slot is that of one        *)
(* primary, with its own trial and the one replacement it may have. A      *)
(* supplier without a terminal fact would leave its block incomplete.      *)
(***************************************************************************)
LaunchesProve == \A a \in DOMAIN evidence : Has(log, a, "launched")

AnalysisInv == ReplacementInv /\ LaunchesProve /\ table \in Tables

LEMMA HasStays ==
  ASSUME Lawful, StudyNext, NEW a, NEW k, Has(log, a, k) PROVE Has(log', a, k)
<1>1. CASE UNCHANGED log
  BY <1>1
<1>2. CASE AppendsOne
  <2>1. PICK d : AppendAssignmentEvent(d)
    BY <1>2 DEF AppendsOne
  <2>2. PICK e : log' = Append(log, e)
    BY <2>1 DEF AppendAssignmentEvent
  <2>3. /\ DOMAIN log' = DOMAIN log \cup {Len(log) + 1}
        /\ \A i \in DOMAIN log : log'[i] = log[i]
    BY <2>2, Grows DEF Lawful
  <2> QED
    BY <2>3 DEF Has
<1> QED
  BY <1>1, <1>2, StudyAppends

LEMMA LaunchesKeepProving ==
  ASSUME StudyInv, LaunchesProve, [StudyNext]_studyVars PROVE LaunchesProve'
<1>1. CASE UNCHANGED studyVars
  BY <1>1 DEF studyVars, LaunchesProve
<1>2. CASE StudyNext
  <2>1. DOMAIN evidence' \subseteq DOMAIN evidence \cup {current}
        /\ (phase # "running" => DOMAIN evidence' = DOMAIN evidence)
    <3>1. CASE PlanPrimary \/ SkipPrimary \/ Launch \/ Activate \/ Decline \/ EndLoop \/ Derive
      <4>1. UNCHANGED evidence
        BY <3>1 DEF PlanPrimary, SkipPrimary, Launch, Activate, Decline, EndLoop, Derive
      <4> QED
        BY <4>1
    <3>2. CASE (\E o \in Outcomes : TrialEnds(o)) \/ TrialThrows
      BY <3>2 DEF TrialEnds, TrialThrows
    <3> QED
      BY <1>2, <3>1, <3>2 DEF StudyNext
  <2>2. ASSUME NEW a \in DOMAIN evidence' PROVE Has(log, a, "launched")
    BY <2>1, <2>2 DEF LaunchesProve, StudyInv, PhasesFit
  <2> QED
    BY <1>2, <2>2, HasStays DEF LaunchesProve, StudyInv
<1> QED
  BY <1>1, <1>2

\* The primary whose slot a trial belongs to.
SlotPrimary(a) == IF a \in Primaries THEN a ELSE log[ActivationOf(a)].target

LEMMA NumbersAre ==
  /\ \A p \in Primaries : NumberOf(p) \in 1 .. Len(order) /\ order[NumberOf(p)] = p
  /\ \A a \in Assignments : NumberOf(a) \in Nat
<1>1. Len(order) \in Nat /\ DOMAIN order = 1 .. Len(order)
  BY OrderIs
<1>2. ASSUME NEW p \in Primaries PROVE NumberOf(p) \in 1 .. Len(order) /\ order[NumberOf(p)] = p
  <2>1. \E i \in DOMAIN order : order[i] = p
    BY <1>1, OrderIs
  <2>2. p \notin Held
    BY ScheduleSays
  <2> QED
    BY <1>1, <2>1, <2>2 DEF NumberOf
<1>3. \A h \in Held : NumberOf(h) \in Nat
  BY <1>1 DEF NumberOf
<1> QED
  BY <1>1, <1>2, <1>3, ScheduleSays

LEMMA FactsAre ==
  ASSUME AnalysisInv, NEW a \in DOMAIN evidence
  PROVE  /\ a \in Assignments /\ SlotPrimary(a) \in Primaries
         /\ Schedule[SlotPrimary(a)].cell = Schedule[a].cell
         /\ RootOf(FactOf(a)) = NumberOf(SlotPrimary(a))
         /\ Original(FactOf(a)) <=> a \in Primaries
         /\ FactOf(a).run = NumberOf(a) /\ FactOf(a).assignment = NumberOf(a)
         /\ a \in Held => /\ ActivationOf(a) \in DOMAIN log
                          /\ log[ActivationOf(a)].assignment = a
                          /\ log[ActivationOf(a)].kind = "activated"
<1>1. /\ Lawful /\ ActivationsFit /\ LaunchesProve
  BY DEF AnalysisInv, ReplacementInv, StudyInv
<1>2. Has(log, a, "launched") /\ a \in Assignments
  BY <1>1, LawfulSays DEF LaunchesProve
<1>3. /\ FactOf(a).run = NumberOf(a) /\ FactOf(a).assignment = NumberOf(a)
      /\ FactOf(a).replaces = TargetOf(a)
  BY DEF FactOf
<1>4. CASE a \in Primaries
  <2>1. a \notin Held
    BY <1>4, ScheduleSays
  <2>2. TargetOf(a) = Absent /\ SlotPrimary(a) = a
    BY <1>4, <2>1 DEF TargetOf, SlotPrimary
  <2> QED
    BY <1>2, <1>3, <1>4, <2>1, <2>2 DEF RootOf, Original
<1>5. CASE a \in Held
  <2>1. a \notin Primaries
    BY <1>5, ScheduleSays
  <2>2. Has(log, a, "activated")
    BY <1>1, <1>2, <2>1, LawfulSays
  <2> DEFINE i == ActivationOf(a)
  <2>3. i \in DOMAIN log /\ log[i].assignment = a /\ log[i].kind = "activated"
    BY <2>2 DEF ActivationOf, Has
  <2>4. SlotPrimary(a) = log[i].target
    BY <2>1 DEF SlotPrimary
  <2> HIDE DEF i
  <2>5. log[i].target \in Primaries /\ Schedule[log[i].target].cell = Schedule[a].cell
    BY <1>1, <2>3 DEF Lawful, LedgerIsLawful, OneReplacementEach, ActivationsFit, LowestLeft
  <2>6. TargetOf(a) = NumberOf(log[i].target)
    BY <1>5 DEF TargetOf, i
  <2>7. TargetOf(a) # Absent
    BY <2>5, <2>6, NumbersAre, ScheduleSays, ScheduleAssumption
  <2> QED
    BY <1>2, <1>3, <1>5, <2>1, <2>3, <2>4, <2>5, <2>6, <2>7 DEF RootOf, Original, i
<1> QED
  BY <1>2, <1>4, <1>5, ScheduleSays

\* A slot has one trial of the primary and one replacement at most.
LEMMA TrialsOfSlot ==
  ASSUME AnalysisInv, NEW a \in DOMAIN evidence, NEW b \in DOMAIN evidence,
         SlotPrimary(a) = SlotPrimary(b), a \in Primaries <=> b \in Primaries
  PROVE  a = b
<1>1. CASE a \in Primaries
  BY <1>1 DEF SlotPrimary
<1>2. CASE a \notin Primaries
  <2>1. a \in Held /\ b \in Held
    BY <1>2, FactsAre, ScheduleSays
  <2>2. log[ActivationOf(a)].target = log[ActivationOf(b)].target
    BY <1>2 DEF SlotPrimary
  <2>3. ActivationOf(a) = ActivationOf(b)
    BY <2>1, <2>2, FactsAre
    DEF AnalysisInv, ReplacementInv, StudyInv, Lawful, LedgerIsLawful, OneReplacementEach
  <2> QED
    BY <2>1, <2>3, FactsAre
<1> QED
  BY <1>1, <1>2

LEMMA AtMostOne ==
  ASSUME NEW S, \A x, y \in S : x = y
  PROVE  IsFiniteSet(S) /\ Cardinality(S) \in {0, 1}
<1>1. CASE S = {}
  BY <1>1, FS_EmptySet
<1>2. CASE S # {}
  <2>1. PICK x : x \in S
    BY <1>2
  <2>2. S = {x}
    BY <2>1
  <2> QED
    BY <2>2, FS_Singleton
<1> QED
  BY <1>1, <1>2

TrialsOf(cell) == {a \in DOMAIN evidence : Schedule[a].cell = cell}
FactsOf(cell) == {FactOf(a) : a \in TrialsOf(cell)}

LEMMA ChainsAre ==
  ASSUME AnalysisInv, NEW cell, NEW s, NEW root, s = Chain(FactsOf(cell), root)
  PROVE  /\ ToldApart(s) /\ OneOriginal(s) /\ IsFiniteSet(s) /\ Cardinality(s) <= 2
         /\ Single(FactsOf(cell), root)
<1>1. \A f \in s : \E a \in DOMAIN evidence : f = FactOf(a) /\ RootOf(f) = root
  BY DEF Chain, FactsOf, TrialsOf
<1>2. ASSUME NEW f \in s, NEW g \in s, Original(f) <=> Original(g) PROVE f = g
  <2>1. PICK a \in DOMAIN evidence : f = FactOf(a) /\ RootOf(f) = root
    BY <1>1
  <2>2. PICK b \in DOMAIN evidence : g = FactOf(b) /\ RootOf(g) = root
    BY <1>1
  <2>3. NumberOf(SlotPrimary(a)) = NumberOf(SlotPrimary(b))
    BY <2>1, <2>2, FactsAre
  <2>4. SlotPrimary(a) \in Primaries /\ SlotPrimary(b) \in Primaries
    BY FactsAre
  <2>5. SlotPrimary(a) = SlotPrimary(b)
    BY <2>3, <2>4, NumbersAre
  <2>6. a \in Primaries <=> b \in Primaries
    BY <1>2, <2>1, <2>2, FactsAre
  <2>7. a = b
    BY <2>5, <2>6, TrialsOfSlot
  <2> QED
    BY <2>1, <2>2, <2>7
<1>3. ASSUME NEW f \in s PROVE f.run \in Nat /\ f.assignment \in Nat
  <2>1. PICK a \in DOMAIN evidence : f = FactOf(a)
    BY <1>1
  <2> QED
    BY <2>1, FactsAre, NumbersAre
<1>4. ToldApart(s) /\ OneOriginal(s)
  BY <1>2, <1>3 DEF ToldApart, OneOriginal
<1> DEFINE O == {f \in s : Original(f)}
           R == {f \in s : ~Original(f)}
<1>5. IsFiniteSet(O) /\ Cardinality(O) \in {0, 1}
  BY <1>2, AtMostOne
<1>6. IsFiniteSet(R) /\ Cardinality(R) \in {0, 1}
  BY <1>2, AtMostOne
<1>7. s = O \cup R /\ O \cap R = {}
  OBVIOUS
<1>8. O = Siblings(FactsOf(cell), root)
  BY DEF Siblings
<1> HIDE DEF O, R
<1>9. IsFiniteSet(s) /\ Cardinality(s) = Cardinality(O) + Cardinality(R) - Cardinality({})
  BY <1>5, <1>6, <1>7, FS_Union
<1>10. Cardinality(s) <= 2
  BY <1>5, <1>6, <1>9, FS_EmptySet
<1>11. Single(FactsOf(cell), root)
  BY <1>5, <1>8 DEF Single
<1> QED
  BY <1>4, <1>9, <1>10, <1>11

SlotFor(p) == Resolve(Chain(FactsOf(Schedule[p].cell), NumberOf(p)))

\* A slot of a cell is that of one of its primaries; what supplies it is an
\* eligible trial of that slot.
LEMMA CellSlotsAre ==
  ASSUME AnalysisInv, NEW cell, NEW s \in CellSlots(cell)
  PROVE  \E p \in Primaries :
           /\ Schedule[p].cell = cell /\ s = SlotFor(p) /\ s.root = NumberOf(p)
           /\ Cardinality(s.attempts) <= 2
           /\ s.resolved =>
                /\ Eligible(s.supplier)
                /\ \E a \in DOMAIN evidence : SlotPrimary(a) = p /\ s.supplier = FactOf(a)
<1> DEFINE facts == FactsOf(cell)
<1>1. s \in resolveSlots(facts)
  BY DEF CellSlots, FactsOf, TrialsOf
<1>2. PICK t \in SlotAttempts(facts) : s = Resolve(t)
  BY <1>1 DEF resolveSlots
<1>3. \A r : Single(facts, r)
  BY ChainsAre
<1>4. PICK r \in {RootOf(f) : f \in facts} : t = Chain(facts, r)
  <2>1. CASE \E f \in facts : Cardinality(Siblings(facts, RootOf(f))) > 1
    <3>1. PICK f \in facts : Cardinality(Siblings(facts, RootOf(f))) > 1
      BY <2>1
    <3>2. Siblings(facts, RootOf(f)) = {g \in Chain(facts, RootOf(f)) : Original(g)}
      BY DEF Siblings
    <3>3. Cardinality(Siblings(facts, RootOf(f))) \in {0, 1}
      BY <3>2, AtMostOne, ChainsAre DEF OneOriginal
    <3> QED
      BY <3>1, <3>3
  <2>2. CASE \A f \in facts : ~(Cardinality(Siblings(facts, RootOf(f))) > 1)
    BY <2>2, SharesAre
  <2> QED
    BY <2>1, <2>2
<1>5. PICK b \in TrialsOf(cell) : r = RootOf(FactOf(b))
  BY <1>4 DEF FactsOf
<1> DEFINE p == SlotPrimary(b)
<1>6. p \in Primaries /\ Schedule[p].cell = cell /\ r = NumberOf(p)
  BY <1>5, FactsAre DEF TrialsOf
<1>7. FactOf(b) \in t
  BY <1>4, <1>5 DEF Chain, FactsOf
<1> HIDE DEF p
<1>8. s = SlotFor(p)
  BY <1>2, <1>4, <1>6 DEF SlotFor
<1>9. ToldApart(t) /\ OneOriginal(t) /\ Cardinality(t) <= 2
  BY <1>4, ChainsAre
<1>10. /\ s.attempts = t /\ \E f \in t : s.root = RootOf(f)
       /\ s.resolved => s.supplier \in t /\ Eligible(s.supplier)
  BY <1>2, <1>7, <1>9, ResolveIs
<1>11. \A f \in t : RootOf(f) = r /\ f \in facts
  BY <1>4 DEF Chain
<1>12. s.root = NumberOf(p)
  BY <1>6, <1>10, <1>11
<1>13. ASSUME s.resolved
       PROVE  \E a \in DOMAIN evidence : SlotPrimary(a) = p /\ s.supplier = FactOf(a)
  <2>1. PICK a \in TrialsOf(cell) : s.supplier = FactOf(a)
    BY <1>10, <1>11, <1>13 DEF FactsOf
  <2>2. a \in DOMAIN evidence /\ RootOf(FactOf(a)) = r
    BY <1>10, <1>11, <1>13, <2>1 DEF TrialsOf
  <2>3. NumberOf(SlotPrimary(a)) = NumberOf(p) /\ SlotPrimary(a) \in Primaries
    BY <1>6, <2>2, FactsAre
  <2>4. SlotPrimary(a) = p
    BY <1>6, <2>3, NumbersAre
  <2> QED
    BY <2>1, <2>2, <2>4
<1> QED
  BY <1>6, <1>8, <1>9, <1>10, <1>12, <1>13

\* A trial whose end is not in the ledger leaves the block of its slot open.
LEMMA OpenEndsRefuse ==
  ASSUME AnalysisInv, NEW a \in DOMAIN evidence, ~Has(log, a, "terminal")
  PROVE  SlotPrimary(a) \in Missing(log, policy)
<1> DEFINE p == SlotPrimary(a)
<1>1. /\ Lawful /\ ActivationsFit /\ OneReplacementEach(log)
  BY DEF AnalysisInv, ReplacementInv, StudyInv, Lawful, LedgerIsLawful
<1>2. p \in Primaries /\ (a \in Primaries => p = a)
  BY FactsAre DEF SlotPrimary
<1>3. \A x \in ReplacementOf(log, p) : \E i \in DOMAIN log :
        log[i].assignment = x /\ log[i].kind = "activated" /\ log[i].target = p
  BY DEF ReplacementOf
<1>4. ~Keeps(log, policy, a)
  BY DEF Keeps
<1>5. CASE a \in Primaries
  <2>1. \A i \in DOMAIN log : log[i].kind = "activated" => log[i].target # p
    <3> SUFFICES ASSUME NEW i \in DOMAIN log, log[i].kind = "activated", log[i].target = p
                 PROVE  FALSE
      OBVIOUS
    <3>1. Cause(i)
      BY <1>1 DEF ActivationsFit
    <3>2. Has(log, p, "terminal")
      BY <3>1 DEF Cause, Has
    <3> QED
      BY <1>2, <1>5, <3>2
  <2> HIDE DEF p
  <2> QED
    BY <1>2, <1>3, <1>4, <1>5, <2>1 DEF Missing, p
<1>6. CASE a \notin Primaries
  <2>1. a \in Held
    BY <1>6, FactsAre, ScheduleSays
  <2> DEFINE i == ActivationOf(a)
  <2>2. /\ i \in DOMAIN log /\ log[i].assignment = a
        /\ log[i].kind = "activated" /\ log[i].target = p
    BY <1>6, <2>1, FactsAre DEF SlotPrimary
  <2> HIDE DEF i, p
  <2>3. Cause(i)
    BY <1>1, <2>2 DEF ActivationsFit
  <2>4. PICK j \in DOMAIN log :
          /\ log[j].assignment = p /\ log[j].kind = "terminal"
          /\ policyMatches(policy, log[j].disposition, log[j].integrity)
    BY <2>2, <2>3 DEF Cause
  <2>5. Has(log, p, "terminal")
    BY <2>4 DEF Has
  <2>6. TerminalOf(log, p) = j
    BY <1>1, <2>4, <2>5, TerminalIs
  <2>7. ~Keeps(log, policy, p)
    BY <2>4, <2>6 DEF Keeps
  <2>8. ASSUME NEW x \in ReplacementOf(log, p) PROVE x = a
    <3>1. PICK k \in DOMAIN log :
            log[k].assignment = x /\ log[k].kind = "activated" /\ log[k].target = p
      BY <1>3, <2>8 DEF p
    <3>2. k = i
      BY <1>1, <2>2, <3>1 DEF OneReplacementEach
    <3> QED
      BY <2>2, <3>1, <3>2
  <2> QED
    BY <1>2, <1>4, <2>7, <2>8 DEF Missing, p
<1> QED
  BY <1>5, <1>6

LEMMA EstimatesBalance ==
  ASSUME AnalysisInv PROVE EstimatesAreBalanced
<1> SUFFICES ASSUME NEW first, NEW second, Estimated(first, second),
                    NEW cell \in {first, second}
             PROVE  LET own == {p \in Primaries : Schedule[p].cell = cell}
                        slots == Resolved(CellSlots(cell))
                    IN  /\ Cardinality(slots) = Cardinality(own)
                        /\ {s.root : s \in slots} = {NumberOf(p) : p \in own}
                        /\ WorstSuccesses(slots) \subseteq Passed(slots)
                        /\ \A s \in slots :
                             /\ ~Censored(s.supplier) /\ s.supplier.control
                             /\ \E a \in DOMAIN evidence :
                                  FactOf(a) = s.supplier /\ Has(log, a, "terminal")
                             /\ Cardinality(s.attempts) <= 2
  BY DEF EstimatesAreBalanced
<1> DEFINE own == {p \in Primaries : Schedule[p].cell = cell}
           slots == Resolved(CellSlots(cell))
<1>1. BlocksOf({first, second}) \cap RefusedBlocks({first, second}) = {}
  BY DEF Estimated
<1>2. ASSUME NEW p \in own
      PROVE  p \notin UnresolvedIn(cell) /\ p \notin Missing(log, policy)
  <2>1. Schedule[p].block \in BlocksOf({first, second})
    BY <1>2 DEF BlocksOf
  <2>2. p \in UnresolvedIn(cell) => Schedule[p].block \in RefusedBlocks({first, second})
    BY DEF RefusedBlocks
  <2>3. p \in Missing(log, policy) => Schedule[p].block \in RefusedBlocks({first, second})
    BY DEF RefusedBlocks, IncompleteBlocks
  <2> QED
    BY <1>1, <2>1, <2>2, <2>3
<1>3. ASSUME NEW s \in slots
      PROVE  \E p \in own :
               /\ s = SlotFor(p) /\ s.root = NumberOf(p) /\ Cardinality(s.attempts) <= 2
               /\ Eligible(s.supplier)
               /\ \E a \in DOMAIN evidence :
                    FactOf(a) = s.supplier /\ Has(log, a, "terminal")
  <2>1. s \in CellSlots(cell) /\ s.resolved
    BY <1>3 DEF Resolved
  <2>2. PICK p \in Primaries :
           /\ Schedule[p].cell = cell /\ s = SlotFor(p) /\ s.root = NumberOf(p)
           /\ Cardinality(s.attempts) <= 2
           /\ s.resolved =>
                /\ Eligible(s.supplier)
                /\ \E a \in DOMAIN evidence : SlotPrimary(a) = p /\ s.supplier = FactOf(a)
    BY <2>1, CellSlotsAre
  <2>3. PICK a \in DOMAIN evidence : SlotPrimary(a) = p /\ s.supplier = FactOf(a)
    BY <2>1, <2>2
  <2>4. p \in own
    BY <2>2
  <2>5. Has(log, a, "terminal")
    BY <1>2, <2>3, <2>4, OpenEndsRefuse
  <2> QED
    BY <2>1, <2>2, <2>3, <2>4, <2>5
<1>4. ASSUME NEW p \in own PROVE SlotFor(p) \in slots /\ SlotFor(p).root = NumberOf(p)
  <2>1. NumberOf(p) \in {s.root : s \in slots}
    BY <1>2 DEF UnresolvedIn
  <2>2. PICK s \in slots : s.root = NumberOf(p)
    BY <2>1
  <2>3. PICK q \in own : s = SlotFor(q) /\ s.root = NumberOf(q)
    BY <1>3
  <2>4. p = q
    BY <2>2, <2>3, NumbersAre
  <2> QED
    BY <2>2, <2>3, <2>4
<1>5. \A s \in slots :
        /\ ~Censored(s.supplier) /\ s.supplier.control /\ Cardinality(s.attempts) <= 2
        /\ \E a \in DOMAIN evidence : FactOf(a) = s.supplier /\ Has(log, a, "terminal")
  BY <1>3 DEF Eligible, Censored
<1>6. WorstSuccesses(slots) \subseteq Passed(slots)
  BY DEF WorstSuccesses
<1>7. {s.root : s \in slots} = {NumberOf(p) : p \in own}
  <2> HIDE DEF slots
  <2>1. \A s \in slots : \E p \in own : s.root = NumberOf(p)
    BY <1>3
  <2>2. \A p \in own : \E s \in slots : s.root = NumberOf(p)
    BY <1>4
  <2> HIDE DEF own
  <2> QED
    BY <2>1, <2>2
<1>8. Cardinality(slots) = Cardinality(own)
  <2> DEFINE g == [p \in own |-> SlotFor(p)]
  <2>1. IsFiniteSet(own)
    <3>1. own \in SUBSET Assignments
      BY ScheduleSays
    <3> QED
      BY <3>1, ScheduleSays, FS_Subset
  <2>2. \A p \in own : NumberOf(p) \in 1 .. Len(order) /\ order[NumberOf(p)] = p
    BY NumbersAre
  <2>3. \A p \in own : SlotFor(p) \in slots /\ SlotFor(p).root = NumberOf(p)
    BY <1>4
  <2>4. \A s \in slots : \E p \in own : s = SlotFor(p)
    BY <1>3
  <2> HIDE DEF own, slots
  <2>5. g \in [own -> slots]
    BY <2>3
  <2>6. \A p, q \in own : g[p] = g[q] => p = q
    BY <2>2, <2>3
  <2>7. \A s \in slots : \E p \in own : g[p] = s
    BY <2>4
  <2>8. g \in Bijection(own, slots)
    BY <2>5, <2>6, <2>7 DEF Bijection, Injection, Surjection, IsInjective
  <2>9. ExistsBijection(own, slots)
    BY <2>8 DEF ExistsBijection
  <2> QED
    BY <2>1, <2>9, FS_Bijection
<1> HIDE DEF own, slots
<1> QED
  BY <1>5, <1>6, <1>7, <1>8 DEF own, slots

\* Whatever the schedule, the policy, the outcomes and the failures of the
\* clock, and whatever attempts a report is asked about: slots partition the
\* attempts, and a contrast that is estimated compares one supplied outcome
\* for each primary on both sides (aggregate.ts resolveSlots, analyze.ts
\* analyzeStudyRun).
THEOREM EstimatesSound == AnalysisSpec => []EstimatesAreSound
<1>1. AnalysisInit => AnalysisInv
  <2>1. StudyInit => ReplacementInv
    BY StudyStarts, ReplacingStarts
    DEF ReplacementInv, Replacing, TargetsFit, StudyInit, LedgerInit
  <2>2. StudyInit => LaunchesProve
    BY DEF StudyInit, LaunchesProve, NoEvidence
  <2> QED
    BY <2>1, <2>2 DEF AnalysisInit, AnalysisInv
<1>2. AnalysisInv /\ [StudyNext /\ UNCHANGED table]_analysisVars => AnalysisInv'
  <2> SUFFICES ASSUME AnalysisInv, [StudyNext /\ UNCHANGED table]_analysisVars
               PROVE  AnalysisInv'
    OBVIOUS
  <2>1. [StudyNext]_studyVars /\ table' = table
    BY DEF analysisVars
  <2>2. ReplacementInv'
    BY <2>1, StudySteps, ReplacingSteps, TargetsStay
    DEF AnalysisInv, ReplacementInv, Replacing, StudyInv
  <2>3. LaunchesProve'
    BY <2>1, LaunchesKeepProving DEF AnalysisInv, ReplacementInv
  <2> QED
    BY <2>1, <2>2, <2>3 DEF AnalysisInv
<1>3. AnalysisInv => EstimatesAreSound
  BY TablesPartition, EstimatesBalance DEF AnalysisInv, EstimatesAreSound
<1> QED
  BY <1>1, <1>2, <1>3, PTL DEF AnalysisSpec
=============================================================================
