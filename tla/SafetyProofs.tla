----------------------------- MODULE SafetyProofs -----------------------------
(* Machine-checked proofs of what a client and an operator may rely on: what *)
(* was answered is logged, losses are losses, control results are final, the *)
(* clock goes forward and the state is the serial result of its log. They    *)
(* rest on the inductive invariant proved in WorldProofs.                     *)
EXTENDS WorldProofs, FiniteSetTheorems

Refusals == {"rejected", "error", "failed", "commit_failed"}

\* A step that logs nothing: logged rows are as they were, and who is answered
\* is refused.
LogsNothing ==
  /\ events' = events
  /\ \A s \in events : rows'[s] = rows[s]
  /\ \/ answer' = answer
     \/ \E r \in Requests, a \in Refusals : answer' = [answer EXCEPT ![r] = a]

\* A step that logs the exchange of request r at a sequence without an event.
LogsExchange(seq, r) ==
  /\ seq \in Sequences /\ seq \notin events
  /\ events' = events \cup {seq}
  /\ rows'[seq].req = r
  /\ \A s \in events : rows'[s] = rows[s]
  /\ \E a \in Answers : answer' = [answer EXCEPT ![r] = a]

-----------------------------------------------------------------------------
(* The log only grows, one exchange in a step.                             *)

\* Neither the row to be opened nor the one being worked on has an event.
LEMMA OpenRowsUnlogged ==
  ASSUME IInv
  PROVE  /\ events \subseteq Sequences
         /\ CanStage => count + 1 \in Sequences /\ count + 1 \notin events
         /\ pipe.pc # "idle" =>
              allocation \in Sequences /\ allocation \notin events
<1> USE DEF IInv
<1>1. events \subseteq Sequences
  BY DEF TypeOK
<1>2. ASSUME CanStage
      PROVE  count + 1 \in Sequences /\ count + 1 \notin events
  <2>1. count + 1 \in Sequences
    BY <1>2, LimitAssumption DEF CanStage, TypeOK, Sequences
  <2>2. rows[count + 1].status = "none"
    BY <2>1, LimitAssumption DEF RowsBelowCount, TypeOK
  <2> QED
    BY <2>1, <2>2 DEF EventTrail, Closed
<1>3. ASSUME pipe.pc # "idle"
      PROVE  allocation \in Sequences /\ allocation \notin events
  BY <1>3 DEF StagedRow, EventTrail, Closed
<1> QED
  BY <1>1, <1>2, <1>3

\* A transaction that succeeds logs its exchange.
LEMMA CommitLogsExchange ==
  ASSUME IInv, NEW r \in Requests, NEW seq \in Sequences, seq \notin events,
         NEW open, open \in [Sequences -> Row], \A s \in events : open[s] = rows[s],
         NEW transition, NEW next, NEW override, NEW entry, NEW a \in Answers,
         CommitSucceeds(open, r, seq, transition, next, override, entry),
         answer' = [answer EXCEPT ![r] = a]
  PROVE  LogsExchange(seq, r)
<1>1. /\ events' = events \cup {seq}
      /\ rows' = [open EXCEPT ![seq] =
            [status |-> IF override = "none" THEN "committed" ELSE override,
             req |-> r, transition |-> transition, generation |-> generation]]
  BY DEF CommitSucceeds, AppendEvent
<1>2. events \subseteq Sequences
  BY OpenRowsUnlogged
<1>3. rows'[seq].req = r /\ \A s \in events : rows'[s] = rows[s]
  BY <1>1, <1>2
<1> QED
  BY <1>1, <1>3 DEF LogsExchange

\* A decision before behavior logs its exchange or refuses it.
LEMMA DecisionGrows ==
  ASSUME IInv, NEW r \in Requests, NEW override, NEW a \in Answers,
         CommitDecision(r, override, pending, a)
  PROVE  LogsNothing \/ \E seq \in Sequences : LogsExchange(seq, r)
<1> DEFINE seq == count + 1
           open == [rows EXCEPT ![seq] = PendingRow(r)]
<1>1. /\ CanStage
      /\ \/ /\ CommitSucceeds(open, r, seq, "none", {}, override, pending)
            /\ Settle(r, a)
         \/ /\ \E point \in {"early", "late"} :
                 CommitThrows(open, point, "none", override, pending)
            /\ Settle(r, "error")
  BY DEF CommitDecision
<1>2. seq \in Sequences /\ seq \notin events /\ events \subseteq Sequences
  BY <1>1, OpenRowsUnlogged
<1>3. rows \in [Sequences -> Row] /\ PendingRow(r) \in Row
  BY PendingRowType DEF IInv, TypeOK
<1>4. open \in [Sequences -> Row] /\ \A s \in events : open[s] = rows[s]
  BY <1>2, <1>3
<1> HIDE DEF seq, open
<1>5. CASE /\ CommitSucceeds(open, r, seq, "none", {}, override, pending)
           /\ Settle(r, a)
  <2>1. answer' = [answer EXCEPT ![r] = a]
    BY <1>5 DEF Settle
  <2>2. LogsExchange(seq, r)
    BY <1>2, <1>4, <1>5, <2>1, CommitLogsExchange, ZenonT(60)
  <2> QED
    BY <1>2, <2>2
<1>6. CASE /\ \E point \in {"early", "late"} :
                CommitThrows(open, point, "none", override, pending)
           /\ Settle(r, "error")
  BY <1>4, <1>6 DEF CommitThrows, Settle, LogsNothing, Refusals
<1> QED
  BY <1>1, <1>5, <1>6

\* So does every other step of the pipeline.
LEMMA PipelineGrows ==
  ASSUME IInv, NEW r \in Requests, Decide(r) \/ Answer(r)
  PROVE  LogsNothing \/ \E seq \in Sequences : LogsExchange(seq, r)
<1>0. /\ rows \in [Sequences -> Row] /\ events \subseteq Sequences
      /\ CanStage => count + 1 \in Sequences /\ count + 1 \notin events
      /\ pipe.pc # "idle" => allocation \in Sequences /\ allocation \notin events
  BY OpenRowsUnlogged DEF IInv, TypeOK
<1>1. CASE RejectRequest(r) \/ StageThrows(r) \/ CorruptThrows(r)
  BY <1>1 DEF RejectRequest, StageThrows, CorruptThrows, Settle, storeVars,
              LogsNothing, Refusals
<1>2. CASE ConsultThrows(r)
  BY <1>0, <1>2 DEF ConsultThrows, Settle, LogsNothing, Refusals
<1>3. CASE CallBehavior(r)
  BY <1>0, <1>3 DEF CallBehavior, LogsNothing
<1>4. CASE ServeFault(r) \/ ServeReplay(r) \/ ServeConflict(r)
  BY <1>4, DecisionGrows DEF ServeFault, ServeReplay, ServeConflict, Answers
<1>5. CASE BehaviorSucceeds(r) \/ BehaviorDomainError(r)
  BY <1>5 DEF BehaviorSucceeds, BehaviorDomainError, storeVars, LogsNothing
<1>6. CASE BehaviorFails(r) \/ RefuseResponse(r)
  <2>1. pipe.pc # "idle" /\ Rollback(r, "failed")
    BY <1>6 DEF BehaviorFails, RefuseResponse, InFlight
  <2>2. \A s \in events : rows'[s] = rows[s]
    BY <1>0, <2>1 DEF Rollback
  <2> QED
    BY <2>1, <2>2 DEF Rollback, Settle, LogsNothing, Refusals
<1>7. CASE CommitResponse(r)
  <2>1. /\ CommitSucceeds(rows, r, allocation, pipe.transition, pipe.next,
                          terminalOverride, StagedEntry(r))
        /\ Settle(r, "served") \/ Settle(r, "error")
        /\ pipe.pc # "idle"
    BY <1>7 DEF CommitResponse, InFlight
  <2>2. PICK a \in Answers : answer' = [answer EXCEPT ![r] = a]
    BY <2>1 DEF Settle, Answers
  <2>3. LogsExchange(allocation, r)
    BY <1>0, <2>1, <2>2, CommitLogsExchange, ZenonT(60)
  <2> QED
    BY <1>0, <2>1, <2>3
<1>8. CASE CommitResponseThrows(r)
  BY <1>8 DEF CommitResponseThrows, CommitThrows, Settle, LogsNothing, Refusals
<1> QED
  BY <1>1, <1>2, <1>3, <1>4, <1>5, <1>6, <1>7, <1>8 DEF Decide, Answer

\* Every step of the world logs nothing or one exchange.
LEMMA StepGrows ==
  ASSUME IInv, [Next]_vars
  PROVE  LogsNothing \/ \E seq \in Sequences, r \in Requests : LogsExchange(seq, r)
<1>1. CASE Pipeline
  BY <1>1, PipelineGrows DEF Pipeline
<1>2. CASE Wire \/ Operator \/ UNCHANGED vars
  <2>1. UNCHANGED <<rows, events, answer>>
    BY <1>2 DEF Wire, Enqueue, Finish, Leave, Operator, Submit, RepeatControl,
                RefuseControl, StartReset, ApplyAdvance, ApplyReset, FailReset,
                RecordControl, vars, storeVars, gatewayVars
  <2> QED
    BY <2>1 DEF LogsNothing
<1> QED
  BY <1>1, <1>2 DEF Next

-----------------------------------------------------------------------------
(* What was answered is logged.                                            *)

\* Nobody is told served, replayed, conflict or fault without an event of the
\* log that says so, whatever throws (gateway/src/server.ts).
THEOREM ServedIsDurableHolds == Spec => []ServedIsDurable
<1>1. Init => ServedIsDurable
  BY DEF Init, ServedIsDurable
<1>2. ASSUME IInv, ServedIsDurable, [Next]_vars
      PROVE  ServedIsDurable'
  <2> SUFFICES ASSUME NEW r \in Requests,
                      answer'[r] \in {"served", "replayed", "conflict", "fault"}
               PROVE  \E s \in events' : rows'[s].req = r
    BY DEF ServedIsDurable
  <2>0. answer \in [Requests -> Answers]
    BY <1>2 DEF IInv, TypeOK
  <2>1. events \subseteq events' /\ \A s \in events : rows'[s] = rows[s]
    BY <1>2, StepGrows DEF LogsNothing, LogsExchange
  <2>2. CASE answer[r] = answer'[r]
    BY <1>2, <2>1, <2>2 DEF ServedIsDurable
  <2>3. CASE answer[r] # answer'[r]
    <3>1. ~LogsNothing
      BY <2>0, <2>3 DEF LogsNothing, Refusals
    <3>2. PICK seq \in Sequences, q \in Requests : LogsExchange(seq, q)
      BY <1>2, <3>1, StepGrows
    <3>3. q = r
      BY <2>0, <2>3, <3>2 DEF LogsExchange
    <3> QED
      BY <3>2, <3>3 DEF LogsExchange
  <2> QED
    BY <2>2, <2>3
<1> QED
  BY <1>1, <1>2, Invariant, PTL DEF Spec

-----------------------------------------------------------------------------
(* A loss that is reported is a loss.                                      *)

\* What a step may do to the reports: a new loss is of the exchange that just
\* committed and whose transport it cut; a transport that was cut stays so.
LossesAreOwn ==
  /\ \A s \in Sequences :
       deliveries'[s] = "lost" =>
         \/ deliveries[s] = "lost"
         \/ s \in events' /\ transport'[rows'[s].req] = "cut"
  /\ \A r \in Requests : transport[r] = "cut" => transport'[r] = "cut"

LEMMA CommitLosses ==
  ASSUME IInv, NEW r \in Requests, CommitResponse(r)
  PROVE  LossesAreOwn
<1>1. /\ deliveries \in [Sequences -> {"unknown", "delivered", "lost"}]
      /\ transport \in [Requests -> {"closed", "open", "finished", "cut", "gone"}]
      /\ rows \in [Sequences -> Row]
  BY DEF IInv, TypeOK
<1>2. allocation \in Sequences
  BY OpenRowsUnlogged DEF CommitResponse, InFlight
<1>3. allocation \in events' /\ rows'[allocation].req = r
  BY <1>1, <1>2 DEF CommitResponse, CommitSucceeds, AppendEvent
<1>4. CASE UNCHANGED <<deliveries, transport>>
  BY <1>4 DEF LossesAreOwn
<1>5. CASE CutTransport(r)
  <2>1. /\ deliveries' = [deliveries EXCEPT ![allocation] = "lost"]
        /\ transport' = [transport EXCEPT ![r] = "cut"]
    BY <1>5 DEF CutTransport
  <2>2. transport'[r] = "cut"
    BY <1>1, <2>1
  <2>3. \A s \in Sequences :
          s # allocation => deliveries'[s] = deliveries[s]
    BY <1>1, <2>1
  <2>4. \A q \in Requests : transport[q] = "cut" => transport'[q] = "cut"
    BY <1>1, <2>1
  <2> QED
    BY <1>3, <2>2, <2>3, <2>4 DEF LossesAreOwn
<1> QED
  BY <1>4, <1>5 DEF CommitResponse

LEMMA StepLosses ==
  ASSUME IInv, [Next]_vars
  PROVE  LossesAreOwn
<1>1. /\ deliveries \in [Sequences -> {"unknown", "delivered", "lost"}]
      /\ transport \in [Requests -> {"closed", "open", "finished", "cut", "gone"}]
  BY DEF IInv, TypeOK
<1>2. ASSUME NEW r \in Requests, Enqueue(r) \/ Finish(r) \/ Leave(r)
      PROVE  LossesAreOwn
  <2>1. \A s \in Sequences : deliveries'[s] = "lost" => deliveries[s] = "lost"
    BY <1>1, <1>2 DEF Enqueue, Finish, Leave
  <2>2. \A q \in Requests : transport[q] = "cut" => transport'[q] = "cut"
    BY <1>1, <1>2 DEF Enqueue, Finish, Leave
  <2> QED
    BY <2>1, <2>2 DEF LossesAreOwn
<1>3. ASSUME NEW r \in Requests, Decide(r) \/ Answer(r), ~CommitResponse(r)
      PROVE  UNCHANGED <<deliveries, transport>>
  BY <1>3 DEF Decide, Answer, RejectRequest, StageThrows, ConsultThrows,
              ServeFault, ServeReplay, ServeConflict, CommitDecision,
              CallBehavior, BehaviorSucceeds, BehaviorDomainError,
              BehaviorFails, RefuseResponse, Rollback, CorruptThrows,
              CommitResponseThrows, deliveryVars
<1>4. CASE Operator \/ UNCHANGED vars
  <2>1. UNCHANGED <<deliveries, transport>>
    BY <1>4 DEF Operator, Submit, RepeatControl, RefuseControl, StartReset,
                ApplyAdvance, ApplyReset, FailReset, RecordControl, vars,
                deliveryVars
  <2> QED
    BY <2>1 DEF LossesAreOwn
<1> QED
  BY <1>2, <1>3, <1>4, CommitLosses DEF Next, Pipeline, Wire, LossesAreOwn

EventsHaveRequests == \A s \in events : rows[s].req \in Requests

LostIsLogged == \A s \in Sequences : deliveries[s] = "lost" => s \in events

\* "lost" is only ever written for an exchange whose own transport was cut,
\* and no later step makes it untrue (gateway/src/listener.ts).
THEOREM LostIsCutHolds == Spec => []LostIsCut
<1>1. Init => LostIsCut /\ LostIsLogged /\ EventsHaveRequests
  BY DEF Init, LostIsCut, LostIsLogged, EventsHaveRequests
<1>2. ASSUME IInv, LostIsCut, LostIsLogged, EventsHaveRequests, [Next]_vars
      PROVE  LostIsCut' /\ LostIsLogged' /\ EventsHaveRequests'
  <2>0. EventsHaveRequests'
    BY <1>2, StepGrows DEF EventsHaveRequests, LogsNothing, LogsExchange
  <2> SUFFICES ASSUME NEW s \in Sequences, deliveries'[s] = "lost"
               PROVE  transport'[rows'[s].req] = "cut" /\ s \in events'
    BY <2>0 DEF LostIsCut, LostIsLogged
  <2>1. LossesAreOwn
    BY <1>2, StepLosses
  <2>2. events \subseteq events' /\ \A t \in events : rows'[t] = rows[t]
    BY <1>2, StepGrows DEF LogsNothing, LogsExchange
  <2>3. CASE deliveries[s] = "lost"
    <3>1. transport[rows[s].req] = "cut" /\ s \in events
      BY <1>2, <2>3 DEF LostIsCut, LostIsLogged
    <3>2. rows[s].req \in Requests
      BY <1>2, <3>1 DEF EventsHaveRequests
    <3> QED
      BY <2>1, <2>2, <3>1, <3>2 DEF LossesAreOwn
  <2> QED
    BY <2>1, <2>3 DEF LossesAreOwn
<1> QED
  BY <1>1, <1>2, Invariant, PTL DEF Spec

-----------------------------------------------------------------------------
(* Controls and the clock.                                                 *)

\* The control being run has no result yet, and only a reset initializes.
ControlFresh ==
  control.pc # "idle" =>
    /\ control.id \in Controls
    /\ controls[control.id] = None
    /\ control.pc = "initialize" => control.payload.route = "reset"

LEMMA NoPipelineControl ==
  ASSUME Pipeline \/ Wire \/ UNCHANGED vars
  PROVE  /\ UNCHANGED <<generation, controls>>
         /\ control' = control \/ ChildFree
<1>1. ASSUME NEW r \in Requests, Decide(r)
      PROVE  UNCHANGED controlVars
  BY <1>1 DEF Decide, RejectRequest, StageThrows, ConsultThrows, ServeFault,
              ServeReplay, ServeConflict, CommitDecision, CallBehavior
<1>2. ASSUME NEW r \in Requests, Answer(r)
      PROVE  /\ UNCHANGED <<generation, controls>>
             /\ control' = control \/ ChildFree
  BY <1>2 DEF Answer, BehaviorSucceeds, BehaviorDomainError, BehaviorFails,
              RefuseResponse, CorruptThrows, CommitResponse,
              CommitResponseThrows, controlVars
<1>3. CASE Wire
  BY <1>3 DEF Wire, Enqueue, Finish, Leave, controlVars
<1>4. CASE UNCHANGED vars
  BY <1>4 DEF vars, controlVars
<1> QED
  BY <1>1, <1>2, <1>3, <1>4 DEF Pipeline, controlVars

\* A control that is not being run is left alone.
LEMMA FreshStays ==
  ASSUME IInv, ControlFresh, UNCHANGED controls, control' = control \/ ChildFree
  PROVE  ControlFresh'
<1>1. control'.pc = control.pc /\ control'.id = control.id
      /\ control'.payload = control.payload
  BY DEF ChildFree, IInv, TypeOK
<1> QED
  BY <1>1 DEF ControlFresh

LEMMA ControlSteps ==
  ASSUME IInv, ControlFresh, [Next]_vars
  PROVE  /\ ControlFresh'
         /\ \A c \in Controls : controls[c] # None => controls'[c] = controls[c]
<1>0. controls \in [Controls -> Recorded \cup {None}]
  BY DEF IInv, TypeOK
<1>1. CASE Pipeline \/ Wire \/ UNCHANGED vars
  BY <1>1, NoPipelineControl, FreshStays
<1>2. ASSUME NEW c \in Controls, NEW p \in Payloads, Submit(c, p)
      PROVE  ControlFresh' /\ UNCHANGED controls
  <2>1. CASE RepeatControl(c, p) \/ RefuseControl(c, p)
    BY <2>1, FreshStays DEF RepeatControl, RefuseControl
  <2>2. CASE StartReset(c, p) \/ ApplyAdvance(c, p)
    BY <2>2 DEF StartReset, ApplyAdvance, Admit, ControlFresh
  <2> QED
    BY <1>2, <2>1, <2>2 DEF Submit
<1>3. CASE ApplyReset
  <2>1. /\ control.pc = "initialize" /\ UNCHANGED controls
        /\ control'.pc = "record" /\ control'.id = control.id
    BY <1>3 DEF ApplyReset, IInv, TypeOK
  <2> QED
    BY <2>1 DEF ControlFresh
<1>4. CASE FailReset
  BY <1>4 DEF FailReset, ControlFresh, NoControl
<1>5. CASE RecordControl
  <2>1. /\ control.pc = "record" /\ control' = NoControl
        /\ controls' = [controls EXCEPT ![control.id] =
                          [payload |-> control.payload, generation |-> generation,
                           revision |-> revision]]
    BY <1>5 DEF RecordControl
  <2>2. ControlFresh'
    BY <2>1 DEF ControlFresh, NoControl
  <2>3. \A c \in Controls : c # control.id => controls'[c] = controls[c]
    BY <1>0, <2>1
  <2>4. controls[control.id] = None
    BY <2>1 DEF ControlFresh
  <2> QED
    BY <2>2, <2>3, <2>4
<1> QED
  BY <1>1, <1>2, <1>3, <1>4, <1>5 DEF Next, Operator

LEMMA FreshInitially == Init => ControlFresh
  BY DEF Init, ControlFresh, NoControl

\* A recorded control result is never rewritten or dropped: a control id that
\* comes again replays it or conflicts (environment/src/control.ts).
THEOREM ControlsFinalHolds == Spec => ControlsFinal
<1>1. IInv /\ ControlFresh /\ [Next]_vars => ControlFresh'
  BY ControlSteps
<1>2. IInv /\ ControlFresh /\ [Next]_vars =>
        [\A c \in Controls : controls[c] # None => controls'[c] = controls[c]]_vars
  BY ControlSteps
<1> QED
  BY <1>1, <1>2, FreshInitially, Invariant, PTL DEF Spec, ControlsFinal

LEMMA ClockSteps ==
  ASSUME IInv, [Next]_vars
  PROVE  clock' < clock => generation' = generation + 1
<1>0. clock \in Nat
  BY DEF IInv, TypeOK
<1>1. CASE Pipeline
  <2>1. clock' = clock \/ clock' = clock + 1
    BY <1>1 DEF Pipeline, Decide, RejectRequest, StageThrows, ConsultThrows,
                ServeFault, ServeReplay, ServeConflict, CommitDecision,
                CallBehavior, Answer, BehaviorSucceeds, BehaviorDomainError,
                BehaviorFails, RefuseResponse, Rollback, CorruptThrows,
                CommitResponse, CommitResponseThrows, CommitSucceeds,
                CommitThrows, memoryVars
  <2> QED
    BY <1>0, <2>1
<1>2. CASE Wire \/ UNCHANGED vars
  <2>1. clock' = clock
    BY <1>2 DEF Wire, Enqueue, Finish, Leave, vars, memoryVars
  <2> QED
    BY <1>0, <2>1
<1>3. CASE Operator
  <2>1. \/ clock' = clock \/ clock' = clock + 1
        \/ generation' = generation + 1
    BY <1>3 DEF Operator, Submit, RepeatControl, RefuseControl, StartReset,
                ApplyAdvance, ApplyReset, FailReset, RecordControl, memoryVars
  <2> QED
    BY <1>0, <2>1
<1> QED
  BY <1>1, <1>2, <1>3 DEF Next

\* The virtual clock goes back at a reset and at no other step.
THEOREM ClockForwardHolds == Spec => ClockForward
<1>1. IInv /\ [Next]_vars => [clock' < clock => generation' = generation + 1]_vars
  BY ClockSteps
<1> QED
  BY <1>1, Invariant, PTL DEF Spec, ClockForward

-----------------------------------------------------------------------------
(* A control id takes effect once.                                         *)

Resets == {c \in Controls : controls[c] # None
                            /\ controls[c].payload.route = "reset"}
Owed == IF control.pc = "record" /\ control.payload.route = "reset" THEN 1 ELSE 0

LEMMA ResetsCounted ==
  ASSUME IsFiniteSet(Controls), IInv, ControlFresh, ControlOnce, [Next]_vars
  PROVE  ControlOnce'
<1>0. /\ controls \in [Controls -> Recorded \cup {None}] /\ generation \in Nat
      /\ IsFiniteSet(Resets) /\ Cardinality(Resets) \in Nat
      /\ generation = 1 + Cardinality(Resets) + Owed
  BY FS_Subset, FS_CardinalityType DEF IInv, TypeOK, Resets, Owed, ControlOnce
<1>1. SUFFICES generation' = 1 + Cardinality(Resets') + Owed'
  BY DEF ControlOnce, Resets, Owed
<1>2. CASE Pipeline \/ Wire \/ UNCHANGED vars
  <2>1. UNCHANGED <<generation, controls>> /\ (control' = control \/ ChildFree)
    BY <1>2, NoPipelineControl
  <2>2. Owed' = Owed
    BY <2>1 DEF ChildFree, Owed, IInv, TypeOK
  <2>3. Resets' = Resets
    BY <2>1 DEF Resets
  <2> QED
    BY <1>0, <2>1, <2>2, <2>3
<1>3. ASSUME NEW c \in Controls, NEW p \in Payloads, Submit(c, p)
      PROVE  generation' = 1 + Cardinality(Resets') + Owed'
  <2>1. UNCHANGED <<generation, controls>>
    BY <1>3 DEF Submit, RepeatControl, RefuseControl, StartReset, ApplyAdvance
  <2>2. Owed' = Owed
    BY <1>3 DEF Submit, RepeatControl, RefuseControl, StartReset, ApplyAdvance,
                Admit, Owed
  <2>3. Resets' = Resets
    BY <2>1 DEF Resets
  <2> QED
    BY <1>0, <2>1, <2>2, <2>3
<1>4. CASE ApplyReset
  <2>1. generation' = generation + 1 /\ UNCHANGED controls
    BY <1>4 DEF ApplyReset
  <2>2. Owed = 0 /\ Owed' = 1
    BY <1>4 DEF ApplyReset, Owed, ControlFresh, IInv, TypeOK
  <2>3. Resets' = Resets
    BY <2>1 DEF Resets
  <2> QED
    BY <1>0, <2>1, <2>2, <2>3
<1>5. CASE FailReset
  <2>1. UNCHANGED <<generation, controls>>
    BY <1>5 DEF FailReset
  <2>2. Owed = 0 /\ Owed' = 0
    BY <1>5 DEF FailReset, Owed, NoControl
  <2>3. Resets' = Resets
    BY <2>1 DEF Resets
  <2> QED
    BY <1>0, <2>1, <2>2, <2>3
<1>6. CASE RecordControl
  <2>1. /\ control.pc = "record" /\ control' = NoControl /\ generation' = generation
        /\ controls' = [controls EXCEPT ![control.id] =
                          [payload |-> control.payload, generation |-> generation,
                           revision |-> revision]]
    BY <1>6 DEF RecordControl
  <2>2. control.id \in Controls /\ controls[control.id] = None
    BY <2>1 DEF ControlFresh
  <2>3. Owed' = 0
    BY <2>1 DEF Owed, NoControl
  <2>4. \A c \in Controls : c # control.id => controls'[c] = controls[c]
    BY <1>0, <2>1
  <2>5. /\ controls'[control.id].payload = control.payload
        /\ controls'[control.id] # None
    <3>1. controls'[control.id] =
            [payload |-> control.payload, generation |-> generation,
             revision |-> revision]
      BY <1>0, <2>1, <2>2
    <3>2. controls'[control.id] \in [payload : Payloads, generation : Nat, revision : Nat]
      BY <2>1, <3>1 DEF IInv, TypeOK, ControlStaged
    <3>3. controls'[control.id] # None
      BY <3>2, NoneAssumption, Zenon
    <3>4. controls'[control.id].payload = control.payload
      BY <3>1
    <3> QED
      BY <3>3, <3>4
  <2>6. CASE control.payload.route = "reset"
    <3>1. Resets' = Resets \cup {control.id} /\ control.id \notin Resets
      BY <2>2, <2>4, <2>5, <2>6 DEF Resets
    <3>2. Cardinality(Resets') = Cardinality(Resets) + 1
      BY <1>0, <3>1, FS_AddElement
    <3>3. Owed = 1
      BY <2>1, <2>6 DEF Owed
    <3> QED
      BY <1>0, <2>1, <2>3, <3>2, <3>3
  <2>7. CASE control.payload.route # "reset"
    <3>1. Resets' = Resets
      BY <2>2, <2>4, <2>5, <2>7 DEF Resets
    <3>2. Owed = 0
      BY <2>7 DEF Owed
    <3> QED
      BY <1>0, <2>1, <2>3, <3>1, <3>2
  <2> QED
    BY <2>6, <2>7
<1> QED
  BY <1>2, <1>3, <1>4, <1>5, <1>6 DEF Next, Operator

\* Every generation but the first is the work of one recorded reset, or of the
\* one about to be recorded: no control id takes effect twice.
THEOREM ControlOnceHolds == IsFiniteSet(Controls) => (Spec => []ControlOnce)
<1> SUFFICES ASSUME IsFiniteSet(Controls) PROVE Spec => []ControlOnce
  OBVIOUS
<1>1. Init => ControlOnce
  <2> SUFFICES ASSUME Init PROVE ControlOnce
    OBVIOUS
  <2>1. Resets = {} /\ Owed = 0 /\ generation = 1
    BY DEF Init, Resets, Owed, NoControl
  <2>2. generation = 1 + Cardinality(Resets) + Owed
    BY <2>1, FS_EmptySet
  <2> QED
    BY <2>2 DEF ControlOnce, Resets, Owed
<1>2. IInv /\ ControlFresh /\ [Next]_vars => ControlFresh'
  BY ControlSteps
<1>3. IInv /\ ControlFresh /\ ControlOnce /\ [Next]_vars => ControlOnce'
  BY ResetsCounted
<1> QED
  BY <1>1, <1>2, <1>3, FreshInitially, Invariant, PTL DEF Spec

-----------------------------------------------------------------------------
(* Without an operator the state is the serial result of its log.          *)

\* No reset ever ran or waits to.
FirstGeneration == generation = 1 /\ control.pc = "idle"

\* Behavior works on the state as it is: nobody commits in between.
SnapshotIsState ==
  pipe.pc # "idle" =>
    /\ pipe.snapshot = state
    /\ WritesState(pipe.transition) =>
         pipe.next = state \cup (IF pipe.transition = "write"
                                 THEN {allocation} ELSE {})

\* Rows keep what they changed.
EffectsStay ==
  \A s \in Sequences : /\ rows'[s].transition = rows[s].transition
                       /\ rows[s].transition # "none" =>
                            rows'[s].generation = rows[s].generation

RowsAreFirst ==
  \A s \in Sequences : rows[s].transition # "none" => rows[s].generation = 1

Serial == FirstGeneration /\ SnapshotIsState /\ RowsAreFirst /\ StateIsSerial

LEMMA SerialInitially == Init => Serial
<1> SUFFICES ASSUME Init PROVE Serial
  OBVIOUS
<1>1. FirstGeneration /\ SnapshotIsState
  BY DEF Init, FirstGeneration, SnapshotIsState, NoControl, Idle
<1>2. RowsAreFirst /\ StateIsSerial
  BY DEF Init, RowsAreFirst, StateIsSerial, NoRow, Wrote
<1> QED
  BY <1>1, <1>2 DEF Serial

\* A step that changes neither the state nor what rows changed.
LEMMA QuietSerial ==
  ASSUME Serial, FirstGeneration', SnapshotIsState', EffectsStay, state' = state
  PROVE  Serial'
<1>1. generation' = generation /\ generation = 1
  BY DEF Serial, FirstGeneration
<1>2. RowsAreFirst'
  BY DEF Serial, RowsAreFirst, EffectsStay
<1>3. \A s \in Sequences :
        (Wrote(s) /\ rows[s].generation = generation)
          <=> (Wrote(s) /\ rows[s].generation = generation)'
  BY <1>1 DEF EffectsStay, Wrote
<1>4. StateIsSerial'
  BY <1>3 DEF Serial, StateIsSerial
<1> QED
  BY <1>2, <1>4 DEF Serial

\* A commit adds its own write to the state, and no other.
LEMMA CommitSerial ==
  ASSUME IInv, Serial, NEW r \in Requests, NEW seq \in Sequences, seq \notin events,
         NEW open, open \in [Sequences -> Row],
         \A s \in Sequences : /\ open[s].transition = rows[s].transition
                              /\ rows[s].transition # "none" =>
                                   open[s].generation = rows[s].generation,
         NEW transition \in Transitions, NEW next, NEW override, NEW entry,
         WritesState(transition) =>
           next = state \cup (IF transition = "write" THEN {seq} ELSE {}),
         CommitSucceeds(open, r, seq, transition, next, override, entry),
         FirstGeneration', pipe' = Idle
  PROVE  Serial'
<1>1. generation' = 1 /\ generation = 1
  BY DEF Serial, FirstGeneration
<1>2. /\ \A s \in Sequences : s # seq => rows'[s] = open[s]
      /\ rows'[seq].transition = transition /\ rows'[seq].generation = 1
      /\ state' = IF WritesState(transition) THEN next ELSE state
  BY <1>1 DEF CommitSucceeds
<1>3. SnapshotIsState'
  BY DEF SnapshotIsState, Idle
<1>4. RowsAreFirst'
  BY <1>2 DEF Serial, RowsAreFirst
<1>5. ~Wrote(seq)
  BY DEF IInv, TransitionsClosed, EventTrail, Wrote
<1>6. state' = state \cup (IF transition = "write" THEN {seq} ELSE {})
  BY <1>2 DEF WritesState, Transitions
<1>7. \A s \in Sequences :
        s # seq => ((Wrote(s) /\ rows[s].generation = generation)
                      <=> (Wrote(s) /\ rows[s].generation = generation)')
  BY <1>1, <1>2 DEF Wrote
<1>8. (Wrote(seq) /\ rows[seq].generation = generation)' <=> transition = "write"
  BY <1>1, <1>2 DEF Wrote
<1>9. StateIsSerial'
  <2>1. state = {s \in Sequences : Wrote(s) /\ rows[s].generation = generation}
    BY DEF Serial, StateIsSerial
  <2>2. state' = {s \in Sequences : (Wrote(s) /\ rows[s].generation = generation)'}
    BY <1>5, <1>6, <1>7, <1>8, <2>1
  <2> QED
    BY <2>2 DEF StateIsSerial
<1> QED
  BY <1>3, <1>4, <1>9 DEF Serial

\* The row to be opened has changed nothing yet.
LEMMA OpenedRow ==
  ASSUME IInv, NEW r \in Requests, CanStage
  PROVE  /\ count + 1 \in Sequences /\ count + 1 \notin events
         /\ [rows EXCEPT ![count + 1] = PendingRow(r)] \in [Sequences -> Row]
         /\ \A s \in Sequences :
              LET open == [rows EXCEPT ![count + 1] = PendingRow(r)] IN
              /\ open[s].transition = rows[s].transition
              /\ rows[s].transition # "none" =>
                   open[s].generation = rows[s].generation
<1>1. count + 1 \in Sequences /\ count + 1 \notin events
  BY OpenRowsUnlogged
<1>2. rows \in [Sequences -> Row] /\ PendingRow(r) \in Row
  BY PendingRowType DEF IInv, TypeOK
<1>3. rows[count + 1].transition = "none"
  BY <1>1 DEF IInv, TransitionsClosed, EventTrail
<1> QED
  BY <1>1, <1>2, <1>3 DEF PendingRow

LEMMA DecisionSerial ==
  ASSUME IInv, Serial, NEW r \in Requests, NEW override, NEW a,
         CommitDecision(r, override, pending, a)
  PROVE  Serial'
<1> DEFINE seq == count + 1
           open == [rows EXCEPT ![seq] = PendingRow(r)]
<1>1. /\ CanStage
      /\ \/ CommitSucceeds(open, r, seq, "none", {}, override, pending)
         \/ \E point \in {"early", "late"} :
              CommitThrows(open, point, "none", override, pending)
      /\ pipe' = Idle /\ UNCHANGED controlVars
  BY DEF CommitDecision, Settle
<1>2. /\ seq \in Sequences /\ seq \notin events /\ open \in [Sequences -> Row]
      /\ \A s \in Sequences :
           /\ open[s].transition = rows[s].transition
           /\ rows[s].transition # "none" => open[s].generation = rows[s].generation
  BY <1>1, OpenedRow
<1>3. FirstGeneration' /\ SnapshotIsState'
  BY <1>1 DEF Serial, FirstGeneration, SnapshotIsState, Idle, controlVars
<1>4. "none" \in Transitions /\ ~WritesState("none")
  BY DEF Transitions, WritesState
<1> HIDE DEF seq, open
<1>5. CASE CommitSucceeds(open, r, seq, "none", {}, override, pending)
  BY <1>1, <1>2, <1>3, <1>4, <1>5, CommitSerial, ZenonT(60)
<1>6. CASE \E point \in {"early", "late"} :
             CommitThrows(open, point, "none", override, pending)
  <2>1. rows' = open /\ state' = state
    BY <1>6 DEF CommitThrows
  <2> QED
    BY <1>2, <1>3, <2>1, QuietSerial DEF EffectsStay
<1> QED
  BY <1>1, <1>5, <1>6

LEMMA PipelineSerial ==
  ASSUME IInv, Serial, NEW r \in Requests, Decide(r) \/ Answer(r)
  PROVE  Serial'
<1>1. FirstGeneration'
  <2>1. UNCHANGED generation /\ (control' = control \/ ChildFree)
    BY NoPipelineControl DEF Pipeline
  <2> QED
    BY <2>1 DEF Serial, FirstGeneration, ChildFree, IInv, TypeOK
<1>2. /\ rows \in [Sequences -> Row] /\ pipe \in Exchange
      /\ pipe.pc # "idle" => allocation \in Sequences /\ allocation \notin events
  BY OpenRowsUnlogged DEF IInv, TypeOK
<1>3. CASE RejectRequest(r) \/ StageThrows(r) \/ CorruptThrows(r)
  <2>1. UNCHANGED <<rows, state>> /\ pipe' = Idle
    BY <1>3 DEF RejectRequest, StageThrows, CorruptThrows, Settle, storeVars
  <2> QED
    BY <1>1, <2>1, QuietSerial DEF EffectsStay, SnapshotIsState, Idle
<1>4. CASE ConsultThrows(r)
  <2>1. CanStage /\ rows' = [rows EXCEPT ![count + 1] = PendingRow(r)]
        /\ state' = state /\ pipe' = Idle
    BY <1>4 DEF ConsultThrows, Settle
  <2>2. EffectsStay /\ SnapshotIsState'
    BY <2>1, OpenedRow DEF EffectsStay, SnapshotIsState, Idle
  <2> QED
    BY <1>1, <2>1, <2>2, QuietSerial
<1>5. CASE CallBehavior(r)
  <2>1. CanStage /\ rows' = [rows EXCEPT ![count + 1] = PendingRow(r)]
        /\ state' = state
        /\ pipe' = [Idle EXCEPT !.pc = "behavior", !.req = r,
                               !.snapshot = Snapshot, !.positions = services]
    BY <1>5 DEF CallBehavior
  <2>2. EffectsStay
    BY <2>1, OpenedRow DEF EffectsStay
  <2>3. pipe'.snapshot = state' /\ pipe'.transition = "none"
    BY <2>1 DEF Idle, Snapshot
  <2>4. SnapshotIsState'
    BY <2>3 DEF SnapshotIsState, WritesState
  <2> QED
    BY <1>1, <2>1, <2>2, <2>4, QuietSerial
<1>6. CASE ServeFault(r) \/ ServeReplay(r) \/ ServeConflict(r)
  BY <1>6, DecisionSerial DEF ServeFault, ServeReplay, ServeConflict
<1>7. CASE BehaviorSucceeds(r)
  <2>1. PICK transition \in Transitions :
          pipe' = [pipe EXCEPT !.pc = "validate", !.outcome = "ok",
                     !.transition = transition, !.next = NextState(transition)]
    BY <1>7 DEF BehaviorSucceeds
  <2>2. UNCHANGED <<rows, state, allocation>> /\ pipe.pc # "idle"
    BY <1>7 DEF BehaviorSucceeds, InFlight, storeVars
  <2>3. /\ pipe'.snapshot = pipe.snapshot /\ pipe'.transition = transition
        /\ pipe'.next = NextState(transition)
    BY <1>2, <2>1 DEF Exchange
  <2>4. SnapshotIsState'
    BY <2>2, <2>3 DEF Serial, SnapshotIsState, NextState
  <2> QED
    BY <1>1, <2>2, <2>4, QuietSerial DEF EffectsStay
<1>8. CASE BehaviorDomainError(r)
  <2>1. /\ pipe' = [pipe EXCEPT !.pc = "validate", !.outcome = "domain_error"]
        /\ UNCHANGED <<rows, state, allocation>> /\ pipe.pc # "idle"
    BY <1>8 DEF BehaviorDomainError, InFlight, storeVars, memoryVars
  <2>2. /\ pipe'.snapshot = pipe.snapshot /\ pipe'.transition = pipe.transition
        /\ pipe'.next = pipe.next
    BY <1>2, <2>1 DEF Exchange
  <2>3. SnapshotIsState'
    BY <2>1, <2>2 DEF Serial, SnapshotIsState
  <2> QED
    BY <1>1, <2>1, <2>3, QuietSerial DEF EffectsStay
<1>9. CASE BehaviorFails(r) \/ RefuseResponse(r)
  <2>1. pipe.pc # "idle" /\ Rollback(r, "failed")
    BY <1>9 DEF BehaviorFails, RefuseResponse, InFlight
  <2>2. EffectsStay /\ state' = state /\ pipe' = Idle
    BY <1>2, <2>1 DEF Rollback, Settle, EffectsStay, Row
  <2> QED
    BY <1>1, <2>2, QuietSerial DEF SnapshotIsState, Idle
<1>10. CASE CommitResponse(r)
  <2>1. /\ CommitSucceeds(rows, r, allocation, pipe.transition, pipe.next,
                          terminalOverride, StagedEntry(r))
        /\ pipe' = Idle /\ pipe.pc # "idle"
    BY <1>10 DEF CommitResponse, InFlight, Settle
  <2>2. WritesState(pipe.transition) =>
          pipe.next = state \cup (IF pipe.transition = "write"
                                  THEN {allocation} ELSE {})
    BY <2>1 DEF Serial, SnapshotIsState
  <2>3. pipe.transition \in Transitions
    BY <1>2 DEF Exchange
  <2> QED
    BY <1>1, <1>2, <2>1, <2>2, <2>3, CommitSerial, ZenonT(60)
<1>11. CASE CommitResponseThrows(r)
  <2>1. rows' = rows /\ state' = state /\ pipe' = Idle
    BY <1>11 DEF CommitResponseThrows, CommitThrows, Settle
  <2> QED
    BY <1>1, <2>1, QuietSerial DEF EffectsStay, SnapshotIsState, Idle
<1> QED
  BY <1>3, <1>4, <1>5, <1>6, <1>7, <1>8, <1>9, <1>10, <1>11 DEF Decide, Answer

\* In a world without operator controls the state is exactly the writes its
\* log committed, each computed from all the ones before it, whatever throws
\* and whenever (serializeState in gateway/src/server.ts, commit() in
\* environment.ts).
THEOREM StateIsSerialHolds == Controls = {} => (Spec => []StateIsSerial)
<1> SUFFICES ASSUME Controls = {} PROVE Spec => []StateIsSerial
  OBVIOUS
<1>1. ASSUME IInv, Serial, [Next]_vars PROVE Serial'
  <2>1. CASE Pipeline
    BY <1>1, <2>1, PipelineSerial DEF Pipeline
  <2>2. CASE Wire \/ UNCHANGED vars
    <3>1. UNCHANGED <<rows, state, pipe, allocation, generation, control>>
      BY <2>2 DEF Wire, Enqueue, Finish, Leave, vars, storeVars, memoryVars,
                  gatewayVars, controlVars
    <3>2. FirstGeneration' /\ SnapshotIsState' /\ EffectsStay
      BY <1>1, <3>1 DEF Serial, FirstGeneration, SnapshotIsState, EffectsStay
    <3> QED
      BY <1>1, <3>1, <3>2, QuietSerial
  <2>3. ~Operator
    BY <1>1 DEF Operator, ApplyReset, FailReset, RecordControl, Serial,
                FirstGeneration
  <2> QED
    BY <1>1, <2>1, <2>2, <2>3 DEF Next
<1>2. Serial => StateIsSerial
  BY DEF Serial
<1> QED
  BY <1>1, <1>2, SerialInitially, Invariant, PTL DEF Spec

------------------------------------------------------------------------------
(* What the cache and the log say about each other when no commit fails      *)
(* before its row closed, and what an exchange leaves behind when no          *)
(* transaction fails.                                                         *)

\* A commit fails behind the row or not at all. One that fails earlier leaves
\* its cache record and its outcome to the next exchange.
LateOnly == "early" \notin FailurePoints

\* Nothing of an exchange waits in memory for the next.
NothingHeld == pending = None /\ terminalOverride = "none"

\* A cached response is that of an exchange of the log.
CacheIsLogged ==
  \A k \in Keys : idempotency[k] # None => idempotency[k].sequence \in events

ReplayInv == NothingHeld /\ CacheIsLogged /\ ReplayOfCommitted

\* The cache after a step: what was in it, or nothing.
CacheStays ==
  \A k \in Keys : idempotency'[k] = idempotency[k] \/ idempotency'[k] = None

\* The response of request r, committed at seq, joins the cache.
CacheGains(seq, r) ==
  /\ KeyOf[r] \in Keys
  /\ idempotency' = [idempotency EXCEPT ![KeyOf[r]] =
                       [body |-> BodyOf[r], of |-> r, sequence |-> seq]]
  /\ seq \in events'
  /\ rows'[seq].req = r /\ rows'[seq].status = "committed"

-----------------------------------------------------------------------------
LEMMA DecisionReplay ==
  ASSUME LateOnly, IInv, NothingHeld, NEW r \in Requests, NEW override, NEW a,
         CommitDecision(r, override, pending, a)
  PROVE  NothingHeld' /\ CacheStays
<1>1. \/ \E open : CommitSucceeds(open, r, count + 1, "none", {}, override, pending)
      \/ \E open : \E point \in {"early", "late"} :
           CommitThrows(open, point, "none", override, pending)
  BY DEF CommitDecision
<1> QED
  BY <1>1 DEF CommitSucceeds, CommitThrows, LateOnly, NothingHeld, CacheStays

LEMMA CommitReplay ==
  ASSUME LateOnly, IInv, NothingHeld, NEW r \in Requests, CommitResponse(r)
  PROVE  NothingHeld' /\ (CacheStays \/ \E seq \in Sequences : CacheGains(seq, r))
<1> DEFINE own == [key |-> KeyOf[r], body |-> BodyOf[r], of |-> r]
<1>1. CommitSucceeds(rows, r, allocation, pipe.transition, pipe.next, "none",
                     StagedEntry(r))
  BY DEF CommitResponse, NothingHeld
<1>2. allocation \in Sequences /\ rows \in [Sequences -> Row]
  BY OpenRowsUnlogged DEF CommitResponse, InFlight, IInv, TypeOK
<1>3. NothingHeld' /\ allocation \in events'
      /\ rows'[allocation].req = r /\ rows'[allocation].status = "committed"
  BY <1>1, <1>2 DEF CommitSucceeds, NothingHeld, AppendEvent
<1>4. CASE StagedEntry(r) = None
  BY <1>1, <1>3, <1>4 DEF CommitSucceeds, CacheStays
<1>5. CASE StagedEntry(r) # None
  <2>1. StagedEntry(r) = own /\ KeyOf[r] \in Keys
    BY <1>5, RequestAssumption DEF StagedEntry, NothingHeld
  <2>2. CacheGains(allocation, r)
    BY <1>1, <1>3, <1>5, <2>1 DEF CommitSucceeds, CacheGains
  <2> QED
    BY <1>2, <1>3, <2>2
<1> QED
  BY <1>4, <1>5

LEMMA StepReplay ==
  ASSUME LateOnly, IInv, NothingHeld, [Next]_vars
  PROVE  /\ NothingHeld'
         /\ CacheStays \/ \E seq \in Sequences, r \in Requests : CacheGains(seq, r)
<1>1. ASSUME NEW r \in Requests,
             ServeFault(r) \/ ServeReplay(r) \/ ServeConflict(r)
      PROVE  NothingHeld' /\ CacheStays
  BY <1>1, DecisionReplay DEF ServeFault, ServeReplay, ServeConflict
<1>2. ASSUME NEW r \in Requests,
             \/ RejectRequest(r) \/ StageThrows(r) \/ ConsultThrows(r)
             \/ CallBehavior(r) \/ BehaviorSucceeds(r) \/ BehaviorDomainError(r)
             \/ CorruptThrows(r) \/ Enqueue(r) \/ Finish(r) \/ Leave(r)
      PROVE  UNCHANGED <<pending, terminalOverride, idempotency>>
  BY <1>2 DEF RejectRequest, StageThrows, ConsultThrows, CallBehavior,
              BehaviorSucceeds, BehaviorDomainError, CorruptThrows, Enqueue,
              Finish, Leave, storeVars, memoryVars
<1>3. ASSUME NEW r \in Requests, BehaviorFails(r) \/ RefuseResponse(r)
      PROVE  NothingHeld' /\ idempotency' = idempotency
  BY <1>3 DEF BehaviorFails, RefuseResponse, Rollback, DropStaged, NothingHeld
<1>4. ASSUME NEW r \in Requests, CommitResponseThrows(r)
      PROVE  NothingHeld' /\ idempotency' = idempotency
  BY <1>4 DEF CommitResponseThrows, CommitThrows, LateOnly, NothingHeld
<1>5. CASE Operator
  <2>1. UNCHANGED <<pending, terminalOverride>>
    BY <1>5 DEF Operator, Submit, RepeatControl, RefuseControl, StartReset,
                ApplyAdvance, ApplyReset, FailReset, RecordControl, memoryVars
  <2>2. idempotency' = idempotency \/ idempotency' = [k \in Keys |-> None]
    BY <1>5 DEF Operator, Submit, RepeatControl, RefuseControl, StartReset,
                ApplyAdvance, ApplyReset, FailReset, RecordControl, storeVars
  <2> QED
    BY <2>1, <2>2 DEF NothingHeld, CacheStays
<1>6. CASE UNCHANGED vars
  BY <1>6 DEF vars, storeVars, memoryVars, NothingHeld, CacheStays
<1>7. ASSUME UNCHANGED <<pending, terminalOverride, idempotency>>
      PROVE  NothingHeld' /\ CacheStays
  BY <1>7 DEF NothingHeld, CacheStays
<1>8. ASSUME NothingHeld', idempotency' = idempotency
      PROVE  NothingHeld' /\ CacheStays
  BY <1>8 DEF CacheStays
<1> QED
  BY <1>1, <1>2, <1>3, <1>4, <1>5, <1>6, <1>7, <1>8, CommitReplay
  DEF Next, Pipeline, Wire, Decide, Answer

LEMMA ReplayInitially == Init => ReplayInv
  BY DEF Init, ReplayInv, NothingHeld, CacheIsLogged, ReplayOfCommitted

LEMMA ReplayStep ==
  ASSUME LateOnly, IInv, ReplayInv, [Next]_vars
  PROVE  ReplayInv'
<1>0. idempotency \in [Keys -> Stored \cup {None}]
  BY DEF IInv, TypeOK
<1>1. /\ NothingHeld'
      /\ CacheStays \/ \E seq \in Sequences, r \in Requests : CacheGains(seq, r)
  BY StepReplay DEF ReplayInv
<1>2. events \subseteq events' /\ \A s \in events : rows'[s] = rows[s]
  BY StepGrows DEF LogsNothing, LogsExchange
<1>3. ASSUME NEW k \in Keys, idempotency'[k] # None
      PROVE  LET e == idempotency'[k] IN
             /\ e.sequence \in events'
             /\ rows'[e.sequence].req = e.of
             /\ rows'[e.sequence].status = "committed"
             /\ KeyOf[e.of] = k /\ BodyOf[e.of] = e.body
  <2>1. CASE idempotency'[k] = idempotency[k]
    BY <1>2, <1>3, <2>1 DEF ReplayInv, CacheIsLogged, ReplayOfCommitted
  <2>2. CASE idempotency'[k] # idempotency[k]
    <3>1. PICK seq \in Sequences, r \in Requests : CacheGains(seq, r)
      BY <1>1, <1>3, <2>2 DEF CacheStays
    <3>2. k = KeyOf[r]
      BY <1>0, <2>2, <3>1 DEF CacheGains
    <3>3. idempotency'[k] = [body |-> BodyOf[r], of |-> r, sequence |-> seq]
      BY <1>0, <3>1, <3>2 DEF CacheGains
    <3> QED
      BY <3>1, <3>2, <3>3 DEF CacheGains
  <2> QED
    BY <2>1, <2>2
<1>4. CacheIsLogged' /\ ReplayOfCommitted'
  BY <1>3 DEF CacheIsLogged, ReplayOfCommitted
<1> QED
  BY <1>1, <1>4 DEF ReplayInv

\* What the cache replays is the response of an exchange that committed under
\* the same identity and fingerprint, across any number of resets, failing
\* rollbacks and lookups (idempotency.ts, store.ts).
THEOREM ReplayOfCommittedHolds == LateOnly => (Spec => []ReplayOfCommitted)
<1> SUFFICES ASSUME LateOnly PROVE Spec => []ReplayOfCommitted
  OBVIOUS
<1>1. IInv /\ ReplayInv /\ [Next]_vars => ReplayInv'
  BY ReplayStep
<1>2. ReplayInv => ReplayOfCommitted
  BY DEF ReplayInv
<1> QED
  BY <1>1, <1>2, ReplayInitially, Invariant, PTL DEF Spec

-----------------------------------------------------------------------------
(* A request is answered once.                                             *)

\* Whoever waits, or is being served, has joined once and has no answer yet.
ChainOwed ==
  /\ \A i \in 1 .. Len(chain) :
       answer[chain[i]] = "none" /\ transport[chain[i]] # "closed"
  /\ \A i, j \in 1 .. Len(chain) : chain[i] = chain[j] => i = j
PipeOwed ==
  pipe.pc # "idle" =>
    /\ answer[pipe.req] = "none" /\ transport[pipe.req] # "closed"
    /\ \A i \in 1 .. Len(chain) : chain[i] # pipe.req
Owing == ChainOwed /\ PipeOwed

\* Nobody is served anew.
TransportsOpen ==
  \A r \in Requests : transport[r] # "closed" => transport'[r] # "closed"

LEMMA OwingInitially == Init => Owing
  BY DEF Init, Owing, ChainOwed, PipeOwed, Idle

LEMMA OpenTransports ==
  ASSUME IInv, [Next]_vars
  PROVE  TransportsOpen
<1>1. transport \in [Requests -> {"closed", "open", "finished", "cut", "gone"}]
  BY DEF IInv, TypeOK
<1>2. \/ UNCHANGED transport
      \/ \E r \in Requests, t \in {"open", "finished", "cut", "gone"} :
           transport' = [transport EXCEPT ![r] = t]
  <2>1. ASSUME NEW r \in Requests, Decide(r)
        PROVE  UNCHANGED transport
    BY <2>1 DEF Decide, RejectRequest, StageThrows, ConsultThrows, ServeFault,
                ServeReplay, ServeConflict, CommitDecision, CallBehavior,
                deliveryVars
  <2>2. ASSUME NEW r \in Requests, Answer(r)
        PROVE  UNCHANGED transport \/ transport' = [transport EXCEPT ![r] = "cut"]
    BY <2>2 DEF Answer, BehaviorSucceeds, BehaviorDomainError, BehaviorFails,
                RefuseResponse, Rollback, CorruptThrows, CommitResponse,
                CutTransport, CommitResponseThrows, deliveryVars
  <2>3. ASSUME NEW r \in Requests, Enqueue(r) \/ Finish(r) \/ Leave(r)
        PROVE  \E t \in {"open", "finished", "cut", "gone"} :
                 transport' = [transport EXCEPT ![r] = t]
    BY <2>3 DEF Enqueue, Finish, Leave
  <2>4. CASE Operator \/ UNCHANGED vars
    BY <2>4 DEF Operator, Submit, RepeatControl, RefuseControl, StartReset,
                ApplyAdvance, ApplyReset, FailReset, RecordControl, vars,
                deliveryVars
  <2> QED
    BY <2>1, <2>2, <2>3, <2>4 DEF Next, Pipeline, Wire
<1> QED
  BY <1>1, <1>2 DEF TransportsOpen

\* The head of the chain leaves it and is settled, or is the one in flight.
LEMMA HeadLeaves ==
  ASSUME IInv, Owing, NEW r \in Requests, Ready(r), chain' = Tail(chain),
         TransportsOpen,
         \/ pipe' = Idle /\ \E a : answer' = [answer EXCEPT ![r] = a]
         \/ pipe'.req = r /\ answer' = answer
  PROVE  Owing' /\ answer[r] = "none"
<1>1. chain \in Seq(Requests) /\ chain # <<>> /\ r = chain[1]
      /\ answer \in [Requests -> Answers]
  BY DEF IInv, TypeOK, Ready
<1>2. /\ Len(chain') = Len(chain) - 1 /\ Len(chain) \in Nat \ {0}
      /\ \A i \in 1 .. Len(chain') :
           chain'[i] = chain[i + 1] /\ i + 1 \in 1 .. Len(chain)
  BY <1>1
<1>3. \A i \in 1 .. Len(chain') : chain'[i] # r /\ chain'[i] \in Requests
  <2> SUFFICES ASSUME NEW i \in 1 .. Len(chain')
               PROVE  chain'[i] # r /\ chain'[i] \in Requests
    OBVIOUS
  <2>1. i + 1 \in 1 .. Len(chain) /\ 1 \in 1 .. Len(chain) /\ i + 1 # 1
    BY <1>2
  <2>2. chain[i + 1] # chain[1]
    BY <2>1 DEF Owing, ChainOwed
  <2> QED
    BY <1>1, <1>2, <2>1, <2>2
<1>4. answer[r] = "none" /\ transport[r] # "closed"
  <2>1. 1 \in 1 .. Len(chain)
    BY <1>2
  <2> QED
    BY <1>1, <2>1 DEF Owing, ChainOwed
<1>5. ChainOwed'
  <2>1. ASSUME NEW i \in 1 .. Len(chain')
        PROVE  answer'[chain'[i]] = "none" /\ transport'[chain'[i]] # "closed"
    <3>1. answer'[chain'[i]] = answer[chain'[i]]
      BY <1>1, <1>3
    <3>2. answer[chain'[i]] = "none" /\ transport[chain'[i]] # "closed"
      BY <1>2 DEF Owing, ChainOwed
    <3> QED
      BY <1>3, <3>1, <3>2 DEF TransportsOpen
  <2>2. ASSUME NEW i \in 1 .. Len(chain'), NEW j \in 1 .. Len(chain'),
               chain'[i] = chain'[j]
        PROVE  i = j
    <3>1. i + 1 = j + 1
      BY <1>2, <2>2 DEF Owing, ChainOwed
    <3> QED
      BY <3>1
  <2> QED
    BY <2>1, <2>2 DEF ChainOwed
<1>6. PipeOwed'
  BY <1>3, <1>4 DEF PipeOwed, Idle, TransportsOpen
<1> QED
  BY <1>4, <1>5, <1>6 DEF Owing

\* The exchange in flight is settled, or goes on.
LEMMA FlightSettles ==
  ASSUME IInv, Owing, NEW r \in Requests, InFlight(r), chain' = chain,
         TransportsOpen,
         \/ pipe' = Idle /\ \E a : answer' = [answer EXCEPT ![r] = a]
         \/ pipe'.req = r /\ answer' = answer
  PROVE  Owing' /\ answer[r] = "none"
<1>1. chain \in Seq(Requests) /\ answer \in [Requests -> Answers]
  BY DEF IInv, TypeOK
<1>2. /\ answer[r] = "none" /\ transport[r] # "closed"
      /\ \A i \in 1 .. Len(chain) : chain[i] # r /\ chain[i] \in Requests
  BY <1>1 DEF InFlight, Owing, PipeOwed
<1>3. \A i \in 1 .. Len(chain) : answer'[chain[i]] = answer[chain[i]]
  BY <1>1, <1>2
<1>4. ChainOwed'
  BY <1>2, <1>3 DEF Owing, ChainOwed, TransportsOpen
<1>5. PipeOwed'
  BY <1>2 DEF PipeOwed, Idle, TransportsOpen
<1> QED
  BY <1>2, <1>4, <1>5 DEF Owing

\* Joining, and whatever does not concern the chain.
LEMMA OthersOwe ==
  ASSUME IInv, Owing, TransportsOpen, UNCHANGED <<answer, pipe>>,
         chain' = chain \/ \E r \in Requests : Enqueue(r)
  PROVE  Owing'
<1>1. chain \in Seq(Requests) /\ (pipe.pc # "idle" => pipe.req \in Requests)
  BY DEF IInv, TypeOK, StagedRow
<1>2. \A i \in 1 .. Len(chain) : chain[i] \in Requests
  BY <1>1
<1>3. CASE chain' = chain
  BY <1>1, <1>2, <1>3 DEF Owing, ChainOwed, PipeOwed, TransportsOpen
<1>4. ASSUME NEW r \in Requests, Enqueue(r)
      PROVE  Owing'
  <2>1. /\ transport[r] = "closed" /\ answer[r] = "none"
        /\ transport' = [transport EXCEPT ![r] = "open"]
        /\ chain' = Append(chain, r)
    BY <1>4 DEF Enqueue
  <2>2. transport'[r] = "open"
    BY <2>1 DEF IInv, TypeOK
  <2>3. /\ Len(chain') = Len(chain) + 1 /\ Len(chain) \in Nat
        /\ chain'[Len(chain) + 1] = r
        /\ \A i \in 1 .. Len(chain) : chain'[i] = chain[i] /\ chain[i] # r
    BY <1>1, <2>1 DEF Owing, ChainOwed
  <2>4. \A i \in 1 .. Len(chain') : i \in 1 .. Len(chain) \/ i = Len(chain) + 1
    BY <2>3
  <2>5. ChainOwed'
    BY <1>2, <2>1, <2>2, <2>3, <2>4 DEF Owing, ChainOwed, TransportsOpen
  <2>6. PipeOwed'
    BY <1>1, <2>1, <2>3, <2>4 DEF Owing, PipeOwed, TransportsOpen
  <2> QED
    BY <2>5, <2>6 DEF Owing
<1> QED
  BY <1>3, <1>4

AnswersStay == \A r \in Requests : answer[r] # "none" => answer'[r] = answer[r]

LEMMA OwingStep ==
  ASSUME IInv, Owing, [Next]_vars
  PROVE  Owing' /\ AnswersStay
<1>0. TransportsOpen /\ answer \in [Requests -> Answers]
  BY OpenTransports DEF IInv, TypeOK
<1>1. ASSUME NEW r \in Requests, Decide(r)
      PROVE  Owing' /\ AnswersStay
  <2>1. /\ Ready(r) /\ chain' = Tail(chain)
        /\ \/ pipe' = Idle /\ \E a : answer' = [answer EXCEPT ![r] = a]
           \/ pipe'.req = r /\ answer' = answer
    BY <1>1 DEF Decide, RejectRequest, StageThrows, ConsultThrows, ServeFault,
                ServeReplay, ServeConflict, CommitDecision, CallBehavior,
                Settle, Idle
  <2>2. Owing' /\ answer[r] = "none"
    BY <1>0, <2>1, HeadLeaves
  <2> QED
    BY <1>0, <2>1, <2>2 DEF AnswersStay
<1>2. ASSUME NEW r \in Requests, Answer(r)
      PROVE  Owing' /\ AnswersStay
  <2>1. InFlight(r) /\ chain' = chain /\ pipe \in Exchange
    BY <1>2 DEF Answer, BehaviorSucceeds, BehaviorDomainError, BehaviorFails,
                RefuseResponse, Rollback, CorruptThrows, CommitResponse,
                CommitResponseThrows, IInv, TypeOK
  <2>2. \/ pipe' = Idle /\ \E a : answer' = [answer EXCEPT ![r] = a]
        \/ pipe'.req = r /\ answer' = answer
    <3>1. CASE BehaviorSucceeds(r) \/ BehaviorDomainError(r)
      BY <2>1, <3>1 DEF BehaviorSucceeds, BehaviorDomainError, InFlight, Exchange
    <3>2. CASE ~(BehaviorSucceeds(r) \/ BehaviorDomainError(r))
      BY <1>2, <3>2 DEF Answer, BehaviorFails, RefuseResponse, Rollback,
                        CorruptThrows, CommitResponse, CommitResponseThrows,
                        Settle
    <3> QED
      BY <3>1, <3>2
  <2>3. Owing' /\ answer[r] = "none"
    BY <1>0, <2>1, <2>2, FlightSettles
  <2> QED
    BY <1>0, <2>2, <2>3 DEF AnswersStay
<1>3. CASE Wire \/ Operator \/ UNCHANGED vars
  <2>1. /\ UNCHANGED <<answer, pipe>>
        /\ chain' = chain \/ \E r \in Requests : Enqueue(r)
    BY <1>3 DEF Wire, Enqueue, Finish, Leave, Operator, Submit, RepeatControl,
                RefuseControl, StartReset, ApplyAdvance, ApplyReset, FailReset,
                RecordControl, vars, gatewayVars
  <2> QED
    BY <1>0, <2>1, OthersOwe DEF AnswersStay
<1> QED
  BY <1>1, <1>2, <1>3 DEF Next, Pipeline

\* A request is answered at most once, by one exchange.
THEOREM AnsweredOnce == Spec => [][AnswersStay]_vars
<1>1. IInv /\ Owing /\ [Next]_vars => Owing' /\ AnswersStay
  BY OwingStep
<1> QED
  BY <1>1, OwingInitially, Invariant, PTL DEF Spec

-----------------------------------------------------------------------------
(* What a row says of its exchange.                                        *)

\* An exchange joins the log as committed, or as what was decided from a
\* cached response.
Decided(seq, r) ==
  /\ seq \notin events /\ seq = count + 1
  /\ rows'[seq].req = r
  /\ Entry(r) # None
  /\ \/ /\ rows'[seq].status = "replayed" /\ answer'[r] = "replayed"
        /\ Entry(r).body = BodyOf[r]
     \/ /\ rows'[seq].status = "rejected" /\ answer'[r] = "conflict"
        /\ Entry(r).body # BodyOf[r]

LogsTruly ==
  \A s \in events' \ events :
    rows'[s].status = "committed" \/ \E r \in Requests : Decided(s, r)

LEMMA DecisionStatus ==
  ASSUME IInv, NEW r \in Requests, NEW override, NEW a,
         CommitDecision(r, override, pending, a)
  PROVE  \/ events' = events
         \/ /\ count + 1 \in Sequences /\ count + 1 \notin events
            /\ events' = events \cup {count + 1}
            /\ rows'[count + 1].req = r
            /\ rows'[count + 1].status =
                 IF override = "none" THEN "committed" ELSE override
            /\ answer'[r] = a
<1> DEFINE open == [rows EXCEPT ![count + 1] = PendingRow(r)]
<1>1. /\ CanStage
      /\ \/ /\ CommitSucceeds(open, r, count + 1, "none", {}, override, pending)
            /\ Settle(r, a)
         \/ \E point \in {"early", "late"} :
                 CommitThrows(open, point, "none", override, pending)
  BY DEF CommitDecision
<1>2. /\ count + 1 \in Sequences /\ count + 1 \notin events
      /\ rows \in [Sequences -> Row] /\ answer \in [Requests -> Answers]
  BY <1>1, OpenRowsUnlogged DEF IInv, TypeOK
<1>3. DOMAIN open = Sequences
  BY <1>2
<1> HIDE DEF open
<1> QED
  BY <1>1, <1>2, <1>3 DEF CommitSucceeds, CommitThrows, AppendEvent, Settle

LEMMA StepLogsTruly ==
  ASSUME LateOnly, IInv, NothingHeld, [Next]_vars
  PROVE  LogsTruly
<1>1. ASSUME NEW r \in Requests, ServeFault(r)
      PROVE  LogsTruly
  BY <1>1, DecisionStatus DEF ServeFault, NothingHeld, LogsTruly
<1>2. ASSUME NEW r \in Requests, ServeReplay(r)
      PROVE  LogsTruly
  <2>1. /\ CommitDecision(r, "replayed", pending, "replayed")
        /\ Entry(r) # None /\ Entry(r).body = BodyOf[r]
    BY <1>2 DEF ServeReplay
  <2>2. CASE events' = events
    BY <2>2 DEF LogsTruly
  <2>3. CASE events' # events
    <3>1. /\ count + 1 \notin events /\ events' = events \cup {count + 1}
          /\ rows'[count + 1].req = r /\ answer'[r] = "replayed"
          /\ rows'[count + 1].status = "replayed"
      BY <2>1, <2>3, DecisionStatus
    <3>2. Decided(count + 1, r)
      BY <2>1, <3>1 DEF Decided
    <3> QED
      BY <3>1, <3>2 DEF LogsTruly
  <2> QED
    BY <2>2, <2>3
<1>3. ASSUME NEW r \in Requests, ServeConflict(r)
      PROVE  LogsTruly
  <2>1. /\ CommitDecision(r, "rejected", pending, "conflict")
        /\ Entry(r) # None /\ Entry(r).body # BodyOf[r]
    BY <1>3 DEF ServeConflict
  <2>2. CASE events' = events
    BY <2>2 DEF LogsTruly
  <2>3. CASE events' # events
    <3>1. /\ count + 1 \notin events /\ events' = events \cup {count + 1}
          /\ rows'[count + 1].req = r /\ answer'[r] = "conflict"
          /\ rows'[count + 1].status = "rejected"
      BY <2>1, <2>3, DecisionStatus
    <3>2. Decided(count + 1, r)
      BY <2>1, <3>1 DEF Decided
    <3> QED
      BY <3>1, <3>2 DEF LogsTruly
  <2> QED
    BY <2>2, <2>3
<1>4. ASSUME NEW r \in Requests, CommitResponse(r)
      PROVE  LogsTruly
  <2>1. CommitSucceeds(rows, r, allocation, pipe.transition, pipe.next, "none",
                       StagedEntry(r))
    BY <1>4 DEF CommitResponse, NothingHeld
  <2>2. rows \in [Sequences -> Row] /\ allocation \in Sequences
    BY <1>4, OpenRowsUnlogged DEF CommitResponse, InFlight, IInv, TypeOK
  <2> QED
    BY <2>1, <2>2 DEF CommitSucceeds, AppendEvent, LogsTruly
<1>5. ASSUME NEW r \in Requests, Decide(r) \/ Answer(r), ~ServeFault(r),
             ~ServeReplay(r), ~ServeConflict(r), ~CommitResponse(r)
      PROVE  events' = events
  BY <1>5 DEF Decide, Answer, RejectRequest, StageThrows, ConsultThrows,
              CallBehavior, BehaviorSucceeds, BehaviorDomainError,
              BehaviorFails, RefuseResponse, Rollback, CorruptThrows,
              CommitResponseThrows, CommitThrows, storeVars
<1>6. CASE Wire \/ Operator \/ UNCHANGED vars
  <2>1. events' = events
    BY <1>6 DEF Wire, Enqueue, Finish, Leave, Operator, Submit, RepeatControl,
                RefuseControl, StartReset, ApplyAdvance, ApplyReset, FailReset,
                RecordControl, vars, storeVars
  <2> QED
    BY <2>1 DEF LogsTruly
<1> QED
  BY <1>1, <1>2, <1>3, <1>4, <1>5, <1>6 DEF Next, Pipeline, LogsTruly

\* The entry a decision was taken from is that of a committed row before it.
LEMMA EntryIsOriginal ==
  ASSUME IInv, ReplayInv, NEW r \in Requests, NEW seq \in Sequences,
         Decided(seq, r), \A s \in events : rows'[s] = rows[s]
  PROVE  \E t \in Sequences :
           Original(seq, t)' /\ BodyOf[rows'[t].req] = Entry(r).body
<1>1. KeyOf[r] \in Keys /\ Entry(r) = idempotency[KeyOf[r]] /\ Entry(r) # None
  BY RequestAssumption DEF Decided, Entry
<1>2. PICK t \in events :
        /\ rows[t].status = "committed"
        /\ KeyOf[rows[t].req] = KeyOf[r] /\ BodyOf[rows[t].req] = Entry(r).body
  <2>1. LET t == idempotency[KeyOf[r]].sequence IN
        /\ t \in events /\ rows[t].status = "committed"
        /\ KeyOf[rows[t].req] = KeyOf[r] /\ BodyOf[rows[t].req] = Entry(r).body
    BY <1>1 DEF ReplayInv, CacheIsLogged, ReplayOfCommitted
  <2> QED
    BY <2>1
<1>3. t \in Sequences /\ t < seq
  <2>0. count \in Nat /\ events \subseteq Sequences
    BY LimitAssumption DEF IInv, TypeOK
  <2>1. t \in Sequences /\ rows[t].status # "none" /\ seq = count + 1
        /\ count \in Nat
    BY <1>2, <2>0 DEF Decided
  <2>2. ~(t > count)
    BY <2>1 DEF IInv, RowsBelowCount
  <2> QED
    BY <2>1, <2>2 DEF Sequences
<1>4. rows'[t] = rows[t] /\ rows'[seq].req = r
  BY <1>2 DEF Decided
<1>5. Original(seq, t)'
  BY <1>2, <1>3, <1>4 DEF Original
<1> QED
  BY <1>2, <1>3, <1>4, <1>5

OutcomeInv == ReplayInv /\ Owing /\ OutcomeRecorded

LEMMA OutcomeStep ==
  ASSUME LateOnly, IInv, OutcomeInv, EventsHaveRequests, [Next]_vars
  PROVE  OutcomeRecorded'
<1>1. events \subseteq events' /\ \A s \in events : rows'[s] = rows[s]
  BY StepGrows DEF LogsNothing, LogsExchange
<1>2. IInv' /\ events' \subseteq Sequences
  BY StepInvariant DEF IInv, TypeOK
<1>3. AnswersStay
  BY OwingStep DEF OutcomeInv
<1> SUFFICES ASSUME NEW s \in Sequences, s \in events'
    PROVE
      /\ rows'[s].status = "replayed" =>
           /\ answer'[rows'[s].req] = "replayed"
           /\ \E t \in Sequences :
                Original(s, t)' /\ BodyOf[rows'[t].req] = BodyOf[rows'[s].req]
      /\ rows'[s].status = "rejected" =>
           /\ answer'[rows'[s].req] = "conflict"
           /\ \E t \in Sequences :
                Original(s, t)' /\ BodyOf[rows'[t].req] # BodyOf[rows'[s].req]
  <2>1. \A s \in Sequences :
          rows'[s].status \in {"replayed", "rejected"} => s \in events'
    BY <1>2 DEF IInv, EventTrail, Closed
  <2> QED
    BY <2>1 DEF OutcomeRecorded
<1>4. CASE s \in events
  <2>1. rows'[s] = rows[s] /\ rows[s].req \in Requests
    BY <1>1, <1>4 DEF EventsHaveRequests
  <2>2. ASSUME NEW t \in Sequences, Original(s, t)
        PROVE  Original(s, t)' /\ rows'[t] = rows[t]
    <3>1. t \in events
      BY <2>2 DEF Original, IInv, EventTrail, Closed
    <3> QED
      BY <1>1, <2>1, <2>2, <3>1 DEF Original
  <2>3. answer[rows[s].req] # "none" =>
          answer'[rows'[s].req] = answer[rows[s].req]
    BY <1>3, <2>1 DEF AnswersStay
  <2> QED
    BY <2>1, <2>2, <2>3 DEF OutcomeInv, OutcomeRecorded
<1>5. CASE s \notin events
  <2>1. CASE rows'[s].status = "committed"
    BY <2>1
  <2>2. CASE \E r \in Requests : Decided(s, r)
    <3>1. PICK r \in Requests : Decided(s, r)
      BY <2>2
    <3>2. PICK t \in Sequences :
            Original(s, t)' /\ BodyOf[rows'[t].req] = Entry(r).body
      BY <1>1, <3>1, EntryIsOriginal DEF OutcomeInv
    <3> QED
      BY <3>1, <3>2 DEF Decided
  <2> QED
    BY <1>5, <2>1, <2>2, StepLogsTruly DEF LogsTruly, OutcomeInv, ReplayInv
<1> QED
  BY <1>4, <1>5

\* A row says replayed, or rejected for a conflict, only of an exchange that
\* was answered so and only behind an exchange that committed under the same
\* identity (environment.ts commit(), section 17.3).
THEOREM OutcomeRecordedHolds == LateOnly => (Spec => []OutcomeRecorded)
<1> SUFFICES ASSUME LateOnly PROVE Spec => []OutcomeRecorded
  OBVIOUS
<1>1. Init => OutcomeInv /\ EventsHaveRequests
  <2>1. Init => OutcomeRecorded /\ EventsHaveRequests
    BY DEF Init, OutcomeRecorded, EventsHaveRequests, NoRow
  <2> QED
    BY <2>1, ReplayInitially, OwingInitially DEF OutcomeInv
<1>2. IInv /\ OutcomeInv /\ EventsHaveRequests /\ [Next]_vars =>
        OutcomeInv' /\ EventsHaveRequests'
  <2> SUFFICES ASSUME IInv, OutcomeInv, EventsHaveRequests, [Next]_vars
               PROVE  OutcomeInv' /\ EventsHaveRequests'
    OBVIOUS
  <2>1. EventsHaveRequests'
    BY StepGrows DEF EventsHaveRequests, LogsNothing, LogsExchange
  <2>2. OutcomeRecorded'
    BY OutcomeStep
  <2> QED
    BY <2>1, <2>2, ReplayStep, OwingStep DEF OutcomeInv
<1>3. OutcomeInv => OutcomeRecorded
  BY DEF OutcomeInv
<1> QED
  BY <1>1, <1>2, <1>3, Invariant, PTL DEF Spec

-----------------------------------------------------------------------------
(* What an exchange leaves behind when no transaction throws.              *)

NothingThrows == FailurePoints = {}

\* The draws a behavior staged, and the positions it started from.
DrawsOwned ==
  /\ pipe.pc # "idle" =>
       \A s \in pipe.positions : rows[s].status = "committed"
  /\ stagedServices # None =>
       /\ pipe.pc # "idle"
       /\ \A s \in stagedServices : s \in pipe.positions \/ s = allocation

\* The exchanges that moved the clock.
Ticked(s) == rows[s].transition # "none" \/ rows[s].status = "replayed"
Moved == {s \in Sequences : Ticked(s)}

CleanInv ==
  /\ FirstGeneration /\ NothingHeld /\ DrawsOwned
  /\ ServicesCommitted /\ RowsClose /\ AllocationOwned
  /\ clock = InitialTime + Cardinality(Moved)

LEMMA CleanIsClean == CleanInv => ExchangeEndsClean
  BY DEF CleanInv, ExchangeEndsClean, ClockCountsCommits, Moved, Ticked

LEMMA CleanInitially == Init => CleanInv
<1> SUFFICES ASSUME Init PROVE CleanInv
  OBVIOUS
<1>1. Moved = {}
  BY DEF Init, Moved, Ticked, NoRow
<1>2. clock = InitialTime + Cardinality(Moved)
  BY <1>1, FS_EmptySet, LimitAssumption DEF Init
<1>3. /\ FirstGeneration /\ NothingHeld /\ DrawsOwned
      /\ ServicesCommitted /\ RowsClose /\ AllocationOwned
  BY DEF Init, FirstGeneration, NothingHeld, DrawsOwned, ServicesCommitted,
         RowsClose, AllocationOwned, NoControl, Idle, NoRow
<1> QED
  BY <1>2, <1>3 DEF CleanInv

\* The clock counts along when a step ticks exactly for the row it moves.
LEMMA ClockFollows ==
  ASSUME IInv, clock = InitialTime + Cardinality(Moved), NEW seq \in Sequences,
         ~Ticked(seq), \A s \in Sequences : s # seq => (Ticked(s)' <=> Ticked(s)),
         clock' = IF Ticked(seq)' THEN clock + 1 ELSE clock
  PROVE  clock' = InitialTime + Cardinality(Moved')
<1>1. IsFiniteSet(Moved) /\ Cardinality(Moved) \in Nat
  <2>1. IsFiniteSet(Sequences)
    BY FS_Interval, LimitAssumption DEF Sequences
  <2> QED
    BY <2>1, FS_Subset, FS_CardinalityType DEF Moved
<1>2. CASE Ticked(seq)'
  <2>1. Moved' = Moved \cup {seq} /\ seq \notin Moved
    BY <1>2 DEF Moved
  <2>2. Cardinality(Moved') = Cardinality(Moved) + 1
    BY <1>1, <2>1, FS_AddElement
  <2> QED
    BY <1>1, <1>2, <2>2, LimitAssumption
<1>3. CASE ~Ticked(seq)'
  <2>1. Moved' = Moved
    BY <1>3 DEF Moved
  <2> QED
    BY <1>3, <2>1
<1> QED
  BY <1>2, <1>3

\* A transaction that commits leaves nothing behind.
LEMMA CommitClean ==
  ASSUME IInv, CleanInv, NEW r \in Requests, NEW seq \in Sequences,
         ~Ticked(seq), NEW open, open \in [Sequences -> Row],
         \A s \in Sequences : s # seq => open[s] = rows[s],
         \A s \in Sequences : rows[s].status = "pending" => s = seq,
         stagedServices # None =>
           \A s \in stagedServices : s = seq \/ rows[s].status = "committed",
         NEW transition, NEW next, NEW override \in {"none", "replayed", "rejected"},
         NEW entry,
         seq \in stagedServices /\ stagedServices # None => override = "none",
         seq \notin services,
         CommitSucceeds(open, r, seq, transition, next, override, entry),
         FirstGeneration', pipe' = Idle
  PROVE  CleanInv'
<1> DEFINE status == IF override = "none" THEN "committed" ELSE override
<1>1. /\ \A s \in Sequences : s # seq => rows'[s] = rows[s]
      /\ rows'[seq].status = status /\ rows'[seq].transition = transition
      /\ allocation' = 0 /\ NothingHeld' /\ stagedServices' = None
      /\ clock' = IF Ticks(transition, status) THEN clock + 1 ELSE clock
      /\ services' = IF stagedServices = None THEN services ELSE stagedServices
  BY DEF CommitSucceeds, NothingHeld
<1>2. Ticked(seq)' <=> Ticks(transition, status)
  BY <1>1 DEF Ticked, Ticks
<1>3. \A s \in Sequences : s # seq => (Ticked(s)' <=> Ticked(s))
  BY <1>1 DEF Ticked
<1>4. clock' = InitialTime + Cardinality(Moved')
  BY <1>1, <1>2, <1>3, ClockFollows DEF CleanInv
<1>5. services \subseteq Sequences
      /\ (stagedServices # None => stagedServices \subseteq Sequences)
  BY DEF IInv, TypeOK
<1>6. ServicesCommitted'
  <2>1. CASE stagedServices = None
    BY <1>1, <1>5, <2>1 DEF CleanInv, ServicesCommitted
  <2>2. CASE stagedServices # None
    BY <1>1, <1>5, <2>2 DEF ServicesCommitted
  <2> QED
    BY <2>1, <2>2
<1>7. status # "pending"
  OBVIOUS
<1>8. RowsClose' /\ AllocationOwned' /\ DrawsOwned'
  BY <1>1, <1>7 DEF RowsClose, AllocationOwned, DrawsOwned, Idle
<1> QED
  BY <1>1, <1>4, <1>6, <1>8 DEF CleanInv

\* A decision before behavior stages and commits in one step.
LEMMA DecisionClean ==
  ASSUME NothingThrows, IInv, CleanInv, NEW r \in Requests,
         NEW override \in {"none", "replayed", "rejected"}, NEW a,
         CommitDecision(r, override, pending, a)
  PROVE  CleanInv'
<1> DEFINE seq == count + 1
           open == [rows EXCEPT ![seq] = PendingRow(r)]
<1>1. /\ CanStage /\ Ready(r)
      /\ CommitSucceeds(open, r, seq, "none", {}, override, pending)
      /\ pipe' = Idle /\ UNCHANGED controlVars
  BY DEF CommitDecision, CommitThrows, NothingThrows, Settle
<1>2. seq \in Sequences /\ seq \notin events /\ open \in [Sequences -> Row]
  BY <1>1, OpenedRow
<1>3. rows \in [Sequences -> Row]
  BY DEF IInv, TypeOK
<1>4. \A s \in Sequences : s # seq => open[s] = rows[s]
  BY <1>3
<1>5. rows[seq].status \notin {"committed", "replayed"}
      /\ rows[seq].transition = "none"
  BY <1>2 DEF IInv, TransitionsClosed, EventTrail, Closed
<1>6. ~Ticked(seq)
  BY <1>5 DEF Ticked
<1>7. /\ \A s \in Sequences : rows[s].status # "pending"
      /\ stagedServices = None /\ seq \notin services
  BY <1>1, <1>5 DEF CleanInv, RowsClose, DrawsOwned, ServicesCommitted, Ready
<1>8. FirstGeneration'
  BY <1>1 DEF CleanInv, FirstGeneration, controlVars
<1> HIDE DEF seq, open
<1> QED
  BY <1>1, <1>2, <1>4, <1>6, <1>7, <1>8, CommitClean

\* The pipeline hands a fresh row to behavior.
LEMMA CallClean ==
  ASSUME IInv, CleanInv, NEW r \in Requests, CallBehavior(r)
  PROVE  CleanInv'
<1> DEFINE seq == count + 1
<1>1. /\ CanStage /\ Ready(r) /\ allocation' = seq
      /\ rows' = [rows EXCEPT ![seq] = PendingRow(r)]
      /\ pipe'.pc = "behavior" /\ pipe'.positions = services
      /\ UNCHANGED <<services, stagedServices, clock, pending, terminalOverride,
                     generation, control>>
  BY DEF CallBehavior, controlVars, Idle
<1>2. seq \in Sequences /\ seq \notin events
  BY <1>1, OpenedRow
<1>3. /\ \A s \in Sequences : s # seq => rows'[s] = rows[s]
      /\ rows'[seq].status = "pending" /\ rows'[seq].transition = "none"
  BY <1>1, <1>2 DEF IInv, TypeOK, PendingRow
<1>4. /\ rows[seq].status \notin {"committed", "replayed"}
      /\ rows[seq].transition = "none"
  BY <1>2 DEF IInv, TransitionsClosed, EventTrail, Closed
<1>5. /\ \A s \in Sequences : rows[s].status # "pending"
      /\ stagedServices = None /\ seq \notin services
      /\ services \subseteq Sequences
  BY <1>1, <1>4 DEF CleanInv, RowsClose, DrawsOwned, ServicesCommitted, Ready,
                    IInv, TypeOK
<1> HIDE DEF seq
<1>7. clock' = InitialTime + Cardinality(Moved')
  <2>1. PICK t \in Sequences : t = seq
    BY <1>2
  <2>2. ~Ticked(t) /\ ~Ticked(t)'
        /\ \A s \in Sequences : s # t => (Ticked(s)' <=> Ticked(s))
    BY <1>3, <1>4, <2>1 DEF Ticked
  <2> QED
    BY <1>1, <2>1, <2>2, ClockFollows DEF CleanInv
<1>8. /\ FirstGeneration' /\ NothingHeld' /\ DrawsOwned'
      /\ ServicesCommitted' /\ RowsClose' /\ AllocationOwned'
  BY <1>1, <1>3, <1>5 DEF CleanInv, FirstGeneration, NothingHeld, DrawsOwned,
     ServicesCommitted, RowsClose, AllocationOwned
<1> QED
  BY <1>7, <1>8 DEF CleanInv

\* A rollback closes its row and drops what was staged.
LEMMA RollbackClean ==
  ASSUME NothingThrows, IInv, CleanInv, NEW r \in Requests,
         BehaviorFails(r) \/ RefuseResponse(r)
  PROVE  CleanInv'
<1>1. /\ pipe.pc # "idle" /\ pipe' = Idle /\ allocation' = 0
      /\ rows' = [rows EXCEPT ![allocation].status = "failed"]
      /\ pending' = None /\ terminalOverride' = "none" /\ stagedServices' = None
      /\ UNCHANGED <<services, clock>>
  BY DEF BehaviorFails, RefuseResponse, InFlight, Rollback, DropStaged, Settle,
         NothingThrows
<1>2. generation' = generation /\ control'.pc = control.pc
  BY DEF BehaviorFails, RefuseResponse, ChildFree, controlVars, IInv, TypeOK
<1>3. /\ allocation \in Sequences /\ rows[allocation].status = "pending"
      /\ rows[allocation].transition = "none"
  BY <1>1 DEF IInv, StagedRow, TransitionsClosed, Closed
<1>4. /\ \A s \in Sequences : s # allocation => rows'[s] = rows[s]
      /\ rows'[allocation].status = "failed"
      /\ rows'[allocation].transition = "none"
      /\ services \subseteq Sequences
  BY <1>1, <1>3 DEF IInv, TypeOK, Row
<1>5. clock' = InitialTime + Cardinality(Moved')
  <2>1. PICK t \in Sequences : t = allocation
    BY <1>3
  <2>2. ~Ticked(t) /\ ~Ticked(t)'
        /\ \A s \in Sequences : s # t => (Ticked(s)' <=> Ticked(s))
    BY <1>3, <1>4, <2>1 DEF Ticked
  <2> QED
    BY <1>1, <2>1, <2>2, ClockFollows DEF CleanInv
<1>7. /\ FirstGeneration' /\ NothingHeld' /\ DrawsOwned'
      /\ ServicesCommitted' /\ RowsClose' /\ AllocationOwned'
  BY <1>1, <1>2, <1>3, <1>4 DEF CleanInv, FirstGeneration, NothingHeld,
     DrawsOwned, ServicesCommitted, RowsClose, AllocationOwned, Idle
<1> QED
  BY <1>5, <1>7 DEF CleanInv

\* The valid response commits.
LEMMA ResponseClean ==
  ASSUME IInv, CleanInv, NEW r \in Requests, CommitResponse(r)
  PROVE  CleanInv'
<1>1. /\ pipe.pc # "idle" /\ pipe' = Idle
      /\ CommitSucceeds(rows, r, allocation, pipe.transition, pipe.next, "none",
                        StagedEntry(r))
      /\ UNCHANGED controlVars
  BY DEF CommitResponse, InFlight, Settle, CleanInv, NothingHeld
<1>2. /\ allocation \in Sequences /\ rows[allocation].status = "pending"
      /\ rows[allocation].transition = "none" /\ rows \in [Sequences -> Row]
  BY <1>1 DEF IInv, TypeOK, StagedRow, TransitionsClosed, Closed
<1>3. ~Ticked(allocation)
  BY <1>2 DEF Ticked
<1>4. /\ \A s \in Sequences : rows[s].status = "pending" => s = allocation
      /\ allocation \notin services
      /\ stagedServices # None =>
           \A s \in stagedServices : s = allocation \/ rows[s].status = "committed"
  BY <1>1, <1>2 DEF CleanInv, RowsClose, ServicesCommitted, DrawsOwned
<1>5. FirstGeneration'
  BY <1>1 DEF CleanInv, FirstGeneration, controlVars
<1> QED
  BY <1>1, <1>2, <1>3, <1>4, <1>5, CommitClean

\* The child's answer stages draws; nothing else moves.
LEMMA BehaviorClean ==
  ASSUME IInv, CleanInv, NEW r \in Requests,
         BehaviorSucceeds(r) \/ BehaviorDomainError(r)
  PROVE  CleanInv'
<1>1. /\ pipe.pc # "idle" /\ pipe'.pc = "validate"
      /\ pipe'.positions = pipe.positions
      /\ \/ stagedServices' = stagedServices
         \/ \E drew \in SUBSET {allocation} :
              stagedServices' = pipe.positions \cup drew
      /\ UNCHANGED <<rows, services, clock, pending, terminalOverride,
                     allocation, generation>>
      /\ control'.pc = control.pc
  BY DEF BehaviorSucceeds, BehaviorDomainError, InFlight, ChildFree, storeVars,
         memoryVars, IInv, TypeOK, Exchange
<1>2. clock' = InitialTime + Cardinality(Moved')
  BY <1>1 DEF CleanInv, Moved, Ticked
<1>3. DrawsOwned'
  BY <1>1 DEF CleanInv, DrawsOwned
<1>4. /\ FirstGeneration' /\ NothingHeld'
      /\ ServicesCommitted' /\ RowsClose' /\ AllocationOwned'
  BY <1>1 DEF CleanInv, FirstGeneration, NothingHeld, ServicesCommitted,
     RowsClose, AllocationOwned
<1> QED
  BY <1>2, <1>3, <1>4 DEF CleanInv

\* Who leaves the pipeline before it staged anything, and the wire.
LEMMA QuietClean ==
  ASSUME CleanInv, UNCHANGED <<rows, services, stagedServices, clock, pending,
                               terminalOverride, allocation, generation, control>>,
         pipe' = pipe \/ (pipe.pc = "idle" /\ pipe' = Idle)
  PROVE  CleanInv'
<1>1. clock' = InitialTime + Cardinality(Moved')
  BY DEF CleanInv, Moved, Ticked
<1>2. /\ FirstGeneration' /\ NothingHeld' /\ DrawsOwned'
      /\ ServicesCommitted' /\ RowsClose' /\ AllocationOwned'
  BY DEF CleanInv, FirstGeneration, NothingHeld, DrawsOwned, ServicesCommitted,
     RowsClose, AllocationOwned, Idle
<1> QED
  BY <1>1, <1>2 DEF CleanInv

LEMMA CleanStep ==
  ASSUME NothingThrows, Controls = {}, IInv, CleanInv, [Next]_vars
  PROVE  CleanInv'
<1>1. ASSUME NEW r \in Requests,
             ServeFault(r) \/ ServeReplay(r) \/ ServeConflict(r)
      PROVE  CleanInv'
  <2>1. terminalOverride = "none"
    BY DEF CleanInv, NothingHeld
  <2>2. \E override \in {"none", "replayed", "rejected"}, a \in Answers :
          CommitDecision(r, override, pending, a)
    BY <1>1, <2>1 DEF ServeFault, ServeReplay, ServeConflict, Answers
  <2> QED
    BY <2>2, DecisionClean
<1>2. ASSUME NEW r \in Requests, RejectRequest(r) \/ StageThrows(r)
      PROVE  CleanInv'
  <2>1. /\ UNCHANGED <<rows, services, stagedServices, clock, pending,
                       terminalOverride, allocation, generation, control>>
        /\ pipe.pc = "idle" /\ pipe' = Idle
    BY <1>2 DEF RejectRequest, StageThrows, Ready, Settle, storeVars,
                memoryVars, controlVars
  <2> QED
    BY <2>1, QuietClean
<1>3. CASE Wire \/ UNCHANGED vars
  <2>1. UNCHANGED <<rows, services, stagedServices, clock, pending, pipe,
                    terminalOverride, allocation, generation, control>>
    BY <1>3 DEF Wire, Enqueue, Finish, Leave, vars, storeVars, memoryVars,
                gatewayVars, controlVars
  <2> QED
    BY <2>1, QuietClean
<1>4. ASSUME NEW r \in Requests,
             ConsultThrows(r) \/ CorruptThrows(r) \/ CommitResponseThrows(r)
      PROVE  FALSE
  BY <1>4 DEF ConsultThrows, CorruptThrows, CommitResponseThrows, CommitThrows,
              NothingThrows
<1>5. ~Operator
  BY DEF Operator, ApplyReset, FailReset, RecordControl, CleanInv,
         FirstGeneration
<1> QED
  BY <1>1, <1>2, <1>3, <1>4, <1>5, CallClean, BehaviorClean, RollbackClean,
     ResponseClean DEF Next, Pipeline, Decide, Answer

\* Where no transaction throws and no operator acts, every exchange leaves no
\* draw, no open row and no allocation behind, and virtual time counts exactly
\* the transitions and replays of the log (environment.ts stage(), commit(),
\* rollback(); section 48.2).
THEOREM ExchangeEndsCleanHolds ==
  NothingThrows /\ Controls = {} => (Spec => []ExchangeEndsClean)
<1> SUFFICES ASSUME NothingThrows, Controls = {}
             PROVE  Spec => []ExchangeEndsClean
  OBVIOUS
<1>1. IInv /\ CleanInv /\ [Next]_vars => CleanInv'
  BY CleanStep
<1> QED
  BY <1>1, CleanInitially, CleanIsClean, Invariant, PTL DEF Spec
=============================================================================
