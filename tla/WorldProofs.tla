----------------------------- MODULE WorldProofs -----------------------------
(* Machine-checked proofs about World, for every set of requests, keys and  *)
(* controls, every limit and every combination of failure points; and that *)
(* its exchanges implement those of the atomic world.                      *)
EXTENDS WorldInvariant, TLAPS

\* Initially nothing is staged, cached or written.
LEMMA InitInvariant == Init => IInv
<1> SUFFICES ASSUME Init PROVE IInv
  OBVIOUS
<1> USE RequestAssumption, LimitAssumption, NoneAssumption
<1>1. TypeOK
  BY DEF Init, TypeOK, Sequences, NoRow, Idle, NoControl, NoReply, Row,
         RowStatus, Transitions, Exchange, Outcomes, Answers
<1>2. RowsBelowCount /\ TransitionsClosed /\ RowGenerations
      /\ TransitionsCached /\ EventTrail /\ AtMostOnce
  BY DEF Init, RowsBelowCount, TransitionsClosed, RowGenerations,
         TransitionsCached, EventTrail, AtMostOnce, Closed, NoRow, Sequences
<1>3. StagedRow /\ CandidateFromSnapshot /\ InFlightUncached /\ ControlStaged
      /\ NoUncommittedEffect
  BY DEF Init, StagedRow, CandidateFromSnapshot, InFlightUncached,
         ControlStaged, NoUncommittedEffect, Idle, NoControl
<1> QED
  BY <1>1, <1>2, <1>3 DEF IInv

-----------------------------------------------------------------------------
(* Type correctness, action by action.                                     *)

\* Taking the head of the chain leaves a sequence of requests.
LEMMA ReadyType == ASSUME TypeOK, NEW r \in Requests, Ready(r)
                   PROVE Tail(chain) \in Seq(Requests)
  BY DEF TypeOK, Ready

\* An answer idles the pipeline.
LEMMA SettleType == ASSUME TypeOK, NEW r \in Requests, NEW a \in Answers,
                           Settle(r, a)
                    PROVE /\ answer' \in [Requests -> Answers]
                          /\ pipe' = Idle
                          /\ pipe' \in Exchange
  BY DEF TypeOK, Settle, Idle, Exchange, Outcomes, Transitions, Sequences

\* A request that joins the chain changes nothing else.
LEMMA TypeEnqueue == ASSUME TypeOK, NEW r \in Requests, Enqueue(r)
                     PROVE TypeOK'
  BY DEF TypeOK, Enqueue, storeVars, memoryVars, controlVars

\* A refusal before staging answers and idles.
LEMMA TypeReject == ASSUME TypeOK, NEW r \in Requests,
                           RejectRequest(r) \/ StageThrows(r)
                    PROVE TypeOK'
<1>1. /\ Ready(r) /\ chain' = Tail(chain)
      /\ \E a \in Answers : Settle(r, a)
      /\ UNCHANGED <<storeVars, memoryVars, controlVars, deliveryVars>>
  BY DEF RejectRequest, StageThrows, Answers
<1>2. PICK a \in Answers : Settle(r, a)
  BY <1>1
<1> QED
  BY <1>1, <1>2, ReadyType, SettleType
  DEF TypeOK, storeVars, memoryVars, controlVars, deliveryVars

\* A freshly opened row is a row.
LEMMA PendingRowType == ASSUME TypeOK, NEW r \in Requests
                        PROVE PendingRow(r) \in Row
  BY DEF TypeOK, PendingRow, Row, RowStatus, Transitions

\* A consult that throws leaves a pending row and its allocation.
LEMMA TypeConsult == ASSUME TypeOK, NEW r \in Requests, ConsultThrows(r)
                     PROVE TypeOK'
<1> USE LimitAssumption
<1>1. Ready(r) /\ Settle(r, "error") /\ CanStage
  BY DEF ConsultThrows
<1>2. "error" \in Answers
  BY DEF Answers
<1>3. count + 1 \in Sequences /\ count + 1 \in 0 .. MaxRequests
  BY <1>1 DEF CanStage, TypeOK, Sequences
<1> QED
  BY <1>1, <1>2, <1>3, ReadyType, SettleType, PendingRowType
  DEF TypeOK, ConsultThrows, controlVars, deliveryVars

\* What commit() leaves in the store and in memory is well typed.
CommitTyped ==
  /\ rows' \in [Sequences -> Row]
  /\ events' \subseteq Sequences
  /\ state' \subseteq Sequences
  /\ revision' \in Nat
  /\ idempotency' \in [Keys -> Stored \cup {None}]
  /\ allocation' \in 0 .. MaxRequests
  /\ terminalOverride' = "none"
  /\ stagedServices' = None
  /\ services' \subseteq Sequences
  /\ pending' = None
  /\ clock' \in Nat

\* A commit() that succeeds leaves the store and the memory well typed.
LEMMA CommitSucceedsType ==
  ASSUME TypeOK, NEW r \in Requests, NEW open \in [Sequences -> Row],
         NEW seq \in Sequences, NEW transition \in Transitions,
         NEW next \in SUBSET Sequences,
         NEW override \in {"none", "replayed", "rejected"},
         NEW entry \in Pending \cup {None},
         CommitSucceeds(open, r, seq, transition, next, override, entry)
  PROVE  CommitTyped
<1> USE LimitAssumption
<1> DEFINE status == IF override = "none" THEN "committed" ELSE override
<1>1. status \in RowStatus
  BY DEF RowStatus
<1>2. rows' \in [Sequences -> Row]
  BY <1>1 DEF CommitSucceeds, Row, TypeOK
<1>3. events' \in SUBSET Sequences
  BY DEF CommitSucceeds, AppendEvent, TypeOK
<1>4. state' \in SUBSET Sequences /\ revision' \in Nat /\ clock' \in Nat
  BY DEF CommitSucceeds, TypeOK
<1>5. idempotency' \in [Keys -> Stored \cup {None}]
  <2>1. CASE entry = None
    BY <2>1 DEF CommitSucceeds, TypeOK
  <2>2. CASE entry # None
    <3>1. [body |-> entry.body, of |-> entry.of, sequence |-> seq] \in Stored
      BY <2>2 DEF Pending, Stored
    <3> QED
      BY <2>2, <3>1 DEF CommitSucceeds, TypeOK
  <2> QED
    BY <2>1, <2>2
<1>6. services' \in SUBSET Sequences
  BY DEF CommitSucceeds, TypeOK
<1> QED
  BY <1>2, <1>3, <1>4, <1>5, <1>6 DEF CommitSucceeds, CommitTyped, Sequences

\* So is what a commit() that throws leaves in memory.
LEMMA CommitThrowsType ==
  ASSUME TypeOK, NEW open \in [Sequences -> Row], NEW point,
         NEW transition \in Transitions,
         NEW override \in {"none", "replayed", "rejected"},
         NEW entry \in Pending \cup {None},
         CommitThrows(open, point, transition, override, entry)
  PROVE  /\ rows' \in [Sequences -> Row]
         /\ allocation' \in 0 .. MaxRequests
         /\ terminalOverride' \in {"none", "replayed", "rejected"}
         /\ pending' \in Pending \cup {None}
         /\ clock' \in Nat
         /\ UNCHANGED <<events, state, revision, idempotency, services,
                        stagedServices>>
  BY LimitAssumption DEF CommitThrows, TypeOK

\* A decision before behavior commits or throws on a freshly opened row.
LEMMA DecisionType ==
  ASSUME TypeOK, NEW r \in Requests, NEW a \in Answers,
         NEW override \in {"none", "replayed", "rejected"},
         CommitDecision(r, override, pending, a)
  PROVE  TypeOK'
<1> USE LimitAssumption
<1> DEFINE seq == count + 1
<1> DEFINE open == [rows EXCEPT ![seq] = PendingRow(r)]
<1>1. Ready(r) /\ CanStage
  BY DEF CommitDecision
<1>2. seq \in Sequences /\ seq \in 0 .. MaxRequests
  BY <1>1 DEF CanStage, TypeOK, Sequences
<1>3. open \in [Sequences -> Row]
  BY <1>2, PendingRowType DEF TypeOK
<1>4. pending \in Pending \cup {None} /\ "none" \in Transitions /\ {} \in SUBSET Sequences
  BY DEF TypeOK, Transitions
<1>5. "error" \in Answers
  BY DEF Answers
<1>6. Tail(chain) \in Seq(Requests)
  BY <1>1, ReadyType
<1>7. /\ count' = seq /\ chain' = Tail(chain) /\ lastCommitted' = seq
      /\ UNCHANGED <<controlVars, deliveries, transport>>
  BY DEF CommitDecision
<1> HIDE DEF seq, open
<1> DEFINE nothing == {}
<1>n. nothing \in SUBSET Sequences
  OBVIOUS
<1> HIDE DEF nothing
<1>8. CASE /\ CommitSucceeds(open, r, seq, "none", nothing, override, pending)
           /\ Settle(r, a)
  <2>1. answer' \in [Requests -> Answers] /\ pipe' \in Exchange
    BY <1>8, SettleType
  <2>2. CommitTyped
    <3>1. CommitSucceeds(open, r, seq, "none", nothing, override, pending)
      BY <1>8
    <3>2. seq \in Sequences /\ "none" \in Transitions
      BY <1>2, <1>4
    <3>3. pending \in Pending \cup {None}
      BY <1>4
    <3> QED
      BY <1>3, <1>n, <3>1, <3>2, <3>3, CommitSucceedsType
  <2> QED
    BY <1>2, <1>6, <1>7, <2>1, <2>2 DEF TypeOK, CommitTyped, controlVars
<1>9. CASE /\ \E point \in {"early", "late"} :
                CommitThrows(open, point, "none", override, pending)
           /\ Settle(r, "error")
  <2>1. answer' \in [Requests -> Answers] /\ pipe' \in Exchange
    BY <1>5, <1>9, SettleType
  <2>2. PICK point \in {"early", "late"} :
          CommitThrows(open, point, "none", override, pending)
    BY <1>9
  <2>3. /\ rows' \in [Sequences -> Row]
        /\ allocation' \in 0 .. MaxRequests
        /\ terminalOverride' \in {"none", "replayed", "rejected"}
        /\ pending' \in Pending \cup {None} /\ clock' \in Nat
        /\ UNCHANGED <<events, state, revision, idempotency, services,
                       stagedServices>>
    BY <1>3, <1>4, <2>2, CommitThrowsType
  <2> QED
    BY <1>2, <1>6, <1>7, <2>1, <2>3 DEF TypeOK, controlVars
<1> QED
  BY <1>8, <1>9 DEF CommitDecision, seq, open, nothing

\* The three decisions taken before behavior are commits of that form.
LEMMA TypeDecision == ASSUME TypeOK, NEW r \in Requests,
                             ServeFault(r) \/ ServeReplay(r) \/ ServeConflict(r)
                      PROVE TypeOK'
<1>1. \A a \in {"fault", "replayed", "conflict"} : a \in Answers
  BY DEF Answers
<1>2. terminalOverride \in {"none", "replayed", "rejected"}
  BY DEF TypeOK
<1> QED
  BY <1>1, <1>2, DecisionType DEF ServeFault, ServeReplay, ServeConflict

\* Behavior is called with the committed state and positions.
LEMMA TypeCall == ASSUME TypeOK, NEW r \in Requests, CallBehavior(r)
                  PROVE TypeOK'
<1> USE LimitAssumption
<1>1. Ready(r) /\ CanStage
  BY DEF CallBehavior
<1>2. count + 1 \in Sequences /\ count + 1 \in 0 .. MaxRequests
  BY <1>1 DEF CanStage, TypeOK, Sequences
<1>3. pipe' \in Exchange
  BY DEF CallBehavior, Idle, Exchange, Snapshot, TypeOK, Outcomes, Transitions
<1> QED
  BY <1>1, <1>2, <1>3, ReadyType, PendingRowType
  DEF TypeOK, CallBehavior, controlVars, deliveryVars

\* Whoever waited behind the child keeps its type.
LEMMA ChildFreeType ==
  ASSUME TypeOK, ChildFree
  PROVE  control' \in [pc : {"idle", "initialize", "record"},
                       id : Controls \cup {None},
                       payload : Payloads \cup {None},
                       generation : Nat, behind : BOOLEAN]
  BY DEF TypeOK, ChildFree

\* What the child returns is well typed: writes and draws are its own.
LEMMA TypeBehavior == ASSUME TypeOK, StagedRow, NEW r \in Requests,
                             BehaviorSucceeds(r) \/ BehaviorDomainError(r)
                      PROVE TypeOK'
<1>1. control' \in [pc : {"idle", "initialize", "record"},
                    id : Controls \cup {None},
                    payload : Payloads \cup {None},
                    generation : Nat, behind : BOOLEAN]
  BY ChildFreeType DEF BehaviorSucceeds, BehaviorDomainError
<1>2. CASE BehaviorSucceeds(r)
  <2>1. allocation \in Sequences
    BY <1>2 DEF BehaviorSucceeds, StagedRow
  <2>2. PICK drew \in SUBSET {allocation}, transition \in Transitions :
          /\ stagedServices' = pipe.positions \cup drew
          /\ pipe' = [pipe EXCEPT !.pc = "validate", !.outcome = "ok",
                        !.transition = transition,
                        !.next = NextState(transition)]
    BY <1>2 DEF BehaviorSucceeds
  <2>3. pipe.snapshot \subseteq Sequences /\ pipe.positions \subseteq Sequences
    BY DEF TypeOK, Exchange
  <2>4. NextState(transition) \subseteq Sequences
    BY <2>1, <2>3 DEF NextState
  <2>5. pipe' \in Exchange
    BY <2>2, <2>4 DEF TypeOK, Exchange, Outcomes
  <2>6. stagedServices' \subseteq Sequences
    BY <2>1, <2>2, <2>3
  <2> QED
    BY <1>1, <1>2, <2>5, <2>6
    DEF TypeOK, BehaviorSucceeds, storeVars, deliveryVars
<1>3. CASE BehaviorDomainError(r)
  <2>1. pipe' \in Exchange
    BY <1>3 DEF BehaviorDomainError, TypeOK, Exchange, Outcomes
  <2> QED
    BY <1>1, <1>3, <2>1
    DEF TypeOK, BehaviorDomainError, storeVars, memoryVars, deliveryVars
<1> QED
  BY <1>2, <1>3

\* rollback() with or without the row update that may throw.
LEMMA RollbackType ==
  ASSUME TypeOK, StagedRow, NEW r \in Requests, pipe.pc # "idle",
         Rollback(r, "failed"),
         UNCHANGED <<generation, controls, reply>>,
         control' \in [pc : {"idle", "initialize", "record"},
                       id : Controls \cup {None},
                       payload : Payloads \cup {None},
                       generation : Nat, behind : BOOLEAN]
  PROVE  TypeOK'
<1> USE LimitAssumption
<1>1. answer' \in [Requests -> Answers] /\ pipe' \in Exchange
  <2>1. "failed" \in Answers
    BY DEF Answers
  <2> QED
    BY <2>1, SettleType DEF Rollback
<1>2. rows' \in [Sequences -> Row]
  <2>1. allocation \in Sequences /\ rows[allocation] \in Row
    BY DEF StagedRow, TypeOK
  <2>2. [rows[allocation] EXCEPT !.status = "failed"] \in Row
    BY <2>1 DEF Row, RowStatus
  <2>3. \/ rows' = [rows EXCEPT ![allocation] =
                     [rows[allocation] EXCEPT !.status = "failed"]]
        \/ rows' = rows
    BY <2>1 DEF Rollback, TypeOK
  <2> QED
    BY <2>1, <2>2, <2>3 DEF TypeOK
<1>3. /\ allocation' \in 0 .. MaxRequests /\ lastCommitted' \in 0 .. MaxRequests
      /\ pending' \in Pending \cup {None}
      /\ terminalOverride' \in {"none", "replayed", "rejected"}
      /\ stagedServices' \in (SUBSET Sequences) \cup {None}
  BY DEF Rollback, DropStaged, TypeOK
<1> QED
  BY <1>1, <1>2, <1>3 DEF TypeOK, Rollback

\* Every failure of behavior or of the response rolls back.
LEMMA TypeRollback == ASSUME TypeOK, StagedRow, NEW r \in Requests,
                             BehaviorFails(r) \/ RefuseResponse(r)
                      PROVE TypeOK'
<1>1. pipe.pc # "idle" /\ Rollback(r, "failed")
      /\ UNCHANGED <<generation, controls, reply>>
  BY DEF BehaviorFails, RefuseResponse, InFlight, controlVars
<1>2. control' \in [pc : {"idle", "initialize", "record"},
                    id : Controls \cup {None},
                    payload : Payloads \cup {None},
                    generation : Nat, behind : BOOLEAN]
  <2>1. CASE BehaviorFails(r)
    BY <2>1, ChildFreeType DEF BehaviorFails
  <2>2. CASE RefuseResponse(r)
    BY <2>2 DEF RefuseResponse, controlVars, TypeOK
  <2> QED
    BY <2>1, <2>2
<1> QED
  BY <1>1, <1>2, RollbackType

\* A consult that throws on the candidate only answers.
LEMMA TypeCorrupt == ASSUME TypeOK, NEW r \in Requests, CorruptThrows(r)
                     PROVE TypeOK'
<1>1. "error" \in Answers
  BY DEF Answers
<1> QED
  BY <1>1, SettleType
  DEF CorruptThrows, TypeOK, storeVars, memoryVars, controlVars, deliveryVars

\* The pending record of a cacheable response of a keyed request.
LEMMA StagedEntryType == ASSUME TypeOK, NEW r \in Requests
                         PROVE  StagedEntry(r) \in Pending \cup {None}
<1>1. CASE KeyOf[r] # NoKey /\ pipe.outcome \in CachedOutcomes
  <2>1. KeyOf[r] \in Keys /\ BodyOf[r] \in Bodies
    BY <1>1, RequestAssumption
  <2>2. [key |-> KeyOf[r], body |-> BodyOf[r], of |-> r] \in Pending
    BY <2>1 DEF Pending
  <2> QED
    BY <1>1, <2>2 DEF StagedEntry
<1>2. CASE ~(KeyOf[r] # NoKey /\ pipe.outcome \in CachedOutcomes)
  BY <1>2 DEF StagedEntry, TypeOK
<1> QED
  BY <1>1, <1>2

\* The commit of the exchange in flight, with or without a cut transport.
LEMMA TypeCommit == ASSUME TypeOK, StagedRow, NEW r \in Requests,
                           CommitResponse(r)
                    PROVE TypeOK'
<1> USE LimitAssumption
<1>1. /\ rows \in [Sequences -> Row] /\ allocation \in Sequences
      /\ pipe.transition \in Transitions
      /\ pipe.next \in SUBSET Sequences
      /\ terminalOverride \in {"none", "replayed", "rejected"}
      /\ StagedEntry(r) \in Pending \cup {None}
  BY StagedEntryType DEF CommitResponse, StagedRow, InFlight, TypeOK, Exchange
<1>2. CommitSucceeds(rows, r, allocation, pipe.transition, pipe.next,
                     terminalOverride, StagedEntry(r))
  BY DEF CommitResponse
<1>3. CommitTyped
  BY <1>1, <1>2, CommitSucceedsType
<1>4. answer' \in [Requests -> Answers] /\ pipe' \in Exchange
  <2>1. "served" \in Answers /\ "error" \in Answers
    BY DEF Answers
  <2>2. Settle(r, "served") \/ Settle(r, "error")
    BY DEF CommitResponse
  <2> QED
    BY <2>1, <2>2, SettleType
<1>5. /\ lastCommitted' \in 0 .. MaxRequests
      /\ deliveries' \in [Sequences -> {"unknown", "delivered", "lost"}]
      /\ transport' \in [Requests ->
                           {"closed", "open", "finished", "cut", "gone"}]
  BY <1>1 DEF CommitResponse, CutTransport, TypeOK
<1>6. UNCHANGED <<count, chain, controlVars>>
  BY DEF CommitResponse
<1> QED
  BY <1>3, <1>4, <1>5, <1>6 DEF TypeOK, CommitTyped, controlVars

\* The same commit when its transaction throws.
LEMMA TypeCommitThrows == ASSUME TypeOK, StagedRow, NEW r \in Requests,
                                 CommitResponseThrows(r)
                          PROVE TypeOK'
<1> USE LimitAssumption
<1>1. /\ rows \in [Sequences -> Row] /\ allocation \in Sequences
      /\ pipe.transition \in Transitions
      /\ terminalOverride \in {"none", "replayed", "rejected"}
      /\ StagedEntry(r) \in Pending \cup {None}
  BY StagedEntryType
  DEF CommitResponseThrows, StagedRow, InFlight, TypeOK, Exchange
<1>2. PICK point \in {"early", "late"} :
        CommitThrows(rows, point, pipe.transition, terminalOverride,
                     StagedEntry(r))
  BY DEF CommitResponseThrows
<1>3. /\ rows' \in [Sequences -> Row]
      /\ allocation' \in 0 .. MaxRequests
      /\ terminalOverride' \in {"none", "replayed", "rejected"}
      /\ pending' \in Pending \cup {None} /\ clock' \in Nat
      /\ UNCHANGED <<events, state, revision, idempotency, services,
                     stagedServices>>
  BY <1>1, <1>2, CommitThrowsType
<1>4. answer' \in [Requests -> Answers] /\ pipe' \in Exchange
  <2>1. "commit_failed" \in Answers /\ Settle(r, "commit_failed")
    BY DEF Answers, CommitResponseThrows
  <2> QED
    BY <2>1, SettleType
<1>5. /\ lastCommitted' \in 0 .. MaxRequests
      /\ UNCHANGED <<count, chain, controlVars, deliveries, transport>>
  BY <1>1 DEF CommitResponseThrows, Sequences
<1> QED
  BY <1>3, <1>4, <1>5 DEF TypeOK, controlVars

\* Responses that finish and clients that leave touch the delivery record.
LEMMA TypeWire == ASSUME TypeOK, NEW r \in Requests, Finish(r) \/ Leave(r)
                  PROVE TypeOK'
<1> USE LimitAssumption
<1>1. /\ lastCommitted' \in 0 .. MaxRequests
      /\ deliveries' \in [Sequences -> {"unknown", "delivered", "lost"}]
      /\ transport' \in [Requests ->
                           {"closed", "open", "finished", "cut", "gone"}]
  BY SMTT(30) DEF Finish, Leave, TypeOK
<1> QED
  BY <1>1 DEF Finish, Leave, TypeOK, storeVars, memoryVars, gatewayVars,
              controlVars

\* Every control action keeps the types of what it writes.
LEMMA TypeSubmit == ASSUME TypeOK, NEW c \in Controls, NEW p \in Payloads,
                           Submit(c, p)
                    PROVE TypeOK'
<1>1. CASE RepeatControl(c, p) \/ RefuseControl(c, p)
  BY <1>1 DEF RepeatControl, RefuseControl, Reply, TypeOK, storeVars,
              memoryVars, gatewayVars, deliveryVars
<1>2. CASE StartReset(c, p)
  BY <1>2 DEF StartReset, Admit, TypeOK, storeVars, memoryVars, gatewayVars,
              deliveryVars
<1>3. CASE ApplyAdvance(c, p)
  BY <1>3 DEF ApplyAdvance, Admit, TypeOK, storeVars, gatewayVars,
              deliveryVars
<1> QED
  BY <1>1, <1>2, <1>3 DEF Submit

\* The reset transaction writes the baseline and an empty cache.
LEMMA TypeReset == ASSUME TypeOK, ApplyReset
                   PROVE TypeOK'
<1>1. control' \in [pc : {"idle", "initialize", "record"},
                    id : Controls \cup {None},
                    payload : Payloads \cup {None},
                    generation : Nat, behind : BOOLEAN]
  BY DEF ApplyReset, TypeOK
<1>2. idempotency' \in [Keys -> Stored \cup {None}]
  BY DEF ApplyReset
<1> QED
  BY <1>1, <1>2 DEF ApplyReset, TypeOK, gatewayVars, deliveryVars

\* A control that ends writes its recorded result and its reply.
LEMMA TypeControl == ASSUME TypeOK, ControlStaged, FailReset \/ RecordControl
                     PROVE TypeOK'
<1>1. NoControl \in [pc : {"idle", "initialize", "record"},
                     id : Controls \cup {None},
                     payload : Payloads \cup {None},
                     generation : Nat, behind : BOOLEAN]
  BY DEF NoControl
<1>2. control.id \in Controls /\ control.payload \in Payloads
  BY DEF FailReset, RecordControl, ControlStaged
<1>3. CASE FailReset
  BY <1>1, <1>2, <1>3 DEF FailReset, Reply, TypeOK, storeVars, memoryVars,
                          gatewayVars, deliveryVars
<1>4. CASE RecordControl
  <2>1. [payload |-> control.payload, generation |-> generation,
         revision |-> revision] \in Recorded
    BY <1>2 DEF Recorded, TypeOK
  <2>2. controls' \in [Controls -> Recorded \cup {None}]
    BY <1>2, <1>4, <2>1 DEF RecordControl, TypeOK
  <2> QED
    BY <1>1, <1>2, <1>4, <2>2 DEF RecordControl, Reply, TypeOK, storeVars,
                                  memoryVars, gatewayVars, deliveryVars
<1> QED
  BY <1>3, <1>4

-----------------------------------------------------------------------------
(* The invariant in two halves: the committed log, and the exchange the     *)
(* pipeline is working on.                                                 *)

StateCommitted == \A s \in state : s \in events /\ Wrote(s)
SnapshotCommitted == \A s \in pipe.snapshot : s \in events /\ Wrote(s)

LogInv ==
  /\ RowsBelowCount
  /\ TransitionsClosed
  /\ RowGenerations
  /\ TransitionsCached
  /\ EventTrail
  /\ StateCommitted
  /\ AtMostOnce

PipeInv ==
  /\ StagedRow
  /\ CandidateFromSnapshot
  /\ InFlightUncached
  /\ SnapshotCommitted

\* The halves are the whole.
LEMMA Halves == IInv <=> TypeOK /\ ControlStaged /\ LogInv /\ PipeInv
<1>1. NoUncommittedEffect <=> StateCommitted /\ SnapshotCommitted
  BY DEF NoUncommittedEffect, StateCommitted, SnapshotCommitted
<1> QED
  BY <1>1 DEF IInv, LogInv, PipeInv

\* A step that leaves the log alone keeps its half.
LEMMA QuietLog ==
  ASSUME LogInv, UNCHANGED <<rows, count, events, state, idempotency, generation>>
  PROVE  LogInv'
  BY DEF LogInv, RowsBelowCount, TransitionsClosed, RowGenerations,
         TransitionsCached, EventTrail, StateCommitted, AtMostOnce, Closed,
         Wrote

\* So does a step that opens, fails or leaves pending one row without an event.
LEMMA OpenRowLog ==
  ASSUME TypeOK, LogInv, NEW q \in Sequences, NEW row \in Row, ~Closed(q),
         row.status \in {"pending", "failed"}, row.transition = "none",
         row.generation <= generation,
         rows' = [rows EXCEPT ![q] = row],
         count' \in Nat, count <= count', q <= count',
         UNCHANGED <<events, state, idempotency, generation>>
  PROVE  LogInv'
<1> USE LimitAssumption
<1>1. \A s \in Sequences : rows'[s] = IF s = q THEN row ELSE rows[s]
  BY DEF TypeOK
<1>2. count \in Nat /\ q \in Nat /\ \A s \in Sequences : s \in Nat
  BY DEF TypeOK, Sequences
<1>3. RowsBelowCount'
  BY <1>1, <1>2 DEF LogInv, RowsBelowCount
<1>4. TransitionsClosed'
  BY <1>1 DEF LogInv, TransitionsClosed, Closed
<1>5. RowGenerations'
  BY <1>1 DEF LogInv, RowGenerations
<1>6. TransitionsCached'
  BY <1>1 DEF LogInv, TransitionsCached
<1>7. EventTrail'
  BY <1>1 DEF LogInv, EventTrail, Closed
<1>8. rows[q].transition = "none"
  BY DEF LogInv, TransitionsClosed
<1>9. StateCommitted'
  BY <1>1, <1>8 DEF LogInv, StateCommitted, Wrote, TypeOK
<1>10. AtMostOnce'
  BY <1>1 DEF LogInv, AtMostOnce
<1> QED
  BY <1>3, <1>4, <1>5, <1>6, <1>7, <1>9, <1>10 DEF LogInv

\* An idle pipeline owes nothing.
LEMMA IdlePipe == ASSUME pipe' = Idle PROVE PipeInv'
  BY DEF PipeInv, StagedRow, CandidateFromSnapshot, InFlightUncached,
         SnapshotCommitted, Idle

\* A step that leaves the log and the exchange alone keeps its half.
LEMMA QuietPipe ==
  ASSUME PipeInv, UNCHANGED <<rows, count, events, idempotency, allocation, pipe>>
  PROVE  PipeInv'
  BY DEF PipeInv, StagedRow, CandidateFromSnapshot, InFlightUncached,
         SnapshotCommitted, Wrote

\* A commit keeps the log: its row had no transition, its effect comes from
\* committed writes and its own, and its identity was not in the cache.
LEMMA CommitLog ==
  ASSUME TypeOK, LogInv, NEW r \in Requests, NEW seq \in Sequences,
         NEW open, open \in [Sequences -> Row],
         \A s \in Sequences : s # seq => open[s] = rows[s],
         ~Closed(seq), NEW transition \in Transitions, NEW next,
         NEW override \in {"none", "replayed", "rejected"},
         NEW entry \in Pending \cup {None},
         CommitSucceeds(open, r, seq, transition, next, override, entry),
         count' \in Nat, count <= count', seq <= count',
         generation' = generation,
         \A s \in next : \/ s \in events /\ Wrote(s)
                         \/ s = seq /\ transition = "write",
         transition # "none" /\ KeyOf[r] # NoKey =>
           /\ entry # None /\ entry.key = KeyOf[r]
           /\ idempotency[KeyOf[r]] = None
  PROVE  LogInv'
<1> USE LimitAssumption
<1> DEFINE status == IF override = "none" THEN "committed" ELSE override
<1> DEFINE row == [status |-> status, req |-> r, transition |-> transition,
                   generation |-> generation]
<1>1. \A s \in Sequences : rows'[s] = IF s = seq THEN row ELSE rows[s]
  BY DEF CommitSucceeds
<1>2. count \in Nat /\ seq \in Nat /\ \A s \in Sequences : s \in Nat
  BY DEF TypeOK, Sequences
<1>3. status \in {"committed", "replayed", "rejected"}
  OBVIOUS
<1>4. events' = events \cup {seq}
  BY DEF CommitSucceeds, AppendEvent
<1>5. \A k \in Keys : idempotency[k] # None => idempotency'[k] # None
  <2>1. entry = None => idempotency' = idempotency
    BY DEF CommitSucceeds
  <2>2. entry # None =>
          /\ entry.key \in Keys
          /\ \A k \in Keys : idempotency'[k] =
               IF k = entry.key
               THEN [body |-> entry.body, of |-> entry.of, sequence |-> seq]
               ELSE idempotency[k]
    BY DEF CommitSucceeds, Pending, TypeOK
  <2>3. entry # None =>
          [body |-> entry.body, of |-> entry.of, sequence |-> seq] # None
    BY NoneAssumption DEF Pending, Sequences
  <2> QED
    BY <2>1, <2>2, <2>3
<1>6. transition # "none" /\ KeyOf[r] # NoKey => idempotency'[KeyOf[r]] # None
  <2> SUFFICES ASSUME transition # "none", KeyOf[r] # NoKey
               PROVE  idempotency'[KeyOf[r]] # None
    OBVIOUS
  <2>1. entry # None /\ entry.key = KeyOf[r] /\ entry \in Pending
    OBVIOUS
  <2>2. [body |-> entry.body, of |-> entry.of, sequence |-> seq] # None
    BY <2>1, NoneAssumption DEF Pending, Sequences
  <2>3. idempotency'[entry.key] =
          [body |-> entry.body, of |-> entry.of, sequence |-> seq]
    BY <2>1 DEF CommitSucceeds, Pending, TypeOK
  <2> QED
    BY <2>1, <2>2, <2>3
<1> HIDE DEF status
<1>7. RowsBelowCount'
  <2> SUFFICES ASSUME NEW s \in Sequences, s > count'
               PROVE  rows'[s].status = "none"
    BY DEF RowsBelowCount
  <2>1. s \in Nat
    BY <1>2
  <2>2. seq <= count' /\ count <= count' /\ count' \in Nat
    OBVIOUS
  <2>3. s # seq /\ s > count
    BY <1>2, <2>1, <2>2
  <2> QED
    BY <1>1, <2>3 DEF LogInv, RowsBelowCount
<1>8. TransitionsClosed'
  BY <1>1, <1>3 DEF LogInv, TransitionsClosed, Closed
<1>9. RowGenerations'
  BY <1>1 DEF LogInv, RowGenerations, TypeOK
<1>10. TransitionsCached'
  <2> SUFFICES ASSUME NEW s \in Sequences, rows'[s].transition # "none",
                      rows'[s].generation = generation,
                      KeyOf[rows'[s].req] # NoKey
               PROVE  idempotency'[KeyOf[rows'[s].req]] # None
    BY DEF TransitionsCached
  <2>1. CASE s = seq
    BY <1>1, <1>6, <2>1
  <2>2. CASE s # seq
    <3>1. rows'[s] = rows[s]
      BY <1>1, <2>2
    <3>2. rows[s].req \in Requests
      BY <3>1 DEF LogInv, TransitionsClosed
    <3>3. KeyOf[rows[s].req] \in Keys
      BY <3>1, <3>2, RequestAssumption
    <3>4. idempotency[KeyOf[rows[s].req]] # None
      BY <3>1 DEF LogInv, TransitionsCached
    <3> QED
      BY <1>5, <3>1, <3>3, <3>4
  <2> QED
    BY <2>1, <2>2
<1>11. EventTrail'
  BY <1>1, <1>3, <1>4 DEF LogInv, EventTrail, Closed
<1>12. rows[seq].transition = "none"
  BY DEF LogInv, TransitionsClosed
<1>13. StateCommitted'
  <2> SUFFICES ASSUME NEW s \in state' PROVE s \in events' /\ Wrote(s)'
    BY DEF StateCommitted
  <2>1. state' = state \/ state' = next
    BY DEF CommitSucceeds
  <2>2. (s \in events /\ Wrote(s)) \/ (s = seq /\ transition = "write")
    BY <2>1 DEF LogInv, StateCommitted
  <2>3. CASE s = seq /\ transition = "write"
    BY <1>1, <1>4, <2>3 DEF Wrote
  <2>4. CASE s \in events /\ Wrote(s)
    <3>1. s \in Sequences /\ s # seq
      BY <1>12, <2>4 DEF Wrote, TypeOK
    <3> QED
      BY <1>1, <1>4, <2>4, <3>1 DEF Wrote
  <2> QED
    BY <2>2, <2>3, <2>4
<1>14. AtMostOnce'
  <2> SUFFICES ASSUME NEW s \in Sequences, NEW t \in Sequences,
                      rows'[s].transition # "none", rows'[t].transition # "none",
                      rows'[s].generation = rows'[t].generation,
                      KeyOf[rows'[s].req] = KeyOf[rows'[t].req],
                      KeyOf[rows'[s].req] # NoKey
               PROVE  s = t
    BY DEF AtMostOnce
  <2>1. CASE s # seq /\ t # seq
    BY <1>1, <2>1 DEF LogInv, AtMostOnce
  <2>2. ASSUME NEW u \in Sequences, u # seq, transition # "none",
               rows[u].transition # "none", rows[u].generation = generation,
               KeyOf[rows[u].req] = KeyOf[r], KeyOf[r] # NoKey
        PROVE  FALSE
    BY <2>2 DEF LogInv, TransitionsCached
  <2> QED
    BY <1>1, <2>1, <2>2
<1> QED
  BY <1>7, <1>8, <1>9, <1>10, <1>11, <1>13, <1>14 DEF LogInv

-----------------------------------------------------------------------------
(* Both halves, action by action.                                          *)

\* Arrivals keep both halves.
LEMMA EnqueueHalves == ASSUME LogInv, PipeInv, NEW r \in Requests, Enqueue(r)
                       PROVE  LogInv' /\ PipeInv'
  BY QuietLog, QuietPipe DEF Enqueue, storeVars, memoryVars, controlVars

\* So do responses that finish and clients that leave.
LEMMA WireHalves == ASSUME LogInv, PipeInv, NEW r \in Requests,
                           Finish(r) \/ Leave(r)
                    PROVE  LogInv' /\ PipeInv'
  BY QuietLog, QuietPipe
  DEF Finish, Leave, storeVars, memoryVars, gatewayVars, controlVars

\* A request that is refused, or whose consult on the candidate threw.
LEMMA RejectHalves == ASSUME LogInv, NEW r \in Requests,
                             \/ RejectRequest(r) \/ StageThrows(r)
                             \/ CorruptThrows(r)
                      PROVE  LogInv' /\ PipeInv'
<1>1. pipe' = Idle
  BY DEF RejectRequest, StageThrows, CorruptThrows, Settle
<1>2. UNCHANGED <<rows, count, events, state, idempotency, generation>>
  BY DEF RejectRequest, StageThrows, CorruptThrows, storeVars, controlVars
<1> QED
  BY <1>1, <1>2, QuietLog, IdlePipe

\* The row an exchange opens lies beyond every row there is.
LEMMA FreshRow ==
  ASSUME TypeOK, LogInv, NEW r \in Requests, CanStage
  PROVE  /\ count + 1 \in Sequences /\ ~Closed(count + 1)
         /\ count + 1 \notin events
         /\ rows[count + 1].transition = "none"
         /\ PendingRow(r).status = "pending"
         /\ PendingRow(r).transition = "none"
         /\ PendingRow(r).generation <= generation
<1> USE LimitAssumption
<1>1. count \in Nat /\ count + 1 \in Sequences /\ count + 1 > count
  BY DEF CanStage, TypeOK, Sequences
<1>2. rows[count + 1].status = "none"
  BY <1>1 DEF LogInv, RowsBelowCount
<1>3. ~Closed(count + 1)
  BY <1>2 DEF Closed
<1>4. count + 1 \notin events
  BY <1>3 DEF LogInv, EventTrail
<1>5. rows[count + 1].transition = "none"
  BY <1>1, <1>3 DEF LogInv, TransitionsClosed
<1>6. /\ PendingRow(r).status = "pending"
      /\ PendingRow(r).transition = "none"
      /\ PendingRow(r).generation <= generation
  BY DEF PendingRow, TypeOK
<1> QED
  BY <1>1, <1>3, <1>4, <1>5, <1>6

\* The row a throwing consult leaves behind is pending and never closes.
LEMMA ConsultHalves == ASSUME TypeOK, LogInv, NEW r \in Requests,
                              ConsultThrows(r)
                       PROVE  LogInv' /\ PipeInv'
<1> USE LimitAssumption
<1>1. /\ CanStage /\ pipe' = Idle /\ count' = count + 1
      /\ rows' = [rows EXCEPT ![count + 1] = PendingRow(r)]
      /\ UNCHANGED <<events, state, idempotency, generation>>
  BY DEF ConsultThrows, Settle, controlVars
<1>2. count \in Nat /\ count' \in Nat /\ count <= count' /\ count + 1 <= count'
  BY <1>1 DEF TypeOK
<1>3. LogInv'
  BY <1>1, <1>2, FreshRow, PendingRowType, OpenRowLog
<1> QED
  BY <1>1, <1>3, IdlePipe

\* Behavior starts on the committed state, for an identity not in the cache.
LEMMA CallHalves == ASSUME TypeOK, LogInv, NEW r \in Requests, CallBehavior(r)
                    PROVE  LogInv' /\ PipeInv'
<1> USE LimitAssumption
<1>1. /\ CanStage /\ Entry(r) = None
      /\ count' = count + 1 /\ allocation' = count + 1
      /\ rows' = [rows EXCEPT ![count + 1] = PendingRow(r)]
      /\ pipe' = [Idle EXCEPT !.pc = "behavior", !.req = r,
                             !.snapshot = Snapshot, !.positions = services]
      /\ UNCHANGED <<events, state, idempotency, generation>>
  BY DEF CallBehavior, controlVars
<1>2. count \in Nat /\ count' \in Nat /\ count <= count' /\ count + 1 <= count'
  BY <1>1 DEF TypeOK
<1>3. LogInv'
  BY <1>1, <1>2, FreshRow, PendingRowType, OpenRowLog
<1>4. /\ pipe'.req = r /\ pipe'.snapshot = state
      /\ pipe'.transition = "none" /\ pipe'.next = {}
  BY <1>1 DEF Idle, Snapshot
<1>5. StagedRow'
  <2>1. rows'[count + 1].status = "pending" /\ count + 1 \in Sequences
    BY <1>1, FreshRow DEF TypeOK
  <2> QED
    BY <1>1, <1>2, <1>4, <2>1 DEF StagedRow
<1>6. CandidateFromSnapshot'
  BY <1>4 DEF CandidateFromSnapshot
<1>7. InFlightUncached'
  BY <1>1, <1>4 DEF InFlightUncached, Entry
<1>8. SnapshotCommitted'
  <2>1. StateCommitted'
    BY <1>3 DEF LogInv
  <2>2. pipe'.snapshot = state'
    BY <1>1, <1>4
  <2> QED
    BY <2>1, <2>2 DEF StateCommitted, SnapshotCommitted
<1> QED
  BY <1>3, <1>5, <1>6, <1>7, <1>8 DEF PipeInv

\* The reply of the child is computed from the snapshot it was given.
LEMMA BehaviorHalves == ASSUME TypeOK, LogInv, PipeInv, NEW r \in Requests,
                               BehaviorSucceeds(r) \/ BehaviorDomainError(r)
                        PROVE  LogInv' /\ PipeInv'
<1>1. /\ pipe.pc = "behavior" /\ ChildFree
      /\ UNCHANGED <<rows, count, events, state, idempotency, generation,
                     allocation>>
  BY DEF BehaviorSucceeds, BehaviorDomainError, InFlight, storeVars,
         memoryVars
<1>2. LogInv'
  BY <1>1, QuietLog
<1>3. pipe.pc # "idle" /\ pipe.transition = "none"
  BY <1>1 DEF PipeInv, CandidateFromSnapshot
<1>4. /\ pipe'.req = pipe.req /\ pipe'.snapshot = pipe.snapshot
      /\ pipe'.pc = "validate"
  BY DEF BehaviorSucceeds, BehaviorDomainError, TypeOK, Exchange
<1>5. CandidateFromSnapshot'
  <2>1. CASE BehaviorDomainError(r)
    <3>1. pipe'.transition = "none" /\ pipe'.next = pipe.next
      BY <1>3, <2>1 DEF BehaviorDomainError, TypeOK, Exchange
    <3>2. \A s \in pipe.next : s \in pipe.snapshot
      BY <1>3 DEF PipeInv, CandidateFromSnapshot
    <3> QED
      BY <1>4, <3>1, <3>2 DEF CandidateFromSnapshot
  <2>2. CASE BehaviorSucceeds(r)
    <3>1. PICK transition \in Transitions :
            pipe' = [pipe EXCEPT !.pc = "validate", !.outcome = "ok",
                       !.transition = transition,
                       !.next = NextState(transition)]
      BY <2>2 DEF BehaviorSucceeds
    <3>2. /\ pipe'.outcome = "ok" /\ pipe'.transition = transition
          /\ pipe'.next = NextState(transition)
      BY <3>1 DEF TypeOK, Exchange
    <3>3. \A s \in NextState(transition) :
            s \in pipe.snapshot \/ (s = allocation /\ transition = "write")
      BY DEF NextState
    <3> QED
      BY <1>1, <1>4, <3>2, <3>3 DEF CandidateFromSnapshot
  <2> QED
    BY <2>1, <2>2
<1>6. StagedRow' /\ InFlightUncached' /\ SnapshotCommitted'
  BY <1>1, <1>3, <1>4 DEF PipeInv, StagedRow, InFlightUncached,
                          SnapshotCommitted, Wrote
<1> QED
  BY <1>2, <1>5, <1>6 DEF PipeInv

\* rollback() fails the open row or leaves it pending.
LEMMA RollbackHalves == ASSUME TypeOK, LogInv, PipeInv, NEW r \in Requests,
                               BehaviorFails(r) \/ RefuseResponse(r)
                        PROVE  LogInv' /\ PipeInv'
<1> USE LimitAssumption
<1>1. pipe.pc # "idle" /\ Rollback(r, "failed") /\ generation' = generation
  BY DEF BehaviorFails, RefuseResponse, InFlight, controlVars
<1>2. /\ allocation \in Sequences /\ allocation <= count
      /\ rows[allocation].status = "pending"
  BY <1>1 DEF PipeInv, StagedRow
<1>3. pipe' = Idle /\ UNCHANGED <<count, events, state, idempotency>>
  BY <1>1 DEF Rollback, Settle
<1>4. CASE rows' = rows
  BY <1>1, <1>3, <1>4, QuietLog, IdlePipe
<1>5. CASE rows' = [rows EXCEPT ![allocation].status = "failed"]
  <2> DEFINE row == [rows[allocation] EXCEPT !.status = "failed"]
  <2>1. rows[allocation] \in Row
    BY <1>2 DEF TypeOK
  <2>2. row \in Row /\ row.status = "failed"
        /\ row.transition = rows[allocation].transition
        /\ row.generation = rows[allocation].generation
    BY <2>1 DEF Row, RowStatus
  <2>3. ~Closed(allocation)
    BY <1>2 DEF Closed
  <2>4. row.transition = "none" /\ row.generation <= generation
    BY <1>2, <2>2, <2>3 DEF LogInv, TransitionsClosed, RowGenerations
  <2>5. rows' = [rows EXCEPT ![allocation] = row]
    BY <1>5
  <2>6. count' \in Nat /\ count <= count' /\ allocation <= count'
    BY <1>2, <1>3 DEF TypeOK
  <2> HIDE DEF row
  <2>7. LogInv'
    BY <1>1, <1>2, <1>3, <2>2, <2>3, <2>4, <2>5, <2>6, OpenRowLog
  <2> QED
    BY <1>3, <2>7, IdlePipe
<1> QED
  BY <1>1, <1>4, <1>5 DEF Rollback

\* A decision taken before behavior commits a row without a transition, or
\* leaves it pending when its commit() throws.
LEMMA DecisionHalves ==
  ASSUME TypeOK, LogInv, NEW r \in Requests, NEW a,
         NEW override \in {"none", "replayed", "rejected"},
         CommitDecision(r, override, pending, a)
  PROVE  LogInv' /\ PipeInv'
<1> USE LimitAssumption
<1> DEFINE seq == count + 1
<1> DEFINE open == [rows EXCEPT ![seq] = PendingRow(r)]
<1> DEFINE nothing == {}
<1>1. CanStage /\ count' = seq /\ generation' = generation
  BY DEF CommitDecision, controlVars
<1>2. /\ seq \in Sequences /\ ~Closed(seq)
      /\ PendingRow(r).status = "pending"
      /\ PendingRow(r).transition = "none"
      /\ PendingRow(r).generation <= generation
      /\ PendingRow(r) \in Row
  BY <1>1, FreshRow, PendingRowType
<1>3. /\ open \in [Sequences -> Row]
      /\ \A s \in Sequences : s # seq => open[s] = rows[s]
  BY <1>2 DEF TypeOK
<1>4. count' \in Nat /\ count <= count' /\ seq <= count'
  BY <1>1 DEF TypeOK
<1>5. pending \in Pending \cup {None} /\ "none" \in Transitions
  BY DEF TypeOK, Transitions
<1>6. pipe' = Idle
  BY DEF CommitDecision, Settle
<1>7. open = [rows EXCEPT ![seq] = PendingRow(r)]
  OBVIOUS
<1>8. \A s \in nothing : \/ s \in events /\ Wrote(s)
                         \/ s = seq /\ "none" = "write"
  OBVIOUS
<1>9. \/ CommitSucceeds(open, r, seq, "none", nothing, override, pending)
      \/ \E point \in {"early", "late"} :
           CommitThrows(open, point, "none", override, pending)
  BY DEF CommitDecision
<1> HIDE DEF seq, open, nothing
<1>10. CASE CommitSucceeds(open, r, seq, "none", nothing, override, pending)
  <2>1. LogInv'
    BY <1>1, <1>2, <1>3, <1>4, <1>5, <1>8, <1>10, CommitLog, SMTT(30)
  <2> QED
    BY <1>6, <2>1, IdlePipe
<1>11. CASE \E point \in {"early", "late"} :
              CommitThrows(open, point, "none", override, pending)
  <2>1. rows' = [rows EXCEPT ![seq] = PendingRow(r)]
        /\ UNCHANGED <<events, state, idempotency>>
    BY <1>7, <1>11 DEF CommitThrows
  <2>2. LogInv'
    BY <1>1, <1>2, <1>4, <2>1, OpenRowLog
  <2> QED
    BY <1>6, <2>2, IdlePipe
<1> QED
  BY <1>9, <1>10, <1>11

\* The three decisions taken before behavior keep both halves.
LEMMA DecisionsHalves ==
  ASSUME TypeOK, LogInv, NEW r \in Requests,
         ServeFault(r) \/ ServeReplay(r) \/ ServeConflict(r)
  PROVE  LogInv' /\ PipeInv'
<1>1. terminalOverride \in {"none", "replayed", "rejected"}
  BY DEF TypeOK
<1> QED
  BY <1>1, DecisionHalves DEF ServeFault, ServeReplay, ServeConflict

\* The response of the exchange in flight commits what it computed from its
\* snapshot, under an identity that is not in the cache.
LEMMA CommitHalves == ASSUME TypeOK, LogInv, PipeInv, NEW r \in Requests,
                             CommitResponse(r)
                      PROVE  LogInv' /\ PipeInv'
<1> USE LimitAssumption
<1>1. /\ pipe.pc = "validate" /\ pipe.req = r
      /\ CommitSucceeds(rows, r, allocation, pipe.transition, pipe.next,
                        terminalOverride, StagedEntry(r))
      /\ pipe' = Idle /\ count' = count /\ generation' = generation
  BY DEF CommitResponse, InFlight, Settle, controlVars
<1>2. /\ allocation \in Sequences /\ allocation <= count
      /\ rows[allocation].status = "pending"
  BY <1>1 DEF PipeInv, StagedRow
<1>3. ~Closed(allocation)
  BY <1>2 DEF Closed
<1>4. /\ rows \in [Sequences -> Row] /\ pipe.transition \in Transitions
      /\ terminalOverride \in {"none", "replayed", "rejected"}
      /\ StagedEntry(r) \in Pending \cup {None}
      /\ count' \in Nat /\ count <= count' /\ allocation <= count'
  BY <1>1, <1>2, StagedEntryType DEF TypeOK, Exchange
<1>5. \A s \in pipe.next :
        \/ s \in events /\ Wrote(s)
        \/ s = allocation /\ pipe.transition = "write"
  BY <1>1 DEF PipeInv, CandidateFromSnapshot, SnapshotCommitted
<1>6. pipe.transition # "none" /\ KeyOf[r] # NoKey =>
        /\ StagedEntry(r) # None /\ StagedEntry(r).key = KeyOf[r]
        /\ idempotency[KeyOf[r]] = None
  <2> SUFFICES ASSUME pipe.transition # "none", KeyOf[r] # NoKey
               PROVE  /\ StagedEntry(r) # None /\ StagedEntry(r).key = KeyOf[r]
                      /\ idempotency[KeyOf[r]] = None
    OBVIOUS
  <2>1. pipe.outcome = "ok"
    BY <1>1 DEF PipeInv, CandidateFromSnapshot
  <2>2. StagedEntry(r) = [key |-> KeyOf[r], body |-> BodyOf[r], of |-> r]
    BY <2>1, PolicyAssumption DEF StagedEntry
  <2>3. StagedEntry(r) \in [key : Keys, body : Bodies, of : Requests]
    BY <2>2, RequestAssumption
  <2>4. StagedEntry(r) # None
    BY <2>3, NoneAssumption
  <2>5. idempotency[KeyOf[r]] = None
    BY <1>1 DEF PipeInv, InFlightUncached
  <2> QED
    BY <2>2, <2>4, <2>5
<1> DEFINE open == rows
<1> DEFINE seq == allocation
<1> DEFINE override == terminalOverride
<1> DEFINE next == pipe.next
<1> DEFINE transition == pipe.transition
<1> DEFINE entry == StagedEntry(r)
<1>7. /\ CommitSucceeds(open, r, seq, transition, next, override, entry)
      /\ open \in [Sequences -> Row]
      /\ \A s \in Sequences : s # seq => open[s] = rows[s]
      /\ seq \in Sequences /\ ~Closed(seq)
      /\ override \in {"none", "replayed", "rejected"}
  BY <1>1, <1>2, <1>3, <1>4
<1>8. /\ count' \in Nat /\ count <= count' /\ seq <= count'
      /\ generation' = generation
      /\ transition \in Transitions /\ entry \in Pending \cup {None}
      /\ \A s \in next :
           \/ s \in events /\ Wrote(s)
           \/ s = seq /\ transition = "write"
      /\ transition # "none" /\ KeyOf[r] # NoKey =>
           /\ entry # None /\ entry.key = KeyOf[r]
           /\ idempotency[KeyOf[r]] = None
  BY <1>1, <1>2, <1>4, <1>5, <1>6
<1> HIDE DEF next, transition, entry, open, seq, override
<1>9. LogInv'
  BY <1>7, <1>8, CommitLog
<1> QED
  BY <1>1, <1>9, IdlePipe

\* A commit that throws leaves the log as it was.
LEMMA CommitThrowsHalves ==
  ASSUME LogInv, NEW r \in Requests, CommitResponseThrows(r)
  PROVE  LogInv' /\ PipeInv'
<1>1. pipe' = Idle
  BY DEF CommitResponseThrows, Settle
<1>2. UNCHANGED <<rows, count, events, state, idempotency, generation>>
  BY DEF CommitResponseThrows, CommitThrows, controlVars
<1> QED
  BY <1>1, <1>2, QuietLog, IdlePipe

\* The operator's side: only a reset touches the log, and it starts a
\* generation no row belongs to.
LEMMA OperatorHalves ==
  ASSUME LogInv, PipeInv,
         \/ \E c \in Controls, p \in Payloads : Submit(c, p)
         \/ FailReset \/ RecordControl
  PROVE  LogInv' /\ PipeInv'
<1>1. UNCHANGED <<rows, count, events, state, idempotency, generation,
                  allocation, pipe>>
  BY DEF Submit, RepeatControl, RefuseControl, StartReset, ApplyAdvance,
         FailReset, RecordControl, storeVars, memoryVars, gatewayVars
<1> QED
  BY <1>1, QuietLog, QuietPipe

\* A reset starts a generation no row belongs to, with an empty cache.
LEMMA ResetHalves == ASSUME TypeOK, LogInv, PipeInv, ApplyReset
                     PROVE  LogInv' /\ PipeInv'
<1>1. /\ generation' = generation + 1 /\ generation \in Nat
      /\ idempotency' = [k \in Keys |-> None] /\ state' = {}
      /\ UNCHANGED <<rows, count, events, allocation, pipe>>
  BY DEF ApplyReset, gatewayVars, TypeOK
<1>2. \A s \in Sequences : rows[s].generation \in Nat
  BY DEF TypeOK, Row
<1>3. RowGenerations'
  BY <1>1, <1>2 DEF LogInv, RowGenerations
<1>4. TransitionsCached'
  <2>1. \A s \in Sequences : rows[s].generation # generation'
    BY <1>1, <1>2 DEF LogInv, RowGenerations
  <2> QED
    BY <1>1, <2>1 DEF TransitionsCached
<1>5. RowsBelowCount' /\ TransitionsClosed' /\ EventTrail' /\ AtMostOnce'
      /\ StateCommitted'
  BY <1>1 DEF LogInv, RowsBelowCount, TransitionsClosed, EventTrail,
              AtMostOnce, StateCommitted, Closed
<1>6. InFlightUncached'
  <2>1. ASSUME pipe.pc # "idle", KeyOf[pipe.req] # NoKey
        PROVE  KeyOf[pipe.req] \in Keys
    BY <2>1, RequestAssumption DEF PipeInv, StagedRow
  <2> QED
    BY <1>1, <2>1 DEF InFlightUncached
<1>7. StagedRow' /\ CandidateFromSnapshot' /\ SnapshotCommitted'
  BY <1>1 DEF PipeInv, StagedRow, CandidateFromSnapshot, SnapshotCommitted,
              Wrote
<1> QED
  BY <1>3, <1>4, <1>5, <1>6, <1>7 DEF LogInv, PipeInv

-----------------------------------------------------------------------------
(* The invariant is inductive, and the theorems that follow from it.       *)

\* A control that is being run keeps its id and its payload.
LEMMA ControlStep == ASSUME ControlStaged, [Next]_vars
                     PROVE  ControlStaged'
<1>1. CASE UNCHANGED control
  BY <1>1 DEF ControlStaged
<1>2. CASE ChildFree
  BY <1>2 DEF ControlStaged, ChildFree
<1>3. ASSUME NEW c \in Controls, NEW p \in Payloads, Submit(c, p)
      PROVE  ControlStaged'
  BY <1>3 DEF ControlStaged, Submit, RepeatControl, RefuseControl, StartReset,
              ApplyAdvance, Admit
<1>4. CASE ApplyReset
  <2>1. control.pc # "idle" /\ control' = [control EXCEPT !.pc = "record"]
    BY <1>4 DEF ApplyReset
  <2> QED
    BY <2>1 DEF ControlStaged
<1>9. CASE FailReset \/ RecordControl
  BY <1>9 DEF ControlStaged, FailReset, RecordControl, NoControl
<1>5. ASSUME NEW r \in Requests, Decide(r)
      PROVE  UNCHANGED control
  BY <1>5 DEF Decide, RejectRequest, StageThrows, ConsultThrows, ServeFault,
              ServeReplay, ServeConflict, CallBehavior, CommitDecision,
              controlVars
<1>6. ASSUME NEW r \in Requests, Answer(r)
      PROVE  UNCHANGED control \/ ChildFree
  BY <1>6 DEF Answer, BehaviorSucceeds, BehaviorDomainError, BehaviorFails,
              RefuseResponse, CorruptThrows, CommitResponse,
              CommitResponseThrows, controlVars
<1>7. ASSUME NEW r \in Requests, Enqueue(r) \/ Finish(r) \/ Leave(r)
      PROVE  UNCHANGED control
  BY <1>7 DEF Enqueue, Finish, Leave, controlVars
<1>8. CASE UNCHANGED vars
  BY <1>8, <1>1 DEF vars, controlVars
<1> QED
  BY <1>1, <1>2, <1>3, <1>4, <1>5, <1>6, <1>7, <1>8, <1>9
  DEF Next, Pipeline, Wire, Operator

\* Every step of every actor keeps the invariant.
LEMMA StepInvariant == IInv /\ [Next]_vars => IInv'
<1>6. TypeOK' /\ ControlStaged' /\ LogInv' /\ PipeInv' => IInv'
  BY DEF IInv, LogInv, PipeInv, NoUncommittedEffect, StateCommitted,
         SnapshotCommitted, Wrote
<1> SUFFICES ASSUME TypeOK, ControlStaged, LogInv, PipeInv, [Next]_vars
             PROVE  TypeOK' /\ LogInv' /\ PipeInv'
  BY <1>6, ControlStep, Halves
<1> USE DEF PipeInv
<1>1. ASSUME NEW r \in Requests, Decide(r)
      PROVE  TypeOK' /\ LogInv' /\ PipeInv'
  BY <1>1, TypeReject, TypeConsult, TypeDecision, TypeCall,
     RejectHalves, ConsultHalves, DecisionsHalves, CallHalves DEF Decide
<1>2. ASSUME NEW r \in Requests, Answer(r)
      PROVE  TypeOK' /\ LogInv' /\ PipeInv'
  BY <1>2, TypeBehavior, TypeRollback, TypeCorrupt, TypeCommit,
     TypeCommitThrows, BehaviorHalves, RollbackHalves, RejectHalves,
     CommitHalves, CommitThrowsHalves DEF Answer
<1>3. ASSUME NEW r \in Requests, Enqueue(r) \/ Finish(r) \/ Leave(r)
      PROVE  TypeOK' /\ LogInv' /\ PipeInv'
  BY <1>3, TypeEnqueue, TypeWire, EnqueueHalves, WireHalves
<1>4. CASE Operator
  BY <1>4, TypeSubmit, TypeReset, TypeControl, OperatorHalves, ResetHalves
  DEF Operator
<1>5. CASE UNCHANGED vars
  <2>1. TypeOK'
    BY <1>5 DEF vars, storeVars, memoryVars, gatewayVars, controlVars,
                deliveryVars, TypeOK
  <2>2. UNCHANGED <<rows, count, events, state, idempotency, generation,
                    allocation, pipe>>
    BY <1>5 DEF vars, storeVars, memoryVars, gatewayVars, controlVars
  <2> QED
    BY <2>1, <2>2, QuietLog, QuietPipe
<1> QED
  BY <1>1, <1>2, <1>3, <1>4, <1>5 DEF Next, Pipeline, Wire

\* The invariant holds in every reachable state of every world.
THEOREM Invariant == Spec => []IInv
  BY InitInvariant, StepInvariant, PTL DEF Spec

\* The store, the memory of the pipeline and the control queue stay well typed,
\* whatever throws and whenever the operator resets.
THEOREM TypeCorrect == Spec => []TypeOK
<1>1. IInv => TypeOK
  BY DEF IInv
<1> QED
  BY <1>1, Invariant, PTL

\* The rows that closed are exactly the rows with an event, through every
\* failing transaction (environment.ts commit() and rollback()).
THEOREM EventTrailHolds == Spec => []EventTrail
<1>1. IInv => EventTrail
  BY DEF IInv
<1> QED
  BY <1>1, Invariant, PTL

\* No effect of an exchange that failed, timed out or lost its commit is ever
\* in the domain state or in a snapshot behavior works on.
THEOREM NoUncommittedEffectHolds == Spec => []NoUncommittedEffect
<1>1. IInv => NoUncommittedEffect
  BY DEF IInv
<1> QED
  BY <1>1, Invariant, PTL

\* An idempotency identity changes the world at most once per generation, for
\* every number of retries, failing commits and resets.
THEOREM AtMostOnceHolds == Spec => []AtMostOnce
<1>1. IInv => AtMostOnce
  BY DEF IInv
<1> QED
  BY <1>1, Invariant, PTL

-----------------------------------------------------------------------------
(***************************************************************************)
(* The refinement. The pipeline over the store implements the atomic world *)
(* of one generation: without operator controls, and for a store whose     *)
(* commits fail behind the row or not at all.                              *)
(***************************************************************************)

\* One generation, and no commit that fails before its row closed: that one
\* leaves the record of a failed exchange to the next (see ReplayOfCommitted).
OneGeneration == Controls = {} /\ "early" \notin FailurePoints

\* What such a world keeps in memory between exchanges: nothing staged for the
\* cache, no outcome of another exchange, the first generation.
MemoryIsClean ==
  /\ pending = None /\ terminalOverride = "none"
  /\ generation = 1 /\ control.pc = "idle"

\* The exchange in flight has the newest row, and works on what the state is.
FlightIsCurrent ==
  pipe.pc # "idle" =>
    /\ allocation = count
    /\ pipe.snapshot = state
    /\ pipe.transition \in {"same", "write"} =>
         pipe.next = state \cup (IF pipe.transition = "write"
                                 THEN {allocation} ELSE {})

\* Transitions are of the first generation.
RowsOfFirst ==
  \A s \in Sequences : rows[s].transition # "none" => rows[s].generation = 1

\* The cache names exchanges of the log, with their identity and fingerprint.
CacheFromLog ==
  \A k \in Keys : idempotency[k] # None =>
    LET e == idempotency[k]
    IN  /\ e.sequence \in events
        /\ rows[e.sequence].req \in Requests
        /\ rows[e.sequence].status = "committed"
        /\ KeyOf[rows[e.sequence].req] = k
        /\ BodyOf[rows[e.sequence].req] = e.body

SerialInv == MemoryIsClean /\ FlightIsCurrent /\ RowsOfFirst /\ CacheFromLog

\* A step that takes no effect in the abstract world.
NoEffect == UNCHANGED <<ExchangeLog, state>>

-----------------------------------------------------------------------------
LEMMA AtomicInitially == Init => SerialInv /\ Atomic!Init
<1> SUFFICES ASSUME Init PROVE SerialInv /\ Atomic!Init
  OBVIOUS
<1>1. MemoryIsClean /\ FlightIsCurrent
  BY DEF Init, MemoryIsClean, FlightIsCurrent, NoControl, Idle
<1>2. RowsOfFirst
  BY DEF Init, RowsOfFirst, NoRow
<1>3. CacheFromLog
  BY DEF Init, CacheFromLog
<1>4. Atomic!Init
  BY DEF Init, Atomic!Init, ExchangeLog
<1> QED
  BY <1>1, <1>2, <1>3, <1>4 DEF SerialInv

\* Rows of the log stay what they are as long as only an open or a new row is
\* written.
LEMMA LogStays ==
  ASSUME events' = events, \A s \in events : rows'[s] = rows[s]
  PROVE  UNCHANGED ExchangeLog
  BY DEF ExchangeLog

\* The rows beyond the counter, and the row in flight, are not in the log.
LEMMA LogBelow ==
  ASSUME IInv
  PROVE  /\ count + 1 \notin events
         /\ \A s \in events : s \in Sequences /\ s <= count
         /\ pipe.pc # "idle" => allocation \notin events /\ allocation \in Sequences
<1> USE LimitAssumption
<1>1. TypeOK /\ RowsBelowCount /\ StagedRow /\ EventTrail
  BY DEF IInv
<1>2. \A s \in Sequences : s \in events => rows[s].status # "none" /\ rows[s].status # "pending"
  BY <1>1 DEF EventTrail, Closed
<1>3. events \subseteq Sequences /\ count \in Nat
  BY <1>1 DEF TypeOK
<1>4. \A s \in events : s \in Sequences /\ s <= count
  BY <1>1, <1>2, <1>3 DEF RowsBelowCount, Sequences
<1> QED
  BY <1>1, <1>2, <1>3, <1>4 DEF StagedRow, Sequences

\* What is kept by a step that touches neither the log nor the state nor the
\* cache, and brings no exchange into flight.
LEMMA QuietStep ==
  ASSUME SerialInv, UNCHANGED <<events, state, idempotency, pending,
           terminalOverride, generation>>,
         \A s \in events : rows'[s] = rows[s], control'.pc = "idle",
         RowsOfFirst', FlightIsCurrent'
  PROVE  SerialInv' /\ NoEffect
<1>1. MemoryIsClean'
  BY DEF SerialInv, MemoryIsClean
<1>2. CacheFromLog'
  BY DEF SerialInv, CacheFromLog
<1>3. NoEffect
  BY LogStays DEF NoEffect
<1> QED
  BY <1>1, <1>2, <1>3 DEF SerialInv

-----------------------------------------------------------------------------
(* A transaction of commit() that succeeds.                                *)

\* The log gains one exchange.
Joins(seq, r, kind, effect) ==
  ExchangeLog' = ExchangeLog \cup
    {[sequence |-> seq, req |-> r, kind |-> kind, effect |-> effect]}

StatusOf(override) == IF override = "none" THEN "committed" ELSE override

\* The entry that stage() prepared for this exchange, or none.
OwnEntry(r, override, entry) ==
  entry # None =>
    /\ override = "none"
    /\ KeyOf[r] \in Keys
    /\ entry = [key |-> KeyOf[r], body |-> BodyOf[r], of |-> r]

\* The exchange joins the log, in one step, and nothing else of the log moves.
LEMMA CommitLogs ==
  ASSUME IInv, SerialInv, NEW r \in Requests, NEW seq \in Sequences,
         NEW open, NEW transition, NEW next, NEW override, NEW entry,
         open \in [Sequences -> Row], \A s \in events : s < seq /\ open[s] = rows[s],
         CommitSucceeds(open, r, seq, transition, next, override, entry)
  PROVE  /\ events' = events \cup {seq}
         /\ rows'[seq] = [status |-> StatusOf(override), req |-> r,
                          transition |-> transition, generation |-> 1]
         /\ \A s \in Sequences \ {seq} : rows'[s] = open[s]
         /\ \A s \in events : rows'[s] = rows[s] /\ s < seq /\ s \in Sequences
         /\ Joins(seq, r, StatusOf(override), transition)
<1>1. /\ events' = events \cup {seq}
      /\ rows' = [open EXCEPT ![seq] =
                    [status |-> StatusOf(override), req |-> r,
                     transition |-> transition, generation |-> generation]]
  BY DEF CommitSucceeds, AppendEvent, StatusOf
<1>2. generation = 1
  BY DEF SerialInv, MemoryIsClean
<1>3. /\ rows'[seq] = [status |-> StatusOf(override), req |-> r,
                       transition |-> transition, generation |-> 1]
      /\ \A s \in Sequences \ {seq} : rows'[s] = open[s]
  BY <1>1, <1>2
<1>4. \A s \in events : s \in Sequences /\ s # seq /\ s < seq
  BY LogBelow DEF Sequences
<1>5. \A s \in events : rows'[s] = rows[s]
  BY <1>3, <1>4
<1>6. Joins(seq, r, StatusOf(override), transition)
  BY <1>1, <1>3, <1>5 DEF ExchangeLog, Joins
<1> QED
  BY <1>1, <1>3, <1>4, <1>5, <1>6

\* The invariant of one generation survives it.
LEMMA CommitKeeps ==
  ASSUME IInv, SerialInv, NEW r \in Requests, NEW seq \in Sequences,
         NEW open, NEW transition, NEW next, NEW override, NEW entry,
         open \in [Sequences -> Row], \A s \in events : s < seq /\ open[s] = rows[s],
         \A s \in Sequences \ {seq} :
           open[s].transition # "none" => open[s].generation = 1,
         OwnEntry(r, override, entry),
         CommitSucceeds(open, r, seq, transition, next, override, entry),
         pipe' = Idle, UNCHANGED generation, control'.pc = "idle"
  PROVE  SerialInv'
<1>1. /\ events' = events \cup {seq}
      /\ rows'[seq] = [status |-> StatusOf(override), req |-> r,
                       transition |-> transition, generation |-> 1]
      /\ \A s \in Sequences \ {seq} : rows'[s] = open[s]
      /\ \A s \in events : rows'[s] = rows[s]
  BY CommitLogs
<1>2. MemoryIsClean'
  BY DEF SerialInv, MemoryIsClean, CommitSucceeds
<1>3. FlightIsCurrent'
  BY DEF FlightIsCurrent, Idle
<1>4. RowsOfFirst'
  <2> SUFFICES ASSUME NEW s \in Sequences
               PROVE  rows'[s].transition # "none" => rows'[s].generation = 1
    BY DEF RowsOfFirst
  <2>1. CASE s = seq
    BY <1>1, <2>1
  <2>2. CASE s # seq
    BY <1>1, <2>2
  <2> QED
    BY <2>1, <2>2
<1>5. CacheFromLog'
  <2> SUFFICES ASSUME NEW k \in Keys, idempotency'[k] # None
               PROVE  LET e == idempotency'[k]
                      IN  /\ e.sequence \in events'
                          /\ rows'[e.sequence].req \in Requests
                          /\ rows'[e.sequence].status = "committed"
                          /\ KeyOf[rows'[e.sequence].req] = k
                          /\ BodyOf[rows'[e.sequence].req] = e.body
    BY DEF CacheFromLog
  <2>1. idempotency' =
          IF entry = None THEN idempotency
          ELSE [idempotency EXCEPT ![entry.key] =
                  [body |-> entry.body, of |-> entry.of, sequence |-> seq]]
    BY DEF CommitSucceeds
  <2>2. DOMAIN idempotency = Keys
    BY DEF IInv, TypeOK
  <2>3. CASE entry # None /\ entry.key = k
    <3>1. idempotency'[k] = [body |-> BodyOf[r], of |-> r, sequence |-> seq]
      BY <2>1, <2>2, <2>3 DEF OwnEntry
    <3>2. k = KeyOf[r] /\ StatusOf(override) = "committed"
      BY <2>3 DEF OwnEntry, StatusOf
    <3> QED
      BY <1>1, <3>1, <3>2
  <2>4. CASE ~(entry # None /\ entry.key = k)
    <3>1. idempotency'[k] = idempotency[k]
      BY <2>1, <2>2, <2>4
    <3>2. LET e == idempotency[k]
          IN  /\ e.sequence \in events
              /\ rows[e.sequence].req \in Requests
              /\ rows[e.sequence].status = "committed"
              /\ KeyOf[rows[e.sequence].req] = k
              /\ BodyOf[rows[e.sequence].req] = e.body
      BY <3>1 DEF SerialInv, CacheFromLog
    <3> QED
      BY <1>1, <3>1, <3>2
  <2> QED
    BY <2>3, <2>4
<1> QED
  BY <1>2, <1>3, <1>4, <1>5 DEF SerialInv

\* One that throws behind the row takes no effect.
LEMMA ThrowIsQuiet ==
  ASSUME IInv, SerialInv, OneGeneration, NEW open, NEW point, NEW transition,
         NEW override, NEW entry,
         \A s \in events : open[s] = rows[s],
         \A s \in Sequences : open[s].transition # "none" => open[s].generation = 1,
         CommitThrows(open, point, transition, override, entry),
         pipe' = Idle, UNCHANGED generation, control'.pc = "idle"
  PROVE  SerialInv' /\ NoEffect
<1>1. /\ rows' = open /\ UNCHANGED <<events, state, idempotency>>
      /\ pending' = None /\ terminalOverride' = "none"
  BY DEF CommitThrows, OneGeneration
<1>2. UNCHANGED <<pending, terminalOverride>>
  BY <1>1 DEF SerialInv, MemoryIsClean
<1>3. RowsOfFirst'
  BY <1>1 DEF RowsOfFirst
<1>4. FlightIsCurrent'
  BY DEF FlightIsCurrent, Idle
<1> QED
  BY <1>1, <1>2, <1>3, <1>4, QuietStep

-----------------------------------------------------------------------------
(* The steps of the pipeline.                                              *)

\* A sequence behind every event is fresh.
LEMMA FreshSequence ==
  ASSUME NEW seq, \A s \in events : s < seq
  PROVE  Atomic!Fresh(seq)
  BY DEF Atomic!Fresh, ExchangeLog

\* A decision before behavior is logged without an effect, or not at all.
LEMMA DecisionStep ==
  ASSUME IInv, SerialInv, OneGeneration, NEW r \in Requests, NEW override, NEW a,
         CommitDecision(r, override, pending, a)
  PROVE  /\ SerialInv'
         /\ \/ NoEffect
            \/ \E s \in Sequences :
                 /\ Atomic!Append(s, r, StatusOf(override), "none")
                 /\ state' = state
<1> USE LimitAssumption
<1> DEFINE seq == count + 1
           open == [rows EXCEPT ![seq] = PendingRow(r)]
<1>1. /\ Ready(r) /\ CanStage
      /\ \/ /\ CommitSucceeds(open, r, seq, "none", {}, override, pending)
            /\ Settle(r, a)
         \/ /\ \E point \in {"early", "late"} :
                 CommitThrows(open, point, "none", override, pending)
            /\ Settle(r, "error")
      /\ UNCHANGED controlVars
  BY DEF CommitDecision
<1>2. seq \in Sequences /\ rows \in [Sequences -> Row] /\ count \in Nat
  BY <1>1 DEF CanStage, IInv, TypeOK, Sequences
<1>3. PendingRow(r) \in Row /\ PendingRow(r).transition = "none"
  BY PendingRowType DEF IInv, PendingRow
<1>4. open \in [Sequences -> Row]
  BY <1>2, <1>3
<1>5. \A s \in events : s < seq /\ open[s] = rows[s] /\ s \in Sequences
  BY <1>2, LogBelow DEF Sequences
<1>6. \A s \in Sequences : open[s].transition # "none" => open[s].generation = 1
  BY <1>2, <1>3 DEF SerialInv, RowsOfFirst
<1>7. pipe' = Idle /\ UNCHANGED generation /\ control'.pc = "idle"
  BY <1>1 DEF Settle, controlVars, SerialInv, MemoryIsClean
<1>8. OwnEntry(r, override, pending)
  BY DEF OwnEntry, SerialInv, MemoryIsClean
<1> HIDE DEF seq, open
<1>9. CASE CommitSucceeds(open, r, seq, "none", {}, override, pending)
  <2>1. SerialInv'
    BY <1>2, <1>4, <1>5, <1>6, <1>7, <1>8, <1>9, CommitKeeps
  <2>2. seq \in Sequences /\ \A s \in events : s < seq /\ open[s] = rows[s]
    BY <1>2, <1>5
  <2>3. Joins(seq, r, StatusOf(override), "none")
    BY <2>2, <1>4, <1>9, CommitLogs, ZenonT(90)
  <2>4. state' = state
    BY <1>9 DEF CommitSucceeds, WritesState
  <2>5. Atomic!Append(seq, r, StatusOf(override), "none")
    BY <1>5, <2>3, FreshSequence DEF Atomic!Append, Joins
  <2> QED
    BY <1>2, <2>1, <2>4, <2>5
<1>10. CASE \E point \in {"early", "late"} :
              CommitThrows(open, point, "none", override, pending)
  BY <1>5, <1>6, <1>7, <1>10, ThrowIsQuiet
<1> QED
  BY <1>1, <1>9, <1>10

\* A cached identity is that of a committed exchange of the log.
LEMMA CachedExchange ==
  ASSUME IInv, SerialInv, NEW r \in Requests, Entry(r) # None
  PROVE  \E e \in ExchangeLog :
           /\ Atomic!SameKey(e, r) /\ e.kind = "committed"
           /\ BodyOf[e.req] = Entry(r).body
<1> USE RequestAssumption
<1>1. KeyOf[r] \in Keys /\ KeyOf[r] # NoKey /\ Entry(r) = idempotency[KeyOf[r]]
  BY DEF Entry
<1> DEFINE t == idempotency[KeyOf[r]].sequence
<1>2. /\ t \in events /\ rows[t].status = "committed"
      /\ KeyOf[rows[t].req] = KeyOf[r]
      /\ BodyOf[rows[t].req] = idempotency[KeyOf[r]].body
  BY <1>1 DEF SerialInv, CacheFromLog
<1> DEFINE e == [sequence |-> t, req |-> rows[t].req, kind |-> rows[t].status,
                 effect |-> rows[t].transition]
<1>3. e \in ExchangeLog
  BY <1>2 DEF ExchangeLog
<1>4. Atomic!SameKey(e, r) /\ e.kind = "committed" /\ BodyOf[e.req] = Entry(r).body
  BY <1>1, <1>2 DEF Atomic!SameKey
<1> QED
  BY <1>3, <1>4

\* Each decision before behavior is a step of the atomic world.
LEMMA DecisionImplements ==
  ASSUME IInv, SerialInv, OneGeneration, NEW r \in Requests,
         ServeFault(r) \/ ServeReplay(r) \/ ServeConflict(r)
  PROVE  SerialInv' /\ (NoEffect \/ Atomic!Next)
<1>0. Atomic!Sequences = Sequences
  BY DEF Atomic!Sequences, Sequences
<1>1. CASE ServeFault(r)
  <2>1. CommitDecision(r, "none", pending, "fault")
    BY <1>1 DEF ServeFault, SerialInv, MemoryIsClean
  <2>2. /\ SerialInv'
        /\ \/ NoEffect
           \/ \E s \in Sequences :
                Atomic!Append(s, r, "committed", "none") /\ state' = state
    BY <2>1, DecisionStep DEF StatusOf
  <2> QED
    BY <1>0, <2>2 DEF Atomic!Next, Atomic!Answer
<1>2. CASE ServeReplay(r)
  <2>1. CommitDecision(r, "replayed", pending, "replayed")
    BY <1>2 DEF ServeReplay
  <2>2. /\ SerialInv'
        /\ \/ NoEffect
           \/ \E s \in Sequences :
                Atomic!Append(s, r, "replayed", "none") /\ state' = state
    BY <2>1, DecisionStep DEF StatusOf
  <2>3. \E e \in ExchangeLog : /\ Atomic!SameKey(e, r)
                               /\ BodyOf[e.req] = BodyOf[r]
                               /\ e.kind = "committed"
    BY <1>2, CachedExchange DEF ServeReplay
  <2> QED
    BY <1>0, <2>2, <2>3 DEF Atomic!Next, Atomic!Replay
<1>3. CASE ServeConflict(r)
  <2>1. CommitDecision(r, "rejected", pending, "conflict")
    BY <1>3 DEF ServeConflict
  <2>2. /\ SerialInv'
        /\ \/ NoEffect
           \/ \E s \in Sequences :
                Atomic!Append(s, r, "rejected", "none") /\ state' = state
    BY <2>1, DecisionStep DEF StatusOf
  <2>3. \E e \in ExchangeLog : /\ Atomic!SameKey(e, r)
                               /\ BodyOf[e.req] # BodyOf[r]
                               /\ e.kind = "committed"
    BY <1>3, CachedExchange DEF ServeConflict
  <2> QED
    BY <1>0, <2>2, <2>3 DEF Atomic!Next, Atomic!Conflict
<1> QED
  BY <1>1, <1>2, <1>3

\* No exchange of the log has the identity of the one in flight and an effect.
LEMMA FirstOfIdentity ==
  ASSUME IInv, SerialInv, NEW r \in Requests, InFlight(r)
  PROVE  \A e \in ExchangeLog : ~(Atomic!SameKey(e, r) /\ e.effect # "none")
<1> SUFFICES ASSUME NEW s \in events, KeyOf[r] # NoKey,
                    KeyOf[rows[s].req] = KeyOf[r], rows[s].transition # "none"
             PROVE  FALSE
  BY DEF ExchangeLog, Atomic!SameKey
<1>1. s \in Sequences
  BY LogBelow
<1>2. rows[s].generation = generation
  BY <1>1 DEF SerialInv, RowsOfFirst, MemoryIsClean
<1>3. idempotency[KeyOf[r]] # None
  BY <1>1, <1>2 DEF IInv, TransitionsCached
<1>4. idempotency[KeyOf[r]] = None
  BY DEF IInv, InFlightUncached, InFlight
<1> QED
  BY <1>3, <1>4

\* The commit of a behavior's response is one step of the atomic world.
LEMMA CommitImplements ==
  ASSUME IInv, SerialInv, OneGeneration, NEW r \in Requests, CommitResponse(r)
  PROVE  SerialInv' /\ Atomic!Next
<1> USE RequestAssumption
<1>0. Atomic!Sequences = Sequences
  BY DEF Atomic!Sequences, Sequences
<1>1. /\ InFlight(r) /\ pipe.pc = "validate"
      /\ CommitSucceeds(rows, r, allocation, pipe.transition, pipe.next,
                        "none", StagedEntry(r))
      /\ pipe' = Idle /\ UNCHANGED controlVars
  BY DEF CommitResponse, Settle, SerialInv, MemoryIsClean
<1>2. /\ rows \in [Sequences -> Row] /\ allocation \in Sequences
      /\ pipe.transition \in Transitions
  BY <1>1, LogBelow DEF IInv, TypeOK, InFlight, Exchange
<1>3. \A s \in events : s < allocation /\ rows[s] = rows[s]
  BY <1>1, <1>2, LogBelow DEF SerialInv, FlightIsCurrent, InFlight, Sequences
<1>4. \A s \in Sequences \ {allocation} :
        rows[s].transition # "none" => rows[s].generation = 1
  BY DEF SerialInv, RowsOfFirst
<1>5. OwnEntry(r, "none", StagedEntry(r))
  BY DEF OwnEntry, StagedEntry, SerialInv, MemoryIsClean
<1>6. UNCHANGED generation /\ control'.pc = "idle"
  BY <1>1 DEF controlVars, SerialInv, MemoryIsClean
<1>7. SerialInv'
  BY <1>1, <1>2, <1>3, <1>4, <1>5, <1>6, CommitKeeps
<1>8. Joins(allocation, r, "committed", pipe.transition)
  <2>1. Joins(allocation, r, StatusOf("none"), pipe.transition)
    BY <1>1, <1>2, <1>3, CommitLogs
  <2> QED
    BY <2>1 DEF StatusOf
<1>9. Atomic!Append(allocation, r, "committed", pipe.transition)
  BY <1>3, <1>8, FreshSequence DEF Atomic!Append, Joins
<1>10. state' = IF WritesState(pipe.transition) THEN pipe.next ELSE state
  BY <1>1 DEF CommitSucceeds
<1>11. CASE pipe.transition = "none"
  <2>1. state' = state
    BY <1>10, <1>11 DEF WritesState
  <2> QED
    BY <1>0, <1>2, <1>7, <1>9, <1>11, <2>1 DEF Atomic!Next, Atomic!Answer
<1>12. CASE pipe.transition \in {"events", "same", "write"}
  <2>1. state' = IF pipe.transition = "write" THEN state \cup {allocation} ELSE state
    BY <1>1, <1>10, <1>12 DEF WritesState, SerialInv, FlightIsCurrent
  <2>2. Atomic!Execute(allocation, r, pipe.transition)
    BY <1>1, <1>9, <2>1, FirstOfIdentity DEF Atomic!Execute
  <2> QED
    BY <1>0, <1>2, <1>7, <1>12, <2>2 DEF Atomic!Next
<1> QED
  BY <1>2, <1>11, <1>12 DEF Transitions

-----------------------------------------------------------------------------
(* The steps without an effect.                                            *)

\* A decision that leaves the state alone, or opens a row and forgets it.
LEMMA RefusalIsQuiet ==
  ASSUME IInv, SerialInv, NEW r \in Requests,
         RejectRequest(r) \/ StageThrows(r) \/ ConsultThrows(r)
  PROVE  SerialInv' /\ NoEffect
<1> USE LimitAssumption
<1>1. /\ UNCHANGED <<events, state, idempotency, pending, terminalOverride, generation>>
      /\ control' = control /\ pipe' = Idle
  BY DEF RejectRequest, StageThrows, ConsultThrows, storeVars, memoryVars,
         controlVars, Settle
<1>2. /\ \A s \in events : rows'[s] = rows[s]
      /\ RowsOfFirst'
  <2>1. CASE rows' = rows
    BY <2>1 DEF SerialInv, RowsOfFirst
  <2>2. CASE rows' = [rows EXCEPT ![count + 1] = PendingRow(r)]
    <3>1. PendingRow(r).transition = "none"
      BY DEF PendingRow
    <3>2. rows \in [Sequences -> Row]
      BY DEF IInv, TypeOK
    <3>3. \A s \in events : s # count + 1 /\ s \in Sequences
      BY LogBelow
    <3> QED
      BY <2>2, <3>1, <3>2, <3>3 DEF SerialInv, RowsOfFirst
  <2> QED
    BY <2>1, <2>2 DEF RejectRequest, StageThrows, ConsultThrows, storeVars
<1>3. FlightIsCurrent' /\ control'.pc = "idle"
  BY <1>1 DEF FlightIsCurrent, Idle, SerialInv, MemoryIsClean
<1> QED
  BY <1>1, <1>2, <1>3, QuietStep

\* A call into behavior brings an exchange with the newest row into flight.
LEMMA CallIsQuiet ==
  ASSUME IInv, SerialInv, NEW r \in Requests, CallBehavior(r)
  PROVE  SerialInv' /\ NoEffect
<1> USE LimitAssumption
<1>1. /\ UNCHANGED <<events, state, idempotency, pending, terminalOverride, generation>>
      /\ control' = control /\ count' = count + 1 /\ allocation' = count + 1
      /\ rows' = [rows EXCEPT ![count + 1] = PendingRow(r)]
      /\ pipe' = [Idle EXCEPT !.pc = "behavior", !.req = r,
                              !.snapshot = state, !.positions = services]
  BY DEF CallBehavior, controlVars, Snapshot
<1>2. PendingRow(r).transition = "none" /\ rows \in [Sequences -> Row]
  BY DEF PendingRow, IInv, TypeOK
<1>3. \A s \in events : s # count + 1 /\ s \in Sequences
  BY LogBelow
<1>4. (\A s \in events : rows'[s] = rows[s]) /\ RowsOfFirst'
  BY <1>1, <1>2, <1>3 DEF SerialInv, RowsOfFirst
<1>5. FlightIsCurrent'
  BY <1>1 DEF FlightIsCurrent, Idle
<1> QED
  BY <1>1, <1>4, <1>5, QuietStep DEF SerialInv, MemoryIsClean

\* An answer of the child leaves its exchange in flight.
LEMMA ReplyIsQuiet ==
  ASSUME IInv, SerialInv, NEW r \in Requests,
         BehaviorSucceeds(r) \/ BehaviorDomainError(r)
  PROVE  SerialInv' /\ NoEffect
<1>1. /\ UNCHANGED <<rows, count, events, state, idempotency, pending,
                     terminalOverride, generation, allocation>>
      /\ control' = [control EXCEPT !.behind = FALSE]
      /\ InFlight(r) /\ pipe.pc = "behavior"
  BY DEF BehaviorSucceeds, BehaviorDomainError, ChildFree, storeVars, memoryVars
<1>2. control'.pc = "idle"
  <2>1. DOMAIN control = {"pc", "id", "payload", "generation", "behind"}
    BY DEF IInv, TypeOK
  <2> QED
    BY <1>1, <2>1 DEF SerialInv, MemoryIsClean
<1>3. RowsOfFirst' /\ \A s \in events : rows'[s] = rows[s]
  BY <1>1 DEF SerialInv, RowsOfFirst
<1>4. FlightIsCurrent'
  <2>1. pipe.snapshot = state /\ allocation = count /\ pipe.transition = "none"
        /\ pipe \in Exchange
    BY <1>1 DEF SerialInv, FlightIsCurrent, InFlight, IInv, TypeOK, CandidateFromSnapshot
  <2>2. CASE BehaviorSucceeds(r)
    <3>1. PICK transition \in Transitions :
            pipe' = [pipe EXCEPT !.pc = "validate", !.outcome = "ok",
                       !.transition = transition, !.next = NextState(transition)]
      BY <2>2 DEF BehaviorSucceeds
    <3>2. /\ pipe'.snapshot = pipe.snapshot /\ pipe'.transition = transition
          /\ pipe'.next = NextState(transition)
      BY <2>1, <3>1 DEF Exchange
    <3> QED
      BY <1>1, <2>1, <3>2 DEF FlightIsCurrent, NextState
  <2>3. CASE BehaviorDomainError(r)
    <3>1. pipe'.snapshot = pipe.snapshot /\ pipe'.transition = "none"
      BY <2>1, <2>3 DEF BehaviorDomainError, Exchange
    <3> QED
      BY <1>1, <2>1, <3>1 DEF FlightIsCurrent
  <2> QED
    BY <2>2, <2>3
<1> QED
  BY <1>1, <1>2, <1>3, <1>4, QuietStep

\* A failed exchange closes its row, or leaves it, without an event.
LEMMA RollbackIsQuiet ==
  ASSUME IInv, SerialInv, NEW r \in Requests,
         BehaviorFails(r) \/ RefuseResponse(r)
  PROVE  SerialInv' /\ NoEffect
<1>1. /\ UNCHANGED <<events, state, idempotency, generation>> /\ pipe' = Idle
      /\ pipe.pc # "idle"
      /\ \/ rows' = [rows EXCEPT ![allocation].status = "failed"]
         \/ rows' = rows
      /\ \/ pending' = None /\ terminalOverride' = "none"
         \/ UNCHANGED <<pending, terminalOverride>>
  BY DEF BehaviorFails, RefuseResponse, Rollback, Settle, DropStaged, InFlight,
         controlVars
<1>2. UNCHANGED <<pending, terminalOverride>>
  BY <1>1 DEF SerialInv, MemoryIsClean
<1>3. control'.pc = "idle"
  <2>1. DOMAIN control = {"pc", "id", "payload", "generation", "behind"}
    BY DEF IInv, TypeOK
  <2>2. control' = [control EXCEPT !.behind = FALSE] \/ control' = control
    BY DEF BehaviorFails, RefuseResponse, ChildFree, controlVars
  <2> QED
    BY <2>1, <2>2 DEF SerialInv, MemoryIsClean
<1>4. (\A s \in events : rows'[s] = rows[s]) /\ RowsOfFirst'
  <2>1. \A s \in events : s # allocation /\ s \in Sequences
    BY <1>1, LogBelow
  <2>2. rows \in [Sequences -> Row]
    BY DEF IInv, TypeOK
  <2>3. \A s \in Sequences : /\ rows'[s].transition = rows[s].transition
                             /\ rows'[s].generation = rows[s].generation
    BY <1>1, <2>2 DEF Row
  <2> QED
    BY <1>1, <2>1, <2>2, <2>3 DEF SerialInv, RowsOfFirst
<1>5. FlightIsCurrent'
  BY <1>1 DEF FlightIsCurrent, Idle
<1> QED
  BY <1>1, <1>2, <1>3, <1>4, <1>5, QuietStep

\* A commit that throws behind the row, or an exception before it.
LEMMA ExceptionIsQuiet ==
  ASSUME IInv, SerialInv, OneGeneration, NEW r \in Requests,
         CorruptThrows(r) \/ CommitResponseThrows(r)
  PROVE  SerialInv' /\ NoEffect
<1>1. control'.pc = "idle" /\ UNCHANGED generation /\ pipe' = Idle
  BY DEF CorruptThrows, CommitResponseThrows, controlVars, Settle, SerialInv,
         MemoryIsClean
<1>2. CASE CorruptThrows(r)
  <2>1. UNCHANGED <<rows, events, state, idempotency, pending, terminalOverride>>
    BY <1>2 DEF CorruptThrows, storeVars, memoryVars
  <2>2. RowsOfFirst' /\ FlightIsCurrent'
    BY <1>1, <2>1 DEF SerialInv, RowsOfFirst, FlightIsCurrent, Idle
  <2> QED
    BY <1>1, <2>1, <2>2, QuietStep
<1>3. CASE CommitResponseThrows(r)
  <2>1. PICK point \in {"early", "late"} :
          CommitThrows(rows, point, pipe.transition, terminalOverride, StagedEntry(r))
    BY <1>3 DEF CommitResponseThrows
  <2>2. \A s \in Sequences : rows[s].transition # "none" => rows[s].generation = 1
    BY DEF SerialInv, RowsOfFirst
  <2> QED
    BY <1>1, <2>1, <2>2, ThrowIsQuiet
<1> QED
  BY <1>2, <1>3

\* The wire, and an operator who has no control to send.
LEMMA OthersAreQuiet ==
  ASSUME IInv, SerialInv, OneGeneration, Wire \/ Operator \/ UNCHANGED vars
  PROVE  SerialInv' /\ NoEffect
<1>1. ~Operator
  BY DEF Operator, OneGeneration, ApplyReset, FailReset, RecordControl, SerialInv,
         MemoryIsClean
<1>2. UNCHANGED <<rows, count, events, state, idempotency, pending, terminalOverride,
                  generation, allocation, pipe, control>>
  BY <1>1 DEF Wire, Enqueue, Finish, Leave, vars, storeVars, memoryVars, controlVars,
              gatewayVars
<1>3. RowsOfFirst'
  BY <1>2 DEF SerialInv, RowsOfFirst
<1>4. FlightIsCurrent'
  BY <1>2 DEF SerialInv, FlightIsCurrent
<1>5. control'.pc = "idle"
  BY <1>2 DEF SerialInv, MemoryIsClean
<1> QED
  BY <1>2, <1>3, <1>4, <1>5, QuietStep

-----------------------------------------------------------------------------
\* Within one generation the pipeline with its awaits, faults, failed exchanges
\* and lost commits is a world that takes every exchange in one step
\* (SPEC.md sections 17.1 to 17.3; server.ts, environment.ts, store.ts).
THEOREM Implements == OneGeneration => (Spec => AtomicSpec)
<1> SUFFICES ASSUME OneGeneration PROVE Spec => AtomicSpec
  OBVIOUS
<1>1. Init => SerialInv /\ Atomic!Init
  BY AtomicInitially
<1>2. IInv /\ SerialInv /\ [Next]_vars =>
        SerialInv' /\ [Atomic!Next]_<<ExchangeLog, state>>
  <2> SUFFICES ASSUME IInv, SerialInv, [Next]_vars
               PROVE  SerialInv' /\ (NoEffect \/ Atomic!Next)
    BY DEF NoEffect
  <2>1. ASSUME NEW r \in Requests, Decide(r)
        PROVE  SerialInv' /\ (NoEffect \/ Atomic!Next)
    BY <2>1, RefusalIsQuiet, CallIsQuiet, DecisionImplements DEF Decide
  <2>2. ASSUME NEW r \in Requests, Answer(r)
        PROVE  SerialInv' /\ (NoEffect \/ Atomic!Next)
    BY <2>2, ReplyIsQuiet, RollbackIsQuiet, ExceptionIsQuiet, CommitImplements
    DEF Answer
  <2>3. CASE Wire \/ Operator \/ UNCHANGED vars
    BY <2>3, OthersAreQuiet
  <2> QED
    BY <2>1, <2>2, <2>3 DEF Next, Pipeline
<1>3. Spec => []IInv
  BY Invariant
<1> QED
  BY <1>1, <1>2, <1>3, PTL DEF Spec, AtomicSpec, Atomic!Spec, Atomic!vars
=============================================================================
