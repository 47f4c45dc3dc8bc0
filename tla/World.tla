------------------------------- MODULE World -------------------------------
(***************************************************************************)
(* One served scenario world: the gateway pipeline over the store-backed   *)
(* state (packages/gateway/src/server.ts, packages/environment/src/        *)
(* environment.ts), the sealed store it commits to                         *)
(* (packages/state-store/src/store.ts), the idempotency cache and the      *)
(* operator controls (packages/environment/src/control.ts).                *)
(*                                                                         *)
(* An action is one run of the event loop between two awaits, so a         *)
(* synchronous stretch of the code is one step. The awaits of the data     *)
(* path are the call into the behavior child and the response validation;  *)
(* the await of a reset is the child's initialize.                         *)
(*                                                                         *)
(* Domain state and the positions of the deterministic services are        *)
(* modelled by their history: the set of request sequences whose effects   *)
(* (or draws) they contain. The baseline is the empty set.                 *)
(***************************************************************************)
EXTENDS Naturals, Sequences, FiniteSets

CONSTANTS
  Requests,        \* participant requests; a retry is another request
  Keys,            \* idempotency identities a policy covers
  Bodies,          \* request fingerprints
  NoKey,           \* a request without a key, or without a policy
  KeyOf,           \* the identity each request presents
  BodyOf,          \* the fingerprint of each request
  CachedOutcomes,  \* outcomes the policy's cache_statuses/cache_failures keep
  MaxRequests,     \* limits.maxRequestsPerRun
  FaultPhases,     \* phases in which a declared fault rule may match
  FailurePoints,   \* where a store transaction may fail, see below
  Controls,        \* operator control ids
  Payloads,        \* [route, expect] bodies the operator sends
  InitialTime,     \* declared clock.initial; the virtual epoch is 0
  None             \* the code's null

\* Where a store transaction can throw. "early": before the request row
\* closes (state bytes, object count, event budget). "late": after it
\* (the cache write or COMMIT). "consult": in the fault or idempotency
\* lookup. "rollback": in the row update a rollback makes.
AllFailurePoints == {"early", "late", "consult", "rollback"}
AllFaultPhases == {"before_behavior", "before_commit", "after_commit"}
Routes == {"reset", "advance"}

ASSUME RequestAssumption ==
  /\ KeyOf \in [Requests -> Keys \cup {NoKey}]
  /\ BodyOf \in [Requests -> Bodies]
  /\ NoKey \notin Keys
ASSUME LimitAssumption ==
  /\ MaxRequests \in Nat
  /\ InitialTime \in Nat
\* Every policy of the pack caches its successful statuses.
ASSUME PolicyAssumption ==
  /\ "ok" \in CachedOutcomes
  /\ CachedOutcomes \subseteq {"ok", "domain_error"}
ASSUME EnvironmentAssumption ==
  /\ FailurePoints \subseteq AllFailurePoints
  /\ FaultPhases \subseteq AllFaultPhases
  /\ Payloads \subseteq [route : Routes, expect : Nat]
ASSUME NoneAssumption ==
  /\ None \notin Requests
  /\ None \notin Controls
  /\ None \notin [key : Keys, body : Bodies, of : Requests]
  /\ None \notin [body : Bodies, of : Requests, sequence : 1 .. MaxRequests]
  /\ None \notin [payload : Payloads, generation : Nat, revision : Nat]

VARIABLES
  \* the sealed store
  rows,            \* requests: one row per sequence
  count,           \* MAX(sequence) of requests
  events,          \* sequences with an api.exchange event
  state,           \* domain_state: the sequences whose writes it holds
  revision,        \* domain_state.revision
  idempotency,     \* key -> stored response, or None
  deliveries,      \* delivery: sequence -> outcome; "unknown" is no row
  generation,      \* world_state.generation
  controls,        \* control_results
  \* StoreGatewayState and WorldIdempotency, in memory
  allocation,      \* the open request row, 0 when null
  terminalOverride,
  stagedServices,  \* positions of the staged exchange, or None
  services,        \* committed positions of the world
  pending,         \* WorldIdempotency.pending, or None
  lastCommitted,   \* the row the next delivery report belongs to, 0 = null
  clock,           \* VirtualClock.currentMs, in ticks
  \* the gateway and its participants
  chain,           \* requests waiting on stateChains
  pipe,            \* the exchange the pipeline is running
  answer,          \* what the pipeline answered each request
  transport,       \* what became of each response on the wire
  \* the operator socket
  control,         \* the control being run
  reply            \* the last answer the operator received

storeVars == <<rows, count, events, state, revision, idempotency>>
memoryVars == <<allocation, terminalOverride, stagedServices, services,
                pending, clock>>
gatewayVars == <<chain, pipe, answer>>
controlVars == <<generation, controls, control, reply>>
deliveryVars == <<deliveries, lastCommitted, transport>>
vars == <<storeVars, memoryVars, gatewayVars, controlVars, deliveryVars>>

Sequences == 1 .. MaxRequests
RowStatus == {"none", "pending", "committed", "replayed", "rejected", "failed"}
\* What a served exchange commits: no transition, semantic events only, a next
\* state equal to the one it read, or a next state with its own write.
Transitions == {"none", "events", "same", "write"}
WritesState(transition) == transition \in {"same", "write"}

NoRow == [status |-> "none", req |-> None, transition |-> "none",
          generation |-> 0]
PendingRow(r) == [status |-> "pending", req |-> r, transition |-> "none",
                  generation |-> generation]

Idle == [pc |-> "idle", req |-> None, snapshot |-> {}, positions |-> {},
         outcome |-> "none", transition |-> "none", next |-> {}]
NoControl == [pc |-> "idle", id |-> None, payload |-> None,
              generation |-> 0, behind |-> FALSE]
NoReply == [id |-> None, payload |-> None, outcome |-> "none"]

Init ==
  /\ rows = [s \in Sequences |-> NoRow]
  /\ count = 0
  /\ events = {}
  /\ state = {}
  /\ revision = 0
  /\ idempotency = [k \in Keys |-> None]
  /\ deliveries = [s \in Sequences |-> "unknown"]
  /\ generation = 1
  /\ controls = [c \in Controls |-> None]
  /\ allocation = 0
  /\ terminalOverride = "none"
  /\ stagedServices = None
  /\ services = {}
  /\ pending = None
  /\ lastCommitted = 0
  /\ clock = InitialTime
  /\ chain = <<>>
  /\ pipe = Idle
  /\ answer = [r \in Requests |-> "none"]
  /\ transport = [r \in Requests |-> "closed"]
  /\ control = NoControl
  /\ reply = NoReply

-----------------------------------------------------------------------------
(* The data path: arrival, staging and the decisions made before behavior. *)

\* A participant's request joins the promise chain of the state.
Enqueue(r) ==
  /\ transport[r] = "closed"
  /\ answer[r] = "none"
  /\ chain' = Append(chain, r)
  /\ transport' = [transport EXCEPT ![r] = "open"]
  /\ UNCHANGED <<storeVars, memoryVars, controlVars, pipe, answer,
                 deliveries, lastCommitted>>

\* Mutant: the pipeline also waits for the allocation to clear.
ReadyWhenUnstaged(r) ==
  /\ pipe.pc = "idle" /\ allocation = 0
  /\ chain # <<>>
  /\ r = Head(chain)

\* The pipeline takes the next request only when the previous one settled.
Ready(r) ==
  /\ pipe.pc = "idle"
  /\ chain # <<>>
  /\ r = Head(chain)

Settle(r, a) ==
  /\ answer' = [answer EXCEPT ![r] = a]
  /\ pipe' = Idle

CanStage == allocation = 0 /\ count < MaxRequests

\* Route, security, parameters or body fail before the state is touched.
RejectRequest(r) ==
  /\ Ready(r)
  /\ chain' = Tail(chain)
  /\ Settle(r, "rejected")
  /\ UNCHANGED <<storeVars, memoryVars, controlVars, deliveryVars>>

\* stage() throws: a transaction is already staged, or the request limit.
StageThrows(r) ==
  /\ Ready(r)
  /\ ~CanStage
  /\ chain' = Tail(chain)
  /\ Settle(r, "error")
  /\ UNCHANGED <<storeVars, memoryVars, controlVars, deliveryVars>>

\* stage() opened a row and the fault or cache lookup threw: nothing
\* closes the row, and the allocation stays.
ConsultThrows(r) ==
  /\ Ready(r)
  /\ CanStage
  /\ "consult" \in FailurePoints
  /\ count' = count + 1
  /\ allocation' = count + 1
  /\ rows' = [rows EXCEPT ![count + 1] = PendingRow(r)]
  /\ chain' = Tail(chain)
  /\ Settle(r, "error")
  /\ UNCHANGED <<events, state, revision, idempotency, terminalOverride,
                 stagedServices, services, pending, clock, controlVars,
                 deliveryVars>>

\* completeRequest() ticks for a scenario transaction and for a replay.
Ticks(transition, status) == transition # "none" \/ status = "replayed"

\* Mutant: only exchanges that were served fresh leave an event.
AppendEventWhenNew(seq, status) ==
  events' = IF status = "committed" THEN events \cup {seq} ELSE events

\* appendApiEvent(): one api.exchange event, whatever the terminal status.
AppendEvent(seq, status) == events' = events \cup {seq}

\* The body of StateStore transaction in commit(): the state transition, the
\* exchange event, the row's terminal status and the pending cache record.
\* open: the rows with this request's row in them; override and entry: the
\* terminal override and pending record at the moment commit() runs.
CommitSucceeds(open, r, seq, transition, next, override, entry) ==
  LET status == IF override = "none" THEN "committed" ELSE override IN
  /\ rows' = [open EXCEPT ![seq] =
                [status |-> status, req |-> r, transition |-> transition,
                 generation |-> generation]]
  /\ AppendEvent(seq, status)
  /\ state' = IF WritesState(transition) THEN next ELSE state
  /\ revision' = IF WritesState(transition) /\ next # state
                 THEN revision + 1 ELSE revision
  /\ idempotency' =
       IF entry = None THEN idempotency
       ELSE [idempotency EXCEPT ![entry.key] =
               [body |-> entry.body, of |-> entry.of, sequence |-> seq]]
  /\ clock' = IF Ticks(transition, status) THEN clock + 1 ELSE clock
  /\ services' = IF stagedServices = None THEN services ELSE stagedServices
  /\ stagedServices' = None
  /\ pending' = None
  /\ terminalOverride' = "none"
  /\ allocation' = 0

\* commit() throws. SQLite undoes the transaction; what the process holds
\* in memory keeps the value it had when the exception left commit().
CommitThrows(open, point, transition, override, entry) ==
  LET status == IF override = "none" THEN "committed" ELSE override IN
  /\ point \in FailurePoints
  /\ rows' = open
  /\ UNCHANGED <<events, state, revision, idempotency, services,
                 stagedServices>>
  /\ allocation' = 0
  /\ \/ /\ point = "early"
        /\ pending' = entry
        /\ terminalOverride' = override
        /\ clock' = clock
     \/ /\ point = "late"
        /\ pending' = None
        /\ terminalOverride' = "none"
        /\ clock' = IF Ticks(transition, status) THEN clock + 1 ELSE clock

\* A decision taken before behavior (fault response, replay, conflict):
\* stage and commit() without a scenario transaction, in one step.
CommitDecision(r, override, entry, a) ==
  LET seq == count + 1
      open == [rows EXCEPT ![seq] = PendingRow(r)]
  IN
  /\ Ready(r)
  /\ CanStage
  /\ count' = seq
  /\ chain' = Tail(chain)
  /\ lastCommitted' = seq
  /\ \/ /\ CommitSucceeds(open, r, seq, "none", {}, override, entry)
        /\ Settle(r, a)
     \/ /\ \E point \in {"early", "late"} :
             CommitThrows(open, point, "none", override, entry)
        /\ Settle(r, "error")
  /\ UNCHANGED <<controlVars, deliveries, transport>>

\* Section 48.6 before_behavior: a matched fault answers.
ServeFault(r) ==
  /\ "before_behavior" \in FaultPhases
  /\ CommitDecision(r, terminalOverride, pending, "fault")

Entry(r) == IF KeyOf[r] = NoKey THEN None ELSE idempotency[KeyOf[r]]

\* Mutant: the fingerprint of the request is not compared.
ReplayAnyBody(r) ==
  /\ Ready(r)
  /\ Entry(r) # None
  /\ CommitDecision(r, "replayed", pending, "replayed")

\* The cache holds the identity with the same fingerprint.
ServeReplay(r) ==
  /\ Ready(r)
  /\ Entry(r) # None
  /\ Entry(r).body = BodyOf[r]
  /\ CommitDecision(r, "replayed", pending, "replayed")

\* Mutant: the conflicting request takes over the cached identity.
ConflictOverwrites(r) ==
  /\ Ready(r)
  /\ Entry(r) # None
  /\ Entry(r).body # BodyOf[r]
  /\ CommitDecision(r, "rejected",
                    [key |-> KeyOf[r], body |-> BodyOf[r], of |-> r],
                    "conflict")

\* The cache holds the identity with another fingerprint.
ServeConflict(r) ==
  /\ Ready(r)
  /\ Entry(r) # None
  /\ Entry(r).body # BodyOf[r]
  /\ CommitDecision(r, "rejected", pending, "conflict")

\* Mutant: behavior is handed the baseline instead of the committed state.
BaselineSnapshot == {}

\* snapshot(): the domain state committed when behavior is called.
Snapshot == state

\* A miss: the row opens, the snapshot and the positions are read, and the
\* pipeline awaits the behavior child.
CallBehavior(r) ==
  LET seq == count + 1 IN
  /\ Ready(r)
  /\ CanStage
  /\ Entry(r) = None
  /\ count' = seq
  /\ allocation' = seq
  /\ rows' = [rows EXCEPT ![seq] = PendingRow(r)]
  /\ pipe' = [Idle EXCEPT !.pc = "behavior", !.req = r,
                          !.snapshot = Snapshot, !.positions = services]
  /\ chain' = Tail(chain)
  /\ UNCHANGED <<events, state, revision, idempotency, terminalOverride,
                 stagedServices, services, pending, clock, answer,
                 controlVars, deliveryVars>>

-----------------------------------------------------------------------------
(* The data path: the behavior reply, response validation and commit.      *)

InFlight(r) == pipe.pc # "idle" /\ pipe.req = r

\* The child answered: a reset's initialize no longer waits behind this call.
ChildFree == control' = [control EXCEPT !.behind = FALSE]

\* Mutant: the working copy is committed even when nothing was written.
WorkingCopy(transition) == pipe.snapshot \cup {allocation}

\* The next state a transition carries, computed from the snapshot.
NextState(transition) ==
  pipe.snapshot \cup (IF transition = "write" THEN {allocation} ELSE {})

\* executeBehaviorRequest succeeded: the advanced positions are staged and
\* the transition, if any, was computed from the snapshot.
BehaviorSucceeds(r) ==
  /\ InFlight(r)
  /\ pipe.pc = "behavior"
  /\ \E drew \in SUBSET {allocation}, transition \in Transitions :
       /\ stagedServices' = pipe.positions \cup drew
       /\ pipe' = [pipe EXCEPT !.pc = "validate", !.outcome = "ok",
                     !.transition = transition,
                     !.next = NextState(transition)]
  /\ ChildFree
  /\ UNCHANGED <<storeVars, allocation, terminalOverride, services, pending,
                 clock, chain, answer, generation, controls, reply,
                 deliveryVars>>

\* A modelled BehaviorHttpError: a served answer without a transition; the
\* adapter stages no positions for it.
BehaviorDomainError(r) ==
  /\ InFlight(r)
  /\ pipe.pc = "behavior"
  /\ pipe' = [pipe EXCEPT !.pc = "validate", !.outcome = "domain_error"]
  /\ ChildFree
  /\ UNCHANGED <<storeVars, memoryVars, chain, answer, generation, controls,
                 reply, deliveryVars>>

\* What rollback() drops once the row is closed.
DropStaged ==
  /\ pending' = None
  /\ terminalOverride' = "none"
  /\ stagedServices' = None

\* rollback(): the row closes as failed in a transaction of its own and the
\* staged values are dropped; when that update throws they are not.
Rollback(r, a) ==
  /\ allocation' = 0
  /\ Settle(r, a)
  /\ \/ /\ rows' = [rows EXCEPT ![allocation].status = "failed"]
        /\ DropStaged
        /\ lastCommitted' = 0
     \/ /\ "rollback" \in FailurePoints
        /\ UNCHANGED <<rows, pending, terminalOverride, stagedServices,
                       lastCommitted>>
  /\ UNCHANGED <<count, events, state, revision, idempotency, services, clock,
                 chain, deliveries, transport>>

\* The child timed out, threw, broke the protocol, or answered a body kind
\* the gateway refuses.
BehaviorFails(r) ==
  /\ InFlight(r)
  /\ pipe.pc = "behavior"
  /\ ChildFree
  /\ Rollback(r, "failed")
  /\ UNCHANGED <<generation, controls, reply>>

\* Mutant: an invalid response is answered without rollback().
RefuseWithoutRollback(r) ==
  /\ InFlight(r)
  /\ pipe.pc = "validate"
  /\ Settle(r, "failed")
  /\ UNCHANGED <<storeVars, memoryVars, chain, controlVars, deliveryVars>>

\* A before_commit fault declares the candidate corrupt, or the response
\* fails negotiation, validation, the worker bound or the size limit.
RefuseResponse(r) ==
  /\ InFlight(r)
  /\ pipe.pc = "validate"
  /\ Rollback(r, "failed")
  /\ UNCHANGED controlVars

\* The fault engine's consumption transaction throws on the candidate: the
\* exception leaves the pipeline, and neither commit() nor rollback() runs.
CorruptThrows(r) ==
  /\ InFlight(r)
  /\ pipe.pc = "validate"
  /\ "before_commit" \in FaultPhases
  /\ "consult" \in FailurePoints
  /\ Settle(r, "error")
  /\ UNCHANGED <<storeVars, memoryVars, chain, controlVars, deliveryVars>>

\* Mutant: only responses that changed the state are cached.
StagedWhenWritten(r) ==
  IF KeyOf[r] # NoKey /\ pipe.outcome \in CachedOutcomes
                      /\ pipe.transition = "write"
  THEN [key |-> KeyOf[r], body |-> BodyOf[r], of |-> r]
  ELSE pending

\* WorldIdempotency.stage(): a cacheable response of a keyed request becomes
\* the pending record; otherwise the field is left as it is.
StagedEntry(r) ==
  IF KeyOf[r] # NoKey /\ pipe.outcome \in CachedOutcomes
  THEN [key |-> KeyOf[r], body |-> BodyOf[r], of |-> r]
  ELSE pending

\* Mutant: the loss is attributed to the row of the last delivery report.
CutLastCommitted(r) ==
  /\ transport[r] = "open"
  /\ deliveries' = IF lastCommitted = 0 THEN deliveries
                   ELSE [deliveries EXCEPT ![lastCommitted] = "lost"]
  /\ transport' = [transport EXCEPT ![r] = "cut"]
  /\ lastCommitted' = 0

\* The listener cuts the response and reports the loss of this exchange.
CutTransport(r) ==
  /\ transport[r] = "open"
  /\ deliveries' = [deliveries EXCEPT ![allocation] = "lost"]
  /\ transport' = [transport EXCEPT ![r] = "cut"]
  /\ lastCommitted' = 0

\* The valid response commits. An after_commit fault cuts the transport in
\* the same turn of the event loop, unless the client already left; when its
\* consumption transaction throws, the committed exchange is answered 500.
CommitResponse(r) ==
  /\ InFlight(r)
  /\ pipe.pc = "validate"
  /\ CommitSucceeds(rows, r, allocation, pipe.transition, pipe.next,
                    terminalOverride, StagedEntry(r))
  /\ \/ /\ Settle(r, "served")
        /\ lastCommitted' = allocation
        /\ UNCHANGED <<deliveries, transport>>
     \/ /\ "after_commit" \in FaultPhases
        /\ Settle(r, "served")
        /\ CutTransport(r)
     \/ /\ "after_commit" \in FaultPhases
        /\ "consult" \in FailurePoints
        /\ Settle(r, "error")
        /\ lastCommitted' = allocation
        /\ UNCHANGED <<deliveries, transport>>
  /\ UNCHANGED <<count, chain, controlVars>>

\* Mutant: the candidate response is sent although its commit threw.
ServeUncommitted(r) ==
  /\ InFlight(r)
  /\ pipe.pc = "validate"
  /\ \E point \in {"early", "late"} :
       CommitThrows(rows, point, pipe.transition, terminalOverride,
                    StagedEntry(r))
  /\ lastCommitted' = allocation
  /\ Settle(r, "served")
  /\ UNCHANGED <<count, chain, controlVars, deliveries, transport>>

\* The pipeline catches the exception of commit(), answers the bounded 500
\* and does not roll back.
CommitResponseThrows(r) ==
  /\ InFlight(r)
  /\ pipe.pc = "validate"
  /\ \E point \in {"early", "late"} :
       CommitThrows(rows, point, pipe.transition, terminalOverride,
                    StagedEntry(r))
  /\ lastCommitted' = allocation
  /\ Settle(r, "commit_failed")
  /\ UNCHANGED <<count, chain, controlVars, deliveries, transport>>

-----------------------------------------------------------------------------
(* The wire: responses finish or clients leave outside the chain.          *)

\* The 'finish' event of a response reports a delivery to the state, which
\* attributes it to the last committed row.
Finish(r) ==
  /\ answer[r] # "none"
  /\ transport[r] = "open"
  /\ transport' = [transport EXCEPT ![r] = "finished"]
  /\ deliveries' = IF lastCommitted = 0 THEN deliveries
                   ELSE [deliveries EXCEPT ![lastCommitted] = "delivered"]
  /\ lastCommitted' = 0
  /\ UNCHANGED <<storeVars, memoryVars, gatewayVars, controlVars>>

\* The client disconnects: nothing is reported for its response.
Leave(r) ==
  /\ transport[r] = "open"
  /\ transport' = [transport EXCEPT ![r] = "gone"]
  /\ UNCHANGED <<storeVars, memoryVars, gatewayVars, controlVars, deliveries,
                 lastCommitted>>

-----------------------------------------------------------------------------
(* The operator socket: its own queue runs one control at a time.          *)

Reply(c, p, outcome) == reply' = [id |-> c, payload |-> p, outcome |-> outcome]

\* Mutant: a conflicting resubmission replaces the recorded result.
RepeatReplaces(c, p) ==
  /\ control.pc = "idle"
  /\ controls[c] # None
  /\ Reply(c, p, "recorded")
  /\ controls' = [controls EXCEPT ![c].payload = p]
  /\ UNCHANGED <<storeVars, memoryVars, gatewayVars, deliveryVars, generation,
                 control>>

\* The control id is recorded: the same payload replays, another conflicts.
RepeatControl(c, p) ==
  /\ control.pc = "idle"
  /\ controls[c] # None
  /\ Reply(c, p, IF controls[c].payload = p THEN "recorded" ELSE "conflict")
  /\ UNCHANGED <<storeVars, memoryVars, gatewayVars, deliveryVars, generation,
                 controls, control>>

\* A generation the world is not at is refused and not recorded.
RefuseControl(c, p) ==
  /\ control.pc = "idle"
  /\ controls[c] = None
  /\ p.expect # generation
  /\ Reply(c, p, "mismatch")
  /\ UNCHANGED <<storeVars, memoryVars, gatewayVars, deliveryVars, generation,
                 controls, control>>

\* Mutant: a recorded control id runs again at the generation it names.
AdmitRecorded(c, p, pc) ==
  /\ control.pc = "idle"
  /\ p.expect = generation
  /\ control' = [pc |-> pc, id |-> c, payload |-> p,
                 generation |-> generation, behind |-> pipe.pc = "behavior"]

\* Only an unrecorded control id at the expected generation takes effect.
Admit(c, p, pc) ==
  /\ control.pc = "idle"
  /\ controls[c] = None
  /\ p.expect = generation
  /\ control' = [pc |-> pc, id |-> c, payload |-> p,
                 generation |-> generation, behind |-> pipe.pc = "behavior"]

\* Reset sends initialize to the child, behind a call the child still runs.
StartReset(c, p) ==
  /\ p.route = "reset"
  /\ Admit(c, p, "initialize")
  /\ UNCHANGED <<storeVars, memoryVars, gatewayVars, deliveryVars, generation,
                 controls, reply>>

\* The child runs initialize after the call it was running at submission.
ChildReached == ~(control.behind /\ pipe.pc = "behavior")

\* The child returned the baseline: one transaction moves the world to the
\* next generation, then the in-memory positions follow.
ApplyReset ==
  /\ control.pc = "initialize"
  /\ ChildReached
  /\ generation' = generation + 1
  /\ clock' = 0
  /\ idempotency' = [k \in Keys |-> None]
  /\ state' = {}
  /\ revision' = IF state = {} THEN revision ELSE revision + 1
  /\ services' = {}
  /\ control' = [control EXCEPT !.pc = "record"]
  /\ UNCHANGED <<rows, count, events, allocation, terminalOverride,
                 stagedServices, pending, gatewayVars, deliveryVars, controls,
                 reply>>

\* Mutant: the clock of a failed reset is not restored.
FailResetKeepsClock ==
  /\ control.pc = "initialize"
  /\ Reply(control.id, control.payload, "failed")
  /\ control' = NoControl
  /\ clock' = 0
  /\ UNCHANGED <<storeVars, allocation, terminalOverride, stagedServices,
                 services, pending, gatewayVars, deliveryVars, generation,
                 controls>>

\* initialize or the reset transaction failed: 500, nothing recorded.
FailReset ==
  /\ control.pc = "initialize"
  /\ Reply(control.id, control.payload, "failed")
  /\ control' = NoControl
  /\ UNCHANGED <<storeVars, memoryVars, gatewayVars, deliveryVars, generation,
                 controls>>

\* Advance moves the virtual clock by one tick here, and waits to be recorded.
ApplyAdvance(c, p) ==
  /\ p.route = "advance"
  /\ Admit(c, p, "record")
  /\ clock' = clock + 1
  /\ UNCHANGED <<storeVars, allocation, terminalOverride, stagedServices,
                 services, pending, gatewayVars, deliveryVars, generation,
                 controls, reply>>

\* recordControl(), after the effect's promise settled.
RecordControl ==
  /\ control.pc = "record"
  /\ controls' = [controls EXCEPT ![control.id] =
                    [payload |-> control.payload, generation |-> generation,
                     revision |-> revision]]
  /\ Reply(control.id, control.payload, "ok")
  /\ control' = NoControl
  /\ UNCHANGED <<storeVars, memoryVars, gatewayVars, deliveryVars, generation>>

-----------------------------------------------------------------------------
Decide(r) ==
  \/ RejectRequest(r) \/ StageThrows(r) \/ ConsultThrows(r)
  \/ ServeFault(r) \/ ServeReplay(r) \/ ServeConflict(r) \/ CallBehavior(r)
Answer(r) ==
  \/ BehaviorSucceeds(r) \/ BehaviorDomainError(r) \/ BehaviorFails(r)
  \/ RefuseResponse(r) \/ CorruptThrows(r)
  \/ CommitResponse(r) \/ CommitResponseThrows(r)
Pipeline == \E r \in Requests : Decide(r) \/ Answer(r)
Wire == \E r \in Requests : Enqueue(r) \/ Finish(r) \/ Leave(r)
Submit(c, p) ==
  \/ RepeatControl(c, p) \/ RefuseControl(c, p)
  \/ StartReset(c, p) \/ ApplyAdvance(c, p)
Operator ==
  \/ \E c \in Controls, p \in Payloads : Submit(c, p)
  \/ ApplyReset \/ FailReset \/ RecordControl

Next == Pipeline \/ Wire \/ Operator

Spec == Init /\ [][Next]_vars

\* The event loop runs whatever is ready and every call into the child times
\* out, so the pipeline makes its next step; clients and operators owe nothing.
FairSpec == Spec /\ WF_vars(Pipeline)

-----------------------------------------------------------------------------
(* Properties.                                                             *)

Outcomes == {"none", "ok", "domain_error"}
Answers == {"none", "rejected", "error", "fault", "replayed", "conflict",
            "failed", "served", "commit_failed"}
Pending == [key : Keys, body : Bodies, of : Requests]
Stored == [body : Bodies, of : Requests, sequence : Sequences]
Row == [status : RowStatus, req : Requests \cup {None},
        transition : Transitions, generation : Nat]
Exchange == [pc : {"idle", "behavior", "validate"},
             req : Requests \cup {None}, snapshot : SUBSET Sequences,
             positions : SUBSET Sequences, outcome : Outcomes,
             transition : Transitions, next : SUBSET Sequences]
Recorded == [payload : Payloads, generation : Nat, revision : Nat]

TypeOK ==
  /\ rows \in [Sequences -> Row]
  /\ count \in 0 .. MaxRequests
  /\ events \subseteq Sequences
  /\ state \subseteq Sequences
  /\ revision \in Nat
  /\ idempotency \in [Keys -> Stored \cup {None}]
  /\ deliveries \in [Sequences -> {"unknown", "delivered", "lost"}]
  /\ generation \in Nat
  /\ controls \in [Controls -> Recorded \cup {None}]
  /\ allocation \in 0 .. MaxRequests
  /\ terminalOverride \in {"none", "replayed", "rejected"}
  /\ stagedServices \in (SUBSET Sequences) \cup {None}
  /\ services \subseteq Sequences
  /\ pending \in Pending \cup {None}
  /\ lastCommitted \in 0 .. MaxRequests
  /\ clock \in Nat
  /\ chain \in Seq(Requests)
  /\ pipe \in Exchange
  /\ answer \in [Requests -> Answers]
  /\ transport \in [Requests -> {"closed", "open", "finished", "cut", "gone"}]
  /\ control \in [pc : {"idle", "initialize", "record"},
                  id : Controls \cup {None}, payload : Payloads \cup {None},
                  generation : Nat, behind : BOOLEAN]
  /\ reply \in [id : Controls \cup {None}, payload : Payloads \cup {None},
                outcome : {"none", "recorded", "conflict", "mismatch",
                           "failed", "ok"}]

Closed(s) == rows[s].status \in {"committed", "replayed", "rejected"}
Wrote(s) == rows[s].transition = "write"

\* The domain state is exactly the writes that committed in this generation:
\* nothing of a failed, refused or timed-out exchange is visible, and no
\* committed write was overwritten by one computed from an older snapshot
\* (serializeState, StoreGatewayState.commit). Runs without controls.
StateIsSerial ==
  state = {s \in Sequences : Wrote(s) /\ rows[s].generation = generation}

\* The weaker half that resets cannot disturb: every effect in the state, and
\* in the snapshot an exchange works on, belongs to an exchange whose event is
\* in the log (section 48.2: failures leave no partial domain change).
NoUncommittedEffect ==
  \A s \in state \cup pipe.snapshot : s \in events /\ Wrote(s)

\* The row, the event log and the terminal status of an exchange commit or
\* fail together, whatever throws (section 16.3, environment.ts commit()).
EventTrail == events = {s \in Sequences : Closed(s)}

\* A keyed request mutates the world at most once per generation, however it
\* is retried and whatever fails in between (section 17.3).
AtMostOnce ==
  \A s, t \in Sequences :
    /\ rows[s].transition # "none" /\ rows[t].transition # "none"
    /\ rows[s].generation = rows[t].generation
    /\ KeyOf[rows[s].req] = KeyOf[rows[t].req]
    /\ KeyOf[rows[s].req] # NoKey
    => s = t

\* A participant that got a modelled answer finds it in the log: no response
\* leaves before its transaction (section 17.1).
ServedIsDurable ==
  \A r \in Requests :
    answer[r] \in {"served", "replayed", "conflict", "fault"} =>
      \E s \in events : rows[s].req = r

\* "lost" is only ever written for the exchange whose own transport was cut
\* (section 48.6, listener.ts writeResponse).
LostIsCut ==
  \A s \in Sequences :
    deliveries[s] = "lost" => transport[rows[s].req] = "cut"

\* A replayed answer repeats the response of a committed exchange with the
\* same identity and fingerprint (section 17.3).
ReplayOfCommitted ==
  \A k \in Keys : idempotency[k] # None =>
    LET e == idempotency[k] IN
      /\ rows[e.sequence].req = e.of
      /\ rows[e.sequence].status = "committed"
      /\ KeyOf[e.of] = k /\ BodyOf[e.of] = e.body

\* An earlier exchange committed under the same identity as row s.
Original(s, t) ==
  /\ t < s
  /\ rows[t].status = "committed"
  /\ KeyOf[rows[t].req] = KeyOf[rows[s].req]

\* A row says replayed or rejected only of an exchange answered that way, and
\* only when an earlier exchange committed under its identity: with the same
\* fingerprint for a replay, with another for a conflict (section 17.3).
OutcomeRecorded ==
  \A s \in Sequences :
    /\ rows[s].status = "replayed" =>
         /\ answer[rows[s].req] = "replayed"
         /\ \E t \in Sequences : /\ Original(s, t)
                                  /\ BodyOf[rows[t].req] = BodyOf[rows[s].req]
    /\ rows[s].status = "rejected" =>
         /\ answer[rows[s].req] = "conflict"
         /\ \E t \in Sequences : /\ Original(s, t)
                                  /\ BodyOf[rows[t].req] # BodyOf[rows[s].req]

\* The committed positions hold the draws of committed exchanges only: a
\* failed exchange leaves identifiers and draws where they were (48.2).
ServicesCommitted ==
  \A s \in services : rows[s].status = "committed"

\* A pending row is the row the pipeline is working on: every other request
\* row has been closed at commit() or rollback().
RowsClose ==
  \A s \in Sequences :
    rows[s].status = "pending" => pipe.pc # "idle" /\ allocation = s

\* Staging is held only while the pipeline is between stage() and its close,
\* so the next request can always stage.
AllocationOwned == allocation # 0 => pipe.pc # "idle"

\* Virtual time is the declared start plus one tick per exchange that
\* committed a transition or was replayed (section 17.4). Without controls.
ClockCountsCommits ==
  clock = InitialTime +
          Cardinality({s \in Sequences :
            rows[s].transition # "none" \/ rows[s].status = "replayed"})

\* An exchange, committed or refused, leaves nothing behind: no draw, no open
\* row, no allocation, and virtual time that counts what committed.
ExchangeEndsClean ==
  ServicesCommitted /\ RowsClose /\ AllocationOwned /\ ClockCountsCommits

\* A delivery is reported for a row only once the response of that row's own
\* request was written out (section 48.6: absence reads as unknown).
DeliveredIsFinished ==
  \A s \in Sequences :
    deliveries[s] = "delivered" => transport[rows[s].req] = "finished"

\* After a reset the state holds nothing an earlier generation wrote
\* (section 48.4: reset recreates the original baseline state).
OldWritesStayGone ==
  \A s \in state : rows[s].generation = generation

\* Every reset that bumped the generation is one recorded control, or the one
\* about to be recorded: a control id takes effect once (section 48.3).
ControlOnce ==
  LET resets == {c \in Controls : controls[c] # None
                                  /\ controls[c].payload.route = "reset"}
      owed == IF control.pc = "record" /\ control.payload.route = "reset"
              THEN 1 ELSE 0
  IN generation = 1 + Cardinality(resets) + owed

\* A recorded control result is never rewritten or dropped, across resets and
\* repeated submissions (section 48.3: persist control results).
ControlsFinal ==
  [][\A c \in Controls : controls[c] # None => controls'[c] = controls[c]]_vars

\* The clock only goes back at the reset that starts the next generation.
ClockForward == [][clock' < clock => generation' = generation + 1]_vars

\* Every request that joined the chain is answered, by a response, a bounded
\* failure or a refusal, whatever the behavior child and the store do.
EveryRequestAnswered ==
  []<>(\A r \in Requests : transport[r] = "open" => answer[r] # "none")
=============================================================================
