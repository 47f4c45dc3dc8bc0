----------------------------- MODULE ControlQueue -----------------------------
(***************************************************************************)
(* The operator socket of a world (packages/environment/src/control.ts:    *)
(* startWorldControl, runControl) and the effects behind it                *)
(* (environment.ts: openControl's handlers): admitted controls run one     *)
(* after the other, each looks up its id, has its effect and records it,   *)
(* and the effect and the record may each fail. Operators repeat controls. *)
(***************************************************************************)
EXTENDS Naturals, Sequences, FiniteSets

CONSTANTS
  Sends,         \* HTTP requests to the socket
  ControlOf,     \* what a request carries: [id, route, expects]
  QueueLimit,    \* options.queueLimit
  RecordFaults   \* bound of recording transactions that throw

\* Finitely many requests, and a limit that is a number.
ASSUME ControlsAssumption == IsFiniteSet(Sends) /\ QueueLimit \in Nat

VARIABLES
  send,          \* where a request is
  answers,       \* its HTTP status, 0 before
  queue,         \* the tail chain: admitted requests, the running one first
  gen,           \* the generation of the world
  advances,      \* effects of each control id on the clock
  resets,        \* the generations a reset of each control id ended
  recorded,      \* control_results: id -> [of, status], of the first request
  recordFaults,  \* recording transactions that threw, by control id
  socket         \* "open", "closing" or "closed"

controlQueueVars == <<send, answers, queue, gen, advances, resets, recorded,
                      recordFaults, socket>>

Ids == {ControlOf[s].id : s \in Sends}

QueueInit ==
  /\ send = [s \in Sends |-> "new"]
  /\ answers = [s \in Sends |-> 0]
  /\ queue = <<>>
  /\ gen = 1
  /\ advances = [c \in Ids |-> 0]
  /\ resets = [c \in Ids |-> {}]
  /\ recorded = <<>>
  /\ recordFaults = [c \in Ids |-> 0]
  /\ socket = "open"

-----------------------------------------------------------------------------
\* send() and the end of the response.
Answer(s, status) ==
  /\ answers' = [answers EXCEPT ![s] = status]
  /\ send' = [send EXCEPT ![s] = "answered"]

\* run() of the head is over: waiting -= 1, and the next one starts.
Dequeue(s) == queue' = Tail(queue)

Unmoved == UNCHANGED <<gen, advances, resets, recorded, recordFaults>>
AtHead(s, at) == queue # <<>> /\ Head(queue) = s /\ send[s] = at

\* A connection is accepted while the server listens.
Connect(s) ==
  /\ send[s] = "new" /\ socket = "open"
  /\ send' = [send EXCEPT ![s] = "upload"]
  /\ UNCHANGED <<answers, queue, socket>> /\ Unmoved

\* 401, 404, 405, 413 and 400, before admission. Any request may lack what it
\* needs.
RefuseSend(s) ==
  /\ send[s] = "upload"
  /\ Answer(s, 400)
  /\ UNCHANGED <<queue, socket>> /\ Unmoved

\* Mutant: the limit counts the control that runs as no entry.
AdmitOneMore(s) ==
  /\ send[s] = "upload"
  /\ IF Len(queue) > QueueLimit
     THEN Answer(s, 503) /\ UNCHANGED queue
     ELSE /\ queue' = Append(queue, s)
          /\ send' = [send EXCEPT ![s] = "waiting"]
          /\ UNCHANGED answers
  /\ UNCHANGED socket /\ Unmoved

\* The queue refuses before it admits.
AdmitControl(s) ==
  /\ send[s] = "upload"
  /\ IF Len(queue) >= QueueLimit
     THEN Answer(s, 503) /\ UNCHANGED queue
     ELSE /\ queue' = Append(queue, s)
          /\ send' = [send EXCEPT ![s] = "waiting"]
          /\ UNCHANGED answers
  /\ UNCHANGED socket /\ Unmoved

\* dispatch(): a mutation that validateMutation() refuses, and GET /v1/world,
\* which reads the state in its turn.
AnswerInTurn(s) ==
  /\ AtHead(s, "waiting")
  /\ IF ControlOf[s].route = "world" THEN Answer(s, 200) ELSE Answer(s, 400)
  /\ Dequeue(s)
  /\ UNCHANGED socket /\ Unmoved

Mutates(s) == ControlOf[s].route # "world"

\* Mutant: the recorded result is not looked up.
LookUpNothing(s) ==
  /\ AtHead(s, "waiting") /\ Mutates(s)
  /\ LET c == ControlOf[s]
     IN  IF c.route \in {"reset", "advance"} /\ c.expects # gen
         THEN Answer(s, 409) /\ Dequeue(s)
         ELSE /\ send' = [send EXCEPT ![s] = "effect"]
              /\ UNCHANGED <<answers, queue>>
  /\ UNCHANGED socket /\ Unmoved

\* runControl(): a recorded id answers its result, or a conflict when the
\* payload differs; a reset or an advance needs the current generation.
LookUp(s) ==
  /\ AtHead(s, "waiting") /\ Mutates(s)
  /\ LET c == ControlOf[s]
     IN  IF c.id \in DOMAIN recorded
         THEN /\ Answer(s, IF recorded[c.id].of = c THEN recorded[c.id].status ELSE 409)
              /\ Dequeue(s)
         ELSE IF c.route \in {"reset", "advance"} /\ c.expects # gen
         THEN Answer(s, 409) /\ Dequeue(s)
         ELSE /\ send' = [send EXCEPT ![s] = "effect"]
              /\ UNCHANGED <<answers, queue>>
  /\ UNCHANGED socket /\ Unmoved

\* The effect throws: 500, and nothing is recorded. A reset does, and in a
\* restored world a checkpoint; the other handlers turn errors into an outcome.
EffectThrows(s) ==
  /\ AtHead(s, "effect") /\ ControlOf[s].route \in {"reset", "checkpoint"}
  /\ Answer(s, 500) /\ Dequeue(s)
  /\ UNCHANGED socket /\ Unmoved

\* The effect of a control; an advance that overflows and a checkpoint that
\* fails have none, and their failure is recorded like a result.
Effect(s) ==
  /\ AtHead(s, "effect")
  /\ LET c == ControlOf[s]
     IN  \/ /\ c.route = "reset"
            /\ gen' = gen + 1
            /\ resets' = [resets EXCEPT ![c.id] = @ \cup {gen}]
            /\ send' = [send EXCEPT ![s] = "record"]
            /\ UNCHANGED advances
         \/ /\ c.route \in {"advance", "checkpoint"}
            /\ \E at \in {"record", "recordFailure"} :
                 /\ send' = [send EXCEPT ![s] = at]
                 /\ advances' = [advances EXCEPT ![c.id] =
                      IF c.route = "advance" /\ at = "record" THEN @ + 1 ELSE @]
            /\ UNCHANGED <<gen, resets>>
  /\ UNCHANGED <<answers, queue, recorded, recordFaults, socket>>

\* recordControl() in its own transaction.
RecordResult(s) ==
  \E status \in {200, 400} :
    /\ AtHead(s, IF status = 200 THEN "record" ELSE "recordFailure")
    /\ recorded' = [c \in DOMAIN recorded \cup {ControlOf[s].id} |->
                      IF c = ControlOf[s].id THEN [of |-> ControlOf[s], status |-> status]
                      ELSE recorded[c]]
    /\ Answer(s, status) /\ Dequeue(s)
    /\ UNCHANGED <<gen, advances, resets, recordFaults, socket>>

\* Mutant: a failed record keeps its place in the queue.
RecordThrowsInPlace(s) ==
  /\ AtHead(s, "record") \/ AtHead(s, "recordFailure")
  /\ \A c \in Ids : recordFaults[c] < RecordFaults
  /\ recordFaults' = [recordFaults EXCEPT ![ControlOf[s].id] = @ + 1]
  /\ Answer(s, 500)
  /\ UNCHANGED <<queue, gen, advances, resets, recorded, socket>>

\* The recording transaction throws: 500, and the effect stays.
RecordThrows(s) ==
  /\ AtHead(s, "record") \/ AtHead(s, "recordFailure")
  /\ \A c \in Ids : recordFaults[c] < RecordFaults
  /\ recordFaults' = [recordFaults EXCEPT ![ControlOf[s].id] = @ + 1]
  /\ Answer(s, 500) /\ Dequeue(s)
  /\ UNCHANGED <<gen, advances, resets, recorded, socket>>

\* close(): no new connection, and the end of those there are.
CloseSocket ==
  /\ socket = "open"
  /\ socket' = "closing"
  /\ UNCHANGED <<send, answers, queue>> /\ Unmoved
SocketClosed ==
  /\ socket = "closing"
  /\ \A s \in Sends : send[s] \in {"new", "answered"}
  /\ socket' = "closed"
  /\ UNCHANGED <<send, answers, queue>> /\ Unmoved

QueueSteps ==
  \/ \E s \in Sends :
       \/ RefuseSend(s) \/ AdmitControl(s) \/ AnswerInTurn(s) \/ LookUp(s) \/ EffectThrows(s)
       \/ Effect(s) \/ RecordResult(s) \/ RecordThrows(s)
  \/ SocketClosed

QueueNext == (\E s \in Sends : Connect(s)) \/ CloseSocket \/ QueueSteps

QueueSpec == QueueInit /\ [][QueueNext]_controlQueueVars

-----------------------------------------------------------------------------
\* The queue holds what was admitted and not answered, within its limit
\* (control.ts handle).
QueueIsBounded ==
  /\ Len(queue) <= QueueLimit
  /\ \A s \in Sends :
       send[s] \in {"waiting", "effect", "record", "recordFailure"} <=>
         \E i \in DOMAIN queue : queue[i] = s

\* A reset ends a generation at most once, also when its record failed and the
\* operator asked again; an advance moves the clock once more only for each
\* record of it that failed; a recorded id had its effect, unless its failure
\* is what was recorded, and a 200 is the answer of a recorded id only
\* (control.ts runControl); the queue never forgets one, nor runs one that it
\* does not hold.
ControlsTakeEffectOnce ==
  /\ QueueIsBounded
  /\ \A c \in Ids : advances[c] <= 1 + recordFaults[c]
  /\ \A c \in Ids : Cardinality(resets[c]) <=
       Cardinality({ControlOf[s].expects : s \in {t \in Sends : ControlOf[t].id = c}})
  /\ \A c \in DOMAIN recorded : recorded[c].status = 200 =>
       CASE recorded[c].of.route = "advance" -> advances[c] >= 1
         [] recorded[c].of.route = "reset" -> recorded[c].of.expects \in resets[c]
         [] OTHER -> TRUE
  /\ \A s \in Sends : answers[s] = 200 /\ Mutates(s) =>
       ControlOf[s].id \in DOMAIN recorded /\ recorded[ControlOf[s].id].of = ControlOf[s]

\* SPEC.md 48.3: a repeated control_id returns the recorded result, so an
\* advance is never applied twice.
AdvanceOnce == \A c \in Ids : advances[c] <= 1

ControlsAnswered ==
  /\ \A s \in Sends : send[s] \in {"new", "answered"}
  /\ socket # "closing"
=============================================================================
