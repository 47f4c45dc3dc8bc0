------------------------------- MODULE Exposure -------------------------------
(***************************************************************************)
(* The raw HTTP exposure of a trial (packages/runner/src/exposure.ts) over *)
(* the event streams of packages/evidence/src/trace.ts: connections, the   *)
(* admission of a run, the two planes behind one port, the gateway that    *)
(* serializes what it serves, and two JSONL files whose records must come  *)
(* in the order their sequences were reserved, over appends that may fail. *)
(***************************************************************************)
EXTENDS Naturals, Sequences, FiniteSets, SequencesExt

CONSTANTS
  Exchanges,      \* requests of the participant
  PlaneOf,        \* "api" or "doc": what a request addresses
  MaxConcurrent,  \* limits.maxConcurrentConnectionsPerRun
  MaxRun,         \* limits.maxRequestsPerRun
  MaxBurst,       \* limits.maxBurstRequestsPerSecond
  SinkFaults      \* bound of appends that fail

ASSUME ExposureAssumption ==
  /\ IsFiniteSet(Exchanges)
  /\ PlaneOf \in [Exchanges -> {"api", "doc"}]
  /\ {MaxConcurrent, MaxRun, MaxBurst, SinkFaults} \subseteq Nat

VARIABLES
  exchange,   \* per exchange: see NewExchange
  admission,  \* AdmissionControl: total, inFlight, window
  pipeline,   \* exchanges behind the gateway state, the running one first
  effects,    \* state.appliedEffects, each with the exchange that committed it
  streams,    \* EventStream of each plane: next, tail, pending, file
  sinkFaults, \* failed appends so far
  failures,   \* recordExchangeFailure(): the exchanges recorded
  port        \* "open" or "closed"

exposureVars == <<exchange, admission, pipeline, effects, streams, sinkFaults,
                  failures, port>>

\* at: how far answer() is; over: the connection came beyond the limit; slot:
\* holdsAdmission; before: effectsBefore; outcome: what is recorded of it; told:
\* what its socket got.
NewExchange ==
  [at |-> "new", over |-> FALSE, slot |-> FALSE, sequence |-> 0, before |-> 0,
   outcome |-> "none", told |-> "none"]

ExposureInit ==
  /\ exchange = [x \in Exchanges |-> NewExchange]
  /\ admission = [total |-> 0, inFlight |-> 0, window |-> 0]
  /\ pipeline = <<>> /\ effects = <<>>
  /\ streams = [s \in {"api", "doc"} |->
                 [next |-> 1, tail |-> <<>>, pending |-> {}, file |-> <<>>]]
  /\ sinkFaults = 0 /\ failures = {}
  /\ port = "open"

-----------------------------------------------------------------------------
\* Connections end with the answer of their request here.
Connected == {x \in Exchanges : exchange[x].at # "new" /\ exchange[x].told = "none"}

\* server.on("connection") and the request handler.
Arrive(x) ==
  /\ port = "open" /\ exchange[x].at = "new"
  /\ exchange' = [exchange EXCEPT ![x].at = "upload",
                    ![x].over = Cardinality(Connected) >= MaxConcurrent]
  /\ UNCHANGED <<admission, pipeline, effects, streams, sinkFaults, failures, port>>

\* EventStream.complete(): behind the completions before it.
ExchangeEvent(x, sequence, outcome, own) ==
  [of |-> x, sequence |-> sequence, outcome |-> outcome, effects |-> own]
Submit(s, event) == [streams EXCEPT ![s].tail = Append(@, event)]

\* AdmissionControl.admit(): a refusal, or "none"; only the last check counts
\* what is in flight.
Refusal(a) ==
  IF a.total + 1 > MaxRun THEN "run"
  ELSE IF a.window + 1 > MaxBurst THEN "burst"
  ELSE IF a.inFlight + 1 > MaxConcurrent THEN "concurrent" ELSE "none"
AdmitOf(a) ==
  [total |-> a.total + 1,
   window |-> IF Refusal(a) = "run" THEN a.window ELSE a.window + 1,
   inFlight |-> IF Refusal(a) = "none" THEN a.inFlight + 1 ELSE a.inFlight]

\* Mutant: a request over a limit keeps the slot it was given.
ReleaseServed(x, a) ==
  IF exchange[x].outcome # "refused" /\ exchange[x].slot
  THEN [a EXCEPT !.inFlight = @ - 1] ELSE a

\* release(), for the exchange that holds a slot.
ReleaseSlot(x, a) == IF exchange[x].slot THEN [a EXCEPT !.inFlight = @ - 1] ELSE a

\* answer(): the body ended. A sequence is reserved in the stream of the plane,
\* the limits are looked at, and a request within them goes to its plane. A
\* body or a target that is too large is refused with a slot held.
BodyEnds(x, tooLarge) ==
  LET s == PlaneOf[x]
      sequence == streams[s].next
      refusal == Refusal(admission)
      refused == exchange[x].over \/ refusal # "none" \/ tooLarge
      toPlane == IF refused THEN "api" ELSE s
      reserved == [streams EXCEPT ![s].next = @ + 1]
      known == [exchange[x] EXCEPT !.sequence = sequence,
                                   !.slot = refusal = "none",
                                   !.outcome = IF refused THEN "refused" ELSE "served"]
  IN  /\ exchange[x].at = "upload"
      /\ admission' = AdmitOf(admission)
      /\ IF refused \/ s = "doc"
         THEN /\ exchange' = [exchange EXCEPT ![x] = [known EXCEPT !.at = "completing"]]
              /\ streams' = [reserved EXCEPT ![toPlane].tail =
                              Append(@, ExchangeEvent(x, sequence, known.outcome, <<>>))]
              /\ UNCHANGED pipeline
         ELSE /\ exchange' = [exchange EXCEPT ![x] =
                   [known EXCEPT !.at = "gateway", !.before = Len(effects)]]
              /\ streams' = reserved
              /\ pipeline' = Append(pipeline, x)
      /\ UNCHANGED <<effects, sinkFaults, failures, port>>

\* The gateway is done with its head, and the handler goes on: what was
\* committed since it looked is what the exchange reports. One that was
\* answered may have committed an effect.
GatewayAnswers ==
  \E commits \in BOOLEAN :
    LET x == Head(pipeline)
        all == IF commits THEN Append(effects, x) ELSE effects
        own == SubSeq(all, exchange[x].before + 1, Len(all))
    IN  /\ pipeline # <<>>
        /\ effects' = all
        /\ pipeline' = Tail(pipeline)
        /\ exchange' = [exchange EXCEPT ![x].at = "completing"]
        /\ streams' = Submit("api", ExchangeEvent(x, exchange[x].sequence, "served", own))
        /\ UNCHANGED <<admission, sinkFaults, failures, port>>

\* The catch clause: the socket gets the generic 500, the slot goes back, and
\* the sequence is completed with a minimal event, in the API stream only.
Fails(x) ==
  /\ admission' = ReleaseSlot(x, admission)
  /\ IF PlaneOf[x] = "api"
     THEN /\ exchange' = [exchange EXCEPT ![x].at = "recording", ![x].told = "failed",
                             ![x].outcome = "failed", ![x].slot = FALSE]
          /\ UNCHANGED failures
     ELSE /\ exchange' = [exchange EXCEPT ![x].at = "done", ![x].told = "failed",
                             ![x].outcome = "failed", ![x].slot = FALSE]
          /\ failures' = failures \cup {x}
FailedEvent(x) == ExchangeEvent(x, exchange[x].sequence, "failed", <<>>)

\* handleGatewayRequest() rejects.
GatewayThrows ==
  /\ pipeline # <<>>
  /\ pipeline' = Tail(pipeline)
  /\ Fails(Head(pipeline))
  /\ streams' = Submit("api", FailedEvent(Head(pipeline)))
  /\ UNCHANGED <<effects, sinkFaults, port>>

\* recordDisconnected(): the connection went before its body ended, or the
\* port was closed. The exchange takes a sequence of the API stream.
Disconnect(x) ==
  /\ exchange[x].at = "upload"
  /\ exchange' = [exchange EXCEPT ![x].at = "leaving", ![x].told = "gone",
                     ![x].outcome = "failed", ![x].sequence = streams["api"].next]
  /\ streams' = [streams EXCEPT !["api"].next = @ + 1,
        !["api"].tail = Append(@, ExchangeEvent(x, streams["api"].next, "failed", <<>>))]
  /\ UNCHANGED <<admission, pipeline, effects, sinkFaults, failures, port>>

-----------------------------------------------------------------------------
\* flushContiguous(): the event goes to the buffer, over one with its sequence,
\* and what the file waits for is appended, n records of it.
Buffered(s, event) ==
  {e \in streams[s].pending : e.sequence # event.sequence} \cup {event}
Flushable(s, events) ==
  LET from == Len(streams[s].file)
  IN  CHOOSE n \in 0 .. Cardinality(events) :
        /\ \A i \in 1 .. n : \E e \in events : e.sequence = from + i
        /\ ~\E e \in events : e.sequence = from + n + 1
Flushed(s, n) ==
  LET from == Len(streams[s].file)
      events == Buffered(s, Head(streams[s].tail))
      Record(i) == CHOOSE e \in events : e.sequence = from + i
      out == {Record(i) : i \in 1 .. n}
  IN  [streams[s] EXCEPT !.tail = Tail(@),
                        !.pending = events \ out,
                        !.file = @ \o [i \in 1 .. n |-> Record(i)]]

\* complete() resolves: the socket gets its response, the slot goes back.
CompleteRecord(s) ==
  LET event == Head(streams[s].tail)
      x == event.of
  IN  /\ streams[s].tail # <<>>
      /\ streams' = [streams EXCEPT ![s] =
                       Flushed(s, Flushable(s, Buffered(s, event)))]
      /\ CASE exchange[x].at = "completing" ->
              /\ exchange' = [exchange EXCEPT ![x].at = "done", ![x].slot = FALSE,
                                 ![x].told = exchange[x].outcome]
              /\ admission' = ReleaseSlot(x, admission)
              /\ UNCHANGED failures
         [] exchange[x].at = "recording" ->
              /\ exchange' = [exchange EXCEPT ![x].at = "done"]
              /\ failures' = failures \cup {x}
              /\ UNCHANGED admission
         [] OTHER ->
              /\ exchange' = [exchange EXCEPT ![x].at = "done"]
              /\ UNCHANGED <<admission, failures>>
      /\ UNCHANGED <<pipeline, effects, sinkFaults, port>>

\* An append throws, after n that did not: complete() rejects, whosever record
\* it was.
AppendThrows(s) ==
  LET event == Head(streams[s].tail)
      x == event.of
      contiguous == Flushable(s, Buffered(s, event))
  IN  /\ streams[s].tail # <<>> /\ contiguous > 0
      /\ sinkFaults < SinkFaults
      /\ sinkFaults' = sinkFaults + 1
      /\ \E n \in 0 .. contiguous - 1 :
           LET flushed == [streams EXCEPT ![s] = Flushed(s, n)]
           IN  IF exchange[x].at = "completing"
               THEN /\ Fails(x)
                    /\ streams' = IF PlaneOf[x] = "doc" THEN flushed
                         ELSE [flushed EXCEPT !["api"].tail = Append(@, FailedEvent(x))]
               ELSE /\ exchange' = [exchange EXCEPT ![x].at = "done"]
                    /\ streams' = flushed
                    /\ failures' = failures \cup {x}
                    /\ UNCHANGED admission
      /\ UNCHANGED <<pipeline, effects, port>>

\* The oldest requests of the window are a second old.
SecondPasses ==
  /\ \E left \in 0 .. admission.window :
       /\ left < admission.window
       /\ admission' = [admission EXCEPT !.window = left]
  /\ UNCHANGED <<exchange, pipeline, effects, streams, sinkFaults, failures, port>>

\* close(): no more connections, and those there are go; what was dispatched
\* runs on.
ClosePort ==
  /\ port = "open"
  /\ port' = "closed"
  /\ UNCHANGED <<exchange, admission, pipeline, effects, streams, sinkFaults, failures>>

\* What the exposure itself does next, and the ends of the bodies.
ExposureSteps ==
  \/ \E x \in Exchanges :
       \/ \E tooLarge \in BOOLEAN : port = "open" /\ BodyEnds(x, tooLarge)
       \/ Disconnect(x)
  \/ GatewayAnswers \/ GatewayThrows
  \/ \E s \in {"api", "doc"} : CompleteRecord(s) \/ AppendThrows(s)

ExposureNext ==
  \/ \E x \in Exchanges : Arrive(x)
  \/ ExposureSteps
  \/ SecondPasses \/ ClosePort

ExposureSpec ==
  ExposureInit /\ [][ExposureNext]_exposureVars /\ WF_exposureVars(ExposureSteps)

-----------------------------------------------------------------------------
\* A request for a document was refused by a limit: see OneRecordEach.
DocumentRefused ==
  \E x \in Exchanges : PlaneOf[x] = "doc" /\ exchange[x].outcome = "refused"
RecordsOf(s) == ToSet(streams[s].file) \cup streams[s].pending \cup ToSet(streams[s].tail)

\* The files hold the records of a run in the order of their sequences, without
\* one twice. While no append fails and no request for a document is refused,
\* nothing stays behind in a buffer at rest, what a socket got is what its
\* record says, and every committed effect is in the record of its exchange.
\* A slot is held by one exchange each, and by none at rest (exposure.ts answer,
\* AdmissionControl; trace.ts EventStream).
ExchangesAreTraced ==
  /\ \A s \in {"api", "doc"} : \A i \in DOMAIN streams[s].file :
       streams[s].file[i].sequence = i
  /\ admission.inFlight = Cardinality({x \in Exchanges : exchange[x].slot})
  /\ admission.inFlight <= MaxConcurrent
  /\ \A x \in Exchanges : exchange[x].slot => exchange[x].told = "none"
  /\ sinkFaults = 0 /\ ~DocumentRefused =>
       /\ \A x \in Exchanges : exchange[x].at = "done" =>
            \E e \in RecordsOf(IF exchange[x].outcome = "failed" THEN "api"
                              ELSE PlaneOf[x]) :
              /\ e.of = x /\ e.outcome = exchange[x].outcome
              /\ exchange[x].told \in {e.outcome, "gone"}
              /\ x \in ToSet(effects) => x \in ToSet(e.effects)
       /\ (\A x \in Exchanges : exchange[x].at \in {"new", "upload", "done"}) =>
            \A s \in {"api", "doc"} : streams[s].pending = {}

\* trace.ts: every request that reaches the data plane produces exactly one
\* api.exchange record.
OneRecordEach ==
  sinkFaults = 0 /\ (\A x \in Exchanges : exchange[x].at \in {"new", "done"}) =>
    \A x \in Exchanges : exchange[x].at = "done" /\ PlaneOf[x] = "api" =>
      Cardinality({e \in ToSet(streams["api"].file) : e.of = x}) = 1

\* exposure.ts: committedEffects are the effects this exchange committed.
EffectsAreOwn ==
  \A e \in ToSet(streams["api"].file) : ToSet(e.effects) \subseteq {e.of}

\* Every request that came is answered and leaves its record.
ExchangesEnd == \A x \in Exchanges : exchange[x].at \in {"new", "done"}
=============================================================================
