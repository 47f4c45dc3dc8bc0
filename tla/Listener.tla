------------------------------- MODULE Listener -------------------------------
(***************************************************************************)
(* The loopback gateway listener (packages/gateway/src/listener.ts): one   *)
(* closure per connection, one ingress counter and one event list shared   *)
(* by all of them. A step is one callback or one continuation after an     *)
(* await: the end of a request body, the answer of the pipeline, the       *)
(* 'finish' and 'close' events of a response stream.                       *)
(***************************************************************************)
EXTENDS Naturals, Sequences, FiniteSets

CONSTANTS
  Requests,     \* connections, one exchange each
  Serialized,   \* the gateway has a transactional state: serializeState
  Disconnects   \* an after_commit fault rule may cut a response

VARIABLES
  sequence,     \* let sequence = 0, shared by every connection
  ingress,      \* the value requestId captured when serve() ran
  body,         \* the request body of a connection
  handled,      \* the sequence handed to handleGatewayRequest, 0 before
  running,      \* pipelines started, in start order
  response,     \* let response: what the connection means to send
  wire,         \* the response stream
  events,       \* the trace records
  diagnostics,  \* requests with a client-disconnected diagnostic
  accepting     \* the server listens

listenerVars == <<sequence, ingress, body, handled, running, response, wire, events,
          diagnostics, accepting>>

ListenerInit ==
  /\ sequence = 0
  /\ ingress = [r \in Requests |-> 0]
  /\ body = [r \in Requests |-> "none"]
  /\ handled = [r \in Requests |-> 0]
  /\ running = <<>>
  /\ response = [r \in Requests |-> "none"]
  /\ wire = [r \in Requests |-> "closed"]
  /\ events = <<>>
  /\ diagnostics = {}
  /\ accepting = TRUE

-----------------------------------------------------------------------------
Recorded(r) == \E i \in DOMAIN events : events[i].request = r

\* Mutant: a served response wins over the transport error.
OutcomeOfResponse(answer, lost) ==
  IF answer = "none" THEN "disconnected" ELSE answer

\* outcomeOf(): a transport error or no response means disconnected.
OutcomeOf(answer, lost) ==
  IF lost \/ answer = "none" THEN "disconnected" ELSE answer

\* record(): the first call emits the event, and a diagnostic for a transport
\* error. The event carries the shared counter, not the request's own number.
Record(r, answer, lost) ==
  IF Recorded(r)
  THEN UNCHANGED <<events, diagnostics>>
  ELSE /\ events' = Append(events, [request |-> r, sequence |-> sequence,
                                    outcome |-> OutcomeOf(answer, lost)])
       /\ diagnostics' = IF lost THEN diagnostics \cup {r} ELSE diagnostics

\* serve(): the headers of a request arrived.
Accept(r) ==
  /\ accepting
  /\ wire[r] = "closed"
  /\ sequence' = sequence + 1
  /\ ingress' = [ingress EXCEPT ![r] = sequence + 1]
  /\ wire' = [wire EXCEPT ![r] = "open"]
  /\ body' = [body EXCEPT ![r] = "reading"]
  /\ UNCHANGED <<handled, running, response, events, diagnostics, accepting>>

\* The body is complete: the pipeline starts with the counter as it is now.
ReadBody(r) ==
  /\ body[r] = "reading"
  /\ body' = [body EXCEPT ![r] = "read"]
  /\ handled' = [handled EXCEPT ![r] = sequence]
  /\ running' = Append(running, r)
  /\ UNCHANGED <<sequence, ingress, response, wire, events, diagnostics,
                 accepting>>

\* The client left during the upload: the for await loop throws.
BodyFails(r) ==
  /\ body[r] = "reading"
  /\ body' = [body EXCEPT ![r] = "failed"]
  /\ wire' = [wire EXCEPT ![r] = "destroyed"]
  /\ Record(r, response[r], TRUE)
  /\ UNCHANGED <<sequence, ingress, handled, running, response, accepting>>

\* The pipeline of r settles: in start order over a transactional state.
Settles(r) ==
  /\ \E i \in DOMAIN running :
       /\ running[i] = r /\ (Serialized => i = 1)
       /\ running' = SubSeq(running, 1, i - 1) \o SubSeq(running, i + 1, Len(running))
  /\ UNCHANGED <<sequence, ingress, body, handled, accepting>>

\* outgoing.destroyed: the client left while the pipeline ran.
AnswerGone(r) ==
  /\ Settles(r)
  /\ wire[r] = "destroyed"
  /\ Record(r, response[r], TRUE)
  /\ UNCHANGED <<response, wire>>

\* writeResponse(): head and body are handed to the stream; a write that
\* throws hands over the internal error instead.
AnswerWritten(r) ==
  /\ Settles(r)
  /\ wire[r] = "open"
  /\ \E answer \in {"accepted", "rejected"} :
       response' = [response EXCEPT ![r] = answer]
  /\ wire' = [wire EXCEPT ![r] = "ended"]
  /\ UNCHANGED <<events, diagnostics>>

\* disconnectAfterBytes: the prefix is written and the stream is destroyed.
AnswerCut(r) ==
  /\ Settles(r)
  /\ Disconnects
  /\ wire[r] = "open"
  /\ response' = [response EXCEPT ![r] = "accepted"]
  /\ wire' = [wire EXCEPT ![r] = "destroyed"]
  /\ Record(r, "accepted", TRUE)

\* Neither the response nor the internal error could be written.
AnswerUnwritable(r) ==
  /\ Settles(r)
  /\ wire[r] = "open"
  /\ response' = [response EXCEPT ![r] = "rejected"]
  /\ wire' = [wire EXCEPT ![r] = "failed"]
  /\ Record(r, "rejected", FALSE)

\* The 'finish' event: every byte was handed to the operating system.
Finish(r) ==
  /\ wire[r] = "ended"
  /\ wire' = [wire EXCEPT ![r] = "finished"]
  /\ Record(r, response[r], FALSE)
  /\ UNCHANGED <<sequence, ingress, body, handled, running, response,
                 accepting>>

\* The 'close' event of a stream that has not finished.
Closes(r) ==
  /\ wire[r] \in {"open", "ended"}
  /\ wire' = [wire EXCEPT ![r] = "destroyed"]
  /\ Record(r, response[r], TRUE)
  /\ UNCHANGED <<sequence, ingress, body, handled, running, response,
                 accepting>>

\* close(): no more connections; the open ones are destroyed, and their
\* 'close' events follow.
Stop ==
  /\ accepting
  /\ accepting' = FALSE
  /\ UNCHANGED <<sequence, ingress, body, handled, running, response, wire,
                 events, diagnostics>>

-----------------------------------------------------------------------------
Upload(r) == ReadBody(r) \/ BodyFails(r)
Responds(r) ==
  AnswerGone(r) \/ AnswerWritten(r) \/ AnswerCut(r) \/ AnswerUnwritable(r)
Delivery(r) == Finish(r) \/ Closes(r)

ListenerNext ==
  \/ \E r \in Requests :
       Accept(r) \/ Upload(r) \/ Responds(r) \/ Delivery(r)
  \/ Stop

\* Node bounds an upload (requestTimeout), every pipeline settles, and a
\* stream that was ended finishes or closes. Nothing makes a client leave
\* while its request is being handled. No step is ever undone, so fairness to
\* the disjunction is fairness to each.
ListenerOwed ==
  \E r \in Requests :
    Upload(r) \/ Responds(r) \/ (wire[r] = "ended" /\ Delivery(r))

ListenerSpec ==
  ListenerInit /\ [][ListenerNext]_listenerVars /\ WF_listenerVars(ListenerOwed)

-----------------------------------------------------------------------------
(* Properties.                                                             *)

Responses == {"none", "accepted", "rejected"}
Event == [request : Requests, sequence : Nat,
          outcome : {"accepted", "rejected", "disconnected"}]

ListenerType ==
  /\ sequence \in Nat
  /\ ingress \in [Requests -> Nat]
  /\ body \in [Requests -> {"none", "reading", "read", "failed"}]
  /\ handled \in [Requests -> Nat]
  /\ running \in Seq(Requests)
  /\ response \in [Requests -> Responses]
  /\ wire \in [Requests -> {"closed", "open", "ended", "finished",
                            "destroyed", "failed"}]
  /\ events \in Seq(Event)
  /\ diagnostics \subseteq Requests
  /\ accepting \in BOOLEAN

\* However the end of the body, the answer, 'finish' and 'close' race, a
\* request leaves at most one trace event (AC-038).
OneEvent ==
  \A i, j \in DOMAIN events : events[i].request = events[j].request => i = j

\* A trace event tells what became of the exchange on the wire, although it is
\* written before, at or after the end of the stream: accepted means that the
\* response was delivered to its last byte (section 48.6).
OutcomeIsFinal ==
  \A i \in DOMAIN events :
    LET e == events[i] IN
      /\ e.outcome = "accepted" => wire[e.request] = "finished"
      /\ e.outcome = "rejected" => wire[e.request] \in {"finished", "failed"}
      /\ e.outcome = "disconnected" => wire[e.request] = "destroyed"

\* A disconnect, and nothing else, emits one serve-phase diagnostic
\* (listener.ts: "a disconnect also emits one bounded serve-phase diagnostic").
DisconnectDiagnosed ==
  diagnostics =
    {r \in Requests : \E i \in DOMAIN events :
       events[i].request = r /\ events[i].outcome = "disconnected"}

\* The trace is true to the wire: the three parts above together.
TraceIsTrue == ListenerType /\ OneEvent /\ OutcomeIsFinal /\ DisconnectDiagnosed

\* The sequence allocated when a request arrived is the one its pipeline runs
\* under and the one its trace event carries (section 25.4).
OwnSequence ==
  /\ \A r \in Requests : handled[r] \in {0, ingress[r]}
  /\ \A i \in DOMAIN events : events[i].sequence = ingress[events[i].request]

\* Every request that reached the listener has left its event (AC-038).
AllRecorded == \A r \in Requests : wire[r] # "closed" => Recorded(r)
=============================================================================
