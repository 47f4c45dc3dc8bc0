--------------------------- MODULE ConnectionProofs ---------------------------
(* Machine-checked proofs about what a client meets: its connections to the *)
(* listener, the pipes between behavior host and child, the commands that   *)
(* serve a directory by hand, and the pool of threads that validates, for   *)
(* every number of requests, calls, commands and jobs.                      *)
EXTENDS Listener, BehaviorHost, ServeCommand, WorkerPool, FiniteSetTheorems,
        SequenceTheorems, WellFoundedInduction, TLAPS

(***************************************************************************)
(* The listener. A request whose event was recorded is off the wire, and a *)
(* stream that was ended carries a response.                               *)
(***************************************************************************)
Over == {"finished", "destroyed", "failed"}

WireFits ==
  \A r \in Requests :
    /\ Recorded(r) => wire[r] \in Over
    /\ body[r] = "reading" => wire[r] \in {"open", "destroyed"}
    /\ wire[r] = "ended" => response[r] # "none"
    /\ wire[r] = "closed" => body[r] = "none"

\* A pipeline runs for a body that was read.
RunningFits == \A i \in DOMAIN running : body[running[i]] = "read"

ListenerInv == TraceIsTrue /\ WireFits /\ RunningFits

LEMMA EventsAre ==
  ASSUME ListenerType
  PROVE  \A i \in DOMAIN events : events[i].request \in Requests /\ Recorded(events[i].request)
<1>1. events \in Seq(Event)
  BY DEF ListenerType
<1>2. \A i \in DOMAIN events : events[i] \in Event
  BY <1>1
<1>3. \A i \in DOMAIN events : events[i].request \in Requests
  BY <1>2 DEF Event
<1> QED
  BY <1>3 DEF Recorded

\* A continuation of r that may emit its event and touches the wire of no other
\* request: what it emits is what became of the wire.
LEMMA RecordKeeps ==
  ASSUME ListenerInv, NEW r \in Requests, NEW answer \in Responses, NEW lost \in BOOLEAN,
         ListenerType', RunningFits', Record(r, answer, lost),
         \A q \in Requests \ {r} :
           wire'[q] = wire[q] /\ body'[q] = body[q] /\ response'[q] = response[q],
         Recorded(r) => wire'[r] = wire[r],
         wire'[r] \in Over, body'[r] # "reading" \/ wire'[r] = "destroyed",
         ~Recorded(r) /\ OutcomeOf(answer, lost) = "accepted" => wire'[r] = "finished",
         ~Recorded(r) /\ OutcomeOf(answer, lost) = "rejected" => wire'[r] \in {"finished", "failed"},
         ~Recorded(r) /\ OutcomeOf(answer, lost) = "disconnected" => wire'[r] = "destroyed" /\ lost
  PROVE  ListenerInv'
<1>1. ListenerType /\ OneEvent /\ OutcomeIsFinal /\ DisconnectDiagnosed /\ WireFits
  BY DEF ListenerInv, TraceIsTrue
<1>2. CASE Recorded(r)
  <2>1. UNCHANGED <<events, diagnostics>>
    BY <1>2 DEF Record
  <2>2. \A q \in Requests : Recorded(q)' <=> Recorded(q)
    BY <2>1 DEF Recorded
  <2>3. \A q \in Requests : Recorded(q) => wire'[q] = wire[q]
    OBVIOUS
  <2>4. \A i \in DOMAIN events : events[i].request \in Requests /\ Recorded(events[i].request)
    BY <1>1, EventsAre
  <2>5. OneEvent' /\ DisconnectDiagnosed'
    BY <1>1, <2>1 DEF OneEvent, DisconnectDiagnosed
  <2>6. OutcomeIsFinal'
    BY <1>1, <2>1, <2>3, <2>4 DEF OutcomeIsFinal
  <2>7. WireFits'
    BY <1>1, <2>2 DEF WireFits, Over
  <2> QED
    BY <2>5, <2>6, <2>7 DEF ListenerInv, TraceIsTrue
<1>3. CASE ~Recorded(r)
  <2>1. PICK e : e = [request |-> r, sequence |-> sequence, outcome |-> OutcomeOf(answer, lost)]
    OBVIOUS
  <2>2. /\ events' = Append(events, e)
        /\ diagnostics' = IF lost THEN diagnostics \cup {r} ELSE diagnostics
    BY <1>3, <2>1 DEF Record
  <2>3. e.request = r /\ e.outcome = OutcomeOf(answer, lost)
    BY <2>1
  <2>4. e.outcome \in {"accepted", "rejected", "disconnected"} /\ (e.outcome = "disconnected" <=> lost)
    BY <1>3, <2>3 DEF OutcomeOf, Responses
  <2>5. /\ DOMAIN events' = 1 .. Len(events) + 1 /\ DOMAIN events = 1 .. Len(events)
        /\ Len(events) \in Nat
        /\ \A i \in DOMAIN events : events'[i] = events[i]
        /\ events'[Len(events) + 1] = e
    BY <1>1, <2>2 DEF ListenerType
  <2>6. \A i \in DOMAIN events : events[i].request \in Requests \ {r}
    BY <1>1, <1>3, EventsAre
  <2>7. \A i \in DOMAIN events' : i \in DOMAIN events \/ i = Len(events) + 1
    BY <2>5
  <2>8. OneEvent'
    BY <1>1, <2>3, <2>5, <2>6, <2>7 DEF OneEvent
  <2>9. OutcomeIsFinal'
    <3>1. ASSUME NEW i \in DOMAIN events
          PROVE  /\ events[i].outcome = "accepted" => wire'[events[i].request] = "finished"
                 /\ events[i].outcome = "rejected" => wire'[events[i].request] \in {"finished", "failed"}
                 /\ events[i].outcome = "disconnected" => wire'[events[i].request] = "destroyed"
      BY <1>1, <2>6 DEF OutcomeIsFinal
    <3>2. /\ e.outcome = "accepted" => wire'[r] = "finished"
          /\ e.outcome = "rejected" => wire'[r] \in {"finished", "failed"}
          /\ e.outcome = "disconnected" => wire'[r] = "destroyed"
      BY <1>3, <2>3
    <3> QED
      BY <2>3, <2>5, <2>7, <3>1, <3>2 DEF OutcomeIsFinal
  <2>10. DisconnectDiagnosed'
    <3>1. \A q \in Requests :
            (\E i \in DOMAIN events' : events'[i].request = q /\ events'[i].outcome = "disconnected")
            <=> \/ \E i \in DOMAIN events : events[i].request = q /\ events[i].outcome = "disconnected"
                \/ q = r /\ lost
      BY <2>3, <2>4, <2>5, <2>7
    <3>2. diagnostics' = diagnostics \cup {q \in Requests : q = r /\ lost}
      BY <2>2
    <3> QED
      BY <1>1, <3>1, <3>2 DEF DisconnectDiagnosed
  <2>11. \A q \in Requests \ {r} : Recorded(q)' => Recorded(q)
    BY <2>3, <2>5, <2>7 DEF Recorded
  <2>12. WireFits'
    BY <1>1, <2>11 DEF WireFits, Over
  <2> QED
    BY <2>8, <2>9, <2>10, <2>12 DEF ListenerInv, TraceIsTrue
<1> QED
  BY <1>2, <1>3

\* A continuation that emits nothing.
LEMMA SilenceKeeps ==
  ASSUME ListenerInv, ListenerType', WireFits', RunningFits', UNCHANGED <<events, diagnostics>>,
         \A r \in Requests : wire[r] \in Over => wire'[r] = wire[r]
  PROVE  ListenerInv'
<1>1. ListenerType /\ OneEvent /\ OutcomeIsFinal /\ DisconnectDiagnosed /\ WireFits
  BY DEF ListenerInv, TraceIsTrue
<1>2. \A i \in DOMAIN events : wire'[events[i].request] = wire[events[i].request]
  BY <1>1, EventsAre DEF WireFits
<1>3. OneEvent' /\ OutcomeIsFinal' /\ DisconnectDiagnosed'
  BY <1>1, <1>2 DEF OneEvent, OutcomeIsFinal, DisconnectDiagnosed
<1> QED
  BY <1>3 DEF ListenerInv, TraceIsTrue

\* What a record appends is an event.
LEMMA RecordType ==
  ASSUME ListenerType, NEW r \in Requests, NEW answer \in Responses, NEW lost \in BOOLEAN,
         Record(r, answer, lost)
  PROVE  events' \in Seq(Event) /\ diagnostics' \subseteq Requests
<1>1. events \in Seq(Event) /\ diagnostics \subseteq Requests /\ sequence \in Nat
  BY DEF ListenerType
<1>2. OutcomeOf(answer, lost) \in {"accepted", "rejected", "disconnected"}
  BY DEF OutcomeOf, Responses
<1>3. PICK e : e = [request |-> r, sequence |-> sequence, outcome |-> OutcomeOf(answer, lost)]
  OBVIOUS
<1>4. e \in Event
  BY <1>1, <1>2, <1>3 DEF Event
<1>5. events' = Append(events, e) \/ events' = events
  BY <1>3 DEF Record
<1> HIDE DEF Event
<1>6. events' \in Seq(Event)
  BY <1>1, <1>4, <1>5, AppendProperties
<1> QED
  BY <1>1, <1>6 DEF Record

\* What is left of the pipelines when one settled.
LEMMA RunningType ==
  ASSUME running \in Seq(Requests), NEW r \in Requests, Settles(r)
  PROVE  running' \in Seq(Requests)
<1>1. PICK i \in DOMAIN running :
        running' = SubSeq(running, 1, i - 1) \o SubSeq(running, i + 1, Len(running))
  BY DEF Settles
<1>2. DOMAIN running = 1 .. Len(running) /\ Len(running) \in Nat
  BY LenProperties
<1>3. SubSeq(running, 1, i - 1) \in Seq(Requests)
  BY <1>1, <1>2, SubSeqProperties
<1>4. SubSeq(running, i + 1, Len(running)) \in Seq(Requests)
  BY <1>1, <1>2, SubSeqProperties
<1> QED
  BY <1>1, <1>3, <1>4, ConcatProperties

\* The type of everything but events, of which Record takes care.
LEMMA ListenerTypes ==
  ASSUME ListenerType, NEW r \in Requests,
         Accept(r) \/ Upload(r) \/ Responds(r) \/ Delivery(r)
  PROVE  ListenerType'
<1> USE DEF ListenerType
<1>1. ASSUME Accept(r) PROVE ListenerType'
  BY <1>1 DEF Accept
<1>2. ASSUME ReadBody(r) PROVE ListenerType'
  <2>1. running' \in Seq(Requests)
    BY <1>2, AppendProperties DEF ReadBody
  <2> QED
    BY <1>2, <2>1 DEF ReadBody
<1>3. response[r] \in Responses /\ "accepted" \in Responses /\ "rejected" \in Responses
  BY DEF Responses
<1>4. ASSUME BodyFails(r) PROVE ListenerType'
  <2>1. events' \in Seq(Event) /\ diagnostics' \subseteq Requests
    BY <1>3, <1>4, RecordType DEF BodyFails
  <2> QED
    BY <1>4, <2>1 DEF BodyFails
<1>5. ASSUME Responds(r) PROVE ListenerType'
  <2>1. Settles(r)
    BY <1>5 DEF Responds, AnswerGone, AnswerWritten, AnswerCut, AnswerUnwritable
  <2>2. running' \in Seq(Requests) /\ UNCHANGED <<sequence, ingress, body, handled, accepting>>
    BY <2>1, RunningType DEF Settles
  <2>3. CASE AnswerGone(r)
    <3>1. events' \in Seq(Event) /\ diagnostics' \subseteq Requests
      BY <1>3, <2>3, RecordType DEF AnswerGone
    <3> QED
      BY <2>2, <2>3, <3>1 DEF AnswerGone
  <2>4. CASE AnswerWritten(r)
    BY <1>3, <2>2, <2>4 DEF AnswerWritten, Responses
  <2>5. CASE AnswerCut(r)
    <3>1. events' \in Seq(Event) /\ diagnostics' \subseteq Requests
      BY <1>3, <2>5, RecordType DEF AnswerCut
    <3> QED
      BY <1>3, <2>2, <2>5, <3>1 DEF AnswerCut
  <2>6. CASE AnswerUnwritable(r)
    <3>1. events' \in Seq(Event) /\ diagnostics' \subseteq Requests
      BY <1>3, <2>6, RecordType DEF AnswerUnwritable
    <3> QED
      BY <1>3, <2>2, <2>6, <3>1 DEF AnswerUnwritable
  <2> QED
    BY <1>5, <2>3, <2>4, <2>5, <2>6 DEF Responds
<1>6. ASSUME Finish(r) PROVE ListenerType'
  <2>1. events' \in Seq(Event) /\ diagnostics' \subseteq Requests
    BY <1>3, <1>6, RecordType DEF Finish
  <2> QED
    BY <1>6, <2>1 DEF Finish
<1>7. ASSUME Closes(r) PROVE ListenerType'
  <2>1. events' \in Seq(Event) /\ diagnostics' \subseteq Requests
    BY <1>3, <1>7, RecordType DEF Closes
  <2> QED
    BY <1>7, <2>1 DEF Closes
<1> QED
  BY <1>1, <1>2, <1>4, <1>5, <1>6, <1>7 DEF Upload, Delivery

\* What is left of the pipelines is some of them.
LEMMA RunningLeft ==
  ASSUME running \in Seq(Requests), NEW r \in Requests, Settles(r)
  PROVE  \A j \in DOMAIN running' : \E k \in DOMAIN running : running'[j] = running[k]
<1>1. PICK i \in DOMAIN running :
        running' = SubSeq(running, 1, i - 1) \o SubSeq(running, i + 1, Len(running))
  BY DEF Settles
<1>2. DOMAIN running = 1 .. Len(running) /\ Len(running) \in Nat
  BY LenProperties
<1>3. PICK a : a = SubSeq(running, 1, i - 1)
  OBVIOUS
<1>4. PICK b : b = SubSeq(running, i + 1, Len(running))
  OBVIOUS
<1>5. /\ a \in Seq(Requests) /\ Len(a) = i - 1
      /\ \A j \in 1 .. i - 1 : a[j] = running[j]
  BY <1>1, <1>2, <1>3, SubSeqProperties
<1>6. /\ b \in Seq(Requests) /\ Len(b) = Len(running) - i
      /\ \A j \in 1 .. Len(running) - i : b[j] = running[i + j]
  <2>1. i \in Nat /\ i <= Len(running) /\ \A k \in i + 1 .. Len(running) : running[k] \in Requests
    BY <1>1, <1>2
  <2>2. PICK m \in Nat : m = i + 1
    BY <2>1
  <2>3. /\ SubSeq(running, m, Len(running)) \in Seq(Requests)
        /\ Len(SubSeq(running, m, Len(running))) =
             IF m <= Len(running) THEN Len(running) - m + 1 ELSE 0
        /\ \A j \in 1 .. Len(running) - m + 1 :
             SubSeq(running, m, Len(running))[j] = running[m + j - 1]
    BY <1>2, <2>1, <2>2, SubSeqProperties
  <2>4. b = SubSeq(running, m, Len(running))
    BY <1>4, <2>2
  <2>5. \A j \in 1 .. Len(running) - i : m + j - 1 = i + j /\ j \in 1 .. Len(running) - m + 1
    BY <1>2, <2>1, <2>2
  <2>6. \A j \in 1 .. Len(running) - i : b[j] = running[i + j]
    BY <2>3, <2>4, <2>5
  <2> QED
    BY <1>2, <2>1, <2>2, <2>3, <2>4, <2>6
<1>7. running' = a \o b
  BY <1>1, <1>3, <1>4
<1>8. /\ running' \in Seq(Requests) /\ Len(running') = Len(a) + Len(b)
      /\ \A j \in 1 .. Len(a) + Len(b) :
           running'[j] = IF j <= Len(a) THEN a[j] ELSE b[j - Len(a)]
  BY <1>5, <1>6, <1>7, ConcatProperties
<1>9. ASSUME NEW j \in DOMAIN running'
      PROVE  \E k \in DOMAIN running : running'[j] = running[k]
  <2>1. i \in Nat \ {0} /\ i <= Len(running) /\ j \in 1 .. Len(running) - 1
    BY <1>1, <1>2, <1>5, <1>6, <1>8, <1>9
  <2>2. CASE j < i
    <3>1. running'[j] = a[j] /\ a[j] = running[j]
      BY <1>2, <1>5, <1>6, <1>8, <2>1, <2>2
    <3> QED
      BY <1>2, <2>1, <3>1
  <2>3. CASE j >= i
    <3>1. PICK k \in Nat : k = j - (i - 1)
      BY <2>1, <2>3
    <3>2. running'[j] = b[k] /\ k \in 1 .. Len(running) - i
      <4>1. Len(a) = i - 1 /\ Len(b) = Len(running) - i
        BY <1>5, <1>6
      <4>2. j \in 1 .. Len(a) + Len(b) /\ ~(j <= Len(a)) /\ j - Len(a) = k
        BY <1>2, <2>1, <2>3, <3>1, <4>1
      <4>3. running'[j] = b[j - Len(a)]
        BY <1>8, <4>2
      <4> QED
        BY <1>2, <2>1, <2>3, <3>1, <4>2, <4>3
    <3>3. b[k] = running[i + k]
      BY <1>6, <3>2
    <3>4. i + k \in 1 .. Len(running)
      BY <1>2, <2>1, <3>2
    <3> QED
      BY <1>2, <3>2, <3>3, <3>4
  <2> QED
    BY <2>1, <2>2, <2>3
<1> QED
  BY <1>9

LEMMA RunningKeeps ==
  ASSUME ListenerType, RunningFits, WireFits, NEW r \in Requests,
         Accept(r) \/ Upload(r) \/ Responds(r) \/ Delivery(r)
  PROVE  /\ RunningFits'
         /\ Responds(r) => body[r] = "read"
<1>1. running \in Seq(Requests) /\ body \in [Requests -> {"none", "reading", "read", "failed"}]
  BY DEF ListenerType
<1>2. DOMAIN running = 1 .. Len(running) /\ \A i \in DOMAIN running : running[i] \in Requests
  BY <1>1
<1>3. CASE Responds(r)
  <2>1. Settles(r) /\ body' = body
    BY <1>3 DEF Responds, AnswerGone, AnswerWritten, AnswerCut, AnswerUnwritable, Settles
  <2>2. body[r] = "read"
    BY <2>1 DEF Settles, RunningFits
  <2>3. RunningFits'
    BY <1>1, <2>1, RunningLeft DEF RunningFits
  <2> QED
    BY <2>2, <2>3
<1>4. CASE ReadBody(r)
  <2>1. running' = Append(running, r) /\ body' = [body EXCEPT ![r] = "read"]
    BY <1>4 DEF ReadBody
  <2>2. \A i \in DOMAIN running' : running'[i] = r \/ (i \in DOMAIN running /\ running'[i] = running[i])
    BY <1>1, <2>1, AppendProperties
  <2>3. RunningFits'
    BY <1>1, <1>2, <2>1, <2>2 DEF RunningFits
  <2>4. body[r] = "reading"
    BY <1>4 DEF ReadBody
  <2> QED
    BY <1>3, <2>3
<1>5. CASE Accept(r) \/ BodyFails(r) \/ Delivery(r)
  <2>1. running' = running /\ (body[r] # "read" \/ body' = body)
    BY <1>1, <1>5 DEF Accept, BodyFails, Delivery, Finish, Closes, WireFits
  <2>2. \A q \in Requests \ {r} : body'[q] = body[q]
    BY <1>1, <1>5 DEF Accept, BodyFails, Delivery, Finish, Closes
  <2>3. RunningFits'
    BY <1>1, <1>2, <2>1, <2>2 DEF RunningFits
  <2> QED
    BY <1>3, <2>3
<1> QED
  BY <1>3, <1>4, <1>5 DEF Upload

LEMMA RequestKeeps ==
  ASSUME ListenerInv, NEW r \in Requests,
         Accept(r) \/ Upload(r) \/ Responds(r) \/ Delivery(r)
  PROVE  ListenerInv'
<1>1. /\ ListenerType /\ ListenerType' /\ WireFits /\ RunningFits'
      /\ Responds(r) => body[r] = "read"
  BY ListenerTypes, RunningKeeps DEF ListenerInv, TraceIsTrue
<1>2. response[r] \in Responses /\ "accepted" \in Responses /\ "rejected" \in Responses
  BY <1>1 DEF Responses, ListenerType
<1>3. Recorded(r) => wire[r] \in Over
  BY <1>1 DEF WireFits
<1>4. CASE Accept(r)
  <2>1. UNCHANGED <<events, diagnostics, response>> /\ \A q \in Requests : Recorded(q)' <=> Recorded(q)
    BY <1>4 DEF Accept, Recorded
  <2>2. /\ wire[r] = "closed" /\ wire' = [wire EXCEPT ![r] = "open"]
        /\ body' = [body EXCEPT ![r] = "reading"]
    BY <1>4 DEF Accept
  <2>3. WireFits'
    BY <1>1, <2>1, <2>2 DEF WireFits, ListenerType, Over
  <2> QED
    BY <1>1, <2>1, <2>2, <2>3, SilenceKeeps DEF ListenerType, Over
<1>5. CASE ReadBody(r)
  <2>1. UNCHANGED <<events, diagnostics, response, wire>> /\ \A q \in Requests : Recorded(q)' <=> Recorded(q)
    BY <1>5 DEF ReadBody, Recorded
  <2>2. body[r] = "reading" /\ body' = [body EXCEPT ![r] = "read"]
    BY <1>5 DEF ReadBody
  <2>3. WireFits'
    BY <1>1, <2>1, <2>2 DEF WireFits, ListenerType
  <2> QED
    BY <1>1, <2>1, <2>3, SilenceKeeps
<1>6. CASE BodyFails(r)
  <2>1. /\ body[r] = "reading" /\ body' = [body EXCEPT ![r] = "failed"]
        /\ wire' = [wire EXCEPT ![r] = "destroyed"] /\ response' = response
        /\ Record(r, response[r], TRUE)
    BY <1>6 DEF BodyFails
  <2>2. wire[r] \in {"open", "destroyed"}
    BY <1>1, <2>1 DEF WireFits
  <2> QED
    BY <1>1, <1>2, <1>3, <2>1, <2>2, RecordKeeps DEF ListenerType, OutcomeOf, Over
<1>7. CASE AnswerGone(r)
  <2>1. /\ wire[r] = "destroyed" /\ UNCHANGED <<response, wire, body>>
        /\ Record(r, response[r], TRUE)
    BY <1>7 DEF AnswerGone, Settles
  <2> QED
    BY <1>1, <1>2, <2>1, RecordKeeps DEF ListenerType, OutcomeOf, Over
<1>8. CASE AnswerWritten(r)
  <2>1. UNCHANGED <<events, diagnostics, body>> /\ \A q \in Requests : Recorded(q)' <=> Recorded(q)
    BY <1>8 DEF AnswerWritten, Settles, Recorded
  <2>2. PICK answer \in {"accepted", "rejected"} : response' = [response EXCEPT ![r] = answer]
    BY <1>8 DEF AnswerWritten
  <2>3. wire[r] = "open" /\ wire' = [wire EXCEPT ![r] = "ended"]
    BY <1>8 DEF AnswerWritten
  <2>4. body[r] = "read" /\ answer # "none"
    BY <1>1, <1>8 DEF Responds
  <2>5. response'[r] = answer /\ \A q \in Requests \ {r} : response'[q] = response[q]
    BY <1>1, <2>2 DEF ListenerType
  <2>6. wire'[r] = "ended" /\ \A q \in Requests \ {r} : wire'[q] = wire[q]
    BY <1>1, <2>3 DEF ListenerType
  <2>7. ~Recorded(r)
    BY <1>3, <2>3 DEF Over
  <2>8. WireFits'
    BY <1>1, <2>1, <2>4, <2>5, <2>6, <2>7 DEF WireFits
  <2> QED
    BY <1>1, <2>1, <2>3, <2>8, SilenceKeeps DEF ListenerType, Over
<1>9. CASE AnswerCut(r)
  <2>1. /\ wire[r] = "open" /\ wire' = [wire EXCEPT ![r] = "destroyed"] /\ body' = body
        /\ response' = [response EXCEPT ![r] = "accepted"]
        /\ Record(r, "accepted", TRUE)
    BY <1>9 DEF AnswerCut, Settles
  <2> QED
    BY <1>1, <1>2, <1>3, <2>1, RecordKeeps DEF ListenerType, OutcomeOf, Over
<1>10. CASE AnswerUnwritable(r)
  <2>1. /\ wire[r] = "open" /\ wire' = [wire EXCEPT ![r] = "failed"] /\ body' = body
        /\ response' = [response EXCEPT ![r] = "rejected"]
        /\ Record(r, "rejected", FALSE)
    BY <1>10 DEF AnswerUnwritable, Settles
  <2>2. body[r] = "read"
    BY <1>1, <1>10 DEF Responds
  <2> QED
    BY <1>1, <2>2, <1>2, <1>3, <2>1, RecordKeeps DEF ListenerType, OutcomeOf, Over
<1>11. CASE Finish(r)
  <2>1. /\ wire[r] = "ended" /\ wire' = [wire EXCEPT ![r] = "finished"]
        /\ UNCHANGED <<body, response>> /\ Record(r, response[r], FALSE)
    BY <1>11 DEF Finish
  <2>2. response[r] \in {"accepted", "rejected"} /\ body[r] # "reading"
    BY <1>1, <1>2, <2>1 DEF WireFits, Responses
  <2> QED
    BY <1>1, <1>2, <1>3, <2>1, <2>2, RecordKeeps DEF ListenerType, OutcomeOf, Over
<1>12. CASE Closes(r)
  <2>1. /\ wire[r] \in {"open", "ended"} /\ wire' = [wire EXCEPT ![r] = "destroyed"]
        /\ UNCHANGED <<body, response>> /\ Record(r, response[r], TRUE)
    BY <1>12 DEF Closes
  <2> QED
    BY <1>1, <1>2, <1>3, <2>1, RecordKeeps DEF ListenerType, OutcomeOf, Over
<1> QED
  BY <1>4, <1>5, <1>6, <1>7, <1>8, <1>9, <1>10, <1>11, <1>12 DEF Upload, Responds, Delivery

LEMMA ListenerSteps == ListenerInv /\ [ListenerNext]_listenerVars => ListenerInv'
<1> SUFFICES ASSUME ListenerInv, [ListenerNext]_listenerVars PROVE ListenerInv'
  OBVIOUS
<1>1. CASE Stop \/ UNCHANGED listenerVars
  <2>1. UNCHANGED <<sequence, ingress, body, handled, running, response, wire, events,
                    diagnostics>> /\ accepting' \in {accepting, FALSE}
    BY <1>1 DEF Stop, listenerVars
  <2>2. ListenerType'
    BY <2>1 DEF ListenerInv, TraceIsTrue, ListenerType
  <2>3. WireFits' /\ RunningFits'
    BY <2>1 DEF ListenerInv, WireFits, RunningFits, Recorded
  <2> QED
    BY <2>1, <2>2, <2>3, SilenceKeeps
<1> QED
  BY <1>1, RequestKeeps DEF ListenerNext

\* However the end of a body, the answer of the pipeline, 'finish' and 'close' race
\* on however many connections: a request leaves at most one trace event, the event
\* tells what became of it on the wire, and a disconnect is diagnosed, and nothing
\* else is (listener.ts record, outcomeOf and the handlers of a response stream).
THEOREM TracesAreTrue == ListenerSpec => []TraceIsTrue
<1>1. ListenerInit => ListenerInv
  <2> SUFFICES ASSUME ListenerInit PROVE ListenerInv
    OBVIOUS
  <2>1. ListenerType
    BY EmptySeq DEF ListenerInit, ListenerType, Responses
  <2> QED
    BY <2>1 DEF ListenerInit, ListenerInv, TraceIsTrue, OneEvent, OutcomeIsFinal,
                DisconnectDiagnosed, WireFits, RunningFits, Recorded
<1>2. ListenerSpec => []ListenerInv
  BY <1>1, ListenerSteps, PTL DEF ListenerSpec
<1>3. ListenerInv => TraceIsTrue
  BY DEF ListenerInv
<1> QED
  BY <1>2, <1>3, PTL

(***************************************************************************)
(* The behavior host. Which call an id is of is known wherever the id is,  *)
(* and ids grow in the order the host gave them.                           *)
(***************************************************************************)
PendingFits ==
  /\ \A p \in pending : p.id \in 1 .. nextId
  /\ \A p, q \in pending : p.id = q.id \/ p.call = q.call => p = q

\* A message in the pipe, with the child or answered by a line is of the call that
\* waits under its id.
IdsAgree ==
  \A p \in pending :
    /\ \A i \in DOMAIN stdin : stdin[i].id = p.id => stdin[i].call = p.call
    /\ current.id = p.id => current.call = p.call
    /\ \A i \in DOMAIN stdout : stdout[i].id = p.id => stdout[i].of = p.call

IdsGrow ==
  /\ \A i \in DOMAIN stdin : stdin[i].id \in 1 .. nextId
  /\ \A i, j \in DOMAIN stdin : i < j => stdin[i].id < stdin[j].id
  /\ \A i \in DOMAIN served, j \in DOMAIN stdin : served[i] < stdin[j].id
  /\ \A i \in DOMAIN served : served[i] <= nextId
  /\ current.id <= nextId
  /\ \A i \in DOMAIN stdout : stdout[i].id <= nextId

BusyFits ==
  /\ IF child = "busy" THEN current \in Message ELSE current = NoMessage
  /\ host = "new" => child = "none"

HostInv == Correlated /\ PendingFits /\ IdsAgree /\ IdsGrow /\ BusyFits

\* Types, taken apart.
LEMMA HostTypes ==
  ASSUME HostType
  PROVE  /\ \A p \in pending : p.id \in Nat /\ p.call \in AllCalls
         /\ \A i \in DOMAIN stdin : stdin[i] \in Message /\ stdin[i].id \in Nat
                                    /\ stdin[i].call \in AllCalls
         /\ \A i \in DOMAIN stdout : stdout[i].id \in Nat /\ stdout[i].of \in AllCalls
                                     /\ stdout[i].kind \in ReplyKinds
         /\ \A i \in DOMAIN served : served[i] \in Nat
         /\ DOMAIN stdin = 1 .. Len(stdin) /\ Len(stdin) \in Nat
         /\ DOMAIN stdout = 1 .. Len(stdout) /\ Len(stdout) \in Nat
         /\ DOMAIN served = 1 .. Len(served) /\ Len(served) \in Nat
         /\ current.id \in Nat
<1>1. \A p \in pending : p.id \in Nat /\ p.call \in AllCalls
  BY DEF HostType, Message
<1>2. \A i \in DOMAIN stdin : stdin[i] \in Message
  BY DEF HostType
<1>3. \A i \in DOMAIN stdout : stdout[i] \in Line
  BY DEF HostType
<1>4. \A i \in DOMAIN served : served[i] \in Nat
  BY DEF HostType
<1>5. /\ DOMAIN stdin = 1 .. Len(stdin) /\ Len(stdin) \in Nat
      /\ DOMAIN stdout = 1 .. Len(stdout) /\ Len(stdout) \in Nat
      /\ DOMAIN served = 1 .. Len(served) /\ Len(served) \in Nat
  BY DEF HostType
<1>6. current.id \in Nat
  BY DEF HostType, Message, NoMessage
<1>7. \A m \in Message : m.id \in Nat /\ m.call \in AllCalls
  BY DEF Message
<1>8. \A l \in Line : l.id \in Nat /\ l.of \in AllCalls /\ l.kind \in ReplyKinds
  BY DEF Line
<1> HIDE DEF Message, Line
<1> QED
  BY <1>1, <1>2, <1>3, <1>4, <1>5, <1>6, <1>7, <1>8

\* A call is sent under an id nobody has.
LEMMA SendKeeps ==
  ASSUME HostInv, NEW c \in AllCalls, Send(c),
         UNCHANGED <<stdout, current, served>>, host' \in {"starting", "open", "closing", "closed",
           "abandoned"}, child' \in {"none", "idle", "busy", "exited"},
         child' = child \/ (child # "busy" /\ child' = "idle"), exitSeen' = exitSeen
  PROVE  HostInv'
<1>1. HostType /\ OwnReply /\ PendingIsWaiting /\ ServedInOrder
  BY DEF HostInv, Correlated
<1>2. PICK n : n = nextId + 1
  OBVIOUS
<1>3. PICK m : m = [id |-> n, call |-> c]
  OBVIOUS
<1>4. /\ outcome[c] = Unsent /\ nextId' = n /\ pending' = pending \cup {m}
      /\ outcome' = [outcome EXCEPT ![c] = Awaited]
      /\ stdin' = stdin \/ stdin' = Append(stdin, m)
  BY <1>2, <1>3 DEF Send, TakeId
<1>5. n \in Nat /\ n = nextId + 1 /\ nextId \in Nat /\ m.id = n /\ m.call = c
  BY <1>1, <1>2, <1>3 DEF HostType
<1>6. m \in Message
  BY <1>3, <1>5 DEF Message
<1>7. c \notin {p.call : p \in pending}
  BY <1>1, <1>4 DEF PendingIsWaiting, Unsent, Awaited
<1>8. /\ stdin' \in Seq(Message)
      /\ \A i \in DOMAIN stdin' : \/ i \in DOMAIN stdin /\ stdin'[i] = stdin[i]
                                  \/ i = Len(stdin) + 1 /\ stdin'[i] = m
  <2> HIDE DEF Message
  <2>1. stdin \in Seq(Message)
    BY <1>1 DEF HostType
  <2>2. Append(stdin, m) \in Seq(Message)
        /\ \A i \in DOMAIN Append(stdin, m) :
             \/ i \in DOMAIN stdin /\ Append(stdin, m)[i] = stdin[i]
             \/ i = Len(stdin) + 1 /\ Append(stdin, m)[i] = m
    BY <1>6, <2>1, AppendProperties
  <2> QED
    BY <1>4, <2>1, <2>2
<1>9. HostType'
  <2>1. Awaited \in Outcome
    BY DEF Awaited, Outcome
  <2>2. outcome' \in [AllCalls -> Outcome]
    BY <1>1, <1>4, <2>1 DEF HostType
  <2>3. pending' \subseteq Message
    BY <1>1, <1>4, <1>6 DEF HostType
  <2> HIDE DEF Message, Outcome
  <2> QED
    BY <1>1, <1>4, <1>5, <1>8, <2>2, <2>3 DEF HostType
<1>10. OwnReply'
  BY <1>1, <1>4 DEF OwnReply, HostType, Awaited, ReplyKinds
<1>11. PendingIsWaiting'
  <2>1. \A d \in AllCalls : outcome'[d] = Awaited <=> d = c \/ outcome[d] = Awaited
    BY <1>1, <1>4 DEF HostType
  <2>2. {p.call : p \in pending'} = {p.call : p \in pending} \cup {c}
    BY <1>4, <1>5
  <2> QED
    BY <1>1, <2>1, <2>2 DEF PendingIsWaiting
<1>12. ServedInOrder'
  BY <1>1 DEF ServedInOrder
<1>13. PendingFits'
  BY <1>1, <1>4, <1>5, <1>7, HostTypes DEF HostInv, PendingFits
<1>14. IdsAgree'
  <2>1. ASSUME NEW p \in pending' PROVE p \in pending \/ p = m
    BY <1>4, <2>1
  <2>2. ASSUME NEW p \in pending
        PROVE  /\ \A i \in DOMAIN stdin' : stdin'[i].id = p.id => stdin'[i].call = p.call
               /\ current.id = p.id => current.call = p.call
               /\ \A i \in DOMAIN stdout : stdout[i].id = p.id => stdout[i].of = p.call
    <3>1. p.id \in 1 .. nextId
      BY DEF HostInv, PendingFits
    <3>2. p.id # n
      BY <1>5, <3>1
    <3>3. /\ \A i \in DOMAIN stdin : stdin[i].id = p.id => stdin[i].call = p.call
          /\ current.id = p.id => current.call = p.call
          /\ \A i \in DOMAIN stdout : stdout[i].id = p.id => stdout[i].of = p.call
      BY DEF HostInv, IdsAgree
    <3> QED
      BY <1>5, <1>8, <3>2, <3>3
  <2>3. /\ \A i \in DOMAIN stdin' : stdin'[i].id = n => stdin'[i].call = c
        /\ current.id # n
        /\ \A i \in DOMAIN stdout : stdout[i].id # n
    BY <1>1, <1>5, <1>8, HostTypes DEF HostInv, IdsGrow
  <2> QED
    BY <1>5, <2>1, <2>2, <2>3 DEF IdsAgree
<1>15. IdsGrow'
  <2>1. IdsGrow
    BY DEF HostInv
  <2>2. \A i \in DOMAIN stdin' :
          \/ i \in DOMAIN stdin /\ stdin'[i].id = stdin[i].id
          \/ i = Len(stdin) + 1 /\ stdin'[i].id = n
    BY <1>5, <1>8
  <2>3. \A i \in DOMAIN stdin : i < Len(stdin) + 1 /\ stdin[i].id \in 1 .. nextId
    BY <1>1, <2>1, HostTypes DEF IdsGrow
  <2>4. \A i \in DOMAIN served : served[i] \in Nat /\ served[i] < n
    BY <1>1, <1>5, <2>1, HostTypes DEF IdsGrow
  <2>5. \A i \in DOMAIN stdin' : stdin'[i].id \in 1 .. nextId'
    BY <1>4, <1>5, <2>2, <2>3
  <2>6. \A i, j \in DOMAIN stdin' : i < j => stdin'[i].id < stdin'[j].id
    BY <1>1, <1>5, <2>1, <2>2, <2>3, HostTypes DEF IdsGrow
  <2>7. \A i \in DOMAIN served, j \in DOMAIN stdin' : served[i] < stdin'[j].id
    BY <2>1, <2>2, <2>4 DEF IdsGrow
  <2>8. /\ current.id <= nextId'
        /\ \A i \in DOMAIN served : served[i] <= nextId'
        /\ \A i \in DOMAIN stdout : stdout[i].id <= nextId'
    BY <1>1, <1>4, <1>5, <2>1, HostTypes DEF IdsGrow
  <2> QED
    BY <2>5, <2>6, <2>7, <2>8 DEF IdsGrow
<1>16. BusyFits'
  BY DEF HostInv, BusyFits
<1> QED
  BY <1>9, <1>10, <1>11, <1>12, <1>13, <1>14, <1>15, <1>16 DEF HostInv, Correlated

\* Calls are settled otherwise than by a reply, or by their own.
LEMMA SettleKeeps ==
  ASSUME HostInv, NEW settled \in SUBSET AllCalls,
         UNCHANGED <<host, nextId, stdin, child, current, served>>,
         exitSeen' \in BOOLEAN,
         stdout' \in Seq(Line),
         \A i \in DOMAIN stdout' : \E j \in DOMAIN stdout : stdout'[i] = stdout[j],
         outcome' \in [AllCalls -> Outcome],
         pending' = {p \in pending : p.call \notin settled},
         \A c \in AllCalls : IF c \in settled
                             THEN /\ outcome'[c] # Awaited
                                  /\ outcome'[c].kind \in ReplyKinds => outcome'[c].of = c
                             ELSE outcome'[c] = outcome[c]
  PROVE  HostInv'
<1>1. HostType /\ OwnReply /\ PendingIsWaiting /\ ServedInOrder
  BY DEF HostInv, Correlated
<1>2. HostType'
  BY <1>1 DEF HostType
<1>3. OwnReply'
  BY <1>1 DEF OwnReply
<1>4. PendingIsWaiting'
  <2>1. \A c \in AllCalls : outcome'[c] = Awaited <=> c \notin settled /\ outcome[c] = Awaited
    OBVIOUS
  <2>2. {p.call : p \in pending'} = {p.call : p \in pending} \ settled
    OBVIOUS
  <2> QED
    BY <1>1, <2>1, <2>2 DEF PendingIsWaiting
<1>5. ServedInOrder'
  BY <1>1 DEF ServedInOrder
<1>6. PendingFits' /\ IdsAgree' /\ IdsGrow' /\ BusyFits'
  BY DEF HostInv, PendingFits, IdsAgree, IdsGrow, BusyFits
<1> QED
  BY <1>2, <1>3, <1>4, <1>5, <1>6 DEF HostInv, Correlated

\* The child works, or is gone.
LEMMA ChildKeeps ==
  ASSUME HostInv, HostType', UNCHANGED <<nextId, pending, outcome>>,
         ServedInOrder', IdsAgree', IdsGrow', BusyFits'
  PROVE  HostInv'
  BY DEF HostInv, Correlated, OwnReply, PendingIsWaiting, PendingFits

\* What the pipe loses at its end, or all of it.
Shorter(pipe, of) ==
  \/ pipe = of
  \/ pipe = <<>>
  \/ /\ of # <<>> /\ pipe = Tail(of)

LEMMA ShorterIs ==
  ASSUME NEW S, NEW of \in Seq(S), NEW pipe, Shorter(pipe, of)
  PROVE  /\ pipe \in Seq(S)
         /\ \A i \in DOMAIN pipe : \/ i \in DOMAIN of /\ pipe[i] = of[i] /\ pipe = of
                                   \/ i + 1 \in DOMAIN of /\ pipe[i] = of[i + 1] /\ pipe = Tail(of)
<1>1. CASE pipe = of
  BY <1>1
<1>2. CASE pipe = <<>>
  BY <1>2, EmptySeq
<1>3. CASE of # <<>> /\ pipe = Tail(of)
  <2>1. /\ pipe \in Seq(S) /\ Len(pipe) = Len(of) - 1
        /\ \A i \in 1 .. Len(pipe) : pipe[i] = of[i + 1]
    BY <1>3, HeadTailProperties
  <2>2. /\ DOMAIN of = 1 .. Len(of) /\ Len(of) \in Nat
        /\ DOMAIN pipe = 1 .. Len(pipe) /\ Len(pipe) \in Nat
    BY <2>1, LenProperties
  <2>3. \A i \in DOMAIN pipe : i + 1 \in DOMAIN of /\ pipe[i] = of[i + 1]
    BY <2>1, <2>2
  <2> QED
    BY <1>3, <2>1, <2>3
<1> QED
  BY <1>1, <1>2, <1>3 DEF Shorter

\* Ids still grow in a pipe that lost its first message or all of them.
LEMMA PipeShrinks ==
  ASSUME HostType, IdsGrow, IdsAgree, Shorter(stdin', stdin)
  PROVE  /\ stdin' \in Seq(Message)
         /\ \A i \in DOMAIN stdin' : stdin'[i].id \in 1 .. nextId
         /\ \A i, j \in DOMAIN stdin' : i < j => stdin'[i].id < stdin'[j].id
         /\ \A i \in DOMAIN served, j \in DOMAIN stdin' : served[i] < stdin'[j].id
         /\ \A p \in pending : \A i \in DOMAIN stdin' :
              stdin'[i].id = p.id => stdin'[i].call = p.call
<1>1. stdin \in Seq(Message)
  BY DEF HostType
<1> HIDE DEF Message
<1>2. /\ stdin' \in Seq(Message)
      /\ \A i \in DOMAIN stdin' :
           \/ i \in DOMAIN stdin /\ stdin'[i] = stdin[i] /\ stdin' = stdin
           \/ i + 1 \in DOMAIN stdin /\ stdin'[i] = stdin[i + 1] /\ stdin' = Tail(stdin)
  BY <1>1, ShorterIs
<1>3. \A i \in DOMAIN stdin' : i \in Nat
  BY <1>2, LenProperties
<1>4. \A i \in DOMAIN stdin' : \E j \in DOMAIN stdin : stdin'[i] = stdin[j]
  BY <1>2
<1>5. \A i, j \in DOMAIN stdin' : i < j =>
        \E k, l \in DOMAIN stdin : k < l /\ stdin'[i] = stdin[k] /\ stdin'[j] = stdin[l]
  <2> SUFFICES ASSUME NEW i \in DOMAIN stdin', NEW j \in DOMAIN stdin', i < j
               PROVE  \E k, l \in DOMAIN stdin : k < l /\ stdin'[i] = stdin[k] /\ stdin'[j] = stdin[l]
    OBVIOUS
  <2>1. CASE stdin' = stdin
    BY <2>1
  <2>2. CASE stdin' # stdin
    <3>1. /\ i + 1 \in DOMAIN stdin /\ stdin'[i] = stdin[i + 1]
          /\ j + 1 \in DOMAIN stdin /\ stdin'[j] = stdin[j + 1]
      BY <1>2, <2>2
    <3>2. i + 1 < j + 1
      BY <1>3
    <3> QED
      BY <3>1, <3>2
  <2> QED
    BY <2>1, <2>2
<1>6. \A i, j \in DOMAIN stdin' : i < j => stdin'[i].id < stdin'[j].id
  BY <1>5 DEF IdsGrow
<1> QED
  BY <1>2, <1>4, <1>6 DEF IdsGrow, IdsAgree

LEMMA TakeKeeps ==
  ASSUME HostInv, Take
  PROVE  HostInv'
<1>1. HostType /\ ServedInOrder /\ IdsGrow /\ IdsAgree
  BY DEF HostInv, Correlated
<1>2. /\ stdin # <<>> /\ child' = "busy" /\ stdin' = Tail(stdin)
      /\ UNCHANGED <<host, nextId, pending, outcome, stdout, exitSeen>>
  BY DEF Take
<1>3. PICK m : m = Head(stdin)
  OBVIOUS
<1>4. current' = m /\ served' = Append(served, m.id)
  BY <1>3 DEF Take
<1>5. stdin \in Seq(Message) /\ served \in Seq(Nat)
  BY <1>1 DEF HostType
<1> HIDE DEF Message
<1>6. 1 \in DOMAIN stdin /\ m = stdin[1] /\ m \in Message
  BY <1>2, <1>3, <1>5, HeadTailProperties, LenProperties
<1>7. m.id \in Nat /\ m.id \in 1 .. nextId
  BY <1>1, <1>6, HostTypes DEF IdsGrow
<1>8. Shorter(stdin', stdin)
  BY <1>2 DEF Shorter
<1>9. \A i \in DOMAIN stdin' : stdin'[i].id \in 1 .. nextId /\ m.id < stdin'[i].id
  <2>1. /\ Len(stdin') = Len(stdin) - 1 /\ stdin' \in Seq(Message)
        /\ \A i \in 1 .. Len(stdin') : stdin'[i] = stdin[i + 1]
    BY <1>2, <1>5, HeadTailProperties
  <2>2. ASSUME NEW i \in DOMAIN stdin' PROVE m.id < stdin'[i].id
    <3>1. i \in Nat /\ 1 <= i /\ i + 1 \in DOMAIN stdin /\ stdin'[i] = stdin[i + 1]
      BY <1>5, <2>1, <2>2, LenProperties
    <3> QED
      BY <1>1, <1>6, <3>1 DEF IdsGrow
  <2> QED
    BY <1>1, <1>8, <2>2, PipeShrinks
<1>10. /\ served' \in Seq(Nat)
       /\ \A i \in DOMAIN served' : \/ i \in DOMAIN served /\ served'[i] = served[i]
                                    \/ i = Len(served) + 1 /\ served'[i] = m.id
       /\ \A i \in DOMAIN served : i \in Nat /\ i < Len(served) + 1
  BY <1>4, <1>5, <1>7, AppendProperties, LenProperties
<1>11. \A i \in DOMAIN served : served[i] < m.id /\ served[i] \in Nat
  BY <1>1, <1>6, HostTypes DEF IdsGrow
<1>12. HostType'
  BY <1>1, <1>2, <1>4, <1>6, <1>8, <1>10, PipeShrinks DEF HostType
<1>13. ServedInOrder'
  <2> SUFFICES ASSUME NEW i \in DOMAIN served', NEW j \in DOMAIN served', i < j
               PROVE  served'[i] < served'[j]
    BY DEF ServedInOrder
  <2>1. i \in DOMAIN served /\ served'[i] = served[i]
    <3>1. Len(served) \in Nat /\ DOMAIN served' = 1 .. Len(served) + 1
      BY <1>4, <1>5, <1>7, AppendProperties, LenProperties
    <3> QED
      BY <1>10, <3>1
  <2> QED
    BY <1>1, <1>10, <1>11, <2>1 DEF ServedInOrder
<1>14. IdsAgree'
  BY <1>1, <1>2, <1>4, <1>6, <1>8, PipeShrinks DEF IdsAgree
<1>15. IdsGrow'
  <2>1. \A i \in DOMAIN served', j \in DOMAIN stdin' : served'[i] < stdin'[j].id
    BY <1>1, <1>8, <1>9, <1>10, PipeShrinks
  <2>2. \A i \in DOMAIN served' : served'[i] <= nextId
    BY <1>1, <1>7, <1>10 DEF IdsGrow
  <2>3. m.id <= nextId
    BY <1>7
  <2> QED
    BY <1>1, <1>2, <1>4, <1>8, <2>1, <2>2, <2>3, PipeShrinks DEF IdsGrow
<1>16. BusyFits'
  BY <1>2, <1>4, <1>6 DEF BusyFits, HostInv, Take
<1> QED
  BY <1>2, <1>12, <1>13, <1>14, <1>15, <1>16, ChildKeeps

\* A child that replies or stops: its message is gone, and its pipe maybe too.
LEMMA LeaveKeeps ==
  ASSUME HostInv, UNCHANGED <<nextId, pending, outcome, served, exitSeen>>,
         host' \in {"new", "starting", "open", "closing", "closed", "abandoned"},
         host' = "new" => child' = "none",
         Shorter(stdin', stdin),
         \/ child' \in {"none", "idle", "exited"} /\ current' = NoMessage
         \/ child' = child /\ current' = current,
         child' \in {"none", "idle", "busy", "exited"},
         stdout' \in Seq(Line),
         \A i \in DOMAIN stdout' : \/ \E j \in DOMAIN stdout : stdout'[i] = stdout[j]
                                   \/ stdout'[i].id = current.id /\ stdout'[i].of = current.call
  PROVE  HostInv'
<1>1. HostType /\ ServedInOrder /\ IdsGrow /\ IdsAgree /\ BusyFits /\ PendingFits
  BY DEF HostInv, Correlated
<1>2. HostType'
  <2>1. current' \in Message \cup {NoMessage}
    BY <1>1 DEF HostType
  <2>2. stdin' \in Seq(Message)
    BY <1>1, PipeShrinks
  <2> HIDE DEF Message, Line, NoMessage
  <2> QED
    BY <1>1, <2>1, <2>2 DEF HostType
<1>3. NoMessage.id = 0 /\ \A p \in pending : p.id # 0
  BY <1>1 DEF NoMessage, PendingFits
<1>4. IdsAgree'
  <2> SUFFICES ASSUME NEW p \in pending
               PROVE  /\ \A i \in DOMAIN stdin' : stdin'[i].id = p.id => stdin'[i].call = p.call
                      /\ current'.id = p.id => current'.call = p.call
                      /\ \A i \in DOMAIN stdout' : stdout'[i].id = p.id => stdout'[i].of = p.call
    BY DEF IdsAgree
  <2>1. /\ \A i \in DOMAIN stdout : stdout[i].id = p.id => stdout[i].of = p.call
        /\ current.id = p.id => current.call = p.call
    BY <1>1 DEF IdsAgree
  <2>2. \A i \in DOMAIN stdout' : stdout'[i].id = p.id => stdout'[i].of = p.call
    BY <2>1
  <2>3. current'.id = p.id => current'.call = p.call
    BY <1>3, <2>1
  <2> QED
    BY <1>1, <2>2, <2>3, PipeShrinks
<1>5. IdsGrow'
  <2>1. current'.id <= nextId
    BY <1>1, <1>3 DEF IdsGrow, HostType
  <2>2. \A i \in DOMAIN stdout' : stdout'[i].id <= nextId
    BY <1>1 DEF IdsGrow
  <2> QED
    BY <1>1, <2>1, <2>2, PipeShrinks DEF IdsGrow
<1>6. BusyFits' /\ ServedInOrder'
  BY <1>1 DEF BusyFits, ServedInOrder
<1> QED
  BY <1>2, <1>4, <1>5, <1>6, ChildKeeps

LEMMA ReplyKeeps ==
  ASSUME HostInv, Reply
  PROVE  HostInv'
<1>1. HostType /\ BusyFits /\ child = "busy" /\ current' = NoMessage
      /\ UNCHANGED <<host, nextId, pending, outcome, served, exitSeen>>
  BY DEF HostInv, Correlated, Reply
<1>2. PICK kind \in ReplyKinds, fits \in BOOLEAN :
        stdout' = Append(stdout, [id |-> current.id, of |-> current.call,
                                  kind |-> kind, fits |-> fits])
  BY DEF Reply
<1>3. PICK line : line = [id |-> current.id, of |-> current.call, kind |-> kind, fits |-> fits]
  OBVIOUS
<1>4. current \in Message
  BY <1>1 DEF BusyFits
<1>5. current.id \in Nat /\ current.call \in AllCalls
  BY <1>4 DEF Message
<1>6. line \in Line
  BY <1>3, <1>5 DEF Line
<1>7. line.id = current.id /\ line.of = current.call
  BY <1>3
<1>8. stdout \in Seq(Line) /\ stdout' = Append(stdout, line)
  BY <1>1, <1>2, <1>3 DEF HostType
<1>9. /\ stdout' \in Seq(Line)
      /\ \A i \in DOMAIN stdout' : \/ \E j \in DOMAIN stdout : stdout'[i] = stdout[j]
                                   \/ stdout'[i] = line
  <2> HIDE DEF Line
  <2>1. /\ stdout' \in Seq(Line) /\ Len(stdout') = Len(stdout) + 1
        /\ \A i \in 1 .. Len(stdout) : stdout'[i] = stdout[i]
        /\ stdout'[Len(stdout) + 1] = line
    BY <1>6, <1>8, AppendProperties
  <2>2. /\ DOMAIN stdout = 1 .. Len(stdout) /\ Len(stdout) \in Nat
        /\ DOMAIN stdout' = 1 .. Len(stdout')
    BY <1>8, <2>1, LenProperties
  <2> QED
    BY <2>1, <2>2
<1>10. \A i \in DOMAIN stdout' : \/ \E j \in DOMAIN stdout : stdout'[i] = stdout[j]
                                 \/ stdout'[i].id = current.id /\ stdout'[i].of = current.call
  BY <1>7, <1>9
<1>11. child' \in {"idle", "exited"} /\ Shorter(stdin', stdin)
  BY DEF Reply, Shorter
<1>12. /\ host' \in {"new", "starting", "open", "closing", "closed", "abandoned"}
       /\ host' = "new" => child' = "none"
  BY <1>1 DEF HostType, BusyFits
<1> HIDE DEF Line
<1> QED
  BY <1>1, <1>9, <1>10, <1>11, <1>12, LeaveKeeps

\* A line settles the call that waits under its id, which is the call it answers.
LEMMA ReceiveKeeps ==
  ASSUME HostInv, Receive
  PROVE  HostInv'
<1>1. HostType /\ PendingIsWaiting /\ PendingFits /\ IdsAgree
  BY DEF HostInv, Correlated
<1>2. PICK line : line = Head(stdout)
  OBVIOUS
<1>3. PICK waiting : waiting = {p \in pending : p.id = line.id}
  OBVIOUS
<1>4. /\ stdout # <<>> /\ stdout' = Tail(stdout)
      /\ UNCHANGED <<host, nextId, stdin, child, current, served, exitSeen>>
  BY DEF Receive
<1>5. \/ /\ pending' = pending \ waiting
         /\ outcome' = [c \in AllCalls |->
                IF \E p \in waiting : p.call = c
                THEN [kind |-> line.kind, of |-> line.of] ELSE outcome[c]]
      \/ UNCHANGED <<pending, outcome>>
  BY <1>2, <1>3 DEF Receive
<1>6. stdout \in Seq(Line)
  BY <1>1 DEF HostType
<1> HIDE DEF Line
<1>7. 1 \in DOMAIN stdout /\ line = stdout[1] /\ line \in Line
  BY <1>2, <1>4, <1>6, HeadTailProperties, LenProperties
<1>8. line.kind \in ReplyKinds /\ line.of \in AllCalls
  BY <1>1, <1>7, HostTypes
<1>9. /\ stdout' \in Seq(Line)
      /\ \A i \in DOMAIN stdout' : \E j \in DOMAIN stdout : stdout'[i] = stdout[j]
  BY <1>4, <1>6, ShorterIs DEF Shorter
<1>10. CASE UNCHANGED <<pending, outcome>>
  <2>1. {} \in SUBSET AllCalls /\ pending' = {p \in pending : p.call \notin {}}
    BY <1>10
  <2>2. outcome' \in [AllCalls -> Outcome] /\ exitSeen' \in BOOLEAN
    BY <1>1, <1>4, <1>10 DEF HostType
  <2> QED
    BY <1>4, <1>9, <1>10, <2>1, <2>2, SettleKeeps
<1>11. CASE /\ pending' = pending \ waiting
            /\ outcome' = [c \in AllCalls |->
                  IF \E p \in waiting : p.call = c
                  THEN [kind |-> line.kind, of |-> line.of] ELSE outcome[c]]
  <2>1. PICK settled : settled = {p.call : p \in waiting}
    OBVIOUS
  <2>2. PICK result : result = [kind |-> line.kind, of |-> line.of]
    OBVIOUS
  <2>3. result.kind = line.kind /\ result.of = line.of
    BY <2>2
  <2>4. result \in Outcome
    BY <1>8, <2>2 DEF Outcome
  <2>5. settled \in SUBSET AllCalls
    BY <1>1, <1>3, <2>1, HostTypes
  <2>6. pending' = {p \in pending : p.call \notin settled}
    <3>1. \A p \in pending : p \in waiting <=> p.call \in settled
      BY <1>1, <1>3, <2>1 DEF PendingFits
    <3> QED
      BY <1>11, <3>1
  <2>7. outcome' = [c \in AllCalls |-> IF c \in settled THEN result ELSE outcome[c]]
    BY <1>11, <2>1, <2>2
  <2>8. outcome' \in [AllCalls -> Outcome]
    <3>1. outcome \in [AllCalls -> Outcome]
      BY <1>1 DEF HostType
    <3> HIDE DEF Outcome
    <3> QED
      BY <2>4, <2>7, <3>1
  <2>9. \A c \in settled : line.of = c
    BY <1>1, <1>3, <1>7, <2>1 DEF IdsAgree
  <2>10. result # Awaited
    BY <1>8, <2>3 DEF Awaited, ReplyKinds
  <2>11. \A c \in AllCalls : IF c \in settled
                             THEN /\ outcome'[c] # Awaited
                                  /\ outcome'[c].kind \in ReplyKinds => outcome'[c].of = c
                             ELSE outcome'[c] = outcome[c]
    BY <2>3, <2>7, <2>9, <2>10
  <2>12. exitSeen' \in BOOLEAN
    BY <1>1, <1>4 DEF HostType
  <2> QED
    BY <1>4, <1>9, <2>5, <2>6, <2>8, <2>11, <2>12, SettleKeeps
<1> QED
  BY <1>5, <1>10, <1>11

LEMMA TimeoutKeeps ==
  ASSUME HostInv, NEW c \in AllCalls, Timeout(c) \/ Refused(c)
  PROVE  HostInv'
<1>1. HostType /\ PendingIsWaiting
  BY DEF HostInv, Correlated
<1>2. PICK kind \in {"timeout", "refused"} :
        /\ outcome' = [outcome EXCEPT ![c].kind = kind]
        /\ UNCHANGED <<host, nextId, stdin, stdout, child, current, served, exitSeen>>
        /\ outcome[c] \in {Awaited, Unsent}
        /\ pending' = {p \in pending : p.call # c} \/ (pending' = pending /\ outcome[c] = Unsent)
  BY DEF Timeout, Refused
<1>3. outcome[c] \in Outcome
  BY <1>1 DEF HostType
<1>4. PICK result : result = [kind |-> kind, of |-> None]
  OBVIOUS
<1>5. outcome' = [outcome EXCEPT ![c] = result]
  <2>1. [outcome[c] EXCEPT !.kind = kind] = result
    <3>1. CASE outcome[c] = Awaited
      BY <1>4, <3>1 DEF Awaited
    <3>2. CASE outcome[c] = Unsent
      BY <1>4, <3>2 DEF Unsent
    <3> QED
      BY <1>2, <3>1, <3>2
  <2>2. outcome' = [outcome EXCEPT ![c] = [outcome[c] EXCEPT !.kind = kind]]
    BY <1>2
  <2> QED
    BY <2>1, <2>2
<1>6. result \in Outcome /\ result # Awaited /\ result.kind \notin ReplyKinds
  BY <1>4 DEF Outcome, Awaited, ReplyKinds
<1>7. outcome \in [AllCalls -> Outcome]
  BY <1>1 DEF HostType
<1>8. outcome' \in [AllCalls -> Outcome]
  <2> HIDE DEF Outcome
  <2> QED
    BY <1>5, <1>6, <1>7
<1>9. pending' = {p \in pending : p.call \notin {c}}
  <2>1. outcome[c] = Unsent => \A p \in pending : p.call # c
    BY <1>1 DEF PendingIsWaiting, Unsent, Awaited
  <2> QED
    BY <1>2, <2>1
<1>10. \A d \in AllCalls : IF d \in {c}
                           THEN /\ outcome'[d] # Awaited
                                /\ outcome'[d].kind \in ReplyKinds => outcome'[d].of = d
                           ELSE outcome'[d] = outcome[d]
  BY <1>5, <1>6, <1>7
<1>11. /\ stdout' \in Seq(Line) /\ exitSeen' \in BOOLEAN
       /\ \A i \in DOMAIN stdout' : \E j \in DOMAIN stdout : stdout'[i] = stdout[j]
  BY <1>1, <1>2 DEF HostType
<1>12. {c} \in SUBSET AllCalls
  OBVIOUS
<1> QED
  BY <1>2, <1>8, <1>9, <1>10, <1>11, <1>12, SettleKeeps

LEMMA ExitHandlerKeeps ==
  ASSUME HostInv, ExitHandler
  PROVE  HostInv'
<1>1. HostType /\ PendingIsWaiting
  BY DEF HostInv, Correlated
<1>2. PICK settled : settled = {p.call : p \in pending}
  OBVIOUS
<1>3. PICK result : result = [kind |-> "exited", of |-> None]
  OBVIOUS
<1>4. /\ pending' = {} /\ exitSeen' = TRUE
      /\ outcome' = [c \in AllCalls |-> IF c \in settled THEN result ELSE outcome[c]]
      /\ UNCHANGED <<host, nextId, stdin, stdout, child, current, served>>
  BY <1>2, <1>3 DEF ExitHandler
<1>5. result \in Outcome /\ result # Awaited /\ result.kind \notin ReplyKinds
  BY <1>3 DEF Outcome, Awaited, ReplyKinds
<1>6. settled \in SUBSET AllCalls /\ pending' = {p \in pending : p.call \notin settled}
  BY <1>1, <1>2, <1>4, HostTypes
<1>7. outcome' \in [AllCalls -> Outcome]
  <2>1. outcome \in [AllCalls -> Outcome]
    BY <1>1 DEF HostType
  <2> HIDE DEF Outcome
  <2> QED
    BY <1>4, <1>5, <2>1
<1>8. \A d \in AllCalls : IF d \in settled
                          THEN /\ outcome'[d] # Awaited
                               /\ outcome'[d].kind \in ReplyKinds => outcome'[d].of = d
                          ELSE outcome'[d] = outcome[d]
  BY <1>4, <1>5
<1>9. /\ stdout' \in Seq(Line) /\ exitSeen' \in BOOLEAN
      /\ \A i \in DOMAIN stdout' : \E j \in DOMAIN stdout : stdout'[i] = stdout[j]
  BY <1>1, <1>4 DEF HostType
<1> QED
  BY <1>4, <1>6, <1>7, <1>8, <1>9, SettleKeeps

LEMMA HostSteps == HostInv /\ [HostNext]_hostVars => HostInv'
<1> SUFFICES ASSUME HostInv, [HostNext]_hostVars PROVE HostInv'
  OBVIOUS
<1>1. HostType /\ BusyFits
  BY DEF HostInv, Correlated
<1>2. Create \in AllCalls /\ Close \in AllCalls /\ Calls \subseteq AllCalls
  BY DEF AllCalls
<1>3. CASE Start
  <2>1. /\ Send(Create) /\ host' = "starting" /\ child' = "idle"
        /\ UNCHANGED <<stdout, current, served, exitSeen>>
        /\ child # "busy"
    BY <1>1, <1>3 DEF Start, BusyFits
  <2> QED
    BY <1>1, <1>2, <2>1, SendKeeps DEF HostType
<1>4. ASSUME NEW c \in AllCalls, Send(c), host' \in {"open", "closing"},
             UNCHANGED <<stdout, child, current, served, exitSeen>>
      PROVE  HostInv'
  BY <1>1, <1>4, SendKeeps DEF HostType
<1>5. CASE BeginClose \/ \E c \in Calls : Call(c)
  BY <1>2, <1>4, <1>5 DEF BeginClose, Call
<1>6. CASE Started \/ EndClose \/ Exit \/ Unreadable \/ UNCHANGED hostVars
  <2>1. /\ UNCHANGED <<nextId, pending, outcome, stdout, served, exitSeen>>
        /\ host' \in {host, "open", "abandoned", "closed"}
        /\ (host' = host) \/ (host \in {"starting", "closing"} /\ host' # "new")
        /\ (stdin' = stdin) \/ (stdin' = <<>>) \/ (stdin # <<>> /\ stdin' = Tail(stdin))
        /\ \/ child' = "exited" /\ current' = NoMessage /\ (host # "new" \/ child # "none")
           \/ child' = child /\ current' = current
    BY <1>6 DEF Started, EndClose, Exit, Unreadable, hostVars
  <2>2. Shorter(stdin', stdin)
    BY <2>1 DEF Shorter
  <2>3. /\ host' \in {"new", "starting", "open", "closing", "closed", "abandoned"}
        /\ child' \in {"none", "idle", "busy", "exited"}
        /\ host' = "new" => child' = "none"
        /\ stdout' \in Seq(Line)
        /\ \A i \in DOMAIN stdout' : \E j \in DOMAIN stdout : stdout'[i] = stdout[j]
    BY <1>1, <2>1 DEF HostType, BusyFits
  <2> QED
    BY <2>1, <2>2, <2>3, LeaveKeeps
<1> QED
  BY <1>2, <1>3, <1>5, <1>6, ReceiveKeeps, ExitHandlerKeeps, TimeoutKeeps, TakeKeeps, ReplyKeeps
  DEF HostNext, Timers

\* For any number of calls, whatever is sent late, dropped by the line bound, timed
\* out or cut off by an exit: a call is never settled with the answer to another, the
\* map of pending calls holds just those that wait, and the child serves them in the
\* order the host made them (host.ts call, receive and the exit handler; child.ts
\* serve).
THEOREM RepliesAreCorrelated == HostSpec => []Correlated
<1>1. HostInit => HostInv
  <2> SUFFICES ASSUME HostInit PROVE HostInv
    OBVIOUS
  <2>1. HostType
    <3>1. Unsent \in Outcome
      BY DEF Unsent, Outcome
    <3>2. outcome \in [AllCalls -> Outcome]
      BY <3>1 DEF HostInit
    <3> HIDE DEF Outcome, Message, Line
    <3> QED
      BY <3>2, EmptySeq DEF HostInit, HostType
  <2>2. OwnReply /\ PendingIsWaiting /\ ServedInOrder
    BY DEF HostInit, OwnReply, PendingIsWaiting, ServedInOrder, Unsent, Awaited, ReplyKinds
  <2>3. PendingFits /\ IdsAgree /\ IdsGrow /\ BusyFits
    BY DEF HostInit, PendingFits, IdsAgree, IdsGrow, BusyFits, NoMessage
  <2> QED
    BY <2>1, <2>2, <2>3 DEF HostInv, Correlated
<1>2. HostSpec => []HostInv
  BY <1>1, HostSteps, PTL DEF HostSpec
<1>3. HostInv => Correlated
  BY DEF HostInv
<1> QED
  BY <1>2, <1>3, PTL

-----------------------------------------------------------------------------
(***************************************************************************)
(* The commands that serve one directory. What the store and the world     *)
(* store record decides who works on them, whatever the commands found     *)
(* when they looked (IdentityFits). As long as no resume began beside      *)
(* another command, one command at a time works on the directory, so its   *)
(* numbering and its markers are those of that command (OrderFits), and    *)
(* one that ended by itself was the last (LastFits).                       *)
(***************************************************************************)
ServingPlaces ==
  {"streams", "listen", "drop_credentials", "credentials", "run_id", "run_id_text", "pid",
   "pid_text", "ready", "export", "finalize", "remove_pid", "remove_credentials", "close",
   "release"}
Places ==
  ServingPlaces \cup {"start", "check_finalized", "check_pid", "make", "store", "environment",
                      "failed", "done"}
StreamRecords ==
  [next : Nat \ {0}, written : Nat \ {0}, open : SUBSET Nat, completed : SUBSET Nat]
Directories ==
  [made : BOOLEAN, identity : Sources \cup {"none"}, world : BOOLEAN,
   runId : {"absent", "torn", "whole"}, pid : Nat, finalized : BOOLEAN, credentials : BOOLEAN]

ServeType ==
  /\ origin \in {"contract", "scenario", "fork"}
  /\ serverAt \in [Servers -> Places]
  /\ command \in [Servers -> [source : Sources, resume : BOOLEAN]]
  /\ serverStream \in [Servers -> StreamRecords]
  /\ \A s \in Servers : IsFiniteSet(serverStream[s].completed)
  /\ dir \in Directories
  /\ serverTrace \in Seq(Nat)
  /\ servedWorld \in [committed : Nat, exported : SUBSET Nat]
  /\ raced \in BOOLEAN

\* A command that opened its store and did not end.
Passed(s) ==
  \/ serverAt[s] \in ServingPlaces
  \/ serverAt[s] = "environment" /\ command[s].source = "scenario"

IdentityFits ==
  /\ dir.identity \in {"none", origin} \ {"fork"}
  /\ dir.world => origin = "fork" \/ dir.identity = "scenario"
  /\ dir.finalized => dir.identity = "contract" \/ servedWorld.exported # {}
  /\ origin = "fork" /\ ~dir.world => serverTrace = <<>>
  /\ \A s \in Servers :
       /\ serverAt[s] # "start" =>
            IF command[s].resume THEN command[s].source # "fork" ELSE command[s].source = origin
       /\ serverAt[s] \in {"check_finalized", "check_pid"} => command[s].resume
       /\ serverAt[s] \in {"store", "streams"} => command[s].source # "fork"
       /\ serverAt[s] = "environment" => command[s].source \in {"scenario", "fork"}
       /\ Passed(s) => IF command[s].source = "fork" THEN dir.world
                       ELSE dir.identity = command[s].source
       /\ serverAt[s] \in {"finalize", "remove_pid", "remove_credentials", "close", "release"} =>
            command[s].source = "contract" \/ servedWorld.exported # {}
       /\ serverAt[s] \in {"remove_pid", "remove_credentials", "close", "release", "done"} =>
            dir.finalized
       /\ serverAt[s] = "done" => IF command[s].source = "fork" THEN dir.world
                                  ELSE dir.identity = command[s].source
       /\ ~Passed(s) \/ serverAt[s] = "streams" => serverStream[s] = Closed
FreshAlone ==
  \A s, t \in Servers :
    Passed(s) /\ Passed(t) /\ ~command[s].resume /\ ~command[t].resume => s = t

MadeFits ==
  /\ dir.runId # "absent" => dir.made
  /\ \A s \in Servers :
       /\ Live(s) /\ (command[s].resume \/ serverAt[s] # "make") => dir.made
       /\ Live(s) /\ command[s].resume => \A t \in Servers \ {s} : ~Live(t)
OrderFits ==
  /\ serverTrace = [i \in 1 .. Len(serverTrace) |-> i]
  /\ \A s \in Servers :
       /\ Passed(s) /\ serverAt[s] # "streams" => serverStream[s].written = Len(serverTrace) + 1
       /\ serverAt[s] \in {"pid", "pid_text", "ready", "export", "finalize"} => dir.runId = "whole"
       /\ serverAt[s] = "ready" => dir.pid = s
       /\ serverAt[s] \in {"remove_credentials", "close", "release"} => dir.pid = NoServer
       /\ serverAt[s] \in {"close", "release"} =>
            (dir.credentials => command[s].source = "fork")
LastFits ==
  \A s \in Servers : serverAt[s] = "done" =>
    /\ dir.pid = NoServer
    /\ dir.credentials => command[s].source = "fork"
    /\ \A t \in Servers : ~Passed(t)
    /\ \A t \in Servers : Live(t) /\ command[t].resume => serverAt[t] = "check_finalized"

ServeInv ==
  /\ IdentityFits /\ FreshAlone
  /\ ~raced => MadeFits /\ OrderFits /\ LastFits


LEMMA StreamKept ==
  ASSUME ServeType, NEW s \in Servers, NEW r \in StreamRecords, IsFiniteSet(r.completed),
         serverStream' = [serverStream EXCEPT ![s] = r]
  PROVE  /\ serverStream' \in [Servers -> StreamRecords]
         /\ \A t \in Servers : IsFiniteSet(serverStream'[t].completed)
         /\ serverStream'[s] = r /\ \A t \in Servers \ {s} : serverStream'[t] = serverStream[t]
  BY DEF ServeType

LEMMA ClosedIs == Closed \in StreamRecords /\ IsFiniteSet(Closed.completed)
  BY FS_EmptySet DEF Closed, StreamRecords

\* What the answer of one exchange does: its lines are finitely many.
LEMMA AnswerIs ==
  ASSUME ServeType, NEW s \in Servers, NEW q \in serverStream[s].open, Answer(s, q)
  PROVE  \E n \in Nat : \E r \in StreamRecords :
           /\ IsFiniteSet(r.completed) /\ r.written = serverStream[s].written + n
           /\ serverStream' = [serverStream EXCEPT ![s] = r]
           /\ serverTrace' = serverTrace \o [i \in 1 .. n |-> serverStream[s].written + i - 1]
<1> DEFINE lines == Contiguous(s, q)
<1>1. /\ serverStream \in [Servers -> StreamRecords] /\ serverStream[s] \in StreamRecords
      /\ IsFiniteSet(serverStream[s].completed) /\ q \in Nat
  BY DEF ServeType, StreamRecords
<1>2. PICK all : all = serverStream[s].completed \cup {q}
  OBVIOUS
<1>3. IsFiniteSet(all) /\ all \subseteq Nat
  BY <1>1, <1>2, FS_AddElement DEF StreamRecords
<1>4. lines \subseteq all
  BY <1>2 DEF Contiguous
<1>5. IsFiniteSet(lines) /\ Cardinality(lines) \in Nat /\ IsFiniteSet(all \ lines)
  BY <1>3, <1>4, FS_Subset, FS_CardinalityType
<1> HIDE DEF lines
<1>6. PICK n \in Nat : n = Cardinality(lines)
  BY <1>5
<1>7. PICK r : r = [serverStream[s] EXCEPT !.open = @ \ {q}, !.completed = (@ \cup {q}) \ lines, !.written = @ + n]
  OBVIOUS
<1>8. r \in StreamRecords /\ r.completed = all \ lines /\ r.written = serverStream[s].written + n
  <2>1. PICK o : o = serverStream[s].open \ {q}
    OBVIOUS
  <2>2. PICK w : w = serverStream[s].written + n
    OBVIOUS
  <2>3. o \in SUBSET Nat /\ w \in Nat \ {0} /\ all \ lines \in SUBSET Nat
    <3>1. serverStream[s].open \in SUBSET Nat /\ serverStream[s].written \in Nat \ {0}
      BY <1>1 DEF StreamRecords
    <3>2. o \in SUBSET Nat
      BY <2>1, <3>1
    <3>3. w \in Nat \ {0}
      BY <1>6, <2>2, <3>1
    <3> QED
      BY <1>3, <3>2, <3>3
  <2>4. r = [serverStream[s] EXCEPT !.open = o, !.completed = all \ lines, !.written = w]
    BY <1>1, <1>2, <1>7, <2>1, <2>2 DEF StreamRecords
  <2> QED
    BY <1>1, <2>2, <2>3, <2>4 DEF StreamRecords
<1>9. serverStream' = [serverStream EXCEPT ![s] = r]
  BY <1>1, <1>6, <1>7 DEF Answer, lines
<1>10. serverTrace' = serverTrace \o [i \in 1 .. n |-> serverStream[s].written + i - 1]
  BY <1>6 DEF Answer, lines
<1> QED
  BY <1>5, <1>8, <1>9, <1>10

\* Lines that are appended to a trace of numbers.
LEMMA LinesAre ==
  ASSUME NEW a \in Seq(Nat), NEW n \in Nat, NEW w \in Nat, w > 0 \/ n = 0
  PROVE  LET b == a \o [i \in 1 .. n |-> w + i - 1]
         IN  /\ b \in Seq(Nat) /\ Len(b) = Len(a) + n
             /\ \A i \in 1 .. Len(a) : b[i] = a[i]
             /\ \A i \in 1 .. n : b[Len(a) + i] = w + i - 1
<1> DEFINE c == [i \in 1 .. n |-> w + i - 1]
<1>1. \A i \in 1 .. n : w + i - 1 \in Nat
  OBVIOUS
<1>2. c \in [1 .. n -> Nat]
  BY <1>1
<1>3. c \in Seq(Nat) /\ Len(c) = n /\ \A i \in 1 .. n : c[i] = w + i - 1
  BY <1>2, SeqDef, LenProperties
<1> HIDE DEF c
<1>4. /\ a \o c \in Seq(Nat) /\ Len(a \o c) = Len(a) + Len(c)
      /\ \A i \in 1 .. Len(a) + Len(c) : (a \o c)[i] = IF i <= Len(a) THEN a[i] ELSE c[i - Len(a)]
  BY <1>3, ConcatProperties
<1>5. Len(a) \in Nat
  BY LenProperties
<1>6. \A i \in 1 .. Len(a) : (a \o c)[i] = a[i]
  BY <1>3, <1>4, <1>5
<1>7. ASSUME NEW i \in 1 .. n PROVE (a \o c)[Len(a) + i] = w + i - 1
  <2>1. Len(a) + i \in 1 .. Len(a) + n /\ ~(Len(a) + i <= Len(a)) /\ Len(a) + i - Len(a) = i
    BY <1>5
  <2> QED
    BY <1>3, <1>4, <2>1
<1> QED
  BY <1>3, <1>4, <1>6, <1>7 DEF c

LEMMA ServeTypeKeeps ==
  ASSUME ServeType, [ServeNext]_serveVars PROVE ServeType'
<1> USE DEF ServeType, Goes, Servers, StreamRecords, Directories, Places, ServingPlaces, Sources, Closed, Listening, CommandEnded, Live, NoServer
<1>1. ASSUME NEW s \in Servers, Begin(s) PROVE ServeType'
  BY <1>1 DEF Begin
<1>2. ASSUME NEW s \in Servers, CheckFinalized(s) PROVE ServeType'
  BY <1>2 DEF CheckFinalized
<1>3. ASSUME NEW s \in Servers, CheckPid(s) PROVE ServeType'
  BY <1>3 DEF CheckPid
<1>4. ASSUME NEW s \in Servers, MakeDirectories(s) PROVE ServeType'
  BY <1>4 DEF MakeDirectories
<1>5. ASSUME NEW s \in Servers, OpenStore(s) PROVE ServeType'
  <2>1. CASE Goes(s, "failed") /\ UNCHANGED dir
    BY <1>5, <2>1 DEF OpenStore
  <2>2. CASE Goes(s, "streams") /\ UNCHANGED dir
    BY <1>5, <2>2 DEF OpenStore
  <2>3. CASE Goes(s, "streams") /\ dir' = [dir EXCEPT !.identity = command[s].source]
    BY <1>5, <2>3 DEF OpenStore
  <2> QED
    BY <1>5, <2>1, <2>2, <2>3 DEF OpenStore
<1>6. ASSUME NEW s \in Servers, OpenStreams(s) PROVE ServeType'
  <2>1. PICK r : r = [serverStream[s] EXCEPT !.next = Len(serverTrace) + 1, !.written = Len(serverTrace) + 1]
    OBVIOUS
  <2>2. PICK k : k = Len(serverTrace) + 1
    OBVIOUS
  <2>3. k \in Nat \ {0}
    BY <2>2, LenProperties
  <2>4. r \in StreamRecords /\ r.completed = serverStream[s].completed
    <3>1. r = [serverStream[s] EXCEPT !.next = k, !.written = k] /\ serverStream[s] \in StreamRecords
      BY <2>1, <2>2
    <3> QED
      BY <2>3, <3>1
  <2>5. serverStream' = [serverStream EXCEPT ![s] = r]
    BY <1>6, <2>1 DEF OpenStreams
  <2>6. serverStream' \in [Servers -> StreamRecords] /\ \A t \in Servers : IsFiniteSet(serverStream'[t].completed)
    BY <2>4, <2>5, StreamKept
  <2> QED
    BY <1>6, <2>6 DEF OpenStreams
<1>7. ASSUME NEW s \in Servers, OpenEnvironment(s) PROVE ServeType'
  <2>1. CASE Goes(s, "listen") /\ dir' = [dir EXCEPT !.world = TRUE] /\ UNCHANGED serverStream
    BY <1>7, <2>1 DEF OpenEnvironment
  <2>2. CASE ServerExits(s) /\ UNCHANGED dir
    <3>1. serverStream' \in [Servers -> StreamRecords] /\ \A t \in Servers : IsFiniteSet(serverStream'[t].completed)
      BY <2>2, ClosedIs, StreamKept DEF ServerExits
    <3> QED
      BY <1>7, <2>2, <3>1 DEF OpenEnvironment, ServerExits
  <2> QED
    BY <1>7, <2>1, <2>2 DEF OpenEnvironment
<1>8. ASSUME NEW s \in Servers, Listen(s) PROVE ServeType'
  BY <1>8 DEF Listen
<1>9. ASSUME NEW s \in Servers, DropCredentials(s) PROVE ServeType'
  BY <1>9 DEF DropCredentials
<1>10. ASSUME NEW s \in Servers, WriteCredentials(s) PROVE ServeType'
  <2>1. CASE dir' = [dir EXCEPT !.credentials = TRUE] /\ Goes(s, "run_id") /\ UNCHANGED serverStream
    BY <1>10, <2>1 DEF WriteCredentials
  <2>2. CASE ServerExits(s) /\ UNCHANGED dir
    <3>1. serverStream' \in [Servers -> StreamRecords] /\ \A t \in Servers : IsFiniteSet(serverStream'[t].completed)
      BY <2>2, ClosedIs, StreamKept DEF ServerExits
    <3> QED
      BY <1>10, <2>2, <3>1 DEF WriteCredentials, ServerExits
  <2> QED
    BY <1>10, <2>1, <2>2 DEF WriteCredentials
<1>11. ASSUME NEW s \in Servers, WriteMarkers(s) PROVE ServeType'
  <2>1. CASE Goes(s, "run_id_text") /\ serverAt[s] = "run_id" /\ dir' = [dir EXCEPT !.runId = "torn"]
    BY <1>11, <2>1 DEF WriteMarkers
  <2>2. CASE Goes(s, "pid") /\ serverAt[s] = "run_id_text" /\ dir' = [dir EXCEPT !.runId = "whole"]
    BY <1>11, <2>2 DEF WriteMarkers
  <2>3. CASE Goes(s, "pid_text") /\ serverAt[s] = "pid" /\ dir' = [dir EXCEPT !.pid = NoServer]
    BY <1>11, <2>3 DEF WriteMarkers
  <2>4. CASE Goes(s, "ready") /\ serverAt[s] = "pid_text" /\ dir' = [dir EXCEPT !.pid = s]
    <3>1. s \in Nat
      BY ServeAssumption
    <3> QED
      BY <1>11, <2>4, <3>1 DEF WriteMarkers
  <2> QED
    BY <1>11, <2>1, <2>2, <2>3, <2>4 DEF WriteMarkers
<1>12. ASSUME NEW s \in Servers, Reserve(s) PROVE ServeType'
  BY <1>12 DEF Reserve
<1>13. ASSUME NEW s \in Servers, Interrupted(s) PROVE ServeType'
  BY <1>13 DEF Interrupted
<1>14. ASSUME NEW s \in Servers, Export(s) PROVE ServeType'
  BY <1>14 DEF Export
<1>15. ASSUME NEW s \in Servers, Finalize(s) PROVE ServeType'
  BY <1>15 DEF Finalize
<1>16. ASSUME NEW s \in Servers, RemovePid(s) PROVE ServeType'
  BY <1>16 DEF RemovePid
<1>17. ASSUME NEW s \in Servers, RemoveCredentials(s) PROVE ServeType'
  BY <1>17 DEF RemoveCredentials
<1>18. ASSUME NEW s \in Servers, CloseListener(s) PROVE ServeType'
  BY <1>18 DEF CloseListener
<1>19. ASSUME NEW s \in Servers, Release(s) PROVE ServeType'
  <2>1. serverStream' \in [Servers -> StreamRecords] /\ \A t \in Servers : IsFiniteSet(serverStream'[t].completed)
    BY <1>19, ClosedIs, StreamKept DEF Release
  <2> QED
    BY <1>19, <2>1 DEF Release
<1>20. ASSUME NEW s \in Servers, Dies(s) PROVE ServeType'
  <2>1. serverStream' \in [Servers -> StreamRecords] /\ \A t \in Servers : IsFiniteSet(serverStream'[t].completed)
    BY <1>20, ClosedIs, StreamKept DEF Dies, ServerExits
  <2> QED
    BY <1>20, <2>1 DEF Dies, ServerExits
<1>21. ASSUME NEW s \in Servers, NEW q \in serverStream[s].open, Answer(s, q) PROVE ServeType'
  <2>1. PICK n \in Nat, r \in StreamRecords :
          /\ IsFiniteSet(r.completed) /\ r.written = serverStream[s].written + n
          /\ serverStream' = [serverStream EXCEPT ![s] = r]
          /\ serverTrace' = serverTrace \o [i \in 1 .. n |-> serverStream[s].written + i - 1]
    BY <1>21, AnswerIs
  <2>2. serverStream' \in [Servers -> StreamRecords] /\ \A t \in Servers : IsFiniteSet(serverStream'[t].completed)
    BY <2>1, StreamKept
  <2>3. serverTrace' \in Seq(Nat)
    <3>1. PICK w \in Nat : w = serverStream[s].written /\ w > 0
      OBVIOUS
    <3> QED
      <4>1. serverTrace \in Seq(Nat) /\ serverTrace' = serverTrace \o [i \in 1 .. n |-> w + i - 1]
        BY <2>1, <3>1
      <4>2. PICK a : a = serverTrace
        OBVIOUS
      <4> HIDE DEF ServeType
      <4> QED
        BY <3>1, <4>1, <4>2, LinesAre
  <2>4. servedWorld' \in [committed : Nat, exported : SUBSET Nat]
    <3>1. \/ servedWorld' = servedWorld
          \/ servedWorld' = [servedWorld EXCEPT !.committed = @ + 1]
      BY <1>21 DEF Answer
    <3>2. servedWorld \in [committed : Nat, exported : SUBSET Nat]
      OBVIOUS
    <3>3. PICK k : k = servedWorld.committed + 1
      OBVIOUS
    <3>4. k \in Nat
      BY <3>2, <3>3
    <3>5. [servedWorld EXCEPT !.committed = @ + 1] = [servedWorld EXCEPT !.committed = k]
      BY <3>3
    <3> HIDE DEF ServeType
    <3> QED
      BY <3>1, <3>2, <3>4, <3>5
  <2> QED
    BY <1>21, <2>2, <2>3, <2>4 DEF Answer
<1>22. ASSUME UNCHANGED serveVars PROVE ServeType'
  BY <1>22 DEF serveVars
<1> QED
  BY <1>1, <1>2, <1>3, <1>4, <1>5, <1>6, <1>7, <1>8, <1>9, <1>10, <1>11, <1>12, <1>13, <1>14, <1>15, <1>16, <1>17, <1>18, <1>19, <1>20, <1>21, <1>22 DEF ServeNext, ServeSteps

LEMMA IdentityKeeps ==
  ASSUME ServeType, IdentityFits, [ServeNext]_serveVars PROVE IdentityFits'
<1> USE DEF ServeType, IdentityFits, Passed, Goes, Places, ServingPlaces, Sources, Listening, HasWorld, CommandEnded, Live, Directories
<1>1. ASSUME NEW s \in Servers, Begin(s) PROVE IdentityFits'
  BY <1>1 DEF Begin
<1>2. ASSUME NEW s \in Servers, CheckFinalized(s) PROVE IdentityFits'
  BY <1>2 DEF CheckFinalized
<1>3. ASSUME NEW s \in Servers, CheckPid(s) PROVE IdentityFits'
  BY <1>3 DEF CheckPid
<1>4. ASSUME NEW s \in Servers, MakeDirectories(s) PROVE IdentityFits'
  BY <1>4 DEF MakeDirectories
<1>5. ASSUME NEW s \in Servers, OpenStore(s) PROVE IdentityFits'
  <2>1. CASE Goes(s, "failed") /\ UNCHANGED dir
    BY <1>5, <2>1 DEF OpenStore
  <2>2. CASE Goes(s, "streams") /\ dir.identity = command[s].source /\ UNCHANGED dir
    BY <1>5, <2>2 DEF OpenStore
  <2>3. CASE /\ Goes(s, "streams") /\ dir.identity = "none" /\ ~command[s].resume
             /\ dir' = [dir EXCEPT !.identity = command[s].source]
    BY <1>5, <2>3 DEF OpenStore
  <2> QED
    BY <1>5, <2>1, <2>2, <2>3 DEF OpenStore
<1>6. ASSUME NEW s \in Servers, OpenStreams(s) PROVE IdentityFits'
  BY <1>6 DEF OpenStreams
<1>7. ASSUME NEW s \in Servers, OpenEnvironment(s) PROVE IdentityFits'
  <2>1. CASE ~dir.world /\ Goes(s, "listen") /\ dir' = [dir EXCEPT !.world = TRUE] /\ UNCHANGED serverStream
    BY <1>7, <2>1 DEF OpenEnvironment
  <2>2. CASE ServerExits(s) /\ UNCHANGED dir
    BY <1>7, <2>2 DEF OpenEnvironment, ServerExits
  <2> QED
    BY <1>7, <2>1, <2>2 DEF OpenEnvironment
<1>8. ASSUME NEW s \in Servers, Listen(s) PROVE IdentityFits'
  BY <1>8 DEF Listen
<1>9. ASSUME NEW s \in Servers, DropCredentials(s) PROVE IdentityFits'
  BY <1>9 DEF DropCredentials
<1>10. ASSUME NEW s \in Servers, WriteCredentials(s) PROVE IdentityFits'
  <2>1. CASE dir' = [dir EXCEPT !.credentials = TRUE] /\ Goes(s, "run_id") /\ UNCHANGED serverStream
    BY <1>10, <2>1 DEF WriteCredentials
  <2>2. CASE ServerExits(s) /\ UNCHANGED dir
    BY <1>10, <2>2 DEF WriteCredentials, ServerExits
  <2> QED
    BY <1>10, <2>1, <2>2 DEF WriteCredentials
<1>11. ASSUME NEW s \in Servers, WriteMarkers(s) PROVE IdentityFits'
  <2>1. CASE Goes(s, "run_id_text") /\ serverAt[s] = "run_id" /\ dir' = [dir EXCEPT !.runId = "torn"]
    BY <1>11, <2>1 DEF WriteMarkers
  <2>2. CASE Goes(s, "pid") /\ serverAt[s] = "run_id_text" /\ dir' = [dir EXCEPT !.runId = "whole"]
    BY <1>11, <2>2 DEF WriteMarkers
  <2>3. CASE Goes(s, "pid_text") /\ serverAt[s] = "pid" /\ dir' = [dir EXCEPT !.pid = NoServer]
    BY <1>11, <2>3 DEF WriteMarkers
  <2>4. CASE Goes(s, "ready") /\ serverAt[s] = "pid_text" /\ dir' = [dir EXCEPT !.pid = s]
    BY <1>11, <2>4 DEF WriteMarkers
  <2> QED
    BY <1>11, <2>1, <2>2, <2>3, <2>4 DEF WriteMarkers
<1>12. ASSUME NEW s \in Servers, Reserve(s) PROVE IdentityFits'
  BY <1>12 DEF Reserve
<1>13. ASSUME NEW s \in Servers, Interrupted(s) PROVE IdentityFits'
  BY <1>13 DEF Interrupted
<1>14. ASSUME NEW s \in Servers, Export(s) PROVE IdentityFits'
  BY <1>14 DEF Export
<1>15. ASSUME NEW s \in Servers, Finalize(s) PROVE IdentityFits'
  BY <1>15 DEF Finalize
<1>16. ASSUME NEW s \in Servers, RemovePid(s) PROVE IdentityFits'
  BY <1>16 DEF RemovePid
<1>17. ASSUME NEW s \in Servers, RemoveCredentials(s) PROVE IdentityFits'
  BY <1>17 DEF RemoveCredentials
<1>18. ASSUME NEW s \in Servers, CloseListener(s) PROVE IdentityFits'
  BY <1>18 DEF CloseListener
<1>19. ASSUME NEW s \in Servers, Release(s) PROVE IdentityFits'
  BY <1>19 DEF Release
<1>20. ASSUME NEW s \in Servers, Dies(s) PROVE IdentityFits'
  BY <1>20 DEF Dies, ServerExits
<1>21. ASSUME NEW s \in Servers, NEW q \in serverStream[s].open, Answer(s, q) PROVE IdentityFits'
  <2>1. \E r \in StreamRecords : serverStream' = [serverStream EXCEPT ![s] = r]
    <3> HIDE DEF ServeType
    <3> QED
      BY <1>21, AnswerIs
  <2>2. serverStream[s] # Closed
    BY <1>21 DEF Closed
  <2>3. Passed(s) /\ serverAt[s] # "streams" /\ ~(origin = "fork" /\ ~dir.world)
    BY <2>2
  <2>4. servedWorld'.exported = servedWorld.exported
    BY <1>21 DEF Answer
  <2> QED
    BY <1>21, <2>1, <2>3, <2>4 DEF Answer
<1>22. ASSUME UNCHANGED serveVars PROVE IdentityFits'
  BY <1>22 DEF serveVars
<1> QED
  BY <1>1, <1>2, <1>3, <1>4, <1>5, <1>6, <1>7, <1>8, <1>9, <1>10, <1>11, <1>12, <1>13, <1>14, <1>15, <1>16, <1>17, <1>18, <1>19, <1>20, <1>21, <1>22 DEF ServeNext, ServeSteps

\* Two fresh commands: the later one finds the identity or the world of the first.
LEMMA FreshKeeps ==
  ASSUME ServeType, IdentityFits, FreshAlone, [ServeNext]_serveVars PROVE FreshAlone'
<1> USE DEF ServeType, IdentityFits, FreshAlone, Passed, Goes, Places, ServingPlaces, Sources, Listening, CommandEnded, Live, Directories
<1>1. ASSUME NEW s \in Servers, Begin(s) PROVE FreshAlone'
  BY <1>1 DEF Begin
<1>2. ASSUME NEW s \in Servers, CheckFinalized(s) PROVE FreshAlone'
  BY <1>2 DEF CheckFinalized
<1>3. ASSUME NEW s \in Servers, CheckPid(s) PROVE FreshAlone'
  BY <1>3 DEF CheckPid
<1>4. ASSUME NEW s \in Servers, MakeDirectories(s) PROVE FreshAlone'
  BY <1>4 DEF MakeDirectories
<1>5. ASSUME NEW s \in Servers, OpenStore(s) PROVE FreshAlone'
  <2>1. CASE Goes(s, "failed") /\ UNCHANGED dir
    BY <1>5, <2>1 DEF OpenStore
  <2>2. CASE Goes(s, "streams") /\ dir.identity = command[s].source /\ command[s].resume /\ UNCHANGED dir
    BY <1>5, <2>2 DEF OpenStore
  <2>3. CASE Goes(s, "streams") /\ dir.identity = "none" /\ ~command[s].resume
             /\ dir' = [dir EXCEPT !.identity = command[s].source]
    BY <1>5, <2>3 DEF OpenStore
  <2> QED
    BY <1>5, <2>1, <2>2, <2>3 DEF OpenStore
<1>6. ASSUME NEW s \in Servers, OpenStreams(s) PROVE FreshAlone'
  BY <1>6 DEF OpenStreams
<1>7. ASSUME NEW s \in Servers, OpenEnvironment(s) PROVE FreshAlone'
  <2>1. CASE ~dir.world /\ Goes(s, "listen") /\ dir' = [dir EXCEPT !.world = TRUE] /\ UNCHANGED serverStream
    BY <1>7, <2>1 DEF OpenEnvironment, ServerExits
  <2>2. CASE ServerExits(s) /\ UNCHANGED dir
    BY <1>7, <2>2 DEF OpenEnvironment, ServerExits
  <2> QED
    BY <1>7, <2>1, <2>2 DEF OpenEnvironment
<1>8. ASSUME NEW s \in Servers, Listen(s) PROVE FreshAlone'
  BY <1>8 DEF Listen
<1>9. ASSUME NEW s \in Servers, DropCredentials(s) PROVE FreshAlone'
  BY <1>9 DEF DropCredentials
<1>10. ASSUME NEW s \in Servers, WriteCredentials(s) PROVE FreshAlone'
  <2>1. CASE dir' = [dir EXCEPT !.credentials = TRUE] /\ Goes(s, "run_id") /\ UNCHANGED serverStream
    BY <1>10, <2>1 DEF WriteCredentials, ServerExits
  <2>2. CASE ServerExits(s) /\ UNCHANGED dir
    BY <1>10, <2>2 DEF WriteCredentials, ServerExits
  <2> QED
    BY <1>10, <2>1, <2>2 DEF WriteCredentials
<1>11. ASSUME NEW s \in Servers, WriteMarkers(s) PROVE FreshAlone'
  <2>1. CASE Goes(s, "run_id_text") /\ serverAt[s] = "run_id" /\ dir' = [dir EXCEPT !.runId = "torn"]
    BY <1>11, <2>1 DEF WriteMarkers
  <2>2. CASE Goes(s, "pid") /\ serverAt[s] = "run_id_text" /\ dir' = [dir EXCEPT !.runId = "whole"]
    BY <1>11, <2>2 DEF WriteMarkers
  <2>3. CASE Goes(s, "pid_text") /\ serverAt[s] = "pid" /\ dir' = [dir EXCEPT !.pid = NoServer]
    BY <1>11, <2>3 DEF WriteMarkers
  <2>4. CASE Goes(s, "ready") /\ serverAt[s] = "pid_text" /\ dir' = [dir EXCEPT !.pid = s]
    BY <1>11, <2>4 DEF WriteMarkers
  <2> QED
    BY <1>11, <2>1, <2>2, <2>3, <2>4 DEF WriteMarkers
<1>12. ASSUME NEW s \in Servers, Reserve(s) PROVE FreshAlone'
  BY <1>12 DEF Reserve
<1>13. ASSUME NEW s \in Servers, Interrupted(s) PROVE FreshAlone'
  BY <1>13 DEF Interrupted
<1>14. ASSUME NEW s \in Servers, Export(s) PROVE FreshAlone'
  BY <1>14 DEF Export
<1>15. ASSUME NEW s \in Servers, Finalize(s) PROVE FreshAlone'
  BY <1>15 DEF Finalize
<1>16. ASSUME NEW s \in Servers, RemovePid(s) PROVE FreshAlone'
  BY <1>16 DEF RemovePid
<1>17. ASSUME NEW s \in Servers, RemoveCredentials(s) PROVE FreshAlone'
  BY <1>17 DEF RemoveCredentials
<1>18. ASSUME NEW s \in Servers, CloseListener(s) PROVE FreshAlone'
  BY <1>18 DEF CloseListener
<1>19. ASSUME NEW s \in Servers, Release(s) PROVE FreshAlone'
  BY <1>19 DEF Release
<1>20. ASSUME NEW s \in Servers, Dies(s) PROVE FreshAlone'
  BY <1>20 DEF Dies, ServerExits
<1>21. ASSUME NEW s \in Servers, NEW q \in serverStream[s].open, Answer(s, q) PROVE FreshAlone'
  BY <1>21 DEF Answer
<1>22. ASSUME UNCHANGED serveVars PROVE FreshAlone'
  BY <1>22 DEF serveVars
<1> QED
  BY <1>1, <1>2, <1>3, <1>4, <1>5, <1>6, <1>7, <1>8, <1>9, <1>10, <1>11, <1>12, <1>13, <1>14, <1>15, <1>16, <1>17, <1>18, <1>19, <1>20, <1>21, <1>22 DEF ServeNext, ServeSteps

LEMMA MadeKeeps ==
  ASSUME ServeType, IdentityFits, MadeFits, ~raced', [ServeNext]_serveVars PROVE MadeFits'
<1> USE DEF ServeType, IdentityFits, MadeFits, Passed, Goes, Places, ServingPlaces, Sources, Listening, CommandEnded, Live, Directories
<1>1. ASSUME NEW s \in Servers, Begin(s) PROVE MadeFits'
  BY <1>1 DEF Begin
<1>2. ASSUME NEW s \in Servers, CheckFinalized(s) PROVE MadeFits'
  BY <1>2 DEF CheckFinalized
<1>3. ASSUME NEW s \in Servers, CheckPid(s) PROVE MadeFits'
  BY <1>3 DEF CheckPid
<1>4. ASSUME NEW s \in Servers, MakeDirectories(s) PROVE MadeFits'
  BY <1>4 DEF MakeDirectories
<1>5. ASSUME NEW s \in Servers, OpenStore(s) PROVE MadeFits'
  <2>1. CASE Goes(s, "failed") /\ UNCHANGED dir
    BY <1>5, <2>1 DEF OpenStore
  <2>2. CASE Goes(s, "streams") /\ dir.identity = command[s].source /\ command[s].resume /\ UNCHANGED dir
    BY <1>5, <2>2 DEF OpenStore
  <2>3. CASE Goes(s, "streams") /\ dir.identity = "none" /\ ~command[s].resume
             /\ dir' = [dir EXCEPT !.identity = command[s].source]
    BY <1>5, <2>3 DEF OpenStore
  <2> QED
    BY <1>5, <2>1, <2>2, <2>3 DEF OpenStore
<1>6. ASSUME NEW s \in Servers, OpenStreams(s) PROVE MadeFits'
  BY <1>6 DEF OpenStreams
<1>7. ASSUME NEW s \in Servers, OpenEnvironment(s) PROVE MadeFits'
  <2>1. CASE ~dir.world /\ Goes(s, "listen") /\ dir' = [dir EXCEPT !.world = TRUE] /\ UNCHANGED serverStream
    BY <1>7, <2>1 DEF OpenEnvironment, ServerExits
  <2>2. CASE ServerExits(s) /\ UNCHANGED dir
    BY <1>7, <2>2 DEF OpenEnvironment, ServerExits
  <2> QED
    BY <1>7, <2>1, <2>2 DEF OpenEnvironment
<1>8. ASSUME NEW s \in Servers, Listen(s) PROVE MadeFits'
  BY <1>8 DEF Listen
<1>9. ASSUME NEW s \in Servers, DropCredentials(s) PROVE MadeFits'
  BY <1>9 DEF DropCredentials
<1>10. ASSUME NEW s \in Servers, WriteCredentials(s) PROVE MadeFits'
  <2>1. CASE dir' = [dir EXCEPT !.credentials = TRUE] /\ Goes(s, "run_id") /\ UNCHANGED serverStream
    BY <1>10, <2>1 DEF WriteCredentials, ServerExits
  <2>2. CASE ServerExits(s) /\ UNCHANGED dir
    BY <1>10, <2>2 DEF WriteCredentials, ServerExits
  <2> QED
    BY <1>10, <2>1, <2>2 DEF WriteCredentials
<1>11. ASSUME NEW s \in Servers, WriteMarkers(s) PROVE MadeFits'
  <2>1. dir.made /\ UNCHANGED command /\ \E to \in Places \ {"make", "failed", "done", "start"} : Goes(s, to)
    BY <1>11 DEF WriteMarkers
  <2>2. dir'.made
    <3>1. \/ dir' = [dir EXCEPT !.runId = "torn"] \/ dir' = [dir EXCEPT !.runId = "whole"]
          \/ dir' = [dir EXCEPT !.pid = NoServer] \/ dir' = [dir EXCEPT !.pid = s]
      BY <1>11 DEF WriteMarkers
    <3>2. dir.made /\ dir \in Directories
      BY <2>1
    <3> HIDE DEF ServeType, IdentityFits, MadeFits
    <3> QED
      BY <3>1, <3>2
  <2>3. \A t \in Servers : Live(t)' <=> Live(t)
    BY <1>11, <2>1 DEF WriteMarkers
  <2> QED
    BY <2>1, <2>2, <2>3
<1>12. ASSUME NEW s \in Servers, Reserve(s) PROVE MadeFits'
  BY <1>12 DEF Reserve
<1>13. ASSUME NEW s \in Servers, Interrupted(s) PROVE MadeFits'
  BY <1>13 DEF Interrupted
<1>14. ASSUME NEW s \in Servers, Export(s) PROVE MadeFits'
  BY <1>14 DEF Export
<1>15. ASSUME NEW s \in Servers, Finalize(s) PROVE MadeFits'
  BY <1>15 DEF Finalize
<1>16. ASSUME NEW s \in Servers, RemovePid(s) PROVE MadeFits'
  BY <1>16 DEF RemovePid
<1>17. ASSUME NEW s \in Servers, RemoveCredentials(s) PROVE MadeFits'
  BY <1>17 DEF RemoveCredentials
<1>18. ASSUME NEW s \in Servers, CloseListener(s) PROVE MadeFits'
  BY <1>18 DEF CloseListener
<1>19. ASSUME NEW s \in Servers, Release(s) PROVE MadeFits'
  BY <1>19 DEF Release
<1>20. ASSUME NEW s \in Servers, Dies(s) PROVE MadeFits'
  BY <1>20 DEF Dies, ServerExits
<1>21. ASSUME NEW s \in Servers, NEW q \in serverStream[s].open, Answer(s, q) PROVE MadeFits'
  BY <1>21 DEF Answer
<1>22. ASSUME UNCHANGED serveVars PROVE MadeFits'
  BY <1>22 DEF serveVars
<1> QED
  BY <1>1, <1>2, <1>3, <1>4, <1>5, <1>6, <1>7, <1>8, <1>9, <1>10, <1>11, <1>12, <1>13, <1>14, <1>15, <1>16, <1>17, <1>18, <1>19, <1>20, <1>21, <1>22 DEF ServeNext, ServeSteps

LEMMA OneServes ==
  ASSUME ServeType, FreshAlone, MadeFits
  PROVE  \A s, t \in Servers : Passed(s) /\ Passed(t) => s = t
<1>1. \A s \in Servers : Passed(s) => Live(s)
  BY DEF Passed, Live, ServingPlaces, CommandEnded
<1> QED
  BY <1>1 DEF FreshAlone, MadeFits

LEMMA OrderKeeps ==
  ASSUME ServeType, IdentityFits, OrderFits,
         \A s, t \in Servers : Passed(s) /\ Passed(t) => s = t, [ServeNext]_serveVars PROVE OrderFits'
<1> USE DEF ServeType, OrderFits, Passed, Goes, Places, ServingPlaces, Listening, Directories
<1>1. ASSUME NEW s \in Servers, Begin(s) PROVE OrderFits'
  BY <1>1 DEF Begin
<1>2. ASSUME NEW s \in Servers, CheckFinalized(s) PROVE OrderFits'
  BY <1>2 DEF CheckFinalized
<1>3. ASSUME NEW s \in Servers, CheckPid(s) PROVE OrderFits'
  BY <1>3 DEF CheckPid
<1>4. ASSUME NEW s \in Servers, MakeDirectories(s) PROVE OrderFits'
  BY <1>4 DEF MakeDirectories
<1>5. ASSUME NEW s \in Servers, OpenStore(s) PROVE OrderFits'
  <2>1. CASE Goes(s, "failed") /\ UNCHANGED dir
    BY <1>5, <2>1 DEF OpenStore
  <2>2. CASE Goes(s, "streams") /\ dir.identity = command[s].source /\ command[s].resume /\ UNCHANGED dir
    BY <1>5, <2>2 DEF OpenStore
  <2>3. CASE Goes(s, "streams") /\ dir.identity = "none" /\ ~command[s].resume
             /\ dir' = [dir EXCEPT !.identity = command[s].source]
    BY <1>5, <2>3 DEF OpenStore
  <2> QED
    BY <1>5, <2>1, <2>2, <2>3 DEF OpenStore
<1>6. ASSUME NEW s \in Servers, OpenStreams(s) PROVE OrderFits'
  BY <1>6 DEF OpenStreams
<1>7. ASSUME NEW s \in Servers, OpenEnvironment(s) PROVE OrderFits'
  <2>1. CASE ~dir.world /\ Goes(s, "listen") /\ dir' = [dir EXCEPT !.world = TRUE] /\ UNCHANGED serverStream
    <3>1. serverAt[s] = "environment" /\ UNCHANGED <<command, serverTrace>>
      BY <1>7 DEF OpenEnvironment
    <3>2. serverStream[s].written = Len(serverTrace) + 1
      <4>1. command[s].source \in {"scenario", "fork"}
        BY <3>1 DEF IdentityFits
      <4>2. CASE command[s].source = "scenario"
        BY <3>1, <4>2
      <4>3. CASE command[s].source = "fork"
        <5>1. origin = "fork"
          BY <3>1, <4>3 DEF IdentityFits
        <5>2. serverTrace = <<>> /\ serverStream[s] = Closed
          BY <2>1, <3>1, <4>3, <5>1 DEF IdentityFits
        <5> QED
          BY <5>2 DEF Closed
      <4> QED
        BY <4>1, <4>2, <4>3
    <3> QED
      BY <2>1, <3>1, <3>2
  <2>2. CASE ServerExits(s) /\ UNCHANGED dir
    BY <1>7, <2>2 DEF OpenEnvironment, ServerExits
  <2> QED
    BY <1>7, <2>1, <2>2 DEF OpenEnvironment
<1>8. ASSUME NEW s \in Servers, Listen(s) PROVE OrderFits'
  BY <1>8 DEF Listen
<1>9. ASSUME NEW s \in Servers, DropCredentials(s) PROVE OrderFits'
  BY <1>9 DEF DropCredentials
<1>10. ASSUME NEW s \in Servers, WriteCredentials(s) PROVE OrderFits'
  <2>1. CASE dir' = [dir EXCEPT !.credentials = TRUE] /\ Goes(s, "run_id") /\ UNCHANGED serverStream
    BY <1>10, <2>1 DEF WriteCredentials, ServerExits
  <2>2. CASE ServerExits(s) /\ UNCHANGED dir
    BY <1>10, <2>2 DEF WriteCredentials, ServerExits
  <2> QED
    BY <1>10, <2>1, <2>2 DEF WriteCredentials
<1>11. ASSUME NEW s \in Servers, WriteMarkers(s) PROVE OrderFits'
  <2>1. CASE Goes(s, "run_id_text") /\ serverAt[s] = "run_id" /\ dir' = [dir EXCEPT !.runId = "torn"]
    BY <1>11, <2>1 DEF WriteMarkers
  <2>2. CASE Goes(s, "pid") /\ serverAt[s] = "run_id_text" /\ dir' = [dir EXCEPT !.runId = "whole"]
    BY <1>11, <2>2 DEF WriteMarkers
  <2>3. CASE Goes(s, "pid_text") /\ serverAt[s] = "pid" /\ dir' = [dir EXCEPT !.pid = NoServer]
    BY <1>11, <2>3 DEF WriteMarkers
  <2>4. CASE Goes(s, "ready") /\ serverAt[s] = "pid_text" /\ dir' = [dir EXCEPT !.pid = s]
    BY <1>11, <2>4 DEF WriteMarkers
  <2> QED
    BY <1>11, <2>1, <2>2, <2>3, <2>4 DEF WriteMarkers
<1>12. ASSUME NEW s \in Servers, Reserve(s) PROVE OrderFits'
  BY <1>12 DEF Reserve
<1>13. ASSUME NEW s \in Servers, Interrupted(s) PROVE OrderFits'
  BY <1>13 DEF Interrupted
<1>14. ASSUME NEW s \in Servers, Export(s) PROVE OrderFits'
  BY <1>14 DEF Export
<1>15. ASSUME NEW s \in Servers, Finalize(s) PROVE OrderFits'
  BY <1>15 DEF Finalize
<1>16. ASSUME NEW s \in Servers, RemovePid(s) PROVE OrderFits'
  BY <1>16 DEF RemovePid
<1>17. ASSUME NEW s \in Servers, RemoveCredentials(s) PROVE OrderFits'
  BY <1>17 DEF RemoveCredentials
<1>18. ASSUME NEW s \in Servers, CloseListener(s) PROVE OrderFits'
  BY <1>18 DEF CloseListener
<1>19. ASSUME NEW s \in Servers, Release(s) PROVE OrderFits'
  BY <1>19 DEF Release
<1>20. ASSUME NEW s \in Servers, Dies(s) PROVE OrderFits'
  BY <1>20 DEF Dies, ServerExits
<1>21. ASSUME NEW s \in Servers, NEW q \in serverStream[s].open, Answer(s, q) PROVE OrderFits'
  <2>1. PICK n \in Nat, r \in StreamRecords :
          /\ r.written = serverStream[s].written + n
          /\ serverStream' = [serverStream EXCEPT ![s] = r]
          /\ serverTrace' = serverTrace \o [i \in 1 .. n |-> serverStream[s].written + i - 1]
    <3> HIDE DEF ServeType
    <3>1. \E n \in Nat : \E r \in StreamRecords :
            /\ r.written = serverStream[s].written + n
            /\ serverStream' = [serverStream EXCEPT ![s] = r]
            /\ serverTrace' = serverTrace \o [i \in 1 .. n |-> serverStream[s].written + i - 1]
      BY <1>21, AnswerIs
    <3> QED
      BY <3>1
  <2>2. serverStream[s] # Closed
    BY <1>21 DEF Closed
  <2>3. Passed(s) /\ serverAt[s] # "streams"
    BY <2>2 DEF IdentityFits
  <2>4. PICK w \in Nat : w = serverStream[s].written /\ w = Len(serverTrace) + 1 /\ w > 0
    BY <2>3 DEF StreamRecords
  <2>5. serverTrace \in Seq(Nat) /\ serverTrace' = serverTrace \o [i \in 1 .. n |-> w + i - 1]
    BY <2>1, <2>4
  <2>6. /\ serverTrace' \in Seq(Nat) /\ Len(serverTrace') = Len(serverTrace) + n
        /\ \A i \in 1 .. Len(serverTrace) : serverTrace'[i] = serverTrace[i]
        /\ \A i \in 1 .. n : serverTrace'[Len(serverTrace) + i] = w + i - 1
    <3>1. PICK a : a = serverTrace
      OBVIOUS
    <3> HIDE DEF ServeType, OrderFits
    <3> QED
      BY <2>4, <2>5, <3>1, LinesAre
  <2>7. \A i \in 1 .. Len(serverTrace) : serverTrace[i] = i
    BY DEF OrderFits
  <2>8. \A i \in 1 .. Len(serverTrace') : serverTrace'[i] = i
    <3>1. ASSUME NEW i \in 1 .. Len(serverTrace') PROVE serverTrace'[i] = i
      <4>1. CASE i \in 1 .. Len(serverTrace)
        BY <2>6, <2>7, <4>1
      <4>2. CASE i \notin 1 .. Len(serverTrace)
        <5>1. i - Len(serverTrace) \in 1 .. n /\ Len(serverTrace) + (i - Len(serverTrace)) = i
          BY <2>5, <2>6, <4>2, LenProperties
        <5>2. serverTrace'[i] = w + (i - Len(serverTrace)) - 1
          BY <2>6, <5>1
        <5> QED
          BY <2>4, <5>1, <5>2
      <4> QED
        BY <4>1, <4>2
    <3> QED
      BY <3>1
  <2>9. serverTrace' = [i \in 1 .. Len(serverTrace') |-> i]
    BY <2>6, <2>8, LenProperties
  <2>10. /\ UNCHANGED <<serverAt, command, dir>>
         /\ \A t \in Servers \ {s} : ~Passed(t)
         /\ serverStream'[s].written = Len(serverTrace') + 1
    <3>1. serverStream'[s] = r
      BY <2>1
    <3>2. Len(serverTrace) \in Nat
      BY <2>5, LenProperties
    <3>3. serverStream'[s].written = Len(serverTrace') + 1
      BY <2>1, <2>4, <2>6, <3>1, <3>2
    <3> QED
      BY <1>21, <2>3, <3>3 DEF Answer
  <2>11. ASSUME NEW t \in Servers
         PROVE  /\ Passed(t)' /\ serverAt'[t] # "streams" => serverStream'[t].written = Len(serverTrace') + 1
                /\ serverAt'[t] \in {"pid", "pid_text", "ready", "export", "finalize"} => dir'.runId = "whole"
                /\ serverAt'[t] = "ready" => dir'.pid = t
                /\ serverAt'[t] \in {"remove_credentials", "close", "release"} => dir'.pid = NoServer
                /\ serverAt'[t] \in {"close", "release"} => (dir'.credentials => command'[t].source = "fork")
    BY <2>10
  <2> QED
    BY <2>9, <2>11
<1>22. ASSUME UNCHANGED serveVars PROVE OrderFits'
  BY <1>22 DEF serveVars
<1> QED
  BY <1>1, <1>2, <1>3, <1>4, <1>5, <1>6, <1>7, <1>8, <1>9, <1>10, <1>11, <1>12, <1>13, <1>14, <1>15, <1>16, <1>17, <1>18, <1>19, <1>20, <1>21, <1>22 DEF ServeNext, ServeSteps

LEMMA LastKeeps ==
  ASSUME ServeType, IdentityFits, OrderFits, MadeFits, LastFits, ~raced',
         \A s, t \in Servers : Passed(s) /\ Passed(t) => s = t, [ServeNext]_serveVars PROVE LastFits'
<1> USE DEF ServeType, IdentityFits, OrderFits, MadeFits, LastFits, Passed, Goes, Places, ServingPlaces, Sources, Listening, CommandEnded, Live, Directories
<1>1. ASSUME NEW s \in Servers, Begin(s) PROVE LastFits'
  BY <1>1 DEF Begin
<1>2. ASSUME NEW s \in Servers, CheckFinalized(s) PROVE LastFits'
  BY <1>2 DEF CheckFinalized
<1>3. ASSUME NEW s \in Servers, CheckPid(s) PROVE LastFits'
  BY <1>3 DEF CheckPid
<1>4. ASSUME NEW s \in Servers, MakeDirectories(s) PROVE LastFits'
  BY <1>4 DEF MakeDirectories
<1>5. ASSUME NEW s \in Servers, OpenStore(s) PROVE LastFits'
  <2>1. CASE Goes(s, "failed") /\ UNCHANGED dir
    BY <1>5, <2>1 DEF OpenStore
  <2>2. CASE Goes(s, "streams") /\ dir.identity = command[s].source /\ command[s].resume /\ UNCHANGED dir
    BY <1>5, <2>2 DEF OpenStore
  <2>3. CASE Goes(s, "streams") /\ dir.identity = "none" /\ ~command[s].resume
             /\ dir' = [dir EXCEPT !.identity = command[s].source]
    BY <1>5, <2>3 DEF OpenStore
  <2> QED
    BY <1>5, <2>1, <2>2, <2>3 DEF OpenStore
<1>6. ASSUME NEW s \in Servers, OpenStreams(s) PROVE LastFits'
  BY <1>6 DEF OpenStreams
<1>7. ASSUME NEW s \in Servers, OpenEnvironment(s) PROVE LastFits'
  <2>1. CASE ~dir.world /\ Goes(s, "listen")
    <3>1. serverAt[s] = "environment"
      BY <1>7 DEF OpenEnvironment
    <3>2. ASSUME NEW t \in Servers, serverAt[t] = "done" PROVE FALSE
      <4>1. command[s].source = "fork"
        BY <3>1, <3>2
      <4>2. origin = "fork"
        BY <3>1, <4>1
      <4> QED
        BY <2>1, <3>2, <4>2
    <3> QED
      BY <2>1, <3>2
  <2>2. CASE ServerExits(s) /\ UNCHANGED dir
    BY <1>7, <2>2 DEF OpenEnvironment, ServerExits
  <2> QED
    BY <1>7, <2>1, <2>2 DEF OpenEnvironment
<1>8. ASSUME NEW s \in Servers, Listen(s) PROVE LastFits'
  BY <1>8 DEF Listen
<1>9. ASSUME NEW s \in Servers, DropCredentials(s) PROVE LastFits'
  BY <1>9 DEF DropCredentials
<1>10. ASSUME NEW s \in Servers, WriteCredentials(s) PROVE LastFits'
  <2>1. CASE dir' = [dir EXCEPT !.credentials = TRUE] /\ Goes(s, "run_id") /\ UNCHANGED serverStream
    BY <1>10, <2>1 DEF WriteCredentials, ServerExits
  <2>2. CASE ServerExits(s) /\ UNCHANGED dir
    BY <1>10, <2>2 DEF WriteCredentials, ServerExits
  <2> QED
    BY <1>10, <2>1, <2>2 DEF WriteCredentials
<1>11. ASSUME NEW s \in Servers, WriteMarkers(s) PROVE LastFits'
  <2>1. CASE Goes(s, "run_id_text") /\ serverAt[s] = "run_id" /\ dir' = [dir EXCEPT !.runId = "torn"]
    BY <1>11, <2>1 DEF WriteMarkers
  <2>2. CASE Goes(s, "pid") /\ serverAt[s] = "run_id_text" /\ dir' = [dir EXCEPT !.runId = "whole"]
    BY <1>11, <2>2 DEF WriteMarkers
  <2>3. CASE Goes(s, "pid_text") /\ serverAt[s] = "pid" /\ dir' = [dir EXCEPT !.pid = NoServer]
    BY <1>11, <2>3 DEF WriteMarkers
  <2>4. CASE Goes(s, "ready") /\ serverAt[s] = "pid_text" /\ dir' = [dir EXCEPT !.pid = s]
    BY <1>11, <2>4 DEF WriteMarkers
  <2> QED
    BY <1>11, <2>1, <2>2, <2>3, <2>4 DEF WriteMarkers
<1>12. ASSUME NEW s \in Servers, Reserve(s) PROVE LastFits'
  BY <1>12 DEF Reserve
<1>13. ASSUME NEW s \in Servers, Interrupted(s) PROVE LastFits'
  BY <1>13 DEF Interrupted
<1>14. ASSUME NEW s \in Servers, Export(s) PROVE LastFits'
  BY <1>14 DEF Export
<1>15. ASSUME NEW s \in Servers, Finalize(s) PROVE LastFits'
  BY <1>15 DEF Finalize
<1>16. ASSUME NEW s \in Servers, RemovePid(s) PROVE LastFits'
  BY <1>16 DEF RemovePid
<1>17. ASSUME NEW s \in Servers, RemoveCredentials(s) PROVE LastFits'
  BY <1>17 DEF RemoveCredentials
<1>18. ASSUME NEW s \in Servers, CloseListener(s) PROVE LastFits'
  BY <1>18 DEF CloseListener
<1>19. ASSUME NEW s \in Servers, Release(s) PROVE LastFits'
  BY <1>19 DEF Release
<1>20. ASSUME NEW s \in Servers, Dies(s) PROVE LastFits'
  BY <1>20 DEF Dies, ServerExits
<1>21. ASSUME NEW s \in Servers, NEW q \in serverStream[s].open, Answer(s, q) PROVE LastFits'
  BY <1>21 DEF Answer
<1>22. ASSUME UNCHANGED serveVars PROVE LastFits'
  BY <1>22 DEF serveVars
<1> QED
  BY <1>1, <1>2, <1>3, <1>4, <1>5, <1>6, <1>7, <1>8, <1>9, <1>10, <1>11, <1>12, <1>13, <1>14, <1>15, <1>16, <1>17, <1>18, <1>19, <1>20, <1>21, <1>22 DEF ServeNext, ServeSteps

LEMMA ServeInitHolds == ASSUME ServeInit PROVE ServeType /\ ServeInv
<1>1. ServeType
  <2>1. \A s \in Servers : serverStream[s] = Closed
    BY DEF ServeInit
  <2>2. <<>> \in Seq(Nat)
    OBVIOUS
  <2>3. serverStream \in [Servers -> StreamRecords] /\ \A s \in Servers : IsFiniteSet(serverStream[s].completed)
    BY <2>1, ClosedIs DEF ServeInit
  <2> QED
    BY <2>2, <2>3 DEF ServeInit, ServeType, Places, Sources, Directories, Empty, NoServer
<1>2. \A s \in Servers : serverAt[s] = "start" /\ ~Passed(s) /\ ~Live(s) /\ serverStream[s] = Closed
  BY DEF ServeInit, Passed, ServingPlaces, Live
<1>3. IdentityFits
  BY <1>2 DEF ServeInit, IdentityFits, Empty
<1>4. FreshAlone
  BY <1>2 DEF FreshAlone
<1>5. MadeFits
  BY <1>2 DEF ServeInit, MadeFits, Empty
<1>6. OrderFits
  BY <1>2 DEF ServeInit, OrderFits
<1>7. LastFits
  BY <1>2 DEF LastFits
<1> QED
  BY <1>1, <1>3, <1>4, <1>5, <1>6, <1>7 DEF ServeInv

LEMMA ServeStep ==
  ASSUME ServeType, ServeInv, [ServeNext]_serveVars PROVE ServeType' /\ ServeInv'
<1>1. ServeType'
  BY ServeTypeKeeps
<1>2. IdentityFits /\ FreshAlone
  BY DEF ServeInv
<1>3. IdentityFits' /\ FreshAlone'
  BY <1>2, IdentityKeeps, FreshKeeps
<1>4. ASSUME ~raced' PROVE MadeFits' /\ OrderFits' /\ LastFits'
  <2>1. ~raced
    BY <1>4 DEF ServeType, ServeNext, ServeSteps, serveVars, Begin, CheckFinalized, CheckPid,
         MakeDirectories, OpenStore, OpenStreams, OpenEnvironment, Listen, DropCredentials,
         WriteCredentials, WriteMarkers, Reserve, Interrupted, Export, Finalize, RemovePid,
         RemoveCredentials, CloseListener, Release, Dies, Answer
  <2>2. MadeFits /\ OrderFits /\ LastFits
    BY <2>1 DEF ServeInv
  <2>3. \A s, t \in Servers : Passed(s) /\ Passed(t) => s = t
    BY <1>2, <2>2, OneServes
  <2> QED
    BY <1>2, <1>4, <2>2, <2>3, MadeKeeps, OrderKeeps, LastKeeps
<1> QED
  BY <1>1, <1>3, <1>4 DEF ServeInv

LEMMA ServeSound == ASSUME ServeType, ServeInv PROVE ServeIsAccountable
<1>1. \A s \in Servers : Serves(s) => Passed(s)
  BY DEF Serves, Listening, Passed, ServingPlaces
<1>2. IdentityFits /\ FreshAlone /\ (~raced => OrderFits /\ LastFits)
  BY DEF ServeInv
<1>3. ASSUME NEW s \in Servers, Serves(s), command[s].source # "fork" PROVE dir.identity = command[s].source
  BY <1>1, <1>2, <1>3 DEF IdentityFits
<1>4. ASSUME NEW s \in Servers, NEW t \in Servers, Serves(s), Serves(t), ~command[s].resume, ~command[t].resume
      PROVE  s = t
  BY <1>1, <1>2, <1>4 DEF FreshAlone
<1>5. dir.finalized /\ dir.world => servedWorld.exported # {}
  BY <1>2 DEF IdentityFits
<1>6. ASSUME ~raced PROVE serverTrace = [i \in 1 .. Len(serverTrace) |-> i]
  BY <1>2, <1>6 DEF OrderFits
<1>7. ASSUME ~raced, NEW s \in Servers, serverAt[s] = "ready" PROVE dir.pid = s /\ dir.runId = "whole"
  BY <1>2, <1>7 DEF OrderFits
<1>8. ASSUME ~raced, NEW s \in Servers, serverAt[s] = "done"
      PROVE  /\ dir.finalized /\ dir.pid = NoServer
             /\ dir.credentials => command[s].source = "fork"
             /\ ~\E t \in Servers : Serves(t)
  BY <1>1, <1>2, <1>8 DEF IdentityFits, LastFits
<1> QED
  BY <1>3, <1>4, <1>5, <1>6, <1>7, <1>8 DEF ServeIsAccountable

\* The commands on one control directory are accountable, for every number of
\* them and of requests, wherever their processes die: one identity and one
\* world, no FINALIZED marker before the export, and, while no resume begins
\* beside another command, one numbering of the trace and markers that name the
\* server that is ready (serve.ts startServe, finalizeServeControl,
\* serveCommand; world.ts worldForkCommand).
THEOREM ServesAreAccountable == ServeSpec => []ServeIsAccountable
<1>1. ServeInit => ServeType /\ ServeInv
  BY ServeInitHolds
<1>2. ServeType /\ ServeInv /\ [ServeNext]_serveVars => (ServeType /\ ServeInv)'
  BY ServeStep
<1>3. ServeType /\ ServeInv => ServeIsAccountable
  BY ServeSound
<1> QED
  BY <1>1, <1>2, <1>3, PTL DEF ServeSpec

(***************************************************************************)
(* The worker pool. A job waits once, or runs in one slot, or has settled  *)
(* once; every worker was spawned for a job of its own; the bundle of a job *)
(* is one of its schema; and pump(), a loop, is followed round by round.   *)
(***************************************************************************)
Schemas == {SchemaOf[j] : j \in Jobs} \cup {NoSchema}
Codes == {"result", "TIMEOUT", "FAILED", "REGISTRATION_TOO_LARGE",
          "REQUEST_TOO_LARGE", "QUEUE_FULL"}
PoolAnswers == [answer : Codes, schema : Schemas]
Messages == [kind : {"register"}, id : Nat, schema : Schemas]
            \cup [kind : {"job"}, job : Jobs]
OwnReplies ==
  [kind : {"registered"}]
  \cup {r \in [kind : {"answer"}, job : Jobs, answer : PoolAnswers] :
          /\ r.answer.answer \in {"FAILED", "result"}
          /\ r.answer.answer = "result" => r.answer.schema = SchemaOf[r.job]}
Pools ==
  [queue : Seq(Jobs), slots : Seq(Workers), spawned : Nat,
   current : [Workers -> Jobs \cup {NoJob}],
   registered : [Workers -> SUBSET Nat],
   posted : [Workers -> Seq(Messages)],
   bundle : [Jobs -> Nat],
   settled : [Jobs -> Seq(PoolAnswers)]]

\* The jobs a worker was there for, or that settled.
Runs(p, j) == \E w \in Workers : p.current[w] = j
Begun(p) == {j \in Jobs : p.settled[j] # << >> \/ Runs(p, j)}
InPool(p, j) == j \in Begun(p) \/ j \in Elements(p.queue)

\* A job waits once, or runs in one slot, or has settled once.
QueueFits(p) ==
  /\ \A i, k \in DOMAIN p.queue : p.queue[i] = p.queue[k] => i = k
  /\ \A i \in DOMAIN p.queue : p.queue[i] \notin Begun(p)
RunsOnce(p) ==
  /\ \A w \in Workers : p.current[w] # NoJob =>
       p.settled[p.current[w]] = << >> /\ w \in Elements(p.slots)
  /\ \A v, w \in Workers :
       p.current[v] = p.current[w] /\ p.current[v] # NoJob => v = w
SettledOnce(p) == \A j \in Jobs : Len(p.settled[j]) <= 1

\* An answer is true of its job.
OwnAnswers(p) ==
  \A j \in Jobs : \A i \in DOMAIN p.settled[j] :
    LET a == p.settled[j][i]
    IN  /\ a.answer = "result" => a.schema = SchemaOf[j]
        /\ a.answer = "TIMEOUT" => j \in expired
        /\ a.answer = "REGISTRATION_TOO_LARGE" => SchemaOf[j] \in Oversized

\* A bundle that was registered with a thread is one of a job with its schema,
\* and the jobs of a bundle have one schema.
OfJob(p, id, schema) ==
  id # NoBundle /\ \E j \in Jobs : p.bundle[j] = id /\ SchemaOf[j] = schema
BundlesFit(p, out) ==
  /\ \A j \in Jobs \ out : p.bundle[j] # NoBundle => InPool(p, j)
  /\ \A i \in DOMAIN p.queue :
       SchemaOf[p.queue[i]] # NoSchema => p.bundle[p.queue[i]] # NoBundle
  /\ \A j, k \in Jobs :
       p.bundle[j] = p.bundle[k] /\ p.bundle[j] # NoBundle => SchemaOf[j] = SchemaOf[k]
PostedFits(p) ==
  \A w \in Workers : \A i \in DOMAIN p.posted[w] :
    p.posted[w][i].kind = "register" =>
      OfJob(p, p.posted[w][i].id, p.posted[w][i].schema)

BoundsFit(p) ==
  /\ Len(p.slots) <= WorkerCount /\ Len(p.queue) <= MaxPending
  /\ \A i \in DOMAIN p.slots : p.slots[i] <= p.spawned

\* Every worker was spawned for a job of its own, or is one of n that wait for it.
Spare(p, n) == p.spawned <= Cardinality(Begun(p)) + n

\* A pool, and one with the jobs of a set taken out of it for a moment.
PoolFits(p, out) ==
  /\ p \in Pools /\ QueueFits(p) /\ RunsOnce(p) /\ SettledOnce(p) /\ OwnAnswers(p)
  /\ BundlesFit(p, out) /\ PostedFits(p) /\ BoundsFit(p)

\* What pump() leaves: no job waits while a worker is idle, or there is none.
Served(p) == p.queue # << >> => p.slots # << >> /\ Idle(p) = {}

\* The registered bundles, the threads and what they posted.
RegistryOf(bundle, kept, next) ==
  /\ next \in Nat \ {0}
  /\ kept \in Seq([id : Nat, schema : Schemas])
  /\ \A i \in DOMAIN kept : kept[i].id < next /\ kept[i].id # NoBundle
  /\ \A i, k \in DOMAIN kept : kept[i].id = kept[k].id => i = k
  /\ \A i \in DOMAIN kept : \A j \in Jobs :
       bundle[j] = kept[i].id => SchemaOf[j] = kept[i].schema
  /\ \A j \in Jobs : bundle[j] < next
RegistryFits == RegistryOf(pool.bundle, bundles, nextBundle)
KnownFits ==
  /\ known \in [Workers -> SUBSET [id : Nat, schema : Schemas]]
  /\ \A w \in Workers : \A b \in known[w] : OfJob(pool, b.id, b.schema)

PoolInv ==
  /\ PoolFits(pool, {}) /\ Spare(pool, 0) /\ Served(pool)
  /\ RegistryFits /\ KnownFits
  /\ replies \in [Workers -> Seq(OwnReplies)]
  /\ expired \subseteq Jobs

LEMMA LeastOfNaturals ==
  ASSUME NEW S \in SUBSET Nat, S # {}
  PROVE  \E m \in S : \A n \in S : m <= n
<1>1. \E m \in S : \A n \in S : <<n, m>> \notin OpToRel(<, Nat)
  BY WFMin, NatLessThanWellFounded, Zenon
<1>2. PICK m \in S : \A n \in S : <<n, m>> \notin OpToRel(<, Nat)
  BY <1>1
<1>3. ASSUME NEW n \in S PROVE m <= n
  <2>1. <<n, m>> \notin OpToRel(<, Nat)
    BY <1>2
  <2>2. ~(n < m)
    BY <2>1 DEF OpToRel
  <2> QED
    BY <2>2
<1> QED
  BY <1>3

LEMMA FrontOf ==
  ASSUME NEW S, NEW s \in Seq(S), s # << >>
  PROVE  /\ Head(s) \in S /\ Tail(s) \in Seq(S) /\ Len(Tail(s)) = Len(s) - 1
         /\ Head(s) = s[1] /\ 1 \in DOMAIN s
         /\ \A i \in DOMAIN Tail(s) : i + 1 \in DOMAIN s /\ Tail(s)[i] = s[i + 1]
         /\ Elements(s) = {Head(s)} \cup Elements(Tail(s))
<1>1. Len(s) \in Nat /\ Len(s) # 0 /\ DOMAIN s = 1 .. Len(s)
  OBVIOUS
<1>2. /\ Head(s) \in S /\ Tail(s) \in Seq(S) /\ Len(Tail(s)) = Len(s) - 1
      /\ Head(s) = s[1] /\ 1 \in DOMAIN s
  BY <1>1
<1>3. DOMAIN Tail(s) = 1 .. Len(s) - 1
  BY <1>2
<1>4. ASSUME NEW i \in DOMAIN Tail(s) PROVE i + 1 \in DOMAIN s /\ Tail(s)[i] = s[i + 1]
  BY <1>1, <1>3
<1>5. ASSUME NEW x \in Elements(s) PROVE x \in {Head(s)} \cup Elements(Tail(s))
  <2>1. PICK i \in DOMAIN s : x = s[i]
    BY DEF Elements
  <2>2. CASE i = 1
    BY <1>2, <2>1, <2>2
  <2>3. CASE i # 1
    <3>1. i - 1 \in DOMAIN Tail(s) /\ (i - 1) + 1 = i
      BY <1>1, <1>3, <2>3
    <3>2. Tail(s)[i - 1] = x
      BY <1>4, <2>1, <3>1
    <3> QED
      BY <3>1, <3>2 DEF Elements
  <2> QED
    BY <2>2, <2>3
<1>6. {Head(s)} \cup Elements(Tail(s)) \subseteq Elements(s)
  BY <1>2, <1>4 DEF Elements
<1> QED
  BY <1>2, <1>4, <1>5, <1>6

LEMMA BackOf ==
  ASSUME NEW S, NEW s \in Seq(S), NEW x \in S
  PROVE  /\ Append(s, x) \in Seq(S) /\ Len(Append(s, x)) = Len(s) + 1
         /\ DOMAIN Append(s, x) = 1 .. Len(s) + 1
         /\ \A i \in DOMAIN s : i \in DOMAIN Append(s, x) /\ Append(s, x)[i] = s[i]
         /\ Append(s, x)[Len(s) + 1] = x
         /\ Elements(Append(s, x)) = Elements(s) \cup {x}
<1>1. Len(s) \in Nat /\ DOMAIN s = 1 .. Len(s)
  OBVIOUS
<1>2. /\ Append(s, x) \in Seq(S) /\ Len(Append(s, x)) = Len(s) + 1
      /\ DOMAIN Append(s, x) = 1 .. Len(s) + 1
      /\ Append(s, x)[Len(s) + 1] = x
  OBVIOUS
<1>3. ASSUME NEW i \in DOMAIN s
      PROVE  i \in DOMAIN Append(s, x) /\ Append(s, x)[i] = s[i]
  BY <1>1
<1>4. ASSUME NEW i \in DOMAIN Append(s, x) PROVE i \in DOMAIN s \/ i = Len(s) + 1
  BY <1>1, <1>2
<1>5. Elements(Append(s, x)) \subseteq Elements(s) \cup {x}
  BY <1>2, <1>3, <1>4 DEF Elements
<1>6. Elements(s) \cup {x} \subseteq Elements(Append(s, x))
  <2>1. Len(s) + 1 \in DOMAIN Append(s, x)
    BY <1>1, <1>2
  <2> QED
    BY <1>2, <1>3, <2>1 DEF Elements
<1> QED
  BY <1>2, <1>3, <1>5, <1>6

LEMMA CutOf ==
  ASSUME NEW S, NEW s \in Seq(S), NEW i \in DOMAIN s
  PROVE  /\ Without(s, i) \in Seq(S) /\ Len(Without(s, i)) = Len(s) - 1
         /\ Elements(Without(s, i)) \subseteq Elements(s)
         /\ \A x \in Elements(s) : x # s[i] => x \in Elements(Without(s, i))
<1> DEFINE at(k) == IF k < i THEN k ELSE k + 1
           n == Len(s) - 1
<1>1. Len(s) \in Nat /\ DOMAIN s = 1 .. Len(s) /\ i \in 1 .. Len(s) /\ n \in Nat
  OBVIOUS
<1>2. Without(s, i) = [k \in 1 .. n |-> s[at(k)]]
  BY DEF Without
<1>3. ASSUME NEW k \in 1 .. n PROVE at(k) \in DOMAIN s
  BY <1>1
<1>4. ASSUME NEW k \in 1 .. n PROVE s[at(k)] \in S
  BY <1>3
<1> HIDE DEF at, n
<1>5. Without(s, i) \in [1 .. n -> S]
  BY <1>2, <1>4
<1>6. Without(s, i) \in Seq(S) /\ Len(Without(s, i)) = n /\ DOMAIN Without(s, i) = 1 .. n
  BY <1>1, <1>5
<1>7. Elements(Without(s, i)) \subseteq Elements(s)
  BY <1>2, <1>3, <1>6 DEF Elements
<1>8. ASSUME NEW x \in Elements(s), x # s[i] PROVE x \in Elements(Without(s, i))
  <2>1. PICK k \in DOMAIN s : x = s[k]
    BY DEF Elements
  <2>2. k # i
    BY <1>8, <2>1
  <2>3. \E m \in 1 .. n : at(m) = k
    <3>1. CASE k < i
      <4>1. k \in 1 .. n /\ at(k) = k
        BY <1>1, <3>1 DEF n, at
      <4> QED
        BY <4>1
    <3>2. CASE ~(k < i)
      <4>1. k - 1 \in 1 .. n /\ at(k - 1) = k
        BY <1>1, <2>2, <3>2 DEF n, at
      <4> QED
        BY <4>1
    <3> QED
      BY <3>1, <3>2
  <2> QED
    BY <1>2, <1>6, <2>1, <2>3 DEF Elements
<1> QED
  BY <1>6, <1>7, <1>8 DEF n

LEMMA FirstIdleIsIdle ==
  ASSUME NEW p \in Pools, Idle(p) # {}
  PROVE  FirstIdle(p) \in Idle(p)
<1>1. DOMAIN p.slots \subseteq Nat
  <2>1. p.slots \in Seq(Workers)
    BY DEF Pools
  <2>2. DOMAIN p.slots = 1 .. Len(p.slots) /\ Len(p.slots) \in Nat
    BY <2>1
  <2> QED
    BY <2>2
<1>2. Idle(p) \in SUBSET Nat
  BY <1>1 DEF Idle
<1>3. \E i \in Idle(p) : \A k \in Idle(p) : i <= k
  BY <1>2, LeastOfNaturals
<1> QED
  BY <1>3 DEF FirstIdle

(* What a loop comes to in finitely many rounds.                            *)
After(turns) == UNION {Round(turn) : turn \in turns}

Counts(f, L, A) == f = [n \in 0 .. L |-> IF n = 0 THEN A ELSE After(f[n - 1])]

LEMMA RoundsAreDefined ==
  ASSUME NEW L \in Nat, NEW A
  PROVE  \E f : Counts(f, L, A)
<1> DEFINE Has(m) == \E f : f = [n \in 0 .. m |-> IF n = 0 THEN A ELSE After(f[n - 1])]
           Lacks == {m \in Nat : ~Has(m)}
<1>1. Has(0)
  <2> DEFINE g == [n \in 0 .. 0 |-> A]
  <2>1. g = [n \in 0 .. 0 |-> IF n = 0 THEN A ELSE After(g[n - 1])]
    OBVIOUS
  <2> QED
    BY <2>1
<1>2. ASSUME NEW m \in Nat, Has(m) PROVE Has(m + 1)
  <2>1. PICK f : f = [n \in 0 .. m |-> IF n = 0 THEN A ELSE After(f[n - 1])]
    BY <1>2
  <2> DEFINE g == [n \in 0 .. m + 1 |-> IF n <= m THEN f[n] ELSE After(f[m])]
             h == [n \in 0 .. m + 1 |-> IF n = 0 THEN A ELSE After(g[n - 1])]
  <2>2. ASSUME NEW n \in 0 .. m + 1 PROVE g[n] = h[n]
    <3>1. CASE n = 0
      <4>1. g[n] = f[n] /\ h[n] = A
        BY <3>1
      <4>2. f[n] = A
        BY <2>1, <3>1
      <4> QED
        BY <4>1, <4>2
    <3>2. CASE n # 0 /\ n <= m
      <4>1. n \in 0 .. m /\ n - 1 \in 0 .. m + 1 /\ n - 1 <= m
        BY <3>2
      <4>2. g[n] = f[n] /\ g[n - 1] = f[n - 1]
        BY <3>2, <4>1
      <4>3. f[n] = After(f[n - 1])
        BY <2>1, <3>2, <4>1
      <4>4. h[n] = After(g[n - 1])
        BY <3>2
      <4> QED
        BY <4>2, <4>3, <4>4
    <3>3. CASE n = m + 1
      <4>1. n # 0 /\ ~(n <= m) /\ n - 1 = m /\ m \in 0 .. m + 1
        BY <3>3
      <4>2. g[n] = After(f[m]) /\ g[m] = f[m]
        BY <4>1
      <4>3. h[n] = After(g[m])
        BY <4>1
      <4> QED
        BY <4>2, <4>3
    <3> QED
      BY <3>1, <3>2, <3>3
  <2>3. g = h
    <3> HIDE DEF Has
    <3>1. DOMAIN g = 0 .. m + 1 /\ DOMAIN h = 0 .. m + 1
      OBVIOUS
    <3>2. g = [n \in 0 .. m + 1 |-> g[n]] /\ h = [n \in 0 .. m + 1 |-> h[n]]
      OBVIOUS
    <3> HIDE DEF g, h
    <3> QED
      BY <2>2, <3>2, Zenon
  <2> QED
    BY <2>3
<1>3. Lacks = {}
  <2> HIDE DEF Has
  <2>1. SUFFICES ASSUME Lacks # {} PROVE FALSE
    OBVIOUS
  <2>2. PICK m \in Lacks : \A n \in Lacks : m <= n
    BY <2>1, LeastOfNaturals
  <2>3. m \in Nat /\ ~Has(m) /\ m # 0
    BY <1>1
  <2>4. m - 1 \in Nat /\ ~(m <= m - 1) /\ (m - 1) + 1 = m
    BY <2>3
  <2>5. Has(m - 1)
    BY <2>2, <2>4
  <2> QED
    BY <1>2, <2>3, <2>4, <2>5
<1>4. Has(L)
  <2> HIDE DEF Has
  <2> QED
    BY <1>3
<1> QED
  BY <1>4 DEF Counts

LEMMA PoolsAre ==
  ASSUME NEW p \in Pools
  PROVE  /\ p.queue \in Seq(Jobs) /\ p.slots \in Seq(Workers) /\ p.spawned \in Nat
         /\ p.current \in [Workers -> Jobs \cup {NoJob}]
         /\ p.registered \in [Workers -> SUBSET Nat]
         /\ p.posted \in [Workers -> Seq(Messages)]
         /\ p.bundle \in [Jobs -> Nat] /\ p.settled \in [Jobs -> Seq(PoolAnswers)]
BY DEF Pools

LEMMA PoolBasics ==
  ASSUME NEW p \in Pools
  PROVE  /\ Begun(p) \subseteq Jobs /\ IsFiniteSet(Begun(p))
         /\ Cardinality(Begun(p)) \in Nat /\ Cardinality(Jobs) \in Nat
         /\ Cardinality(Begun(p)) <= Cardinality(Jobs)
         /\ Workers = 1 .. Cardinality(Jobs)
<1>1. Begun(p) \subseteq Jobs
  BY DEF Begun
<1>2. IsFiniteSet(Jobs)
  BY PoolAssumption
<1>3. IsFiniteSet(Begun(p)) /\ Cardinality(Begun(p)) <= Cardinality(Jobs)
  BY <1>1, <1>2, FS_Subset
<1> QED
  BY <1>1, <1>2, <1>3, FS_CardinalityType DEF Workers

LEMMA BundlesCarry ==
  ASSUME NEW p, NEW q, NEW out, NEW less, BundlesFit(p, out),
         q.bundle = p.bundle, Elements(q.queue) \subseteq Elements(p.queue),
         \A j \in Jobs \ less : InPool(p, j) => InPool(q, j),
         \A j \in out : j \in less \/ InPool(q, j)
  PROVE  BundlesFit(q, less)
<1>1. ASSUME NEW i \in DOMAIN q.queue, SchemaOf[q.queue[i]] # NoSchema
      PROVE  q.bundle[q.queue[i]] # NoBundle
  <2>1. q.queue[i] \in Elements(p.queue)
    BY DEF Elements
  <2>2. PICK k \in DOMAIN p.queue : p.queue[k] = q.queue[i]
    BY <2>1 DEF Elements
  <2> QED
    BY <1>1, <2>2 DEF BundlesFit
<1>2. ASSUME NEW j \in Jobs \ less, q.bundle[j] # NoBundle PROVE InPool(q, j)
  BY <1>2 DEF BundlesFit
<1> QED
  BY <1>1, <1>2 DEF BundlesFit

LEMMA PostedCarries ==
  ASSUME NEW p, NEW q, PostedFits(p), q.bundle = p.bundle, q.posted = p.posted
  PROVE  PostedFits(q)
BY DEF PostedFits, OfJob

LEMMA SpareCarries ==
  ASSUME NEW p \in Pools, NEW q \in Pools, NEW n \in Nat, Spare(p, n),
         Begun(p) \subseteq Begun(q), q.spawned = p.spawned
  PROVE  Spare(q, n)
<1>1. Cardinality(Begun(p)) <= Cardinality(Begun(q))
  BY PoolBasics, FS_Subset
<1> QED
  BY <1>1, PoolBasics, PoolsAre DEF Spare

LEMMA SpareUsed ==
  ASSUME NEW p \in Pools, NEW q \in Pools, NEW j, j \notin Begun(p), Spare(p, 1),
         Begun(q) = Begun(p) \cup {j}, q.spawned = p.spawned
  PROVE  Spare(q, 0)
<1>1. Cardinality(Begun(q)) = Cardinality(Begun(p)) + 1
  BY PoolBasics, FS_AddElement
<1> QED
  BY <1>1, PoolBasics, PoolsAre DEF Spare

\* What a job may be told.
OwnAnswerOf(j, a) ==
  /\ a.answer = "result" => a.schema = SchemaOf[j]
  /\ a.answer = "TIMEOUT" => j \in expired
  /\ a.answer = "REGISTRATION_TOO_LARGE" => SchemaOf[j] \in Oversized

LEMMA OwnAnswersAre ==
  ASSUME NEW p
  PROVE  OwnAnswers(p) <=>
           \A j \in Jobs : \A i \in DOMAIN p.settled[j] : OwnAnswerOf(j, p.settled[j][i])
BY Zenon DEF OwnAnswers, OwnAnswerOf

\* A job that is out of the pool settles.
LEMMA SettleFits ==
  ASSUME NEW r, NEW j \in Jobs, NEW a \in PoolAnswers, PoolFits(r, {j}),
         j \notin Begun(r), j \notin Elements(r.queue), OwnAnswerOf(j, a)
  PROVE  LET q == Settle(r, j, a)
         IN  /\ PoolFits(q, {}) /\ Begun(q) = Begun(r) \cup {j}
             /\ q.queue = r.queue /\ q.slots = r.slots /\ q.spawned = r.spawned
             /\ q.bundle = r.bundle /\ q.current = r.current /\ q.posted = r.posted
<1> DEFINE q == Settle(r, j, a)
<1>1. r \in Pools
  BY DEF PoolFits
<1>2. r.settled \in [Jobs -> Seq(PoolAnswers)] /\ r.settled[j] = << >>
  BY <1>1, PoolsAre DEF Begun
<1>3. q = [r EXCEPT !.settled = [r.settled EXCEPT ![j] = <<a>>]]
  <2>1. Append(r.settled[j], a) = <<a>>
    BY <1>2
  <2>2. q = [r EXCEPT !.settled[j] = Append(@, a)]
    BY DEF Settle
  <2> QED
    BY <1>1, <2>1, <2>2 DEF Pools
<1>4. [r.settled EXCEPT ![j] = <<a>>] \in [Jobs -> Seq(PoolAnswers)]
  BY <1>2
<1>5. /\ q \in Pools
      /\ q.queue = r.queue /\ q.slots = r.slots /\ q.spawned = r.spawned
      /\ q.bundle = r.bundle /\ q.current = r.current /\ q.posted = r.posted
      /\ q.settled = [r.settled EXCEPT ![j] = <<a>>]
  BY <1>1, <1>3, <1>4 DEF Pools
<1> HIDE DEF q
<1>6. q.settled[j] = <<a>> /\ \A k \in Jobs : k # j => q.settled[k] = r.settled[k]
  BY <1>2, <1>5
<1>7. Begun(q) = Begun(r) \cup {j}
  <2>1. ASSUME NEW k \in Jobs PROVE Runs(q, k) <=> Runs(r, k)
    BY <1>5 DEF Runs
  <2>2. q.settled[j] # << >>
    BY <1>6
  <2>3. ASSUME NEW k \in Jobs, k # j PROVE k \in Begun(q) <=> k \in Begun(r)
    BY <1>6, <2>1, <2>3 DEF Begun
  <2> QED
    BY <2>2, <2>3 DEF Begun
<1>8. QueueFits(q)
  <2>1. \A i \in DOMAIN q.queue : q.queue[i] # j
    BY <1>5 DEF Elements
  <2> QED
    BY <1>5, <1>7, <2>1 DEF QueueFits, PoolFits
<1>9. RunsOnce(q)
  <2>1. \A w \in Workers : r.current[w] # j
    BY DEF Begun, Runs
  <2>2. ASSUME NEW w \in Workers, q.current[w] # NoJob
        PROVE  q.settled[q.current[w]] = << >> /\ w \in Elements(q.slots)
    <3>1. q.current[w] \in Jobs
      BY <1>5, <2>2, PoolsAre
    <3>2. r.settled[r.current[w]] = << >> /\ w \in Elements(r.slots)
      BY <1>5, <2>2 DEF RunsOnce, PoolFits
    <3> QED
      BY <1>5, <1>6, <2>1, <3>1, <3>2
  <2> QED
    BY <1>5, <2>2 DEF RunsOnce, PoolFits
<1>10. SettledOnce(q)
  <2>1. Len(<<a>>) = 1
    OBVIOUS
  <2>2. \A k \in Jobs : Len(r.settled[k]) <= 1
    BY DEF SettledOnce, PoolFits
  <2>3. ASSUME NEW k \in Jobs PROVE Len(q.settled[k]) <= 1
    <3>1. CASE k = j
      <4>1. Len(q.settled[k]) = 1
        BY <1>6, <2>1, <3>1
      <4> QED
        BY <4>1
    <3>2. CASE k # j
      BY <1>6, <2>2, <3>2
    <3> QED
      BY <3>1, <3>2
  <2> QED
    BY <2>3 DEF SettledOnce
<1>11. OwnAnswers(q)
  <2>1. \A k \in Jobs : \A i \in DOMAIN r.settled[k] : OwnAnswerOf(k, r.settled[k][i])
    BY OwnAnswersAre DEF PoolFits
  <2>2. \A i \in DOMAIN <<a>> : <<a>>[i] = a
    OBVIOUS
  <2>3. ASSUME NEW k \in Jobs, NEW i \in DOMAIN q.settled[k]
        PROVE  OwnAnswerOf(k, q.settled[k][i])
    BY <1>6, <2>1, <2>2
  <2> QED
    BY <2>3, OwnAnswersAre
<1>12. BundlesFit(q, {})
  <2>1. ASSUME NEW k \in Jobs PROVE InPool(r, k) => InPool(q, k)
    BY <1>5, <1>7 DEF InPool
  <2>2. InPool(q, j)
    BY <1>7 DEF InPool
  <2>3. BundlesFit(r, {j})
    BY DEF PoolFits
  <2> QED
    BY <1>5, <2>1, <2>2, <2>3, BundlesCarry
<1>13. PostedFits(q)
  BY <1>5, PostedCarries DEF PoolFits
<1>14. BoundsFit(q)
  BY <1>5 DEF BoundsFit, PoolFits
<1> QED
  BY <1>5, <1>7, <1>8, <1>9, <1>10, <1>11, <1>12, <1>13, <1>14 DEF PoolFits, q

\* A job that is out of the pool runs on an idle worker.
RunOn(r, w, j, ids, all) ==
  [r EXCEPT !.current[w] = j, !.registered[w] = ids, !.posted[w] = all]

LEMMA RunFits ==
  ASSUME NEW r, NEW j \in Jobs, NEW w \in Workers, PoolFits(r, {j}),
         NEW ids \in SUBSET Nat, NEW all \in Seq(Messages),
         j \notin Begun(r), j \notin Elements(r.queue),
         r.current[w] = NoJob, w \in Elements(r.slots),
         \A i \in DOMAIN all : all[i].kind = "register" =>
           OfJob(r, all[i].id, all[i].schema)
  PROVE  LET q == RunOn(r, w, j, ids, all)
         IN  /\ PoolFits(q, {}) /\ Begun(q) = Begun(r) \cup {j}
             /\ q.queue = r.queue /\ q.slots = r.slots /\ q.spawned = r.spawned
             /\ q.bundle = r.bundle
<1> DEFINE q == RunOn(r, w, j, ids, all)
<1>1. r \in Pools
  BY DEF PoolFits
<1>2. /\ r.current \in [Workers -> Jobs \cup {NoJob}]
      /\ r.registered \in [Workers -> SUBSET Nat]
      /\ r.posted \in [Workers -> Seq(Messages)]
      /\ r.settled[j] = << >> /\ \A v \in Workers : r.current[v] # j
  BY <1>1, PoolsAre DEF Begun, Runs
<1> DEFINE runs == [r.current EXCEPT ![w] = j]
           told == [r.registered EXCEPT ![w] = ids]
           post == [r.posted EXCEPT ![w] = all]
<1>4. /\ runs \in [Workers -> Jobs \cup {NoJob}] /\ told \in [Workers -> SUBSET Nat]
      /\ post \in [Workers -> Seq(Messages)]
  BY <1>2
<1>5. q = [r EXCEPT !.current = runs, !.registered = told, !.posted = post]
  BY <1>1, <1>2 DEF RunOn, Pools
<1> HIDE DEF runs, told, post
<1>6. /\ q \in Pools
      /\ q.queue = r.queue /\ q.slots = r.slots /\ q.spawned = r.spawned
      /\ q.bundle = r.bundle /\ q.settled = r.settled
      /\ q.current = runs /\ q.posted = post
  BY <1>1, <1>4, <1>5 DEF Pools
<1> HIDE DEF q
<1>7. q.current[w] = j /\ \A v \in Workers : v # w => q.current[v] = r.current[v]
  BY <1>2, <1>6 DEF runs
<1>8. Begun(q) = Begun(r) \cup {j}
  <2>1. ASSUME NEW k \in Jobs, k # j PROVE Runs(q, k) <=> Runs(r, k)
    <3>1. k # NoJob
      BY PoolAssumption
    <3>2. ASSUME NEW v \in Workers PROVE q.current[v] = k <=> r.current[v] = k
      BY <1>7, <2>1, <3>1
    <3> QED
      BY <3>2 DEF Runs
  <2>2. Runs(q, j)
    BY <1>7 DEF Runs
  <2> QED
    BY <1>6, <2>1, <2>2 DEF Begun
<1>9. QueueFits(q)
  <2>1. \A i \in DOMAIN q.queue : q.queue[i] # j
    BY <1>6 DEF Elements
  <2> QED
    BY <1>6, <1>8, <2>1 DEF QueueFits, PoolFits
<1>10. RunsOnce(q)
  <2>1. ASSUME NEW v \in Workers, q.current[v] # NoJob
        PROVE  q.settled[q.current[v]] = << >> /\ v \in Elements(q.slots)
    BY <1>2, <1>6, <1>7, <2>1 DEF RunsOnce, PoolFits
  <2>2. ASSUME NEW v \in Workers, NEW u \in Workers, q.current[v] = q.current[u],
               q.current[v] # NoJob
        PROVE  v = u
    BY <1>2, <1>7, <2>2 DEF RunsOnce, PoolFits
  <2> QED
    BY <2>1, <2>2 DEF RunsOnce
<1>11. SettledOnce(q) /\ OwnAnswers(q)
  BY <1>6 DEF SettledOnce, OwnAnswers, PoolFits
<1>12. BundlesFit(q, {})
  <2>1. ASSUME NEW k \in Jobs PROVE InPool(r, k) => InPool(q, k)
    BY <1>6, <1>8 DEF InPool
  <2>2. InPool(q, j)
    BY <1>8 DEF InPool
  <2>3. BundlesFit(r, {j})
    BY DEF PoolFits
  <2> QED
    BY <1>6, <2>1, <2>2, <2>3, BundlesCarry
<1>13. PostedFits(q)
  <2> SUFFICES ASSUME NEW v \in Workers, NEW i \in DOMAIN q.posted[v],
                      q.posted[v][i].kind = "register"
               PROVE  OfJob(q, q.posted[v][i].id, q.posted[v][i].schema)
    BY DEF PostedFits
  <2>1. \A id, schema : OfJob(r, id, schema) => OfJob(q, id, schema)
    BY <1>6 DEF OfJob
  <2>2. CASE v # w
    <3>1. q.posted[v] = r.posted[v]
      BY <1>2, <1>6, <2>2 DEF post
    <3> QED
      BY <2>1, <3>1 DEF PostedFits, PoolFits
  <2>3. CASE v = w
    <3>1. q.posted[v] = all
      BY <1>2, <1>6, <2>3 DEF post
    <3> QED
      BY <2>1, <3>1
  <2> QED
    BY <2>2, <2>3
<1>14. BoundsFit(q)
  BY <1>6 DEF BoundsFit, PoolFits
<1> QED
  BY <1>6, <1>8, <1>9, <1>10, <1>11, <1>12, <1>13, <1>14 DEF PoolFits, q

LEMMA PartsOf ==
  ASSUME NEW S, NEW s \in Seq(S), NEW t \in Seq(S), NEW i \in DOMAIN (s \o t)
  PROVE  \/ i \in DOMAIN s /\ (s \o t)[i] = s[i]
         \/ \E k \in DOMAIN t : (s \o t)[i] = t[k]
<1>1. i \in 1 .. Len(s) + Len(t)
  OBVIOUS
<1>2. CASE i <= Len(s)
  BY <1>1, <1>2
<1>3. CASE ~(i <= Len(s))
  <2>1. i - Len(s) \in DOMAIN t /\ (s \o t)[i] = t[i - Len(s)]
    BY <1>1, <1>3
  <2> QED
    BY <2>1
<1> QED
  BY <1>2, <1>3

LEMMA AnswersAre ==
  ASSUME NEW code \in Codes
  PROVE  Failed(code) \in PoolAnswers /\ Failed(code).answer = code
BY DEF Failed, PoolAnswers, Schemas

LEMMA AssignFits ==
  ASSUME NEW r, NEW j \in Jobs, NEW w \in Workers, PoolFits(r, {j}),
         j \notin Begun(r), j \notin Elements(r.queue),
         r.current[w] = NoJob, w \in Elements(r.slots),
         SchemaOf[j] # NoSchema => r.bundle[j] # NoBundle
  PROVE  LET q == Assign(r, w, j)
         IN  /\ PoolFits(q, {}) /\ Begun(q) = Begun(r) \cup {j}
             /\ q.queue = r.queue /\ q.slots = r.slots /\ q.spawned = r.spawned
             /\ q.bundle = r.bundle
<1> DEFINE b == r.bundle[j]
           unseen == SchemaOf[j] # NoSchema /\ b \notin r.registered[w]
           registration == [kind |-> "register", id |-> b, schema |-> SchemaOf[j]]
           job == [kind |-> "job", job |-> j]
           ids == IF unseen THEN r.registered[w] \cup {b} ELSE r.registered[w]
           first == IF unseen THEN <<registration>> ELSE << >>
           all == (r.posted[w] \o first) \o <<job>>
<1>1. r \in Pools
  BY DEF PoolFits
<1>2. CASE j \in expired
  <2>1. Assign(r, w, j) = Settle(r, j, Failed("TIMEOUT"))
    BY <1>2 DEF Assign
  <2>2. Failed("TIMEOUT") \in PoolAnswers /\ Failed("TIMEOUT").answer = "TIMEOUT"
    BY AnswersAre DEF Codes
  <2>3. OwnAnswerOf(j, Failed("TIMEOUT"))
    BY <1>2, <2>2 DEF OwnAnswerOf
  <2> QED
    BY <2>1, <2>2, <2>3, SettleFits
<1>3. CASE j \notin expired /\ unseen /\ SchemaOf[j] \in Oversized
  <2>1. Assign(r, w, j) = Settle(r, j, Failed("REGISTRATION_TOO_LARGE"))
    BY <1>3 DEF Assign
  <2>2. /\ Failed("REGISTRATION_TOO_LARGE") \in PoolAnswers
        /\ Failed("REGISTRATION_TOO_LARGE").answer = "REGISTRATION_TOO_LARGE"
    BY AnswersAre DEF Codes
  <2>3. OwnAnswerOf(j, Failed("REGISTRATION_TOO_LARGE"))
    BY <1>3, <2>2 DEF OwnAnswerOf
  <2> QED
    BY <2>1, <2>2, <2>3, SettleFits
<1>4. CASE j \notin expired /\ ~(unseen /\ SchemaOf[j] \in Oversized)
  <2>1. Assign(r, w, j) = RunOn(r, w, j, ids, all)
    BY <1>1, <1>4, PoolsAre DEF Assign, RunOn
  <2>2. b \in Nat /\ r.registered[w] \in SUBSET Nat /\ r.posted[w] \in Seq(Messages)
    BY <1>1, PoolsAre
  <2>3. ids \in SUBSET Nat
    BY <2>2
  <2>4. registration \in Messages /\ job \in Messages
    BY <2>2 DEF Messages, Schemas
  <2>5. first \in Seq(Messages) /\ <<job>> \in Seq(Messages)
    BY <2>4
  <2>6. r.posted[w] \o first \in Seq(Messages) /\ all \in Seq(Messages)
    BY <2>2, <2>5
  <2>7. ASSUME NEW i \in DOMAIN all, all[i].kind = "register"
        PROVE  OfJob(r, all[i].id, all[i].schema)
    <3>1. \A k \in DOMAIN <<job>> : <<job>>[k] = job
      OBVIOUS
    <3>2. job.kind # "register"
      OBVIOUS
    <3> HIDE DEF first, job
    <3>3. i \in DOMAIN (r.posted[w] \o first) /\ all[i] = (r.posted[w] \o first)[i]
      BY <2>5, <2>6, <2>7, <3>1, <3>2, PartsOf
    <3> HIDE DEF all
    <3>4. CASE i \in DOMAIN r.posted[w] /\ all[i] = r.posted[w][i]
      BY <2>7, <3>4 DEF PostedFits, PoolFits
    <3>5. CASE \E k \in DOMAIN first : all[i] = first[k]
      <4>1. unseen /\ all[i] = registration
        BY <3>5 DEF first
      <4>2. OfJob(r, b, SchemaOf[j])
        BY <4>1 DEF OfJob
      <4> QED
        BY <4>1, <4>2
    <3> QED
      BY <2>2, <2>5, <3>3, <3>4, <3>5, PartsOf
  <2> HIDE DEF ids, all
  <2> QED
    BY <2>1, <2>3, <2>6, <2>7, RunFits
<1> QED
  BY <1>2, <1>3, <1>4

\* The job in front leaves the queue.
LEMMA RestFits ==
  ASSUME NEW p, PoolFits(p, {}), p.queue # << >>
  PROVE  LET r == [p EXCEPT !.queue = Tail(@)]
             j == Head(p.queue)
         IN  /\ j \in Jobs /\ PoolFits(r, {j}) /\ Begun(r) = Begun(p)
             /\ j \notin Begun(r) /\ j \notin Elements(r.queue)
             /\ Len(r.queue) = Len(p.queue) - 1
             /\ r.slots = p.slots /\ r.spawned = p.spawned
             /\ r.bundle = p.bundle /\ r.current = p.current
             /\ SchemaOf[j] # NoSchema => r.bundle[j] # NoBundle
<1> DEFINE r == [p EXCEPT !.queue = Tail(@)]
           j == Head(p.queue)
<1>1. p \in Pools
  BY DEF PoolFits
<1>2. /\ j \in Jobs /\ Tail(p.queue) \in Seq(Jobs)
      /\ Len(Tail(p.queue)) = Len(p.queue) - 1 /\ j = p.queue[1] /\ 1 \in DOMAIN p.queue
      /\ \A i \in DOMAIN Tail(p.queue) :
           i + 1 \in DOMAIN p.queue /\ Tail(p.queue)[i] = p.queue[i + 1]
      /\ Elements(p.queue) = {j} \cup Elements(Tail(p.queue))
  BY <1>1, PoolsAre, FrontOf
<1>3. /\ r \in Pools /\ r.queue = Tail(p.queue)
      /\ r.slots = p.slots /\ r.spawned = p.spawned /\ r.bundle = p.bundle
      /\ r.current = p.current /\ r.posted = p.posted /\ r.settled = p.settled
  BY <1>1, <1>2 DEF Pools
<1>4. DOMAIN r.queue \subseteq Nat \ {0}
  <2>1. r.queue \in Seq(Jobs)
    BY <1>3, PoolsAre
  <2> QED
    BY <2>1
<1> HIDE DEF r, j
<1>5. Begun(r) = Begun(p)
  BY <1>3 DEF Begun, Runs
<1>6. j \notin Begun(r)
  BY <1>2, <1>5 DEF QueueFits, PoolFits
<1>7. ASSUME NEW i \in DOMAIN r.queue, NEW k \in DOMAIN r.queue, r.queue[i] = r.queue[k]
      PROVE  i = k
  <2>1. i + 1 = k + 1
    BY <1>2, <1>3, <1>7 DEF QueueFits, PoolFits
  <2> QED
    BY <1>4, <2>1
<1>8. ASSUME NEW i \in DOMAIN r.queue PROVE r.queue[i] # j /\ r.queue[i] \notin Begun(r)
  <2>1. i + 1 # 1
    BY <1>4
  <2> QED
    BY <1>2, <1>3, <1>5, <2>1 DEF QueueFits, PoolFits
<1>9. QueueFits(r) /\ j \notin Elements(r.queue)
  BY <1>7, <1>8 DEF QueueFits, Elements
<1>10. RunsOnce(r) /\ SettledOnce(r) /\ OwnAnswers(r)
  BY <1>3 DEF RunsOnce, SettledOnce, OwnAnswers, PoolFits
<1>11. BundlesFit(r, {j})
  <2>1. ASSUME NEW k \in Jobs \ {j} PROVE InPool(p, k) => InPool(r, k)
    BY <1>2, <1>3, <1>5 DEF InPool
  <2>2. BundlesFit(p, {}) /\ Elements(r.queue) \subseteq Elements(p.queue)
    BY <1>2, <1>3 DEF PoolFits
  <2> QED
    BY <1>3, <2>1, <2>2, BundlesCarry
<1>12. PostedFits(r)
  BY <1>3, PostedCarries DEF PoolFits
<1>13. BoundsFit(r)
  <2>1. Len(p.queue) \in Nat
    BY <1>1, PoolsAre
  <2>2. BoundsFit(p) /\ MaxPending \in Nat
    BY PoolAssumption DEF PoolFits
  <2>3. Len(r.queue) <= MaxPending
    BY <1>2, <1>3, <2>1, <2>2 DEF BoundsFit
  <2> QED
    BY <1>3, <2>2, <2>3 DEF BoundsFit
<1>14. SchemaOf[j] # NoSchema => r.bundle[j] # NoBundle
  BY <1>2, <1>3 DEF BundlesFit, PoolFits
<1> QED
  BY <1>2, <1>3, <1>5, <1>6, <1>9, <1>10, <1>11, <1>12, <1>13, <1>14 DEF PoolFits, r, j

LEMMA TakeFits ==
  ASSUME NEW p, NEW w \in Workers, PoolFits(p, {}), Spare(p, 1), p.queue # << >>,
         w \in Elements(p.slots), p.current[w] = NoJob
  PROVE  LET q == TakeJob(p, w).pool
         IN  /\ ~TakeJob(p, w).over /\ PoolFits(q, {}) /\ Spare(q, 0)
             /\ Len(q.queue) = Len(p.queue) - 1 /\ q.bundle = p.bundle
<1> DEFINE r == [p EXCEPT !.queue = Tail(@)]
           j == Head(p.queue)
           q == Assign(r, w, j)
<1>1. /\ j \in Jobs /\ PoolFits(r, {j}) /\ Begun(r) = Begun(p)
      /\ j \notin Begun(r) /\ j \notin Elements(r.queue)
      /\ Len(r.queue) = Len(p.queue) - 1
      /\ r.slots = p.slots /\ r.spawned = p.spawned
      /\ r.bundle = p.bundle /\ r.current = p.current
      /\ SchemaOf[j] # NoSchema => r.bundle[j] # NoBundle
  BY RestFits
<1>2. ~TakeJob(p, w).over /\ TakeJob(p, w).pool = q
  BY DEF TakeJob, Pumping, q, r, j
<1> HIDE DEF r, j, q
<1>3. /\ PoolFits(q, {}) /\ Begun(q) = Begun(r) \cup {j}
      /\ q.queue = r.queue /\ q.spawned = r.spawned /\ q.bundle = r.bundle
  BY <1>1, AssignFits DEF q
<1>4. p \in Pools /\ q \in Pools
  BY <1>3 DEF PoolFits
<1>5. Spare(q, 0)
  BY <1>1, <1>3, <1>4, SpareUsed
<1> QED
  BY <1>1, <1>2, <1>3, <1>5

LEMMA SpawnedFits ==
  ASSUME NEW p, PoolFits(p, {}), Spare(p, 0), p.queue # << >>, Len(p.slots) < WorkerCount
  PROVE  LET q == Spawned(p)
             w == p.spawned + 1
         IN  /\ PoolFits(q, {}) /\ Spare(q, 1) /\ q.queue = p.queue
             /\ q.bundle = p.bundle
             /\ w \in Workers /\ w \in Elements(q.slots) /\ q.current[w] = NoJob
<1> DEFINE q == Spawned(p)
           w == p.spawned + 1
<1>1. p \in Pools
  BY DEF PoolFits
<1>2. p.spawned \in Nat /\ p.slots \in Seq(Workers)
  BY <1>1, PoolsAre
<1>3. w \in Workers
  <2>1. Head(p.queue) \in Jobs /\ Head(p.queue) = p.queue[1] /\ 1 \in DOMAIN p.queue
    BY <1>1, PoolsAre, FrontOf
  <2>2. Head(p.queue) \notin Begun(p)
    BY <2>1 DEF QueueFits, PoolFits
  <2>3. Cardinality(Begun(p) \cup {Head(p.queue)}) = Cardinality(Begun(p)) + 1
    BY <1>1, <2>2, PoolBasics, FS_AddElement
  <2>4. Begun(p) \cup {Head(p.queue)} \subseteq Jobs
    BY <1>1, <2>1, PoolBasics
  <2>5. Cardinality(Begun(p) \cup {Head(p.queue)}) <= Cardinality(Jobs)
    BY <2>4, FS_Subset, PoolAssumption
  <2> QED
    BY <1>1, <1>2, <2>3, <2>5, PoolBasics DEF Spare
<1>4. /\ Append(p.slots, w) \in Seq(Workers) /\ Len(Append(p.slots, w)) = Len(p.slots) + 1
      /\ Elements(Append(p.slots, w)) = Elements(p.slots) \cup {w}
  BY <1>2, <1>3, BackOf
<1>5. /\ q \in Pools /\ q.spawned = w /\ q.slots = Append(p.slots, w)
      /\ q.queue = p.queue /\ q.bundle = p.bundle /\ q.current = p.current
      /\ q.posted = p.posted /\ q.settled = p.settled
  <2>1. q = [p EXCEPT !.spawned = w, !.slots = Append(p.slots, w)]
    BY <1>1 DEF Spawned, Pools
  <2>2. w \in Nat
    BY <1>2
  <2> HIDE DEF q, w
  <2> QED
    BY <1>1, <1>4, <2>1, <2>2 DEF Pools
<1> HIDE DEF q
<1>6. \A x \in Elements(p.slots) : x <= p.spawned
  BY DEF BoundsFit, PoolFits, Elements
<1>7. q.current[w] = NoJob
  <2>1. p.current[w] # NoJob => w \in Elements(p.slots)
    BY <1>3 DEF RunsOnce, PoolFits
  <2>2. ~(w <= p.spawned)
    BY <1>2
  <2> QED
    BY <1>5, <1>6, <2>1, <2>2
<1>8. Begun(q) = Begun(p)
  BY <1>5 DEF Begun, Runs
<1>9. QueueFits(q) /\ SettledOnce(q) /\ OwnAnswers(q)
  BY <1>5, <1>8 DEF QueueFits, SettledOnce, OwnAnswers, PoolFits
<1>10. RunsOnce(q)
  BY <1>4, <1>5 DEF RunsOnce, PoolFits
<1>11. BundlesFit(q, {})
  BY <1>5, <1>8, BundlesCarry DEF InPool, PoolFits
<1>12. PostedFits(q)
  BY <1>5, PostedCarries DEF PoolFits
<1>13. BoundsFit(q)
  <2>1. \A x \in Elements(q.slots) : x <= q.spawned
    <3>1. ASSUME NEW x \in Elements(p.slots) PROVE x <= w
      <4>1. x \in Nat /\ x <= p.spawned
        <5>1. x \in Workers
          BY <1>2 DEF Elements
        <5> QED
          BY <1>1, <1>6, <5>1, PoolBasics
      <4> QED
        BY <1>2, <4>1
    <3> QED
      BY <1>2, <1>4, <1>5, <3>1
  <2>2. Len(p.slots) \in Nat /\ WorkerCount \in Nat
    BY <1>2, PoolAssumption
  <2>3. Len(q.slots) <= WorkerCount
    BY <1>4, <1>5, <2>2
  <2>4. Len(q.queue) <= MaxPending
    BY <1>5 DEF BoundsFit, PoolFits
  <2> QED
    BY <2>1, <2>3, <2>4 DEF BoundsFit, Elements
<1>14. Spare(q, 1)
  BY <1>1, <1>2, <1>5, <1>8, PoolBasics DEF Spare
<1> QED
  BY <1>3, <1>4, <1>5, <1>7, <1>9, <1>10, <1>11, <1>12, <1>13, <1>14 DEF PoolFits, q

\* Every job that waits or runs settles, and no worker is left.
Unsettled(p) == {j \in Jobs : Runs(p, j) \/ j \in Elements(p.queue)}
Drained(p) ==
  [p EXCEPT !.queue = << >>, !.slots = << >>, !.current = [w \in Workers |-> NoJob],
     !.settled = [j \in Jobs |-> IF j \in Unsettled(p)
                    THEN Append(p.settled[j], Failed("FAILED")) ELSE p.settled[j]]]

LEMMA DrainedFits ==
  ASSUME NEW p, PoolFits(p, {}), Spare(p, 0)
  PROVE  LET q == Drained(p)
         IN  /\ PoolFits(q, {}) /\ Spare(q, 0) /\ q.queue = << >> /\ q.bundle = p.bundle
<1> DEFINE a == Failed("FAILED")
           none == [w \in Workers |-> NoJob]
           ends == [j \in Jobs |-> IF j \in Unsettled(p)
                                   THEN Append(p.settled[j], a) ELSE p.settled[j]]
           q == Drained(p)
<1>1. p \in Pools /\ p.settled \in [Jobs -> Seq(PoolAnswers)]
  BY PoolsAre DEF PoolFits
<1>2. a \in PoolAnswers /\ a.answer = "FAILED"
  BY AnswersAre DEF Codes
<1> HIDE DEF a
<1>3. ASSUME NEW j \in Unsettled(p)
      PROVE  j \in Jobs /\ p.settled[j] = << >> /\ Append(p.settled[j], a) = <<a>>
  <2>1. j \in Jobs
    BY DEF Unsettled
  <2>2. j # NoJob
    BY <2>1, PoolAssumption
  <2>3. p.settled[j] = << >>
    <3>1. CASE Runs(p, j)
      BY <2>2, <3>1 DEF Runs, RunsOnce, PoolFits
    <3>2. CASE j \in Elements(p.queue)
      BY <2>1, <3>2 DEF Elements, QueueFits, PoolFits, Begun
    <3> QED
      BY <3>1, <3>2 DEF Unsettled
  <2> QED
    BY <2>1, <2>3
<1>4. /\ \A j \in Unsettled(p) : ends[j] = <<a>>
      /\ \A j \in Jobs \ Unsettled(p) : ends[j] = p.settled[j]
  BY <1>3
<1>5. <<a>> \in Seq(PoolAnswers) /\ Len(<<a>>) = 1 /\ <<a>> # << >>
  BY <1>2
<1>6. ends \in [Jobs -> Seq(PoolAnswers)]
  <2>1. ASSUME NEW j \in Jobs
        PROVE  (IF j \in Unsettled(p) THEN Append(p.settled[j], a) ELSE p.settled[j])
                 \in Seq(PoolAnswers)
    BY <1>1, <1>2
  <2> QED
    BY <2>1
<1>7. none \in [Workers -> Jobs \cup {NoJob}]
  OBVIOUS
<1>8. q = [p EXCEPT !.queue = << >>, !.slots = << >>, !.current = none, !.settled = ends]
  BY DEF Drained, a
<1>9. \A w \in Workers : none[w] = NoJob
  OBVIOUS
<1> HIDE DEF none, ends
<1>10. /\ q \in Pools /\ q.queue = << >> /\ q.slots = << >> /\ q.current = none
       /\ q.settled = ends /\ q.bundle = p.bundle /\ q.spawned = p.spawned
       /\ q.posted = p.posted
  <2> HIDE DEF q
  <2>1. << >> \in Seq(Jobs) /\ << >> \in Seq(Workers)
    OBVIOUS
  <2> QED
    BY <1>1, <1>6, <1>7, <1>8, <2>1 DEF Pools
<1> HIDE DEF q
<1>11. Unsettled(p) \subseteq Begun(q)
  BY <1>3, <1>4, <1>5, <1>10 DEF Begun
<1>12. Begun(p) \subseteq Begun(q)
  <2>1. ASSUME NEW j \in Begun(p), j \notin Unsettled(p) PROVE j \in Begun(q)
    BY <1>4, <1>10, <2>1 DEF Begun, Unsettled
  <2> QED
    BY <1>11, <2>1
<1>13. Elements(q.queue) = {} /\ DOMAIN q.queue = {} /\ DOMAIN q.slots = {}
  BY <1>10 DEF Elements
<1>14. QueueFits(q) /\ RunsOnce(q)
  BY <1>9, <1>10, <1>13 DEF QueueFits, RunsOnce
<1>15. SettledOnce(q)
  <2>1. \A k \in Jobs : Len(p.settled[k]) <= 1
    BY DEF SettledOnce, PoolFits
  <2>2. ASSUME NEW k \in Jobs PROVE Len(q.settled[k]) <= 1
    <3>1. CASE k \in Unsettled(p)
      <4>1. Len(q.settled[k]) = 1
        BY <1>4, <1>5, <1>10, <3>1
      <4> QED
        BY <4>1
    <3>2. CASE k \notin Unsettled(p)
      BY <1>4, <1>10, <2>1, <3>2
    <3> QED
      BY <3>1, <3>2
  <2> QED
    BY <2>2 DEF SettledOnce
<1>16. OwnAnswers(q)
  <2>1. \A k \in Jobs : \A i \in DOMAIN p.settled[k] : OwnAnswerOf(k, p.settled[k][i])
    BY OwnAnswersAre DEF PoolFits
  <2>2. \A i \in DOMAIN <<a>> : <<a>>[i] = a
    OBVIOUS
  <2>3. \A k \in Jobs : OwnAnswerOf(k, a)
    BY <1>2 DEF OwnAnswerOf
  <2>4. ASSUME NEW k \in Jobs, NEW i \in DOMAIN q.settled[k]
        PROVE  OwnAnswerOf(k, q.settled[k][i])
    BY <1>4, <1>10, <2>1, <2>2, <2>3
  <2> QED
    BY <2>4, OwnAnswersAre
<1>17. BundlesFit(q, {})
  <2>1. ASSUME NEW k \in Jobs PROVE InPool(p, k) => InPool(q, k)
    BY <1>11, <1>12 DEF InPool, Unsettled
  <2>2. BundlesFit(p, {})
    BY DEF PoolFits
  <2> QED
    BY <1>10, <1>13, <2>1, <2>2, BundlesCarry
<1>18. PostedFits(q)
  BY <1>10, PostedCarries DEF PoolFits
<1>19. BoundsFit(q)
  BY <1>10, <1>13, PoolAssumption DEF BoundsFit
<1>20. Spare(q, 0)
  BY <1>1, <1>10, <1>12, SpareCarries
<1> QED
  BY <1>10, <1>14, <1>15, <1>16, <1>17, <1>18, <1>19, <1>20 DEF PoolFits, q

LEMMA NoWorkerFits ==
  ASSUME NEW p, PoolFits(p, {}), Spare(p, 0), Idle(p) = {}
  PROVE  LET q == NoWorker(p)
         IN  /\ PoolFits(q, {}) /\ Spare(q, 0) /\ Served(q) /\ q.bundle = p.bundle
<1>1. CASE p.slots # << >>
  BY <1>1 DEF NoWorker, Served
<1>2. CASE p.slots = << >>
  <2>1. p \in Pools
    BY DEF PoolFits
  <2>2. Elements(p.slots) = {}
    BY <1>2 DEF Elements
  <2>3. \A w \in Workers : p.current[w] = NoJob
    BY <2>2 DEF RunsOnce, PoolFits
  <2>4. p.current = [w \in Workers |-> NoJob]
    BY <2>1, <2>3, PoolsAre
  <2>5. p.queue \in Seq(Jobs)
    BY <2>1, PoolsAre
  <2>6. Elements(p.queue) \subseteq Jobs
    BY <2>5 DEF Elements
  <2>7. Unsettled(p) = Elements(p.queue)
    BY <2>3, <2>6, PoolAssumption DEF Unsettled, Runs
  <2> DEFINE ends == [j \in Jobs |-> IF j \in Elements(p.queue)
                        THEN Append(p.settled[j], Failed("FAILED")) ELSE p.settled[j]]
  <2>8. NoWorker(p) = [p EXCEPT !.queue = << >>, !.settled = ends]
    BY <1>2 DEF NoWorker
  <2>9. Drained(p) = [p EXCEPT !.queue = << >>, !.slots = << >>,
                        !.current = [w \in Workers |-> NoJob], !.settled = ends]
    BY <2>7 DEF Drained
  <2> HIDE DEF ends
  <2>10. NoWorker(p) = Drained(p)
    <3> DEFINE none == [w \in Workers |-> NoJob]
    <3>2. p.slots = << >> /\ p.current = none
      BY <1>2, <2>4
    <3>3. Drained(p) = [p EXCEPT !.queue = << >>, !.slots = << >>,
                          !.current = none, !.settled = ends]
      BY <2>9
    <3> HIDE DEF none
    <3> DEFINE rest == [queue |-> << >>, slots |-> << >>, spawned |-> p.spawned,
                        current |-> none, registered |-> p.registered,
                        posted |-> p.posted, bundle |-> p.bundle, settled |-> ends]
    <3>4. Drained(p) = rest
      BY <2>1, <3>3 DEF Pools
    <3>5. NoWorker(p) = rest
      BY <2>1, <2>8, <3>2 DEF Pools
    <3> QED
      BY <3>4, <3>5
  <2> QED
    BY <2>10, DrainedFits DEF Served
<1> QED
  BY <1>1, <1>2

\* Nothing waits, or what waits finds no idle worker and no room for another.
Stuck(p) == p.queue = << >> \/ (Idle(p) = {} /\ ~(Len(p.slots) < WorkerCount))

LEMMA StuckIsServed ==
  ASSUME NEW p, Stuck(p)
  PROVE  Served(p)
<1>1. CASE p.queue = << >>
  BY <1>1 DEF Served
<1>2. CASE Idle(p) = {} /\ ~(Len(p.slots) < WorkerCount)
  <2>1. p.slots # << >>
    BY <1>2, PoolAssumption
  <2> QED
    BY <1>2, <2>1 DEF Served
<1> QED
  BY <1>1, <1>2 DEF Stuck

\* A round of pump() over p, once n of them are over.
InRound(turn, p, n) ==
  /\ PoolFits(turn.pool, {}) /\ Spare(turn.pool, 0) /\ turn.pool.bundle = p.bundle
  /\ \/ turn.over /\ Served(turn.pool)
     \/ Stuck(turn.pool)
     \/ ~turn.over /\ Len(turn.pool.queue) + n <= Len(p.queue)

LEMMA OneLess ==
  ASSUME NEW b \in Nat, NEW c \in Nat, NEW n \in Nat, b + n <= c
  PROVE  (b - 1) + (n + 1) <= c
OBVIOUS

LEMMA NoneLeft ==
  ASSUME NEW b \in Nat, NEW c \in Nat, b + c <= c
  PROVE  b = 0
OBVIOUS

LEMMA RoundFits ==
  ASSUME NEW p \in Pools, NEW n \in Nat, NEW turn, InRound(turn, p, n), NEW next \in Round(turn)
  PROVE  InRound(next, p, n + 1)
<1> DEFINE r == turn.pool
           more == ~turn.over /\ r.queue # << >>
<1>1. PoolFits(r, {}) /\ Spare(r, 0) /\ r \in Pools /\ r.bundle = p.bundle
  BY DEF InRound, PoolFits
<1>2. Len(r.queue) \in Nat /\ Len(p.queue) \in Nat /\ r.slots \in Seq(Workers)
  BY <1>1, PoolsAre
<1>3. ASSUME NEW s, PoolFits(s, {}), Spare(s, 0), s.bundle = p.bundle,
             Len(s.queue) = Len(r.queue) - 1, more, ~Stuck(r),
             next.pool = s, ~next.over
      PROVE  InRound(next, p, n + 1)
  <2>2. Len(r.queue) + n <= Len(p.queue)
    BY <1>3 DEF InRound
  <2>3. Len(s.queue) + (n + 1) <= Len(p.queue)
    <3>1. Len(s.queue) = Len(r.queue) - 1
      BY <1>3
    <3> QED
      BY <1>2, <2>2, <3>1, OneLess
  <2> QED
    BY <1>3, <2>3 DEF InRound
<1>4. CASE more /\ Idle(r) # {}
  <2> DEFINE w == r.slots[FirstIdle(r)]
  <2>1. FirstIdle(r) \in Idle(r)
    BY <1>1, <1>4, FirstIdleIsIdle
  <2>2. w \in Workers /\ w \in Elements(r.slots) /\ r.current[w] = NoJob
    BY <1>2, <2>1 DEF Idle, Elements
  <2>3. Spare(r, 1)
    BY <1>1, PoolBasics, PoolsAre DEF Spare
  <2>4. next = TakeJob(r, w)
    BY <1>4 DEF Round
  <2> HIDE DEF w
  <2>5. /\ ~next.over /\ PoolFits(next.pool, {}) /\ Spare(next.pool, 0)
        /\ Len(next.pool.queue) = Len(r.queue) - 1 /\ next.pool.bundle = r.bundle
    BY <1>1, <1>4, <2>2, <2>3, <2>4, TakeFits
  <2>6. ~Stuck(r)
    BY <1>4 DEF Stuck
  <2> QED
    BY <1>1, <1>3, <1>4, <2>5, <2>6
<1>5. CASE more /\ Idle(r) = {} /\ Len(r.slots) < WorkerCount
  <2>1. next = Pumped(NoWorker(r)) \/ next = TakeJob(Spawned(r), r.spawned + 1)
    BY <1>5 DEF Round
  <2>2. CASE next = Pumped(NoWorker(r))
    <3>1. next.pool = NoWorker(r) /\ next.over
      BY <2>2 DEF Pumped
    <3>2. PoolFits(next.pool, {}) /\ Spare(next.pool, 0) /\ Served(next.pool)
          /\ next.pool.bundle = r.bundle
      BY <1>1, <1>5, <3>1, NoWorkerFits
    <3> QED
      BY <1>1, <3>1, <3>2 DEF InRound
  <2>3. CASE next = TakeJob(Spawned(r), r.spawned + 1)
    <3> DEFINE s == Spawned(r)
               w == r.spawned + 1
    <3>1. /\ PoolFits(s, {}) /\ Spare(s, 1) /\ s.queue = r.queue /\ s.bundle = r.bundle
          /\ w \in Workers /\ w \in Elements(s.slots) /\ s.current[w] = NoJob
      BY <1>1, <1>5, SpawnedFits
    <3>2. next = TakeJob(s, w)
      BY <2>3
    <3> HIDE DEF s, w
    <3>3. /\ ~next.over /\ PoolFits(next.pool, {}) /\ Spare(next.pool, 0)
          /\ Len(next.pool.queue) = Len(s.queue) - 1 /\ next.pool.bundle = s.bundle
      BY <1>5, <3>1, <3>2, TakeFits
    <3>4. ~Stuck(r)
      BY <1>5 DEF Stuck
    <3> QED
      BY <1>1, <1>3, <1>5, <3>1, <3>3, <3>4
  <2> QED
    BY <2>1, <2>2, <2>3
<1>6. CASE ~(more /\ Idle(r) # {}) /\ ~(more /\ Idle(r) = {} /\ Len(r.slots) < WorkerCount)
  <2>1. next = turn
    BY <1>6 DEF Round
  <2>2. (turn.over /\ Served(r)) \/ Stuck(r)
    BY <1>6 DEF InRound, Stuck
  <2> QED
    BY <1>1, <2>1, <2>2 DEF InRound
<1> QED
  BY <1>4, <1>5, <1>6

\* pump(): whatever it comes to, the pool is whole and no job waits in vain.
LEMMA PumpFits ==
  ASSUME NEW p, PoolFits(p, {}), Spare(p, 0), NEW q \in Pump(p)
  PROVE  PoolFits(q, {}) /\ Spare(q, 0) /\ Served(q) /\ q.bundle = p.bundle
<1> DEFINE L == Len(p.queue)
           A == {Pumping(p)}
           rounds == CHOOSE f : f = [n \in 0 .. L |->
                       IF n = 0 THEN A ELSE UNION {Round(turn) : turn \in f[n - 1]}]
           Fails == {n \in 0 .. L : \E turn \in rounds[n] : ~InRound(turn, p, n)}
<1>1. p \in Pools /\ L \in Nat
  BY PoolsAre DEF PoolFits
<1>2. Pump(p) = {turn.pool : turn \in rounds[L]}
  BY DEF Pump
<1>3. rounds = [n \in 0 .. L |-> IF n = 0 THEN A ELSE After(rounds[n - 1])]
  <2> HIDE DEF L, A
  <2>1. \E f : Counts(f, L, A)
    BY <1>1, RoundsAreDefined
  <2>2. rounds = CHOOSE f : Counts(f, L, A)
    BY DEF After, Counts
  <2>3. Counts(rounds, L, A)
    <3> HIDE DEF rounds
    <3> QED
      BY <2>1, <2>2, Zenon
  <2> QED
    BY <2>3 DEF Counts
<1> HIDE DEF rounds
<1>4. ASSUME NEW turn \in A PROVE InRound(turn, p, 0)
  BY <1>1 DEF InRound, Pumping
<1>5. Fails = {}
  <2>1. SUFFICES ASSUME Fails # {} PROVE FALSE
    OBVIOUS
  <2>0. Fails \in SUBSET Nat
    BY <1>1
  <2>2. PICK m \in Fails : \A n \in Fails : m <= n
    <3> HIDE DEF Fails
    <3> QED
      BY <2>0, <2>1, LeastOfNaturals
  <2>3. m \in 0 .. L
    OBVIOUS
  <2>4. PICK turn \in rounds[m] : ~InRound(turn, p, m)
    BY <2>2
  <2>5. m # 0
    <3>1. rounds[0] = A
      BY <1>1, <1>3
    <3> QED
      BY <1>4, <2>4, <3>1
  <2>6. m - 1 \in 0 .. L /\ ~(m <= m - 1) /\ m - 1 \in Nat /\ (m - 1) + 1 = m
    BY <1>1, <2>3, <2>5
  <2>7. rounds[m] = After(rounds[m - 1])
    BY <1>3, <2>3, <2>5
  <2>8. PICK last \in rounds[m - 1] : turn \in Round(last)
    BY <2>4, <2>7 DEF After
  <2>9. InRound(last, p, m - 1)
    BY <2>2, <2>6, <2>8
  <2>10. InRound(turn, p, (m - 1) + 1)
    BY <1>1, <2>6, <2>8, <2>9, RoundFits
  <2> QED
    BY <2>4, <2>6, <2>10
<1>6. PICK turn \in rounds[L] : q = turn.pool
  BY <1>2
<1>7. InRound(turn, p, L)
  BY <1>1, <1>5, <1>6
<1>8. Served(q)
  <2>1. q.queue \in Seq(Jobs)
    BY <1>6, <1>7, PoolsAre DEF InRound, PoolFits
  <2>2. Len(q.queue) \in Nat
    BY <2>1
  <2>3. CASE Len(q.queue) + L <= L
    <3>1. Len(q.queue) = 0
      BY <1>1, <2>2, <2>3, NoneLeft
    <3>2. q.queue = << >>
      BY <2>1, <3>1
    <3> QED
      BY <3>2 DEF Served
  <2>4. CASE Stuck(q)
    BY <2>4, StuckIsServed
  <2> QED
    BY <1>6, <1>7, <2>3, <2>4 DEF InRound
<1> QED
  BY <1>6, <1>7, <1>8 DEF InRound

\* A worker lets go of its job, and may go offline.
Freed(p, w, slots) == [p EXCEPT !.slots = slots, !.current[w] = NoJob]

LEMMA FreedFits ==
  ASSUME NEW p, PoolFits(p, {}), NEW w \in Workers, NEW slots \in Seq(Workers),
         Len(slots) <= Len(p.slots), Elements(slots) \subseteq Elements(p.slots),
         \A x \in Elements(p.slots) : x # w => x \in Elements(slots)
  PROVE  LET r == Freed(p, w, slots)
             j == p.current[w]
         IN  /\ PoolFits(r, {j}) /\ r.queue = p.queue /\ r.bundle = p.bundle
             /\ r.spawned = p.spawned /\ r.slots = slots
             /\ j \notin Begun(r) /\ j \notin Elements(r.queue)
             /\ Begun(p) \subseteq Begun(r) \cup {j}
<1> DEFINE r == Freed(p, w, slots)
           j == p.current[w]
           runs == [p.current EXCEPT ![w] = NoJob]
<1>1. /\ p \in Pools /\ p.current \in [Workers -> Jobs \cup {NoJob}]
      /\ p.queue \in Seq(Jobs) /\ p.slots \in Seq(Workers)
  BY PoolsAre DEF PoolFits
<1>2. runs \in [Workers -> Jobs \cup {NoJob}]
  BY <1>1
<1>3. r = [p EXCEPT !.slots = slots, !.current = runs]
  BY <1>1 DEF Freed, Pools
<1>4. \A v \in Workers : runs[v] = IF v = w THEN NoJob ELSE p.current[v]
  BY <1>1
<1> HIDE DEF runs
<1>5. /\ r \in Pools /\ r.queue = p.queue /\ r.slots = slots /\ r.current = runs
      /\ r.spawned = p.spawned /\ r.bundle = p.bundle /\ r.posted = p.posted
      /\ r.settled = p.settled
  BY <1>1, <1>2, <1>3 DEF Pools
<1> HIDE DEF r
<1>6. j \notin Begun(r)
  <2>1. SUFFICES ASSUME j \in Jobs PROVE j \notin Begun(r)
    BY DEF Begun
  <2>2. j # NoJob
    BY <2>1, PoolAssumption
  <2>3. r.settled[j] = << >>
    BY <1>5, <2>2 DEF RunsOnce, PoolFits
  <2>4. ASSUME NEW v \in Workers PROVE r.current[v] # j
    BY <1>4, <1>5, <2>2 DEF RunsOnce, PoolFits
  <2> QED
    BY <2>3, <2>4 DEF Begun, Runs
<1>7. j \notin Elements(r.queue)
  <2>1. ASSUME NEW i \in DOMAIN p.queue PROVE p.queue[i] # j
    <3>1. p.queue[i] \in Jobs /\ p.queue[i] \notin Begun(p)
      BY <1>1 DEF QueueFits, PoolFits
    <3> QED
      BY <3>1 DEF Begun, Runs
  <2> QED
    BY <1>5, <2>1 DEF Elements
<1>8. Begun(r) \subseteq Begun(p)
  <2>1. ASSUME NEW k \in Jobs, Runs(r, k) PROVE Runs(p, k)
    <3>1. k # NoJob
      BY PoolAssumption
    <3> QED
      BY <1>4, <1>5, <2>1, <3>1 DEF Runs
  <2> QED
    BY <1>5, <2>1 DEF Begun
<1>9. Begun(p) \subseteq Begun(r) \cup {j}
  <2>1. ASSUME NEW k \in Jobs, Runs(p, k), k # j PROVE Runs(r, k)
    BY <1>4, <1>5, <2>1 DEF Runs
  <2> QED
    BY <1>5, <2>1 DEF Begun
<1>10. QueueFits(r)
  BY <1>5, <1>8 DEF QueueFits, PoolFits
<1>11. RunsOnce(r)
  BY <1>4, <1>5 DEF RunsOnce, PoolFits
<1>12. SettledOnce(r) /\ OwnAnswers(r)
  BY <1>5 DEF SettledOnce, OwnAnswers, PoolFits
<1>13. BundlesFit(r, {j})
  <2>1. ASSUME NEW k \in Jobs \ {j} PROVE InPool(p, k) => InPool(r, k)
    BY <1>5, <1>9 DEF InPool
  <2>2. BundlesFit(p, {})
    BY DEF PoolFits
  <2> HIDE DEF j
  <2> QED
    BY <1>5, <2>1, <2>2, BundlesCarry
<1>14. PostedFits(r)
  BY <1>5, PostedCarries DEF PoolFits
<1>15. BoundsFit(r)
  <2>1. Len(slots) \in Nat /\ Len(p.slots) \in Nat /\ WorkerCount \in Nat
    BY <1>1, PoolAssumption
  <2>2. BoundsFit(p)
    BY DEF PoolFits
  <2>3. Len(slots) <= WorkerCount
    BY <2>1, <2>2 DEF BoundsFit
  <2> QED
    BY <1>5, <2>2, <2>3 DEF BoundsFit, Elements
<1> QED
  BY <1>5, <1>6, <1>7, <1>9, <1>10, <1>11, <1>12, <1>13, <1>14, <1>15 DEF PoolFits, r

\* A worker that lets go of its job, if it has one, once that settled.
LEMMA FreedAndSettledFits ==
  ASSUME NEW p, PoolFits(p, {}), Spare(p, 0), NEW w \in Workers,
         NEW slots \in Seq(Workers), NEW a \in PoolAnswers,
         Len(slots) <= Len(p.slots), Elements(slots) \subseteq Elements(p.slots),
         \A x \in Elements(p.slots) : x # w => x \in Elements(slots),
         NEW q, p.current[w] \in Jobs => OwnAnswerOf(p.current[w], a),
         q = IF p.current[w] = NoJob THEN Freed(p, w, slots)
             ELSE Settle(Freed(p, w, slots), p.current[w], a)
  PROVE  PoolFits(q, {}) /\ Spare(q, 0) /\ q.bundle = p.bundle
<1> DEFINE r == Freed(p, w, slots)
           j == p.current[w]
<1>1. /\ PoolFits(r, {j}) /\ r.queue = p.queue /\ r.bundle = p.bundle
      /\ r.spawned = p.spawned /\ r.slots = slots
      /\ j \notin Begun(r) /\ j \notin Elements(r.queue)
      /\ Begun(p) \subseteq Begun(r) \cup {j}
  BY FreedFits
<1>2. p \in Pools /\ r \in Pools /\ j \in Jobs \cup {NoJob}
  BY <1>1, PoolsAre DEF PoolFits
<1> HIDE DEF r, j
<1>3. CASE j = NoJob
  <2>1. q = r
    BY <1>3 DEF r, j
  <2>2. Begun(p) \subseteq Begun(r)
    BY <1>1, <1>2, <1>3, PoolAssumption, PoolBasics
  <2>3. BundlesFit(r, {})
    BY <1>1, <1>3, PoolAssumption DEF PoolFits, BundlesFit
  <2>4. PoolFits(r, {})
    BY <1>1, <2>3 DEF PoolFits
  <2>5. Spare(r, 0)
    BY <1>1, <1>2, <2>2, SpareCarries
  <2> QED
    BY <1>1, <2>1, <2>4, <2>5
<1>4. CASE j # NoJob
  <2>1. q = Settle(r, j, a) /\ j \in Jobs /\ OwnAnswerOf(j, a)
    BY <1>2, <1>4 DEF r, j
  <2>2. /\ PoolFits(q, {}) /\ Begun(q) = Begun(r) \cup {j} /\ q.spawned = r.spawned
        /\ q.bundle = r.bundle
    BY <1>1, <2>1, SettleFits
  <2>3. q \in Pools
    BY <2>2 DEF PoolFits
  <2>4. Spare(q, 0)
    BY <1>1, <1>2, <2>2, <2>3, SpareCarries
  <2> QED
    BY <1>1, <2>2, <2>4
<1> QED
  BY <1>3, <1>4

\* takeOffline(), up to pump(), of a slot of the pool.
LEMMA OfflineFits ==
  ASSUME PoolInv, NEW w \in Elements(pool.slots), NEW code \in {"FAILED", "TIMEOUT"},
         code = "TIMEOUT" => pool.current[w] \in expired
  PROVE  LET q == Offline(w, code)
         IN  PoolFits(q, {}) /\ Spare(q, 0) /\ q.bundle = pool.bundle
<1> DEFINE slot == CHOOSE i \in DOMAIN pool.slots : pool.slots[i] = w
           slots == Without(pool.slots, slot)
           q == Offline(w, code)
<1>1. PoolFits(pool, {}) /\ Spare(pool, 0) /\ pool \in Pools
  BY DEF PoolInv, PoolFits
<1>2. pool.slots \in Seq(Workers) /\ pool.current \in [Workers -> Jobs \cup {NoJob}]
  BY <1>1, PoolsAre
<1>3. slot \in DOMAIN pool.slots /\ pool.slots[slot] = w
  BY DEF Elements
<1> HIDE DEF slot
<1>4. w \in Workers
  BY <1>2, <1>3
<1>5. /\ slots \in Seq(Workers) /\ Len(slots) = Len(pool.slots) - 1
      /\ Elements(slots) \subseteq Elements(pool.slots)
      /\ \A x \in Elements(pool.slots) : x # w => x \in Elements(slots)
  BY <1>2, <1>3, CutOf
<1>6. Len(slots) <= Len(pool.slots)
  <2>1. Len(pool.slots) \in Nat
    BY <1>2
  <2> QED
    BY <1>5, <2>1
<1>7. Failed(code) \in PoolAnswers /\ Failed(code).answer = code
  BY AnswersAre DEF Codes
<1>8. OwnAnswerOf(pool.current[w], Failed(code))
  BY <1>7 DEF OwnAnswerOf
<1>9. q = IF pool.current[w] = NoJob THEN Freed(pool, w, slots)
          ELSE Settle(Freed(pool, w, slots), pool.current[w], Failed(code))
  <2>1. [pool EXCEPT !.slots = Without(@, slot), !.current[w] = NoJob]
          = Freed(pool, w, slots)
    BY <1>1 DEF Freed, Pools
  <2> QED
    BY <2>1 DEF Offline, slot
<1> HIDE DEF slots, q
<1>10. PoolFits(q, {}) /\ Spare(q, 0) /\ q.bundle = pool.bundle
  BY <1>1, <1>4, <1>5, <1>6, <1>7, <1>8, <1>9, FreedAndSettledFits
<1> QED
  BY <1>10 DEF q

\* A step that leaves the bundles alone.
LEMMA PoolStep ==
  ASSUME PoolInv, PoolFits(pool', {}), Spare(pool', 0), Served(pool'),
         pool'.bundle = pool.bundle, UNCHANGED <<bundles, nextBundle, known, expired>>,
         replies' \in [Workers -> Seq(OwnReplies)]
  PROVE  PoolInv'
<1>1. PoolFits(pool, {})'
  BY DEF PoolFits, OwnAnswers
<1>2. RegistryFits'
  BY DEF PoolInv, RegistryFits
<1>3. KnownFits'
  BY DEF PoolInv, KnownFits, OfJob
<1> QED
  BY <1>1, <1>2, <1>3 DEF PoolInv

LEMMA TimerStep ==
  ASSUME PoolInv, NEW w \in Workers, TimerFires(w)
  PROVE  PoolInv'
<1>1. w \in Elements(pool.slots) /\ pool.current[w] \in expired
  BY DEF TimerFires
<1> DEFINE r == Offline(w, "TIMEOUT")
<1>2. PICK q \in Pump(r) : pool' = q
  BY DEF TimerFires, TakeOffline, Becomes
<1>3. PoolFits(r, {}) /\ Spare(r, 0) /\ r.bundle = pool.bundle
  BY <1>1, OfflineFits
<1> HIDE DEF r
<1>4. PoolFits(q, {}) /\ Spare(q, 0) /\ Served(q) /\ q.bundle = r.bundle
  BY <1>3, PumpFits
<1> QED
  BY <1>2, <1>3, <1>4, PoolStep DEF TimerFires, PoolInv

LEMMA ExitStep ==
  ASSUME PoolInv, NEW w \in Workers, OnExitOf(w)
  PROVE  PoolInv'
<1>1. w \in Elements(pool.slots)
  BY DEF OnExitOf
<1> DEFINE r == Offline(w, "FAILED")
<1>2. PICK q \in Pump(r) : pool' = q
  BY DEF OnExitOf, TakeOffline, Becomes
<1>3. PoolFits(r, {}) /\ Spare(r, 0) /\ r.bundle = pool.bundle
  BY <1>1, OfflineFits
<1> HIDE DEF r
<1>4. PoolFits(q, {}) /\ Spare(q, 0) /\ Served(q) /\ q.bundle = r.bundle
  BY <1>3, PumpFits
<1> QED
  BY <1>2, <1>3, <1>4, PoolStep DEF OnExitOf, PoolInv

LEMMA ReplyStep ==
  ASSUME PoolInv, NEW w \in Workers, OnReply(w)
  PROVE  PoolInv'
<1> DEFINE reply == Head(replies[w])
           j == pool.current[w]
           r == Settle([pool EXCEPT !.current[w] = NoJob], j, reply.answer)
<1>1. pool \in Pools /\ PoolFits(pool, {}) /\ Spare(pool, 0)
  BY DEF PoolInv, PoolFits
<1>2. replies[w] \in Seq(OwnReplies) /\ replies[w] # << >>
  BY DEF PoolInv, OnReply
<1>3. reply \in OwnReplies /\ Tail(replies[w]) \in Seq(OwnReplies)
  BY <1>2, FrontOf
<1>4. replies' \in [Workers -> Seq(OwnReplies)]
  BY <1>3 DEF PoolInv, OnReply
<1>5. UNCHANGED <<bundles, nextBundle, known, expired>>
  BY DEF OnReply
<1> DEFINE ignored == reply.kind = "registered" \/ w \notin Elements(pool.slots)
                      \/ j # reply.job
<1>6. CASE ignored
  <2>1. pool' = pool
    BY <1>6 DEF OnReply
  <2> QED
    BY <1>1, <1>4, <1>5, <2>1, PoolStep DEF PoolInv
<1>7. CASE ~ignored
  <2>1. PICK q \in Pump(r) : pool' = q
    BY <1>7 DEF OnReply, Becomes
  <2>2. /\ j = reply.job /\ j \in Jobs /\ reply.answer \in PoolAnswers
        /\ reply.answer.answer \in {"FAILED", "result"}
        /\ reply.answer.answer = "result" => reply.answer.schema = SchemaOf[j]
    BY <1>3, <1>7 DEF OwnReplies
  <2>3. OwnAnswerOf(j, reply.answer)
    BY <2>2 DEF OwnAnswerOf
  <2>4. pool.slots \in Seq(Workers)
    BY <1>1, PoolsAre
  <2>5. Len(pool.slots) \in Nat
    BY <2>4
  <2>6. [pool EXCEPT !.current[w] = NoJob] = Freed(pool, w, pool.slots)
    BY <1>1 DEF Freed, Pools
  <2>7. j # NoJob
    BY <2>2, PoolAssumption
  <2>8. r = IF j = NoJob THEN Freed(pool, w, pool.slots)
            ELSE Settle(Freed(pool, w, pool.slots), j, reply.answer)
    BY <2>6, <2>7
  <2> DEFINE a == reply.answer
  <2> HIDE DEF r, reply, a
  <2>9. a \in PoolAnswers /\ OwnAnswerOf(j, a)
        /\ r = IF j = NoJob THEN Freed(pool, w, pool.slots)
               ELSE Settle(Freed(pool, w, pool.slots), j, a)
    BY <2>2, <2>3, <2>8 DEF a
  <2>10. PoolFits(r, {}) /\ Spare(r, 0) /\ r.bundle = pool.bundle
    BY <1>1, <2>4, <2>5, <2>9, FreedAndSettledFits
  <2>11. PoolFits(q, {}) /\ Spare(q, 0) /\ Served(q) /\ q.bundle = r.bundle
    BY <2>1, <2>10, PumpFits
  <2> QED
    BY <1>4, <1>5, <2>1, <2>10, <2>11, PoolStep
<1> QED
  BY <1>6, <1>7

LEMMA ClosePoolStep ==
  ASSUME PoolInv, ClosePool
  PROVE  PoolInv'
<1> DEFINE inSlots == {pool.current[w] : w \in Elements(pool.slots)} \ {NoJob}
<1>1. pool \in Pools /\ PoolFits(pool, {}) /\ Spare(pool, 0)
  BY DEF PoolInv, PoolFits
<1>2. /\ pool.slots \in Seq(Workers) /\ pool.queue \in Seq(Jobs)
      /\ pool.current \in [Workers -> Jobs \cup {NoJob}]
  BY <1>1, PoolsAre
<1>3. Elements(pool.slots) \subseteq Workers /\ Elements(pool.queue) \subseteq Jobs
  BY <1>2 DEF Elements
<1>4. Unsettled(pool) = inSlots \cup Elements(pool.queue)
  <2>1. ASSUME NEW k \in Jobs, Runs(pool, k) PROVE k \in inSlots
    <3>1. k # NoJob
      BY PoolAssumption
    <3>2. PICK w \in Workers : pool.current[w] = k
      BY <2>1 DEF Runs
    <3>3. w \in Elements(pool.slots)
      BY <1>1, <3>1, <3>2 DEF RunsOnce, PoolFits
    <3> QED
      BY <3>1, <3>2, <3>3
  <2>2. ASSUME NEW k \in inSlots PROVE k \in Jobs /\ Runs(pool, k)
    BY <1>2, <1>3 DEF Runs
  <2> QED
    BY <1>3, <2>1, <2>2 DEF Unsettled
<1>5. pool' = Drained(pool)
  <2>1. pool' = [pool EXCEPT !.queue = << >>, !.slots = << >>,
                   !.current = [w \in Workers |-> NoJob],
                   !.settled = [j \in Jobs |->
                      IF j \in inSlots \cup Elements(pool.queue)
                      THEN Append(@[j], Failed("FAILED")) ELSE @[j]]]
    BY DEF ClosePool, Becomes
  <2> HIDE DEF inSlots
  <2>2. pool' = [pool EXCEPT !.queue = << >>, !.slots = << >>,
                   !.current = [w \in Workers |-> NoJob],
                   !.settled = [j \in Jobs |->
                      IF j \in inSlots \cup Elements(pool.queue)
                      THEN Append(pool.settled[j], Failed("FAILED"))
                      ELSE pool.settled[j]]]
    BY <1>1, <2>1 DEF Pools
  <2> QED
    BY <1>4, <2>2 DEF Drained
<1>6. /\ PoolFits(pool', {}) /\ Spare(pool', 0) /\ pool'.queue = << >>
      /\ pool'.bundle = pool.bundle
  BY <1>1, <1>5, DrainedFits
<1>7. Served(pool')
  BY <1>6 DEF Served
<1> QED
  BY <1>6, <1>7, PoolStep DEF ClosePool, PoolInv

LEMMA DeadlineStep ==
  ASSUME PoolInv, NEW j \in Jobs, DeadlinePasses(j)
  PROVE  PoolInv'
<1>1. expired' = expired \cup {j} /\ UNCHANGED <<pool, bundles, nextBundle, known, replies>>
  BY DEF DeadlinePasses
<1>2. OwnAnswers(pool)'
  BY <1>1 DEF PoolInv, PoolFits, OwnAnswers
<1>3. PoolFits(pool, {})'
  BY <1>1, <1>2 DEF PoolInv, PoolFits
<1>4. RegistryFits' /\ KnownFits'
  BY <1>1 DEF PoolInv, RegistryFits, KnownFits, OfJob
<1> QED
  BY <1>1, <1>3, <1>4 DEF PoolInv

LEMMA ThreadDiesStep ==
  ASSUME PoolInv, NEW w \in Workers, ThreadDies(w)
  PROVE  PoolInv'
<1>1. UNCHANGED <<pool, bundles, nextBundle, known, expired>>
  BY DEF ThreadDies
<1>2. replies' \in [Workers -> Seq(OwnReplies)]
  <2>1. << >> \in Seq(OwnReplies)
    OBVIOUS
  <2> QED
    BY <2>1 DEF PoolInv, ThreadDies
<1>3. PoolFits(pool', {}) /\ Spare(pool', 0) /\ Served(pool') /\ pool'.bundle = pool.bundle
  BY <1>1 DEF PoolInv
<1> QED
  BY <1>1, <1>2, <1>3, PoolStep

LEMMA ThreadRunsStep ==
  ASSUME PoolInv, NEW w \in Workers, ThreadRuns(w)
  PROVE  PoolInv'
<1> DEFINE message == Head(pool.posted[w])
           post == [pool.posted EXCEPT ![w] = Tail(pool.posted[w])]
<1>1. pool \in Pools /\ PoolFits(pool, {}) /\ Spare(pool, 0)
  BY DEF PoolInv, PoolFits
<1>2. /\ pool.posted \in [Workers -> Seq(Messages)] /\ pool.posted[w] # << >>
      /\ pool.bundle \in [Jobs -> Nat]
  BY <1>1, PoolsAre DEF ThreadRuns
<1>3. /\ message \in Messages /\ Tail(pool.posted[w]) \in Seq(Messages)
      /\ message = pool.posted[w][1] /\ 1 \in DOMAIN pool.posted[w]
      /\ \A i \in DOMAIN Tail(pool.posted[w]) :
           i + 1 \in DOMAIN pool.posted[w] /\ Tail(pool.posted[w])[i] = pool.posted[w][i + 1]
  <2>1. pool.posted[w] \in Seq(Messages)
    BY <1>2
  <2> QED
    BY <1>2, <2>1, FrontOf
<1>4. UNCHANGED <<bundles, nextBundle, expired>>
  BY DEF ThreadRuns
<1>5. post \in [Workers -> Seq(Messages)]
  BY <1>2, <1>3
<1>6. pool' = [pool EXCEPT !.posted = post]
  BY <1>1 DEF ThreadRuns, Pools
<1>7. \A v \in Workers : post[v] = IF v = w THEN Tail(pool.posted[w]) ELSE pool.posted[v]
  BY <1>2
<1> HIDE DEF post, message
<1>8. /\ pool' \in Pools /\ pool'.posted = post /\ pool'.queue = pool.queue
      /\ pool'.slots = pool.slots /\ pool'.spawned = pool.spawned
      /\ pool'.current = pool.current /\ pool'.bundle = pool.bundle
      /\ pool'.settled = pool.settled
  BY <1>1, <1>5, <1>6 DEF Pools
<1>9. Begun(pool') = Begun(pool)
  BY <1>8 DEF Begun, Runs
<1>10. PostedFits(pool')
  <2> SUFFICES ASSUME NEW v \in Workers, NEW i \in DOMAIN pool'.posted[v],
                      pool'.posted[v][i].kind = "register"
               PROVE  OfJob(pool', pool'.posted[v][i].id, pool'.posted[v][i].schema)
    BY DEF PostedFits
  <2>1. \A id, schema : OfJob(pool, id, schema) => OfJob(pool', id, schema)
    BY <1>8 DEF OfJob
  <2>2. \E k \in DOMAIN pool.posted[v] : pool'.posted[v][i] = pool.posted[v][k]
    <3>1. CASE v = w
      <4>1. i \in DOMAIN Tail(pool.posted[w])
            /\ pool'.posted[v][i] = Tail(pool.posted[w])[i]
        BY <1>7, <1>8, <3>1
      <4> QED
        BY <1>3, <3>1, <4>1
    <3>2. CASE v # w
      BY <1>7, <1>8, <3>2
    <3> QED
      BY <3>1, <3>2
  <2> QED
    BY <1>1, <2>1, <2>2 DEF PostedFits, PoolFits
<1>11. PoolFits(pool', {})
  <2>1. QueueFits(pool') /\ BundlesFit(pool', {})
    BY <1>1, <1>8, <1>9 DEF PoolFits, QueueFits, BundlesFit, InPool
  <2>2. RunsOnce(pool') /\ SettledOnce(pool') /\ OwnAnswers(pool') /\ BoundsFit(pool')
    BY <1>1, <1>8 DEF PoolFits, RunsOnce, SettledOnce, OwnAnswers, BoundsFit
  <2> QED
    BY <1>8, <1>10, <2>1, <2>2 DEF PoolFits
<1>12. Spare(pool', 0) /\ Served(pool')
  BY <1>1, <1>8, <1>9 DEF PoolInv, Spare, Served, Idle
<1>13. PoolFits(pool, {})'
  BY <1>4, <1>11 DEF PoolFits, OwnAnswers
<1>14. RegistryFits'
  BY <1>4, <1>8 DEF PoolInv, RegistryFits
<1>15. CASE message.kind = "register"
  <2>1. message \in [kind : {"register"}, id : Nat, schema : Schemas]
    BY <1>3, <1>15 DEF Messages
  <2>2. OfJob(pool, message.id, message.schema)
    BY <1>1, <1>3, <1>15 DEF PostedFits, PoolFits
  <2> DEFINE b == [id |-> message.id, schema |-> message.schema]
  <2>3. known' = [known EXCEPT ![w] = @ \cup {b}]
        /\ replies' = [replies EXCEPT ![w] = Append(@, [kind |-> "registered"])]
    BY <1>15 DEF ThreadRuns, message
  <2>4. b \in [id : Nat, schema : Schemas] /\ b.id = message.id /\ b.schema = message.schema
    BY <2>1
  <2> HIDE DEF b
  <2>5. known' \in [Workers -> SUBSET [id : Nat, schema : Schemas]]
    BY <2>3, <2>4 DEF PoolInv, KnownFits
  <2>6. ASSUME NEW v \in Workers, NEW x \in known'[v] PROVE OfJob(pool, x.id, x.schema)
    <3>1. x \in known[v] \/ x = b
      BY <2>3 DEF PoolInv, KnownFits
    <3> QED
      BY <2>2, <2>4, <3>1 DEF PoolInv, KnownFits
  <2>7. KnownFits'
    BY <1>8, <2>5, <2>6 DEF KnownFits, OfJob
  <2>8. [kind |-> "registered"] \in OwnReplies
    BY DEF OwnReplies
  <2>9. replies' \in [Workers -> Seq(OwnReplies)]
    BY <2>3, <2>8 DEF PoolInv
  <2> QED
    BY <1>4, <1>12, <1>13, <1>14, <2>7, <2>9 DEF PoolInv
<1>16. CASE message.kind # "register"
  <2>1. message \in [kind : {"job"}, job : Jobs]
    BY <1>3, <1>16 DEF Messages
  <2> DEFINE j == message.job
             Answers == {Failed("FAILED")} \cup
               IF SchemaOf[j] = NoSchema THEN {Result(NoSchema)}
               ELSE {Result(b.schema) : b \in {b \in known[w] : b.id = pool.bundle[j]}}
  <2>2. j \in Jobs
    BY <2>1
  <2>3. PICK answer \in Answers :
          replies' = [replies EXCEPT ![w] =
                        Append(@, [kind |-> "answer", job |-> j, answer |-> answer])]
    BY <1>16 DEF ThreadRuns, message
  <2>4. known' = known
    BY <1>16 DEF ThreadRuns, message
  <2>5. /\ answer \in PoolAnswers /\ answer.answer \in {"FAILED", "result"}
        /\ answer.answer = "result" => answer.schema = SchemaOf[j]
    <3> HIDE DEF j
    <3>1. CASE answer = Failed("FAILED")
      <4>1. answer \in PoolAnswers /\ answer.answer = "FAILED"
        BY <3>1, AnswersAre DEF Codes
      <4> QED
        BY <4>1
    <3>2. CASE SchemaOf[j] = NoSchema /\ answer = Result(NoSchema)
      BY <3>2 DEF Result, PoolAnswers, Codes, Schemas
    <3>3. CASE SchemaOf[j] # NoSchema
               /\ \E b \in known[w] : b.id = pool.bundle[j] /\ answer = Result(b.schema)
      <4>1. PICK b \in known[w] : b.id = pool.bundle[j] /\ answer = Result(b.schema)
        BY <3>3
      <4>2. b.schema = SchemaOf[j]
        <5>1. OfJob(pool, b.id, b.schema)
          BY DEF PoolInv, KnownFits
        <5>2. PICK k \in Jobs : pool.bundle[k] = b.id /\ SchemaOf[k] = b.schema
          BY <5>1 DEF OfJob
        <5>3. pool.bundle[k] # NoBundle /\ pool.bundle[k] = pool.bundle[j]
          BY <4>1, <5>1, <5>2 DEF OfJob
        <5>4. BundlesFit(pool, {})
          BY <1>1 DEF PoolFits
        <5> QED
          BY <2>2, <5>2, <5>3, <5>4 DEF BundlesFit, j
      <4>3. answer = [answer |-> "result", schema |-> SchemaOf[j]]
        BY <4>1, <4>2 DEF Result
      <4> QED
        BY <2>2, <4>3 DEF PoolAnswers, Codes, Schemas, j
    <3> QED
      BY <3>1, <3>2, <3>3
  <2> DEFINE reply == [kind |-> "answer", job |-> j, answer |-> answer]
  <2>6. reply \in OwnReplies
    BY <2>2, <2>5 DEF OwnReplies
  <2> HIDE DEF reply
  <2>7. replies' \in [Workers -> Seq(OwnReplies)]
    BY <2>3, <2>6 DEF PoolInv, reply
  <2>8. KnownFits'
    BY <1>8, <2>4 DEF PoolInv, KnownFits, OfJob
  <2> QED
    BY <1>4, <1>12, <1>13, <1>14, <2>7, <2>8 DEF PoolInv
<1> QED
  BY <1>15, <1>16

\* submit() of a job that is refused.
LEMMA RefusedFits ==
  ASSUME PoolInv, NEW j \in Jobs, ~Asked(j), NEW code \in Codes,
         code \in {"FAILED", "REQUEST_TOO_LARGE", "QUEUE_FULL"}
  PROVE  LET q == Settle(pool, j, Failed(code))
         IN  PoolFits(q, {}) /\ Spare(q, 0) /\ Served(q) /\ q.bundle = pool.bundle
<1>1. pool \in Pools /\ PoolFits(pool, {}) /\ Spare(pool, 0) /\ Served(pool)
  BY DEF PoolInv, PoolFits
<1>2. j \notin Begun(pool) /\ j \notin Elements(pool.queue)
  BY DEF Asked, Waiting, OnWorker, Begun, Runs
<1>3. PoolFits(pool, {j})
  BY <1>1 DEF PoolFits, BundlesFit
<1>4. Failed(code) \in PoolAnswers /\ Failed(code).answer = code
  BY AnswersAre
<1>5. OwnAnswerOf(j, Failed(code))
  BY <1>4 DEF OwnAnswerOf
<1> DEFINE q == Settle(pool, j, Failed(code))
<1>6. /\ PoolFits(q, {}) /\ Begun(q) = Begun(pool) \cup {j}
      /\ q.queue = pool.queue /\ q.slots = pool.slots /\ q.spawned = pool.spawned
      /\ q.bundle = pool.bundle /\ q.current = pool.current
  BY <1>2, <1>3, <1>4, <1>5, SettleFits
<1> HIDE DEF q
<1>7. q \in Pools
  BY <1>6 DEF PoolFits
<1>8. Spare(q, 0)
  BY <1>1, <1>6, <1>7, SpareCarries
<1>9. Served(q)
  BY <1>1, <1>6 DEF Served, Idle
<1> QED
  BY <1>6, <1>8, <1>9 DEF q

\* bundleOf(): the id is the one of the schema, whoever else has it.
LEMMA RegisterFits ==
  ASSUME PoolInv, NEW j \in Jobs, Register(SchemaOf[j])
  PROVE  LET b == bundleOf(SchemaOf[j])
         IN  /\ b \in Nat /\ b < nextBundle' /\ nextBundle <= nextBundle'
             /\ SchemaOf[j] # NoSchema => b # NoBundle
             /\ b # NoBundle => \A k \in Jobs :
                  pool.bundle[k] = b => SchemaOf[k] = SchemaOf[j]
             /\ RegistryOf(pool.bundle, bundles', nextBundle')
             /\ b # NoBundle => \A i \in DOMAIN bundles' :
                  bundles'[i].id = b => bundles'[i].schema = SchemaOf[j]
             /\ SchemaOf[j] = NoSchema => b = NoBundle
<1> DEFINE schema == SchemaOf[j]
           b == bundleOf(schema)
           entry == [id |-> nextBundle, schema |-> schema]
           grown == Append(bundles, entry)
           Entries == [id : Nat, schema : Schemas]
<1>1. RegistryOf(pool.bundle, bundles, nextBundle) /\ pool.bundle \in [Jobs -> Nat]
  BY PoolsAre DEF PoolInv, RegistryFits, PoolFits
<1>2. nextBundle \in Nat \ {0} /\ bundles \in Seq(Entries)
  BY <1>1 DEF RegistryOf
<1>3. DOMAIN bundles = 1 .. Len(bundles) /\ Len(bundles) \in Nat
  BY <1>2
<1>7. ASSUME NEW i \in DOMAIN bundles PROVE bundles[i].id \in Nat
  <2>1. bundles[i] \in Entries
    <3> HIDE DEF Entries
    <3> QED
      BY <1>2
  <2> QED
    BY <2>1
<1>4. CASE schema = NoSchema
  <2>1. b = NoBundle /\ UNCHANGED <<bundles, nextBundle>>
    BY <1>4 DEF bundleOf, Register
  <2> QED
    BY <1>1, <1>2, <1>4, <2>1 DEF NoBundle
<1>5. CASE schema # NoSchema /\ Registered(schema) # {}
  <2>1. UNCHANGED <<bundles, nextBundle>>
    BY <1>5 DEF Register
  <2>2. PICK i \in DOMAIN bundles : bundles[i].schema = schema /\ b = bundles[i].id
    <3> DEFINE i == CHOOSE i \in Registered(schema) : TRUE
    <3>1. i \in Registered(schema)
      BY <1>5
    <3>2. b = bundles[i].id
      BY <1>5 DEF bundleOf
    <3> HIDE DEF i, b
    <3> QED
      BY <3>1, <3>2 DEF Registered
  <2> HIDE DEF b
  <2>3. b \in Nat
    BY <1>7, <2>2
  <2>4. b < nextBundle /\ b # NoBundle
        /\ \A k \in Jobs : pool.bundle[k] = b => SchemaOf[k] = schema
    BY <1>1, <2>2 DEF RegistryOf
  <2>5. \A k \in DOMAIN bundles : bundles[k].id = b => bundles[k].schema = schema
    BY <1>1, <2>2 DEF RegistryOf
  <2> QED
    BY <1>1, <1>2, <1>5, <2>1, <2>3, <2>4, <2>5 DEF b
<1>6. CASE schema # NoSchema /\ Registered(schema) = {}
  <2>1. b = nextBundle /\ nextBundle' = nextBundle + 1
    BY <1>6 DEF bundleOf, Register
  <2>2. bundles' = IF Len(grown) > MaxBundles THEN Tail(grown) ELSE grown
    BY <1>6 DEF Register
  <2>3. entry \in Entries /\ entry.id = nextBundle /\ entry.schema = schema
    BY <1>2 DEF Schemas
  <2> HIDE DEF entry
  <2>4. /\ grown \in Seq(Entries) /\ DOMAIN grown = 1 .. Len(bundles) + 1
        /\ \A i \in DOMAIN bundles : grown[i] = bundles[i]
        /\ grown[Len(bundles) + 1] = entry
    BY <1>2, <2>3, BackOf
  <2>5. \A i \in DOMAIN grown : i \in DOMAIN bundles \/ i = Len(bundles) + 1
    BY <1>3, <2>4
  <2>6. \A k \in Jobs : pool.bundle[k] < nextBundle
    BY <1>1 DEF RegistryOf
  <2>7. \A k \in Jobs : pool.bundle[k] # nextBundle /\ pool.bundle[k] < nextBundle + 1
    BY <1>1, <1>2, <2>6
  <2>8. \A i \in DOMAIN bundles : bundles[i].id < nextBundle /\ bundles[i].id \in Nat
    BY <1>1, <1>7 DEF RegistryOf
  <2>9. \A i \in DOMAIN bundles :
          bundles[i].id # nextBundle /\ bundles[i].id < nextBundle + 1
    BY <1>2, <2>8
  <2>10. RegistryOf(pool.bundle, grown, nextBundle + 1)
    <3> HIDE DEF grown
    <3>1. nextBundle + 1 \in Nat \ {0} /\ nextBundle < nextBundle + 1
          /\ nextBundle # NoBundle
      BY <1>2 DEF NoBundle
    <3>a. /\ \A i \in DOMAIN bundles : bundles[i].id # NoBundle
          /\ \A i, k \in DOMAIN bundles : bundles[i].id = bundles[k].id => i = k
      BY <1>1 DEF RegistryOf
    <3>b. grown[Len(bundles) + 1].id = nextBundle
      BY <2>3, <2>4
    <3>2. ASSUME NEW i \in DOMAIN grown
          PROVE  grown[i].id < nextBundle + 1 /\ grown[i].id # NoBundle
      <4>1. CASE i \in DOMAIN bundles
        BY <4>1, <2>4, <2>9, <3>a
      <4>2. CASE i = Len(bundles) + 1
        BY <4>2, <3>b, <3>1
      <4> QED
        BY <2>5, <4>1, <4>2
    <3>3. ASSUME NEW i \in DOMAIN grown, NEW k \in DOMAIN grown,
                 grown[i].id = grown[k].id
          PROVE  i = k
      <4>1. CASE i \in DOMAIN bundles /\ k \in DOMAIN bundles
        BY <3>3, <4>1, <2>4, <3>a
      <4>2. CASE i \in DOMAIN bundles /\ k = Len(bundles) + 1
        BY <3>3, <4>2, <2>4, <2>9, <3>b
      <4>3. CASE i = Len(bundles) + 1 /\ k \in DOMAIN bundles
        BY <3>3, <4>3, <2>4, <2>9, <3>b
      <4> QED
        BY <2>5, <4>1, <4>2, <4>3
    <3>4. \A i \in DOMAIN grown : \A k \in Jobs :
            pool.bundle[k] = grown[i].id => SchemaOf[k] = grown[i].schema
      <4>1. ASSUME NEW i \in DOMAIN grown, NEW k \in Jobs, pool.bundle[k] = grown[i].id
            PROVE  SchemaOf[k] = grown[i].schema
        <5>1. CASE i \in DOMAIN bundles
          <6>1. grown[i] = bundles[i]
            BY <2>4, <5>1
          <6> QED
            BY <1>1, <4>1, <5>1, <6>1 DEF RegistryOf
        <5>2. CASE i = Len(bundles) + 1
          <6>1. grown[i].id = nextBundle
            BY <2>3, <2>4, <5>2
          <6> QED
            BY <2>7, <4>1, <6>1
        <5> QED
          BY <2>5, <5>1, <5>2
      <4> QED
        BY <4>1
    <3> QED
      BY <2>4, <2>7, <3>1, <3>2, <3>3, <3>4 DEF RegistryOf
  <2>11. \A i \in DOMAIN grown : grown[i].id = b => grown[i].schema = schema
    <3> HIDE DEF grown, schema
    <3> QED
      BY <2>1, <2>3, <2>4, <2>5, <2>9
  <2>12. grown # << >>
    BY <1>3, <2>4
  <2> HIDE DEF grown
  <2>13. /\ Tail(grown) \in Seq(Entries)
         /\ \A i \in DOMAIN Tail(grown) : i + 1 \in DOMAIN grown /\ Tail(grown)[i] = grown[i + 1]
    BY <2>4, <2>12, FrontOf
  <2>14. DOMAIN Tail(grown) \subseteq Nat
    BY <2>13
  <2>15. RegistryOf(pool.bundle, Tail(grown), nextBundle + 1)
    <3>1. ASSUME NEW i \in DOMAIN Tail(grown), NEW k \in DOMAIN Tail(grown),
                 Tail(grown)[i].id = Tail(grown)[k].id
          PROVE  i = k
      <4>1. i + 1 = k + 1
        BY <2>10, <2>13, <3>1 DEF RegistryOf
      <4> QED
        BY <2>14, <4>1
    <3>2. \A i \in DOMAIN Tail(grown) :
            Tail(grown)[i].id < nextBundle + 1 /\ Tail(grown)[i].id # NoBundle
      BY <2>10, <2>13 DEF RegistryOf
    <3>3. \A i \in DOMAIN Tail(grown) : \A k \in Jobs :
            pool.bundle[k] = Tail(grown)[i].id => SchemaOf[k] = Tail(grown)[i].schema
      BY <2>10, <2>13 DEF RegistryOf
    <3> QED
      BY <2>10, <2>13, <3>1, <3>2, <3>3 DEF RegistryOf
  <2>16. \A i \in DOMAIN Tail(grown) :
           Tail(grown)[i].id = b => Tail(grown)[i].schema = schema
    BY <2>11, <2>13
  <2>17. bundles' = grown \/ bundles' = Tail(grown)
    BY <2>2
  <2>18. RegistryOf(pool.bundle, bundles', nextBundle')
         /\ \A i \in DOMAIN bundles' : bundles'[i].id = b => bundles'[i].schema = schema
    BY <2>1, <2>10, <2>11, <2>15, <2>16, <2>17
  <2>19. b \in Nat /\ b < nextBundle' /\ nextBundle <= nextBundle' /\ b # NoBundle
    BY <1>2, <2>1 DEF NoBundle
  <2>20. \A k \in Jobs : pool.bundle[k] = b => SchemaOf[k] = schema
    BY <2>1, <2>7
  <2> QED
    BY <1>6, <2>18, <2>19, <2>20
<1> QED
  BY <1>4, <1>5, <1>6

\* submit() of a job that is queued, up to pump().
Queued(p, j, b) == [p EXCEPT !.queue = Append(@, j), !.bundle[j] = b]

LEMMA QueuedFits ==
  ASSUME NEW p, NEW j \in Jobs, NEW b \in Nat, PoolFits(p, {}), Spare(p, 0),
         j \notin Begun(p), j \notin Elements(p.queue), Len(p.queue) < MaxPending,
         SchemaOf[j] # NoSchema => b # NoBundle,
         b # NoBundle => \A k \in Jobs : p.bundle[k] = b => SchemaOf[k] = SchemaOf[j]
  PROVE  LET q == Queued(p, j, b)
         IN  /\ PoolFits(q, {}) /\ Spare(q, 0) /\ q.bundle = [p.bundle EXCEPT ![j] = b]
             /\ p.bundle[j] = NoBundle
<1> DEFINE q == Queued(p, j, b)
           of == [p.bundle EXCEPT ![j] = b]
<1>1. /\ p \in Pools /\ p.queue \in Seq(Jobs) /\ p.bundle \in [Jobs -> Nat]
      /\ p.posted \in [Workers -> Seq(Messages)]
  BY PoolsAre DEF PoolFits
<1>2. /\ Append(p.queue, j) \in Seq(Jobs) /\ Len(Append(p.queue, j)) = Len(p.queue) + 1
      /\ DOMAIN Append(p.queue, j) = 1 .. Len(p.queue) + 1
      /\ \A i \in DOMAIN p.queue : Append(p.queue, j)[i] = p.queue[i]
      /\ Append(p.queue, j)[Len(p.queue) + 1] = j
      /\ Elements(Append(p.queue, j)) = Elements(p.queue) \cup {j}
  BY <1>1, BackOf
<1>3. /\ of \in [Jobs -> Nat] /\ of[j] = b
      /\ \A k \in Jobs : k # j => of[k] = p.bundle[k]
  BY <1>1
<1>4. q = [p EXCEPT !.queue = Append(p.queue, j), !.bundle = of]
  BY <1>1 DEF Queued, Pools
<1> HIDE DEF of
<1>5. /\ q \in Pools /\ q.queue = Append(p.queue, j) /\ q.bundle = of
      /\ q.slots = p.slots /\ q.spawned = p.spawned /\ q.current = p.current
      /\ q.posted = p.posted /\ q.settled = p.settled
  BY <1>1, <1>2, <1>3, <1>4 DEF Pools
<1> HIDE DEF q
<1>6. Begun(q) = Begun(p)
  BY <1>5 DEF Begun, Runs
<1>7. p.bundle[j] = NoBundle
  BY DEF PoolFits, BundlesFit, InPool
<1>8. \A i \in DOMAIN q.queue :
        (i \in DOMAIN p.queue /\ q.queue[i] = p.queue[i])
        \/ (i = Len(p.queue) + 1 /\ q.queue[i] = j)
  <2>1. Len(p.queue) \in Nat /\ DOMAIN p.queue = 1 .. Len(p.queue)
    BY <1>1
  <2> QED
    BY <1>2, <1>5, <2>1
<1>9. QueueFits(q)
  <2>1. \A i \in DOMAIN p.queue : p.queue[i] # j
    BY DEF Elements
  <2>2. \A i, k \in DOMAIN q.queue : q.queue[i] = q.queue[k] => i = k
    BY <1>8, <2>1 DEF QueueFits, PoolFits
  <2>3. \A i \in DOMAIN q.queue : q.queue[i] \notin Begun(q)
    BY <1>6, <1>8 DEF QueueFits, PoolFits
  <2> QED
    BY <2>2, <2>3 DEF QueueFits
<1>10. RunsOnce(q) /\ SettledOnce(q) /\ OwnAnswers(q)
  BY <1>5 DEF RunsOnce, SettledOnce, OwnAnswers, PoolFits
<1>11. BundlesFit(q, {})
  <2>0. BundlesFit(p, {})
    BY DEF PoolFits
  <2>1. ASSUME NEW k \in Jobs, q.bundle[k] # NoBundle PROVE InPool(q, k)
    BY <1>2, <1>3, <1>5, <1>6, <2>0, <2>1 DEF BundlesFit, InPool
  <2>2. ASSUME NEW i \in DOMAIN q.queue, SchemaOf[q.queue[i]] # NoSchema
        PROVE  q.bundle[q.queue[i]] # NoBundle
    <3>1. CASE q.queue[i] = j
      BY <1>3, <1>5, <2>2, <3>1
    <3>2. CASE q.queue[i] # j
      <4>1. i \in DOMAIN p.queue /\ q.queue[i] = p.queue[i]
        BY <1>8, <3>2
      <4>2. p.queue[i] \in Jobs
        BY <1>1, <4>1
      <4> QED
        BY <1>3, <1>5, <2>0, <2>2, <3>2, <4>1, <4>2 DEF BundlesFit
    <3> QED
      BY <3>1, <3>2
  <2>3. ASSUME NEW i \in Jobs, NEW k \in Jobs, q.bundle[i] = q.bundle[k],
               q.bundle[i] # NoBundle
        PROVE  SchemaOf[i] = SchemaOf[k]
    BY <1>3, <1>5, <2>0, <2>3 DEF BundlesFit
  <2> QED
    BY <2>1, <2>2, <2>3 DEF BundlesFit
<1>12. PostedFits(q)
  <2>1. ASSUME NEW id, NEW schema, OfJob(p, id, schema) PROVE OfJob(q, id, schema)
    <3>1. PICK k \in Jobs : p.bundle[k] = id /\ SchemaOf[k] = schema
      BY <2>1 DEF OfJob
    <3>2. k # j
      BY <1>7, <2>1, <3>1 DEF OfJob
    <3> QED
      BY <1>3, <1>5, <2>1, <3>1, <3>2 DEF OfJob
  <2> QED
    BY <1>5, <2>1 DEF PostedFits, PoolFits
<1>13. BoundsFit(q)
  <2>1. Len(p.queue) \in Nat /\ MaxPending \in Nat
    BY <1>1, PoolAssumption
  <2>2. Len(q.queue) <= MaxPending
    BY <1>2, <1>5, <2>1
  <2> QED
    BY <1>5, <2>2 DEF BoundsFit, PoolFits
<1>14. Spare(q, 0)
  BY <1>5, <1>6 DEF Spare
<1> QED
  BY <1>5, <1>7, <1>9, <1>10, <1>11, <1>12, <1>13, <1>14 DEF PoolFits, q, of

LEMMA SubmitStep ==
  ASSUME PoolInv, NEW j \in Jobs, NEW long \in BOOLEAN, Submit(j, long)
  PROVE  PoolInv'
<1> DEFINE b == bundleOf(SchemaOf[j])
<1>1. pool \in Pools /\ PoolFits(pool, {}) /\ Spare(pool, 0)
  BY DEF PoolInv, PoolFits
<1>2. ~Asked(j) /\ UNCHANGED <<known, replies, expired>>
  BY DEF Submit
<1>3. /\ b \in Nat /\ b < nextBundle' /\ nextBundle <= nextBundle'
      /\ SchemaOf[j] # NoSchema => b # NoBundle
      /\ b # NoBundle => \A k \in Jobs : pool.bundle[k] = b => SchemaOf[k] = SchemaOf[j]
      /\ RegistryOf(pool.bundle, bundles', nextBundle')
      /\ b # NoBundle => \A i \in DOMAIN bundles' :
           bundles'[i].id = b => bundles'[i].schema = SchemaOf[j]
  BY RegisterFits DEF Submit
<1>4. replies' \in [Workers -> Seq(OwnReplies)] /\ expired' \subseteq Jobs
  BY <1>2 DEF PoolInv
<1>5. CASE Refusal(long) # "none"
  <2>1. pool' = Settle(pool, j, Failed(Refusal(long)))
    BY <1>5 DEF Submit, Becomes
  <2>2. Refusal(long) \in {"FAILED", "REQUEST_TOO_LARGE", "QUEUE_FULL"}
    BY <1>5 DEF Refusal
  <2>3. PoolFits(pool', {}) /\ Spare(pool', 0) /\ Served(pool')
        /\ pool'.bundle = pool.bundle
    BY <1>2, <2>1, <2>2, RefusedFits DEF Codes
  <2>4. PoolFits(pool, {})'
    BY <1>2, <2>3 DEF PoolFits, OwnAnswers
  <2>5. RegistryFits' /\ KnownFits'
    BY <1>2, <1>3, <2>3 DEF PoolInv, RegistryFits, KnownFits, OfJob
  <2> QED
    BY <1>4, <2>3, <2>4, <2>5 DEF PoolInv
<1>6. CASE Refusal(long) = "none"
  <2> DEFINE r == Queued(pool, j, b)
  <2>1. PICK q \in Pump(r) : pool' = q
    BY <1>6 DEF Submit, Becomes, Queued
  <2>2. Len(pool.queue) < MaxPending
    <3>1. ~(Len(pool.queue) >= MaxPending)
      BY <1>6 DEF Refusal
    <3>2. pool.queue \in Seq(Jobs) /\ MaxPending \in Nat
      BY <1>1, PoolsAre, PoolAssumption
    <3>3. Len(pool.queue) \in Nat
      BY <3>2
    <3> QED
      BY <3>1, <3>2, <3>3
  <2>3. j \notin Begun(pool) /\ j \notin Elements(pool.queue)
    BY <1>2 DEF Asked, Waiting, OnWorker, Begun, Runs
  <2> HIDE DEF b
  <2>4. /\ PoolFits(r, {}) /\ Spare(r, 0) /\ r.bundle = [pool.bundle EXCEPT ![j] = b]
        /\ pool.bundle[j] = NoBundle
    BY <1>1, <1>3, <2>2, <2>3, QueuedFits
  <2> HIDE DEF r
  <2>5. PoolFits(pool', {}) /\ Spare(pool', 0) /\ Served(pool')
        /\ pool'.bundle = [pool.bundle EXCEPT ![j] = b]
    BY <2>1, <2>4, PumpFits
  <2>6. PoolFits(pool, {})'
    BY <1>2, <2>5 DEF PoolFits, OwnAnswers
  <2>7. pool.bundle \in [Jobs -> Nat]
    BY <1>1, PoolsAre
  <2>8. /\ pool'.bundle[j] = b
        /\ \A k \in Jobs : k # j => pool'.bundle[k] = pool.bundle[k]
    BY <2>5, <2>7
  <2>9. RegistryFits'
    <3>1. \A i \in DOMAIN bundles' : \A k \in Jobs :
            pool'.bundle[k] = bundles'[i].id => SchemaOf[k] = bundles'[i].schema
      BY <1>3, <2>8 DEF RegistryOf
    <3>2. \A k \in Jobs : pool'.bundle[k] < nextBundle'
      BY <1>3, <2>8 DEF RegistryOf
    <3>3. RegistryOf(pool'.bundle, bundles', nextBundle')
      BY <1>3, <3>1, <3>2 DEF RegistryOf
    <3> QED
      BY <3>3 DEF RegistryFits
  <2>10. KnownFits'
    <3>1. ASSUME NEW id, NEW schema, OfJob(pool, id, schema)
          PROVE  OfJob(pool', id, schema)
      <4>1. PICK k \in Jobs : pool.bundle[k] = id /\ SchemaOf[k] = schema
        BY <3>1 DEF OfJob
      <4>2. k # j
        BY <2>4, <3>1, <4>1 DEF OfJob
      <4> QED
        BY <2>8, <3>1, <4>1, <4>2 DEF OfJob
    <3> QED
      BY <1>2, <3>1 DEF PoolInv, KnownFits
  <2> QED
    BY <1>4, <2>5, <2>6, <2>9, <2>10 DEF PoolInv
<1> QED
  BY <1>5, <1>6

LEMMA PoolStarts ==
  ASSUME PoolInit
  PROVE  PoolInv
<1>1. pool \in Pools
  <2>1. << >> \in Seq(Jobs) /\ << >> \in Seq(Workers) /\ << >> \in Seq(Messages)
        /\ << >> \in Seq(PoolAnswers)
    OBVIOUS
  <2> QED
    BY <2>1 DEF PoolInit, Pools, NoBundle
<1>2. /\ pool.queue = << >> /\ pool.slots = << >> /\ pool.spawned = 0
      /\ \A w \in Workers : pool.current[w] = NoJob /\ pool.posted[w] = << >>
      /\ \A j \in Jobs : pool.bundle[j] = NoBundle /\ pool.settled[j] = << >>
  BY DEF PoolInit
<1>3. DOMAIN pool.queue = {} /\ DOMAIN pool.slots = {}
  BY <1>2
<1>4. QueueFits(pool) /\ RunsOnce(pool) /\ Served(pool)
  BY <1>2, <1>3 DEF QueueFits, RunsOnce, Served
<1>5. SettledOnce(pool) /\ OwnAnswers(pool)
  <2>1. Len(<< >>) = 0 /\ DOMAIN << >> = {}
    OBVIOUS
  <2> QED
    BY <1>2, <2>1 DEF SettledOnce, OwnAnswers
<1>6. BundlesFit(pool, {}) /\ PostedFits(pool)
  BY <1>2, <1>3 DEF BundlesFit, PostedFits
<1>7. BoundsFit(pool)
  BY <1>2, <1>3, PoolAssumption DEF BoundsFit
<1>8. Spare(pool, 0)
  BY <1>1, <1>2, PoolBasics DEF Spare
<1>9. RegistryFits
  <2>1. bundles = << >> /\ nextBundle = 1 /\ << >> \in Seq([id : Nat, schema : Schemas])
    BY DEF PoolInit
  <2>2. DOMAIN bundles = {}
    BY <2>1
  <2> QED
    BY <1>2, <2>1, <2>2 DEF RegistryFits, RegistryOf, NoBundle
<1>10. KnownFits
  BY DEF PoolInit, KnownFits
<1>11. replies \in [Workers -> Seq(OwnReplies)] /\ expired \subseteq Jobs
  <2>1. << >> \in Seq(OwnReplies)
    OBVIOUS
  <2> QED
    BY <2>1 DEF PoolInit
<1> QED
  BY <1>1, <1>4, <1>5, <1>6, <1>7, <1>8, <1>9, <1>10, <1>11 DEF PoolInv, PoolFits

LEMMA PoolSteady ==
  ASSUME PoolInv, [PoolNext]_poolVars
  PROVE  PoolInv'
<1>1. ASSUME NEW j \in Jobs, NEW long \in BOOLEAN, Submit(j, long) PROVE PoolInv'
  BY <1>1, SubmitStep
<1>2. ASSUME NEW w \in Workers, ThreadRuns(w) \/ ThreadDies(w) PROVE PoolInv'
  BY <1>2, ThreadRunsStep, ThreadDiesStep
<1>3. ASSUME ClosePool PROVE PoolInv'
  BY <1>3, ClosePoolStep
<1>4. ASSUME NEW j \in Jobs, DeadlinePasses(j) PROVE PoolInv'
  BY <1>4, DeadlineStep
<1>5. ASSUME NEW w \in Workers, OnReply(w) \/ TimerFires(w) \/ OnExitOf(w) PROVE PoolInv'
  BY <1>5, ReplyStep, TimerStep, ExitStep
<1>6. ASSUME UNCHANGED poolVars PROVE PoolInv'
  <2>1. UNCHANGED <<pool, bundles, nextBundle, known, replies, expired>>
    BY <1>6 DEF poolVars
  <2>2. PoolFits(pool', {}) /\ Spare(pool', 0) /\ Served(pool')
        /\ pool'.bundle = pool.bundle /\ replies' \in [Workers -> Seq(OwnReplies)]
    BY <2>1 DEF PoolInv
  <2> QED
    BY <2>1, <2>2, PoolStep
<1> QED
  BY <1>1, <1>2, <1>3, <1>4, <1>5, <1>6 DEF PoolNext, PoolSteps

LEMMA JobsAreServedThen ==
  ASSUME PoolInv
  PROVE  JobsAreServed
<1>1. pool \in Pools /\ PoolFits(pool, {})
  BY DEF PoolInv, PoolFits
<1>2. /\ pool.queue \in Seq(Jobs) /\ pool.settled \in [Jobs -> Seq(PoolAnswers)]
      /\ Workers \subseteq Nat
  BY <1>1, PoolsAre, PoolBasics
<1>3. OnePlace
  <2> SUFFICES ASSUME NEW j \in Jobs
               PROVE  LET waiting == {i \in DOMAIN pool.queue : pool.queue[i] = j}
                          inSlots == {w \in Workers : pool.current[w] = j}
                      IN  /\ Cardinality(waiting) + Cardinality(inSlots)
                               + Len(pool.settled[j]) <= 1
                          /\ inSlots \subseteq Elements(pool.slots)
    BY DEF OnePlace
  <2> DEFINE waiting == {i \in DOMAIN pool.queue : pool.queue[i] = j}
             inSlots == {w \in Workers : pool.current[w] = j}
  <2>1. j # NoJob
    BY PoolAssumption
  <2>2. inSlots \subseteq Elements(pool.slots)
    BY <1>1, <2>1 DEF RunsOnce, PoolFits
  <2>3. waiting = {} \/ \E i : waiting = {i}
    BY <1>1 DEF QueueFits, PoolFits
  <2>4. inSlots = {} \/ \E w : inSlots = {w}
    BY <1>1, <2>1 DEF RunsOnce, PoolFits
  <2>5. waiting # {} => inSlots = {} /\ pool.settled[j] = << >>
    BY <1>1 DEF QueueFits, PoolFits, Begun, Runs
  <2>6. inSlots # {} => waiting = {} /\ pool.settled[j] = << >>
    BY <1>1, <2>1, <2>5 DEF RunsOnce, PoolFits
  <2>7. Len(pool.settled[j]) \in Nat /\ Len(pool.settled[j]) <= 1
    BY <1>1, <1>2 DEF SettledOnce, PoolFits
  <2> HIDE DEF waiting, inSlots
  <2>8. waiting = {} => Cardinality(waiting) = 0
    BY FS_EmptySet
  <2>9. waiting # {} => Cardinality(waiting) = 1
    BY <2>3, FS_Singleton
  <2>10. inSlots = {} => Cardinality(inSlots) = 0
    BY FS_EmptySet
  <2>11. inSlots # {} => Cardinality(inSlots) = 1
    BY <2>4, FS_Singleton
  <2>12. pool.settled[j] = << >> => Len(pool.settled[j]) = 0
    OBVIOUS
  <2>13. Cardinality(waiting) + Cardinality(inSlots) + Len(pool.settled[j]) <= 1
    <3>1. CASE waiting # {}
      BY <2>5, <2>9, <2>10, <2>12, <3>1
    <3>2. CASE inSlots # {}
      BY <2>6, <2>8, <2>11, <2>12, <3>2
    <3>3. CASE waiting = {} /\ inSlots = {}
      BY <2>7, <2>8, <2>10, <3>3
    <3> QED
      BY <3>1, <3>2, <3>3
  <2> QED
    BY <2>2, <2>13 DEF waiting, inSlots
<1>4. OwnAnswer
  BY <1>1 DEF PoolFits, OwnAnswers, OwnAnswer
<1>5. PoolWorks
  BY <1>1 DEF PoolInv, PoolFits, BoundsFit, Served, PoolWorks
<1> QED
  BY <1>3, <1>4, <1>5 DEF JobsAreServed

\* Threads that block, fail, answer late or die neither lose a job of the schema
\* worker boundary nor repeat one; a job settles with what is true of it; and no
\* job waits while a worker has nothing to do, or while there is none.
THEOREM JobsServed == PoolSpec => []JobsAreServed
<1>1. PoolInit => PoolInv
  BY PoolStarts
<1>2. PoolInv /\ [PoolNext]_poolVars => PoolInv'
  BY PoolSteady
<1>3. PoolInv => JobsAreServed
  BY JobsAreServedThen
<1> QED
  BY <1>1, <1>2, <1>3, PTL DEF PoolSpec
=============================================================================
