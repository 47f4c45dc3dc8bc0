---------------------------- MODULE ExposureProofs ----------------------------
(* Machine-checked proof about the exposure of a trial: the exchanges of    *)
(* its planes, their numbers and records and the streams they are appended  *)
(* to, for every number of exchanges, limits and faults of the sinks.       *)
EXTENDS Exposure, FiniteSetTheorems, SequenceTheorems, WellFoundedInduction, TLAPS

(***************************************************************************)
(* The exposure. Two facts hold whatever the appends do: the slots that    *)
(* are counted are the slots that exchanges hold (SlotsFit), and a file    *)
(* holds its records in the order of their sequences (FilesInOrder). The   *)
(* rest needs that no append failed and that no request for a document was *)
(* refused (Quiet; see OneRecordEach for what a refusal does). Then every  *)
(* sequence behind a file is in the tail, in the buffer or with one        *)
(* exchange in the gateway (Covered), and with nobody under way the buffer *)
(* must be empty: its least record would wait for a sequence nobody has.   *)
(***************************************************************************)
Planes == {"api", "doc"}
Outcomes == {"none", "refused", "served", "failed"}
ExchangeRecords ==
  [of : Exchanges, sequence : Nat, outcome : Outcomes, effects : Seq(Exchanges)]
ExchangeStates ==
  [at : {"new", "upload", "gateway", "completing", "recording", "leaving", "done"},
   over : BOOLEAN, slot : BOOLEAN, sequence : Nat, before : Nat,
   outcome : Outcomes, told : Outcomes \cup {"gone"}]
StreamStates ==
  [next : Nat \ {0}, tail : Seq(ExchangeRecords), pending : SUBSET ExchangeRecords,
   file : Seq(ExchangeRecords)]

\* The counted slots are the slots held, and none is held behind the answer.
Holders == {x \in Exchanges : exchange[x].slot}
SlotsFit ==
  /\ admission.inFlight = Cardinality(Holders)
  /\ admission.inFlight <= MaxConcurrent
  /\ \A x \in Exchanges :
       /\ exchange[x].slot => exchange[x].told = "none"
       /\ exchange[x].at \in {"new", "upload"} =>
            ~exchange[x].slot /\ exchange[x].told = "none" /\ exchange[x].outcome = "none"

\* Line i of a file is the record of sequence i.
FilesInOrder ==
  \A s \in Planes : \A i \in DOMAIN streams[s].file : streams[s].file[i].sequence = i

PipelineFits == \A i \in DOMAIN pipeline : PlaneOf[pipeline[i]] = "api"

Quiet == sinkFaults = 0 /\ ~DocumentRefused

\* The plane whose file gets what is recorded of an exchange.
HomeOf(x) == IF exchange[x].outcome = "failed" THEN "api" ELSE PlaneOf[x]

\* What waits to be completed: behind the file, of one exchange each, and with
\* the outcome that exchange has.
TailFits(s) ==
  \A i \in DOMAIN streams[s].tail :
    /\ Len(streams[s].file) < streams[s].tail[i].sequence
    /\ streams[s].tail[i].sequence < streams[s].next
    /\ \A d \in streams[s].pending : d.sequence # streams[s].tail[i].sequence
    /\ exchange[streams[s].tail[i].of].at \in {"completing", "recording", "leaving"}
    /\ streams[s].tail[i].outcome = exchange[streams[s].tail[i].of].outcome
    /\ s = HomeOf(streams[s].tail[i].of)
    /\ \A j \in DOMAIN streams[s].tail :
         /\ streams[s].tail[j].sequence = streams[s].tail[i].sequence => j = i
         /\ streams[s].tail[j].of = streams[s].tail[i].of => j = i
\* What is in the buffer waits for an earlier sequence.
PendingWaits(s) ==
  \A e \in streams[s].pending :
    /\ Len(streams[s].file) + 1 < e.sequence /\ e.sequence < streams[s].next
    /\ \A d \in streams[s].pending : d.sequence = e.sequence => d = e
\* An exchange in the gateway owns a sequence that is neither in the tail nor
\* in the buffer, and looked at the effects before its own.
GatewayFits ==
  /\ \A x \in Exchanges : exchange[x].at = "gateway" =>
       /\ PlaneOf[x] = "api" /\ exchange[x].before <= Len(effects)
       /\ exchange[x].outcome = "served"
       /\ Len(streams["api"].file) < exchange[x].sequence
       /\ exchange[x].sequence < streams["api"].next
       /\ \A i \in DOMAIN streams["api"].tail : streams["api"].tail[i].sequence # exchange[x].sequence
       /\ \A e \in streams["api"].pending : e.sequence # exchange[x].sequence
       /\ \A y \in Exchanges : exchange[y].at = "gateway" /\ exchange[y].sequence = exchange[x].sequence => y = x
  /\ \A i \in DOMAIN pipeline : exchange[pipeline[i]].at = "gateway" /\
       \A j \in DOMAIN pipeline : pipeline[j] = pipeline[i] => j = i
\* Every sequence behind the file is somewhere.
Covered(s) ==
  /\ Len(streams[s].file) < streams[s].next
  /\ \A q \in Len(streams[s].file) + 1 .. streams[s].next - 1 :
       \/ \E i \in DOMAIN streams[s].tail : streams[s].tail[i].sequence = q
       \/ \E e \in streams[s].pending : e.sequence = q
       \/ s = "api" /\ \E x \in Exchanges : exchange[x].at = "gateway" /\ exchange[x].sequence = q
\* What an exchange committed is in its record.
EffectsFit ==
  /\ \A x \in ToSet(effects) : exchange[x].at \notin {"new", "upload", "gateway"}
  /\ \A s \in Planes : \A e \in RecordsOf(s) :
       /\ exchange[e.of].at \notin {"new", "upload", "gateway"}
       /\ e.of \in ToSet(effects) => e.of \in ToSet(e.effects)
\* The exchanges whose sockets were told before their records are complete.
ToldFits ==
  \A x \in Exchanges :
    /\ exchange[x].at = "recording" => exchange[x].outcome = "failed" /\ exchange[x].told = "failed"
    /\ exchange[x].at = "leaving" => exchange[x].outcome = "failed" /\ exchange[x].told = "gone"
\* An exchange that is done has its record.
DoneFits ==
  \A x \in Exchanges : exchange[x].at = "done" =>
    \E e \in RecordsOf(HomeOf(x)) :
      e.of = x /\ e.outcome = exchange[x].outcome /\ exchange[x].told \in {e.outcome, "gone"}
QuietInv ==
  /\ \A s \in Planes : TailFits(s) /\ PendingWaits(s) /\ Covered(s)
  /\ GatewayFits /\ EffectsFit /\ ToldFits /\ DoneFits
ExposureInv == SlotsFit /\ FilesInOrder /\ PipelineFits /\ (Quiet => QuietInv)

ExposureType ==
  /\ exchange \in [Exchanges -> ExchangeStates]
  /\ admission \in [total : Nat, inFlight : Nat, window : Nat]
  /\ pipeline \in Seq(Exchanges) /\ effects \in Seq(Exchanges)
  /\ streams \in [Planes -> StreamStates]
  /\ \A s \in Planes : IsFiniteSet(streams[s].pending)
  /\ sinkFaults \in Nat

LEMMA LeastOfNaturals ==
  ASSUME NEW S \in SUBSET Nat, S # {}
  PROVE  \E m \in S : \A n \in S : m <= n
<1>1. \E m \in S : \A n \in S : <<n, m>> \notin OpToRel(<, Nat)
  BY WFMin, NatLessThanWellFounded, Zenon
<1>2. PICK m \in S : \A n \in S : <<n, m>> \notin OpToRel(<, Nat)
  BY <1>1
<1>3. ASSUME NEW n \in S PROVE m <= n
  <2>1. <<n, m>> \notin OpToRel(<, Nat)
    BY <1>2
  <2>2. ~(n < m)
    BY <2>1 DEF OpToRel
  <2> QED
    BY <2>2
<1> QED
  BY <1>3

\* Records of as many consecutive numbers are as many records.
LEMMA RunIsBounded ==
  ASSUME NEW E, IsFiniteSet(E), NEW from \in Nat, NEW n \in Nat,
         \A i \in 1 .. n : \E e \in E : e.sequence = from + i
  PROVE  n <= Cardinality(E)
<1> DEFINE f == [i \in 1 .. n |-> CHOOSE e \in E : e.sequence = from + i]
<1>1. \A i \in 1 .. n : f[i] \in E /\ f[i].sequence = from + i
  OBVIOUS
<1>2. f \in [1 .. n -> E]
  BY <1>1
<1> HIDE DEF f
<1>3. \A i, j \in 1 .. n : f[i] = f[j] => i = j
  BY <1>1
<1>4. f \in Injection(1 .. n, E)
  BY <1>2, <1>3 DEF Injection, IsInjective
<1>5. Cardinality(1 .. n) <= Cardinality(E)
  BY <1>4, FS_Injection
<1>6. Cardinality(1 .. n) = n
  BY FS_Interval
<1> QED
  BY <1>5, <1>6

\* What may be appended ends where the first record is missing.
LEMMA FlushableIs ==
  ASSUME ExposureType, NEW s \in Planes, NEW E, IsFiniteSet(E)
  PROVE  LET from == Len(streams[s].file)
             n == Flushable(s, E)
         IN  /\ n \in Nat
             /\ \A i \in 1 .. n : \E e \in E : e.sequence = from + i
             /\ ~\E e \in E : e.sequence = from + n + 1
<1> DEFINE from == Len(streams[s].file)
           Missing == {k \in Nat : ~\E e \in E : e.sequence = from + k + 1}
           c == Cardinality(E)
<1>1. from \in Nat
  BY DEF ExposureType, StreamStates
<1>2. c \in Nat
  BY FS_CardinalityType
<1> HIDE DEF from, c
<1>3. Missing # {}
  <2> SUFFICES ASSUME Missing = {} PROVE FALSE
    OBVIOUS
  <2>1. \A k \in Nat : \E e \in E : e.sequence = from + k + 1
    OBVIOUS
  <2>2. \A i \in 1 .. c + 1 : i - 1 \in Nat /\ from + (i - 1) + 1 = from + i
    BY <1>1, <1>2
  <2>3. \A i \in 1 .. c + 1 : \E e \in E : e.sequence = from + i
    BY <2>1, <2>2
  <2>4. c + 1 <= Cardinality(E)
    <3>1. c + 1 \in Nat
      BY <1>2
    <3> QED
      BY <1>1, <2>3, <3>1, RunIsBounded
  <2> QED
    BY <1>2, <2>4 DEF c
<1>4. PICK m \in Missing : \A k \in Missing : m <= k
  <2>1. Missing \in SUBSET Nat
    OBVIOUS
  <2> HIDE DEF Missing
  <2> QED
    BY <1>3, <2>1, LeastOfNaturals
<1>5. m \in Nat /\ ~\E e \in E : e.sequence = from + m + 1
  BY <1>4
<1>6. ASSUME NEW i \in 1 .. m PROVE \E e \in E : e.sequence = from + i
  <2>1. i - 1 \in Nat /\ ~(m <= i - 1) /\ from + (i - 1) + 1 = from + i
    BY <1>1, <1>5
  <2>2. i - 1 \notin Missing
    BY <1>4, <2>1
  <2> QED
    BY <2>1, <2>2
<1>7. m <= c
  BY <1>1, <1>5, <1>6, RunIsBounded DEF c
<1>8. m \in 0 .. c
  BY <1>2, <1>5, <1>7
<1>9. Flushable(s, E) \in 0 .. c /\ (\A i \in 1 .. Flushable(s, E) : \E e \in E : e.sequence = from + i)
      /\ ~\E e \in E : e.sequence = from + Flushable(s, E) + 1
  <2>1. \E n \in 0 .. c : /\ \A i \in 1 .. n : \E e \in E : e.sequence = from + i
                          /\ ~\E e \in E : e.sequence = from + n + 1
    BY <1>5, <1>6, <1>8
  <2>2. Flushable(s, E) = CHOOSE n \in 0 .. c :
          /\ \A i \in 1 .. n : \E e \in E : e.sequence = from + i
          /\ ~\E e \in E : e.sequence = from + n + 1
    BY DEF Flushable, from, c
  <2> QED
    BY <2>1, <2>2
<1> QED
  BY <1>2, <1>9 DEF from

LEMMA BufferedIs ==
  ASSUME ExposureType, NEW s \in Planes, streams[s].tail # <<>>
  PROVE  LET e == Head(streams[s].tail)
             E == Buffered(s, e)
         IN  /\ e \in ExchangeRecords /\ e = streams[s].tail[1]
             /\ E \in SUBSET ExchangeRecords /\ IsFiniteSet(E)
             /\ E = {d \in streams[s].pending : d.sequence # e.sequence} \cup {e}
<1> DEFINE e == Head(streams[s].tail)
           P == {d \in streams[s].pending : d.sequence # e.sequence}
<1>1. streams[s].tail \in Seq(ExchangeRecords) /\ streams[s].pending \in SUBSET ExchangeRecords
      /\ IsFiniteSet(streams[s].pending)
  BY DEF ExposureType, StreamStates
<1> HIDE DEF ExchangeRecords
<1>2. e \in ExchangeRecords /\ e = streams[s].tail[1]
  BY <1>1, HeadTailProperties
<1>3. IsFiniteSet(P)
  <2>1. P \in SUBSET streams[s].pending
    OBVIOUS
  <2> HIDE DEF P
  <2> QED
    BY <1>1, <2>1, FS_Subset
<1>4. IsFiniteSet(P \cup {e})
  <2> HIDE DEF P, e
  <2> QED
    BY <1>3, FS_AddElement
<1>5. Buffered(s, e) = P \cup {e}
  BY DEF Buffered
<1>6. P \cup {e} \in SUBSET ExchangeRecords
  BY <1>1, <1>2
<1> QED
  BY <1>2, <1>4, <1>5, <1>6

\* What is left of a stream when n records were appended.
LEMMA FlushedIs ==
  ASSUME ExposureType, NEW s \in Planes, streams[s].tail # <<>>,
         NEW n \in Nat, n <= Flushable(s, Buffered(s, Head(streams[s].tail)))
  PROVE  LET st == streams[s]
             f == Flushed(s, n)
             from == Len(st.file)
             E == Buffered(s, Head(st.tail))
         IN  /\ f \in StreamStates /\ f.next = st.next /\ f.tail = Tail(st.tail)
             /\ Len(f.file) = from + n
             /\ \A i \in 1 .. from : f.file[i] = st.file[i]
             /\ \A i \in 1 .. n : f.file[from + i] \in E /\ f.file[from + i].sequence = from + i
             /\ f.pending = E \ {f.file[from + i] : i \in 1 .. n}
             /\ IsFiniteSet(f.pending)
<1> DEFINE st == streams[s]
           from == Len(st.file)
           E == Buffered(s, Head(st.tail))
           Rec(i) == CHOOSE e \in E : e.sequence = from + i
           out == {Rec(i) : i \in 1 .. n}
           lines == [i \in 1 .. n |-> Rec(i)]
           f == Flushed(s, n)
<1>1. st \in StreamStates /\ IsFiniteSet(st.pending)
  BY DEF ExposureType
<1>2. st.file \in Seq(ExchangeRecords) /\ st.tail \in Seq(ExchangeRecords) /\ from \in Nat
      /\ st.next \in Nat \ {0}
  BY <1>1 DEF StreamStates
<1>3. E \in SUBSET ExchangeRecords /\ IsFiniteSet(E)
  BY BufferedIs
<1>4. \A i \in 1 .. n : i \in 1 .. Flushable(s, E)
  BY <1>3, FlushableIs
<1>5. \A i \in 1 .. n : \E e \in E : e.sequence = from + i
  BY <1>3, <1>4, FlushableIs
<1>6. f = [st EXCEPT !.tail = Tail(@), !.pending = E \ out, !.file = @ \o lines]
  BY DEF Flushed
<1> HIDE DEF E, ExchangeRecords
<1>7. \A i \in 1 .. n : Rec(i) \in E /\ Rec(i).sequence = from + i
  BY <1>5
<1>8. lines \in Seq(ExchangeRecords) /\ Len(lines) = n
  <2>1. \A i \in 1 .. n : Rec(i) \in ExchangeRecords
    BY <1>3, <1>7
  <2>2. lines \in [1 .. n -> ExchangeRecords]
    BY <2>1
  <2> HIDE DEF lines
  <2>3. lines \in Seq(ExchangeRecords)
    BY <2>2, SeqDef
  <2>4. Len(lines) \in Nat /\ 1 .. Len(lines) = 1 .. n
    BY <2>2, <2>3, LenProperties
  <2> QED
    BY <2>3, <2>4
<1>9. \A i \in 1 .. n : lines[i] = Rec(i)
  OBVIOUS
<1> HIDE DEF Rec, lines, out, f, st
<1>10. /\ st.file \o lines \in Seq(ExchangeRecords) /\ Len(st.file \o lines) = from + n
       /\ \A i \in 1 .. from : (st.file \o lines)[i] = st.file[i]
       /\ \A i \in 1 .. n : (st.file \o lines)[from + i] = lines[i]
  <2>1. \A i \in 1 .. n : from + i \in from + 1 .. from + n /\ from + i - from = i
    BY <1>2
  <2>2. /\ st.file \o lines \in Seq(ExchangeRecords) /\ Len(st.file \o lines) = from + n
    BY <1>2, <1>8, ConcatProperties DEF from
  <2>3. \A i \in 1 .. from + n : (st.file \o lines)[i] = IF i <= from THEN st.file[i] ELSE lines[i - from]
    BY <1>2, <1>8, ConcatProperties DEF from
  <2> QED
    BY <1>2, <2>1, <2>2, <2>3
<1>11. Tail(st.tail) \in Seq(ExchangeRecords)
  <2>1. st.tail # <<>>
    BY DEF st
  <2> QED
    BY <1>2, <2>1, HeadTailProperties
<1>12. E \ out \in SUBSET ExchangeRecords /\ IsFiniteSet(E \ out)
  BY <1>3, FS_Subset
<1>13. /\ f \in StreamStates /\ f.next = st.next /\ f.tail = Tail(st.tail) /\ f.pending = E \ out
       /\ f.file = st.file \o lines
  BY <1>1, <1>6, <1>10, <1>11, <1>12 DEF StreamStates
<1>14. out = {f.file[from + i] : i \in 1 .. n}
  <2>1. \A i \in 1 .. n : f.file[from + i] = Rec(i)
    BY <1>9, <1>10, <1>13
  <2> QED
    BY <2>1 DEF out
<1>15. \A i \in 1 .. n : f.file[from + i] \in E /\ f.file[from + i].sequence = from + i
  BY <1>7, <1>9, <1>10, <1>13
<1>16. Len(f.file) = from + n /\ \A i \in 1 .. from : f.file[i] = st.file[i]
  BY <1>10, <1>13
<1> QED
  BY <1>12, <1>13, <1>14, <1>15, <1>16 DEF st, E, f

LEMMA HoldersAre ==
  ASSUME ExposureType
  PROVE  IsFiniteSet(Holders) /\ Cardinality(Holders) \in Nat
<1>1. IsFiniteSet(Holders)
  BY ExposureAssumption, FS_Subset DEF Holders
<1> QED
  BY <1>1, FS_CardinalityType

LEMMA ReleaseIs ==
  ASSUME ExposureType, SlotsFit, NEW x \in Exchanges
  PROVE  /\ ReleaseSlot(x, admission) \in [total : Nat, inFlight : Nat, window : Nat]
         /\ ReleaseSlot(x, admission).inFlight = Cardinality(Holders \ {x})
         /\ ReleaseSlot(x, admission).inFlight <= MaxConcurrent
<1>1. /\ IsFiniteSet(Holders) /\ Cardinality(Holders) \in Nat
      /\ Cardinality(Holders \ {x}) \in Nat
      /\ Cardinality(Holders \ {x}) = IF x \in Holders THEN Cardinality(Holders) - 1 ELSE Cardinality(Holders)
  BY HoldersAre, FS_RemoveElement, FS_CardinalityType
<1>2. x \in Holders <=> exchange[x].slot
  BY DEF Holders
<1>3. admission.inFlight = Cardinality(Holders) /\ admission.inFlight <= MaxConcurrent
  BY DEF SlotsFit
<1>4. MaxConcurrent \in Nat
  BY ExposureAssumption
<1>5. admission \in [total : Nat, inFlight : Nat, window : Nat]
  BY DEF ExposureType
<1>6. CASE exchange[x].slot
  <2>1. ReleaseSlot(x, admission) = [admission EXCEPT !.inFlight = @ - 1]
    BY <1>6 DEF ReleaseSlot
  <2> QED
    BY <1>1, <1>2, <1>3, <1>4, <1>5, <1>6, <2>1
<1>7. CASE ~exchange[x].slot
  <2>1. ReleaseSlot(x, admission) = admission
    BY <1>7 DEF ReleaseSlot
  <2> QED
    BY <1>1, <1>2, <1>3, <1>4, <1>5, <1>7, <2>1
<1> QED
  BY <1>6, <1>7

\* What one exchange does with its slot.
LEMMA SlotsKeep ==
  ASSUME ExposureType, SlotsFit, NEW x \in Exchanges,
         \A y \in Exchanges \ {x} : exchange'[y] = exchange[y],
         exchange'[x].slot => exchange'[x].told = "none",
         exchange'[x].at \in {"new", "upload"} =>
            ~exchange'[x].slot /\ exchange'[x].told = "none" /\ exchange'[x].outcome = "none",
         \/ /\ exchange'[x].slot <=> exchange[x].slot
            /\ admission'.inFlight = admission.inFlight
         \/ ~exchange'[x].slot /\ admission' = ReleaseSlot(x, admission)
         \/ /\ exchange'[x].slot /\ ~exchange[x].slot
            /\ admission'.inFlight = admission.inFlight + 1
            /\ admission.inFlight + 1 <= MaxConcurrent
  PROVE  SlotsFit'
<1>1. IsFiniteSet(Holders) /\ Cardinality(Holders) \in Nat
  BY HoldersAre
<1>2. Holders' \ {x} = Holders \ {x}
  BY DEF Holders
<1>3. (x \in Holders <=> exchange[x].slot) /\ (x \in Holders' <=> exchange'[x].slot)
  BY DEF Holders
<1>4. admission.inFlight = Cardinality(Holders) /\ admission.inFlight <= MaxConcurrent
  BY DEF SlotsFit
<1>5. admission'.inFlight = Cardinality(Holders') /\ admission'.inFlight <= MaxConcurrent
  <2>1. CASE (exchange'[x].slot <=> exchange[x].slot) /\ admission'.inFlight = admission.inFlight
    <3>1. Holders' = Holders
      BY <1>2, <1>3, <2>1
    <3> QED
      BY <1>4, <2>1, <3>1
  <2>2. CASE ~exchange'[x].slot /\ admission' = ReleaseSlot(x, admission)
    <3>1. Holders' = Holders \ {x}
      BY <1>2, <1>3, <2>2
    <3> QED
      BY <2>2, <3>1, ReleaseIs
  <2>3. CASE /\ exchange'[x].slot /\ ~exchange[x].slot
             /\ admission'.inFlight = admission.inFlight + 1
             /\ admission.inFlight + 1 <= MaxConcurrent
    <3>1. Holders' = Holders \cup {x} /\ x \notin Holders
      BY <1>2, <1>3, <2>3
    <3>2. Cardinality(Holders') = Cardinality(Holders) + 1
      BY <1>1, <3>1, FS_AddElement
    <3> QED
      BY <1>4, <2>3, <3>2
  <2> QED
    BY <2>1, <2>2, <2>3
<1>6. \A y \in Exchanges :
        /\ exchange'[y].slot => exchange'[y].told = "none"
        /\ exchange'[y].at \in {"new", "upload"} =>
             ~exchange'[y].slot /\ exchange'[y].told = "none" /\ exchange'[y].outcome = "none"
  <2> TAKE y \in Exchanges
  <2>1. CASE y = x
    BY <2>1
  <2>2. CASE y # x
    <3>1. exchange'[y] = exchange[y]
      BY <2>2
    <3> QED
      BY <3>1 DEF SlotsFit
  <2> QED
    BY <2>1, <2>2
<1> QED
  BY <1>5, <1>6 DEF SlotsFit

\* A record that is submitted leaves the streams well typed.
LEMMA SubmitType ==
  ASSUME ExposureType, NEW s \in Planes, NEW e \in ExchangeRecords, NEW S \in [Planes -> StreamStates],
         \A t \in Planes : IsFiniteSet(S[t].pending)
  PROVE  LET T == [S EXCEPT ![s].tail = Append(@, e)]
         IN  T \in [Planes -> StreamStates] /\ \A t \in Planes : IsFiniteSet(T[t].pending)
<1> HIDE DEF ExchangeRecords
<1>1. S[s].tail \in Seq(ExchangeRecords)
  BY DEF StreamStates
<1>2. PICK l : l = Append(S[s].tail, e)
  OBVIOUS
<1>3. l \in Seq(ExchangeRecords)
  BY <1>1, <1>2, AppendProperties
<1>4. [S EXCEPT ![s].tail = Append(@, e)] = [S EXCEPT ![s].tail = l]
  BY <1>2
<1>5. [S EXCEPT ![s].tail = l] \in [Planes -> StreamStates]
  BY <1>3 DEF StreamStates
<1>6. \A t \in Planes : [S EXCEPT ![s].tail = l][t].pending = S[t].pending
  BY DEF StreamStates
<1> QED
  BY <1>4, <1>5, <1>6

ExposureBase == ExposureType /\ SlotsFit /\ FilesInOrder /\ PipelineFits

LEMMA FilesKeep ==
  ASSUME FilesInOrder, \A s \in Planes : streams'[s].file = streams[s].file
  PROVE  FilesInOrder'
BY DEF FilesInOrder

LEMMA PipelineKeeps ==
  ASSUME ExposureType, PipelineFits, pipeline # <<>>, pipeline' = Tail(pipeline)
  PROVE  /\ PipelineFits' /\ pipeline' \in Seq(Exchanges)
         /\ Head(pipeline) \in Exchanges /\ Head(pipeline) = pipeline[1] /\ 1 \in DOMAIN pipeline
         /\ PlaneOf[Head(pipeline)] = "api"
         /\ \A i \in DOMAIN pipeline' : i + 1 \in DOMAIN pipeline /\ pipeline'[i] = pipeline[i + 1]
<1>1. pipeline \in Seq(Exchanges)
  BY DEF ExposureType
<1>2. DOMAIN pipeline = 1 .. Len(pipeline) /\ Len(pipeline) \in Nat \ {0}
  BY <1>1, LenProperties, EmptySeq
<1>3. /\ Head(pipeline) = pipeline[1] /\ Head(pipeline) \in Exchanges
      /\ pipeline' \in Seq(Exchanges) /\ Len(pipeline') = Len(pipeline) - 1
      /\ \A i \in 1 .. Len(pipeline) - 1 : pipeline'[i] = pipeline[i + 1]
  BY <1>1, HeadTailProperties
<1>4. DOMAIN pipeline' = 1 .. Len(pipeline) - 1
  BY <1>3, LenProperties
<1>5. \A i \in 1 .. Len(pipeline) - 1 : i + 1 \in 1 .. Len(pipeline)
  BY <1>2
<1>6. \A i \in DOMAIN pipeline' : i + 1 \in DOMAIN pipeline /\ pipeline'[i] = pipeline[i + 1]
  BY <1>2, <1>3, <1>4, <1>5
<1>7. 1 \in DOMAIN pipeline
  BY <1>2
<1> QED
  BY <1>3, <1>6, <1>7 DEF PipelineFits

LEMMA FailsIs ==
  ASSUME ExposureType, SlotsFit, NEW x \in Exchanges, Fails(x),
         exchange[x].at \in {"gateway", "completing"} \/ TRUE
  PROVE  /\ exchange' \in [Exchanges -> ExchangeStates] /\ SlotsFit'
         /\ admission' \in [total : Nat, inFlight : Nat, window : Nat]
         /\ \A y \in Exchanges \ {x} : exchange'[y] = exchange[y]
         /\ exchange'[x].at = IF PlaneOf[x] = "api" THEN "recording" ELSE "done"
         /\ exchange'[x].told = "failed" /\ exchange'[x].outcome = "failed"
         /\ exchange'[x].sequence = exchange[x].sequence
<1> DEFINE r == [exchange[x] EXCEPT !.at = IF PlaneOf[x] = "api" THEN "recording" ELSE "done",
                            !.told = "failed", !.outcome = "failed", !.slot = FALSE]
<1>1. exchange[x] \in ExchangeStates /\ exchange \in [Exchanges -> ExchangeStates]
  BY DEF ExposureType
<1>2. exchange' = [exchange EXCEPT ![x] = r] /\ admission' = ReleaseSlot(x, admission)
  <2>1. CASE PlaneOf[x] = "api"
    BY <1>1, <2>1 DEF Fails
  <2>2. CASE PlaneOf[x] # "api"
    BY <1>1, <2>2 DEF Fails
  <2> QED
    BY <2>1, <2>2
<1>3. r \in ExchangeStates /\ r.told = "failed" /\ r.outcome = "failed" /\ r.slot = FALSE
      /\ r.at = (IF PlaneOf[x] = "api" THEN "recording" ELSE "done")
      /\ r.sequence = exchange[x].sequence
  BY <1>1 DEF ExchangeStates, Outcomes
<1> HIDE DEF r
<1>4. exchange' \in [Exchanges -> ExchangeStates] /\ exchange'[x] = r
      /\ \A y \in Exchanges \ {x} : exchange'[y] = exchange[y]
  BY <1>1, <1>2, <1>3
<1>5. admission' \in [total : Nat, inFlight : Nat, window : Nat]
  BY <1>2, ReleaseIs
<1>6. SlotsFit'
  <2>1. exchange'[x].slot = FALSE /\ exchange'[x].at \notin {"new", "upload"}
    BY <1>3, <1>4
  <2> QED
    BY <1>2, <1>4, <2>1, SlotsKeep
<1> QED
  BY <1>3, <1>4, <1>5, <1>6

LEMMA ArriveBase == ASSUME ExposureBase, NEW x \in Exchanges, Arrive(x) PROVE ExposureBase'
<1> USE DEF ExposureBase
<1>1. exchange[x] \in ExchangeStates /\ exchange \in [Exchanges -> ExchangeStates]
  BY DEF ExposureType
<1>2. PICK r : r = [exchange[x] EXCEPT !.at = "upload", !.over = Cardinality(Connected) >= MaxConcurrent]
  OBVIOUS
<1>3. exchange' = [exchange EXCEPT ![x] = r]
  BY <1>1, <1>2 DEF Arrive
<1>4. (Cardinality(Connected) >= MaxConcurrent) \in BOOLEAN
  OBVIOUS
<1>5. r \in ExchangeStates /\ r.slot = exchange[x].slot /\ r.told = exchange[x].told
      /\ r.outcome = exchange[x].outcome
  BY <1>1, <1>2, <1>4 DEF ExchangeStates
<1>6. exchange' \in [Exchanges -> ExchangeStates] /\ exchange'[x] = r
      /\ \A y \in Exchanges \ {x} : exchange'[y] = exchange[y]
  BY <1>1, <1>3, <1>5
<1>7. ~exchange[x].slot /\ exchange[x].told = "none" /\ exchange[x].outcome = "none"
  BY DEF SlotsFit, Arrive
<1>8. SlotsFit'
  <2>1. admission' = admission
    BY DEF Arrive
  <2> QED
    BY <1>5, <1>6, <1>7, <2>1, SlotsKeep
<1>9. UNCHANGED <<admission, pipeline, effects, streams, sinkFaults>>
  BY DEF Arrive
<1> QED
  BY <1>6, <1>8, <1>9, FilesKeep DEF ExposureType, PipelineFits

LEMMA AdmitIs ==
  ASSUME ExposureType, SlotsFit
  PROVE  /\ AdmitOf(admission) \in [total : Nat, inFlight : Nat, window : Nat]
         /\ Refusal(admission) = "none" =>
              /\ AdmitOf(admission).inFlight = admission.inFlight + 1
              /\ admission.inFlight + 1 <= MaxConcurrent
         /\ Refusal(admission) # "none" => AdmitOf(admission).inFlight = admission.inFlight
<1>1. admission \in [total : Nat, inFlight : Nat, window : Nat]
  BY DEF ExposureType
<1>2. {MaxConcurrent, MaxRun, MaxBurst} \subseteq Nat
  BY ExposureAssumption
<1> QED
  BY <1>1, <1>2 DEF AdmitOf, Refusal

LEMMA BodyEndsBase ==
  ASSUME ExposureBase, NEW x \in Exchanges, NEW tooLarge \in BOOLEAN, BodyEnds(x, tooLarge)
  PROVE  ExposureBase'
<1> USE DEF ExposureBase
<1> DEFINE s == PlaneOf[x]
           refusal == Refusal(admission)
           refused == exchange[x].over \/ refusal # "none" \/ tooLarge
           toPlane == IF refused THEN "api" ELSE s
           number == streams[s].next
           reserved == [streams EXCEPT ![s].next = @ + 1]
           result == IF refused THEN "refused" ELSE "served"
           known == [exchange[x] EXCEPT !.sequence = number, !.slot = refusal = "none",
                                        !.outcome = result]
<1>1. exchange[x] \in ExchangeStates /\ exchange \in [Exchanges -> ExchangeStates]
      /\ streams \in [Planes -> StreamStates]
      /\ pipeline \in Seq(Exchanges) /\ effects \in Seq(Exchanges) /\ Len(effects) \in Nat
  BY DEF ExposureType
<1>2. s \in Planes /\ toPlane \in Planes
  BY ExposureAssumption DEF Planes
<1>3. number \in Nat
  BY <1>1, <1>2 DEF StreamStates
<1>4. reserved \in [Planes -> StreamStates]
      /\ \A t \in Planes : reserved[t].pending = streams[t].pending /\ reserved[t].file = streams[t].file
  <2>1. PICK n : n = streams[s].next + 1
    OBVIOUS
  <2>2. n \in Nat \ {0}
    BY <1>1, <1>2, <2>1 DEF StreamStates
  <2>3. reserved = [streams EXCEPT ![s].next = n]
    BY <2>1
  <2> HIDE DEF reserved, s
  <2> QED
    BY <1>1, <1>2, <2>2, <2>3 DEF StreamStates
<1>5. \A t \in Planes : IsFiniteSet(reserved[t].pending)
  BY <1>4 DEF ExposureType
<1>6. result \in Outcomes
  BY DEF Outcomes
<1>7. known \in ExchangeStates /\ known.outcome = result /\ known.told = exchange[x].told
      /\ known.slot = (refusal = "none") /\ known.at = exchange[x].at
  <2> HIDE DEF number, refusal, result
  <2>1. (refusal = "none") \in BOOLEAN
    OBVIOUS
  <2> QED
    BY <1>1, <1>3, <1>6, <2>1 DEF ExchangeStates
<1>8. /\ exchange[x].at = "upload" /\ admission' = AdmitOf(admission)
      /\ UNCHANGED <<effects, sinkFaults, failures, port>>
      /\ \/ /\ refused \/ s = "doc"
            /\ exchange' = [exchange EXCEPT ![x] = [known EXCEPT !.at = "completing"]]
            /\ streams' = [reserved EXCEPT ![toPlane].tail =
                             Append(@, ExchangeEvent(x, number, known.outcome, <<>>))]
            /\ UNCHANGED pipeline
         \/ /\ s = "api"
            /\ exchange' = [exchange EXCEPT ![x] = [known EXCEPT !.at = "gateway", !.before = Len(effects)]]
            /\ streams' = reserved
            /\ pipeline' = Append(pipeline, x)
  BY <1>2 DEF BodyEnds, Planes
<1>9. ~exchange[x].slot /\ exchange[x].told = "none"
  BY <1>8 DEF SlotsFit
<1> HIDE DEF known, reserved, result, number, refused, toPlane, s, refusal
<1>10. PICK r : /\ r \in ExchangeStates /\ r.slot = (refusal = "none") /\ r.told = "none"
                /\ r.at \in {"completing", "gateway"}
                /\ exchange' = [exchange EXCEPT ![x] = r]
  <2>1. [known EXCEPT !.at = "completing"] \in ExchangeStates
        /\ [known EXCEPT !.at = "completing"].slot = known.slot
        /\ [known EXCEPT !.at = "completing"].told = known.told
        /\ [known EXCEPT !.at = "completing"].at = "completing"
    BY <1>7 DEF ExchangeStates
  <2>2. [known EXCEPT !.at = "gateway", !.before = Len(effects)] \in ExchangeStates
        /\ [known EXCEPT !.at = "gateway", !.before = Len(effects)].slot = known.slot
        /\ [known EXCEPT !.at = "gateway", !.before = Len(effects)].told = known.told
        /\ [known EXCEPT !.at = "gateway", !.before = Len(effects)].at = "gateway"
    BY <1>1, <1>7 DEF ExchangeStates
  <2> DEFINE a == [known EXCEPT !.at = "completing"]
             b == [known EXCEPT !.at = "gateway", !.before = Len(effects)]
  <2>3. \/ exchange' = [exchange EXCEPT ![x] = a]
        \/ exchange' = [exchange EXCEPT ![x] = b]
    BY <1>8
  <2> HIDE DEF a, b
  <2>4. CASE exchange' = [exchange EXCEPT ![x] = a]
    BY <1>7, <1>9, <2>1, <2>4 DEF a
  <2>5. CASE exchange' = [exchange EXCEPT ![x] = b]
    BY <1>7, <1>9, <2>2, <2>5 DEF b
  <2> QED
    BY <2>3, <2>4, <2>5
<1>11. exchange' \in [Exchanges -> ExchangeStates] /\ exchange'[x] = r
       /\ \A y \in Exchanges \ {x} : exchange'[y] = exchange[y]
  BY <1>1, <1>10
<1>12. SlotsFit' /\ admission' \in [total : Nat, inFlight : Nat, window : Nat]
  <2>1. CASE refusal = "none"
    BY <1>8, <1>9, <1>10, <1>11, <2>1, AdmitIs, SlotsKeep DEF refusal
  <2>2. CASE refusal # "none"
    BY <1>8, <1>9, <1>10, <1>11, <2>2, AdmitIs, SlotsKeep DEF refusal
  <2> QED
    BY <2>1, <2>2
<1>13. /\ streams' \in [Planes -> StreamStates] /\ \A t \in Planes : IsFiniteSet(streams'[t].pending)
       /\ \A t \in Planes : streams'[t].file = streams[t].file
  <2>1. PICK e : e = ExchangeEvent(x, number, known.outcome, <<>>)
    OBVIOUS
  <2>2. e \in ExchangeRecords
    BY <1>3, <1>6, <1>7, <2>1, EmptySeq DEF ExchangeEvent, ExchangeRecords
  <2>3. PICK T : T = [reserved EXCEPT ![toPlane].tail = Append(@, e)]
    OBVIOUS
  <2>4. T \in [Planes -> StreamStates] /\ \A t \in Planes : IsFiniteSet(T[t].pending)
    BY <1>2, <1>4, <1>5, <2>2, <2>3, SubmitType
  <2>5. \A t \in Planes : T[t].file = reserved[t].file
    BY <1>4, <2>3 DEF StreamStates
  <2> QED
    BY <1>4, <1>5, <1>8, <2>1, <2>3, <2>4, <2>5
<1>14. pipeline' \in Seq(Exchanges) /\ PipelineFits'
  <2>1. CASE pipeline' = pipeline
    BY <1>1, <2>1 DEF PipelineFits
  <2>2. CASE pipeline' = Append(pipeline, x) /\ s = "api"
    <3>1. /\ pipeline' \in Seq(Exchanges) /\ Len(pipeline') = Len(pipeline) + 1
          /\ \A i \in 1 .. Len(pipeline) : pipeline'[i] = pipeline[i]
          /\ pipeline'[Len(pipeline) + 1] = x
      BY <1>1, <2>2, AppendProperties
    <3>2. DOMAIN pipeline' = 1 .. Len(pipeline) + 1 /\ DOMAIN pipeline = 1 .. Len(pipeline)
          /\ Len(pipeline) \in Nat
      BY <1>1, <3>1, LenProperties
    <3>3. \A i \in DOMAIN pipeline' : i \in 1 .. Len(pipeline) \/ i = Len(pipeline) + 1
      BY <3>2
    <3> QED
      BY <2>2, <3>1, <3>2, <3>3 DEF PipelineFits, s
  <2> QED
    BY <1>8, <2>1, <2>2
<1> QED
  BY <1>8, <1>11, <1>12, <1>13, <1>14, FilesKeep DEF ExposureType

\* A record of x that goes to the tail of a stream.
LEMMA SubmitIs ==
  ASSUME ExposureType, NEW s \in Planes, NEW e \in ExchangeRecords, NEW n \in Nat \ {0},
         streams' = [streams EXCEPT ![s].next = n, ![s].tail = Append(@, e)]
  PROVE  /\ streams' \in [Planes -> StreamStates] /\ \A t \in Planes : IsFiniteSet(streams'[t].pending)
         /\ \A t \in Planes \ {s} : streams'[t] = streams[t]
         /\ streams'[s].next = n /\ streams'[s].tail = Append(streams[s].tail, e)
         /\ \A t \in Planes : streams'[t].pending = streams[t].pending /\ streams'[t].file = streams[t].file
<1> HIDE DEF ExchangeRecords
<1>1. streams \in [Planes -> StreamStates] /\ \A t \in Planes : IsFiniteSet(streams[t].pending)
  BY DEF ExposureType
<1>2. streams[s].tail \in Seq(ExchangeRecords)
  BY <1>1 DEF StreamStates
<1>3. PICK l : l = Append(streams[s].tail, e)
  OBVIOUS
<1>4. l \in Seq(ExchangeRecords)
  BY <1>2, <1>3, AppendProperties
<1>5. PICK r : r = [streams[s] EXCEPT !.next = n, !.tail = l]
  OBVIOUS
<1>6. r \in StreamStates /\ r.next = n /\ r.tail = l /\ r.pending = streams[s].pending /\ r.file = streams[s].file
  BY <1>1, <1>4, <1>5 DEF StreamStates
<1>7. streams' = [streams EXCEPT ![s] = r]
  BY <1>1, <1>3, <1>5
<1> QED
  BY <1>1, <1>3, <1>6, <1>7

LEMMA GatewayAnswersBase == ASSUME ExposureBase, GatewayAnswers PROVE ExposureBase'
<1> USE DEF ExposureBase
<1>1. PICK commits \in BOOLEAN :
        LET x == Head(pipeline)
            all == IF commits THEN Append(effects, x) ELSE effects
            own == SubSeq(all, exchange[x].before + 1, Len(all))
        IN  /\ pipeline # <<>>
            /\ effects' = all
            /\ pipeline' = Tail(pipeline)
            /\ exchange' = [exchange EXCEPT ![x].at = "completing"]
            /\ streams' = Submit("api", ExchangeEvent(x, exchange[x].sequence, "served", own))
            /\ UNCHANGED <<admission, sinkFaults, failures, port>>
  BY DEF GatewayAnswers
<1> DEFINE x == Head(pipeline)
<1>2. x \in Exchanges /\ PipelineFits' /\ pipeline' \in Seq(Exchanges)
  BY <1>1, PipelineKeeps
<1>3. /\ exchange[x] \in ExchangeStates /\ exchange \in [Exchanges -> ExchangeStates]
      /\ streams \in [Planes -> StreamStates] /\ effects \in Seq(Exchanges)
  BY <1>2 DEF ExposureType
<1>4. effects' \in Seq(Exchanges)
  BY <1>1, <1>2, <1>3, AppendProperties
<1> HIDE DEF x
<1>5. PICK own : own = SubSeq(effects', exchange[x].before + 1, Len(effects'))
  OBVIOUS
<1>6. own \in Seq(Exchanges)
  <2>1. exchange[x].before + 1 \in Int /\ Len(effects') \in Int
    BY <1>3, <1>4 DEF ExchangeStates
  <2>2. exchange[x].before + 1 \in Nat /\ exchange[x].before + 1 >= 1
    BY <1>3 DEF ExchangeStates
  <2>3. \A i \in exchange[x].before + 1 .. Len(effects') : i \in 1 .. Len(effects')
    BY <2>1, <2>2
  <2> QED
    BY <1>4, <1>5, <2>1, <2>3, SubSeqProperties
<1>7. PICK e : e = ExchangeEvent(x, exchange[x].sequence, "served", own)
  OBVIOUS
<1>8. e \in ExchangeRecords
  BY <1>2, <1>3, <1>6, <1>7 DEF ExchangeEvent, ExchangeRecords, ExchangeStates, Outcomes
<1>9. streams' = [streams EXCEPT !["api"].tail = Append(@, e)]
  BY <1>1, <1>5, <1>7 DEF Submit, x
<1>10. "api" \in Planes
  BY DEF Planes
<1>11. streams' = [streams EXCEPT !["api"].next = streams["api"].next, !["api"].tail = Append(@, e)]
  BY <1>3, <1>9, <1>10 DEF StreamStates
<1>12. streams["api"].next \in Nat \ {0}
  BY <1>3, <1>10 DEF StreamStates
<1>13. /\ streams' \in [Planes -> StreamStates] /\ \A t \in Planes : IsFiniteSet(streams'[t].pending)
       /\ \A t \in Planes : streams'[t].file = streams[t].file
  <2> HIDE DEF ExposureType
  <2> QED
    BY <1>8, <1>10, <1>11, <1>12, SubmitIs
<1>14. PICK r : r = [exchange[x] EXCEPT !.at = "completing"]
  OBVIOUS
<1>15. r \in ExchangeStates /\ r.slot = exchange[x].slot /\ r.told = exchange[x].told /\ r.at = "completing"
  BY <1>3, <1>14 DEF ExchangeStates
<1>16. exchange' = [exchange EXCEPT ![x] = r]
  BY <1>1, <1>3, <1>14 DEF x
<1>17. exchange' \in [Exchanges -> ExchangeStates] /\ exchange'[x] = r
       /\ \A y \in Exchanges \ {x} : exchange'[y] = exchange[y]
  BY <1>2, <1>3, <1>15, <1>16
<1>18. SlotsFit'
  <2>1. admission' = admission
    BY <1>1
  <2>2. exchange'[x].slot => exchange'[x].told = "none"
    BY <1>2, <1>15, <1>17 DEF SlotsFit
  <2>3. exchange'[x].at \notin {"new", "upload"}
    BY <1>15, <1>17
  <2> QED
    BY <1>2, <1>15, <1>17, <2>1, <2>2, <2>3, SlotsKeep
<1> QED
  BY <1>1, <1>2, <1>4, <1>13, <1>17, <1>18, FilesKeep DEF ExposureType

LEMMA FailedIs ==
  ASSUME ExposureType, NEW x \in Exchanges
  PROVE  FailedEvent(x) \in ExchangeRecords
<1>1. exchange[x] \in ExchangeStates
  BY DEF ExposureType
<1> QED
  BY <1>1, EmptySeq DEF FailedEvent, ExchangeEvent, ExchangeRecords, ExchangeStates, Outcomes

LEMMA GatewayThrowsBase == ASSUME ExposureBase, GatewayThrows PROVE ExposureBase'
<1> USE DEF ExposureBase
<1> DEFINE x == Head(pipeline)
<1>1. /\ pipeline # <<>> /\ pipeline' = Tail(pipeline) /\ Fails(x)
      /\ streams' = [streams EXCEPT !["api"].tail = Append(@, FailedEvent(x))]
      /\ UNCHANGED <<effects, sinkFaults, port>>
  BY DEF GatewayThrows, Submit
<1>2. x \in Exchanges /\ PipelineFits' /\ pipeline' \in Seq(Exchanges)
  BY <1>1, PipelineKeeps
<1> HIDE DEF x
<1>3. /\ exchange' \in [Exchanges -> ExchangeStates] /\ SlotsFit'
      /\ admission' \in [total : Nat, inFlight : Nat, window : Nat]
  BY <1>1, <1>2, FailsIs
<1>4. PICK e : e = FailedEvent(x)
  OBVIOUS
<1>5. e \in ExchangeRecords
  BY <1>2, <1>4, FailedIs
<1>6. "api" \in Planes
  BY DEF Planes
<1>7. streams \in [Planes -> StreamStates] /\ streams["api"].next \in Nat \ {0}
  BY <1>6 DEF ExposureType, StreamStates
<1>8. streams' = [streams EXCEPT !["api"].next = streams["api"].next, !["api"].tail = Append(@, e)]
  BY <1>1, <1>4, <1>6, <1>7 DEF StreamStates
<1>9. /\ streams' \in [Planes -> StreamStates] /\ \A t \in Planes : IsFiniteSet(streams'[t].pending)
      /\ \A t \in Planes : streams'[t].file = streams[t].file
  <2> HIDE DEF ExposureType
  <2> QED
    BY <1>5, <1>6, <1>7, <1>8, SubmitIs
<1> QED
  BY <1>1, <1>2, <1>3, <1>9, FilesKeep DEF ExposureType

LEMMA DisconnectBase ==
  ASSUME ExposureBase, NEW x \in Exchanges, Disconnect(x) PROVE ExposureBase'
<1> USE DEF ExposureBase
<1> DEFINE n == streams["api"].next
<1>1. "api" \in Planes
  BY DEF Planes
<1>2. /\ exchange[x] \in ExchangeStates /\ exchange \in [Exchanges -> ExchangeStates]
      /\ streams \in [Planes -> StreamStates] /\ n \in Nat \ {0} /\ n + 1 \in Nat \ {0}
  BY <1>1 DEF ExposureType, StreamStates
<1>3. PICK e : e = ExchangeEvent(x, n, "failed", <<>>)
  OBVIOUS
<1>4. e \in ExchangeRecords
  BY <1>2, <1>3, EmptySeq DEF ExchangeEvent, ExchangeRecords, Outcomes
<1>5. /\ exchange[x].at = "upload"
      /\ exchange' = [exchange EXCEPT ![x].at = "leaving", ![x].told = "gone",
                         ![x].outcome = "failed", ![x].sequence = n]
      /\ streams' = [streams EXCEPT !["api"].next = @ + 1, !["api"].tail = Append(@, e)]
      /\ UNCHANGED <<admission, pipeline, effects, sinkFaults, failures, port>>
  BY <1>3 DEF Disconnect
<1>6. streams' = [streams EXCEPT !["api"].next = n + 1, !["api"].tail = Append(@, e)]
  BY <1>5
<1>7. /\ streams' \in [Planes -> StreamStates] /\ \A t \in Planes : IsFiniteSet(streams'[t].pending)
      /\ \A t \in Planes : streams'[t].file = streams[t].file
  <2> HIDE DEF ExposureType, n
  <2>1. PICK m : m = n + 1
    OBVIOUS
  <2> QED
    BY <1>1, <1>2, <1>4, <1>6, <2>1, SubmitIs
<1>8. PICK r : r = [exchange[x] EXCEPT !.at = "leaving", !.told = "gone", !.outcome = "failed", !.sequence = n]
  OBVIOUS
<1>9. r \in ExchangeStates /\ r.slot = exchange[x].slot /\ r.at = "leaving"
  BY <1>2, <1>8 DEF ExchangeStates, Outcomes
<1>10. exchange' = [exchange EXCEPT ![x] = r]
  BY <1>2, <1>5, <1>8
<1>11. exchange' \in [Exchanges -> ExchangeStates] /\ exchange'[x] = r
       /\ \A y \in Exchanges \ {x} : exchange'[y] = exchange[y]
  BY <1>2, <1>9, <1>10
<1>12. SlotsFit'
  <2>1. ~exchange[x].slot
    BY <1>5 DEF SlotsFit
  <2>2. ~exchange'[x].slot /\ exchange'[x].at \notin {"new", "upload"} /\ admission' = admission
    BY <1>5, <1>9, <1>11, <2>1
  <2> QED
    BY <1>11, <2>1, <2>2, SlotsKeep
<1> QED
  BY <1>5, <1>7, <1>11, <1>12, FilesKeep DEF ExposureType, PipelineFits

\* Appending keeps a file in order.
LEMMA FlushKeepsOrder ==
  ASSUME ExposureType, FilesInOrder, NEW s \in Planes, streams[s].tail # <<>>,
         NEW n \in Nat, n <= Flushable(s, Buffered(s, Head(streams[s].tail)))
  PROVE  LET T == [streams EXCEPT ![s] = Flushed(s, n)]
         IN  /\ T \in [Planes -> StreamStates] /\ \A t \in Planes : IsFiniteSet(T[t].pending)
             /\ \A t \in Planes : \A i \in DOMAIN T[t].file : T[t].file[i].sequence = i
<1> DEFINE f == Flushed(s, n)
           from == Len(streams[s].file)
           T == [streams EXCEPT ![s] = f]
<1>1. /\ f \in StreamStates /\ IsFiniteSet(f.pending) /\ Len(f.file) = from + n
      /\ \A i \in 1 .. from : f.file[i] = streams[s].file[i]
      /\ \A i \in 1 .. n : f.file[from + i].sequence = from + i
  BY FlushedIs
<1> HIDE DEF f
<1>2. streams \in [Planes -> StreamStates] /\ \A t \in Planes : IsFiniteSet(streams[t].pending)
  BY DEF ExposureType
<1>3. T \in [Planes -> StreamStates] /\ T[s] = f /\ \A t \in Planes \ {s} : T[t] = streams[t]
  BY <1>1, <1>2
<1>4. f.file \in Seq(ExchangeRecords) /\ streams[s].file \in Seq(ExchangeRecords) /\ from \in Nat
  BY <1>1, <1>2 DEF StreamStates
<1>5. DOMAIN f.file = 1 .. from + n /\ DOMAIN streams[s].file = 1 .. from
  BY <1>1, <1>4, LenProperties
<1>6. \A i \in DOMAIN f.file : f.file[i].sequence = i
  <2> TAKE i \in DOMAIN f.file
  <2>1. CASE i \in 1 .. from
    BY <1>1, <1>5, <2>1 DEF FilesInOrder
  <2>2. CASE i \notin 1 .. from
    <3>1. i - from \in 1 .. n /\ from + (i - from) = i
      <4>1. i \in 1 .. from + n
        BY <1>5
      <4> HIDE DEF from
      <4> QED
        BY <1>4, <2>2, <4>1
    <3> QED
      BY <1>1, <3>1
  <2> QED
    BY <2>1, <2>2
<1>7. \A t \in Planes : \A i \in DOMAIN T[t].file : T[t].file[i].sequence = i
  BY <1>3, <1>6 DEF FilesInOrder
<1> QED
  BY <1>1, <1>2, <1>3, <1>7 DEF f

LEMMA CompleteBase ==
  ASSUME ExposureBase, NEW s \in Planes, CompleteRecord(s) PROVE ExposureBase'
<1> USE DEF ExposureBase
<1> DEFINE event == Head(streams[s].tail)
           x == event.of
           n == Flushable(s, Buffered(s, event))
<1>1. /\ streams[s].tail # <<>>
      /\ streams' = [streams EXCEPT ![s] = Flushed(s, n)]
      /\ UNCHANGED <<pipeline, effects, sinkFaults, port>>
      /\ \/ /\ exchange[x].at = "completing"
            /\ exchange' = [exchange EXCEPT ![x].at = "done", ![x].slot = FALSE,
                               ![x].told = exchange[x].outcome]
            /\ admission' = ReleaseSlot(x, admission)
         \/ /\ exchange' = [exchange EXCEPT ![x].at = "done"]
            /\ UNCHANGED admission
  <2> HIDE DEF n
  <2>1. streams[s].tail # <<>> /\ streams' = [streams EXCEPT ![s] = Flushed(s, n)]
        /\ UNCHANGED <<pipeline, effects, sinkFaults, port>>
    BY DEF CompleteRecord, n
  <2>2. CASE exchange[x].at = "completing"
    BY <2>1, <2>2 DEF CompleteRecord
  <2>3. CASE exchange[x].at = "recording"
    BY <2>1, <2>3 DEF CompleteRecord
  <2>4. CASE exchange[x].at \notin {"completing", "recording"}
    BY <2>1, <2>4 DEF CompleteRecord
  <2> QED
    BY <2>2, <2>3, <2>4
<1>2. event \in ExchangeRecords
  BY <1>1, BufferedIs
<1>3. x \in Exchanges
  BY <1>2 DEF ExchangeRecords
<1>4. n \in Nat
  <2>1. IsFiniteSet(Buffered(s, event))
    BY <1>1, BufferedIs
  <2> QED
    BY <2>1, FlushableIs
<1>5. /\ streams' \in [Planes -> StreamStates] /\ \A t \in Planes : IsFiniteSet(streams'[t].pending)
      /\ \A t \in Planes : \A i \in DOMAIN streams'[t].file : streams'[t].file[i].sequence = i
  <2>1. PICK k \in Nat : k = n /\ k <= n
    BY <1>4
  <2>2. LET T == [streams EXCEPT ![s] = Flushed(s, k)]
        IN  /\ T \in [Planes -> StreamStates] /\ \A t \in Planes : IsFiniteSet(T[t].pending)
            /\ \A t \in Planes : \A i \in DOMAIN T[t].file : T[t].file[i].sequence = i
    BY <1>1, <2>1, FlushKeepsOrder
  <2>3. streams' = [streams EXCEPT ![s] = Flushed(s, k)]
    BY <1>1, <2>1
  <2> QED
    BY <2>2, <2>3
<1>6. FilesInOrder'
  BY <1>5 DEF FilesInOrder
<1> HIDE DEF x, n, event
<1>7. exchange[x] \in ExchangeStates /\ exchange \in [Exchanges -> ExchangeStates]
      /\ admission \in [total : Nat, inFlight : Nat, window : Nat]
  BY <1>3 DEF ExposureType
<1>8. /\ exchange' \in [Exchanges -> ExchangeStates] /\ SlotsFit'
      /\ admission' \in [total : Nat, inFlight : Nat, window : Nat]
  <2>1. CASE /\ exchange' = [exchange EXCEPT ![x].at = "done", ![x].slot = FALSE,
                               ![x].told = exchange[x].outcome]
             /\ admission' = ReleaseSlot(x, admission)
    <3>1. PICK r : r = [exchange[x] EXCEPT !.at = "done", !.slot = FALSE, !.told = exchange[x].outcome]
      OBVIOUS
    <3>2. r \in ExchangeStates /\ r.slot = FALSE /\ r.at = "done"
      BY <1>7, <3>1 DEF ExchangeStates
    <3>3. exchange' = [exchange EXCEPT ![x] = r]
      BY <1>7, <2>1, <3>1
    <3>4. exchange' \in [Exchanges -> ExchangeStates] /\ exchange'[x] = r
          /\ \A y \in Exchanges \ {x} : exchange'[y] = exchange[y]
      BY <1>3, <1>7, <3>2, <3>3
    <3>5. ~exchange'[x].slot /\ exchange'[x].at \notin {"new", "upload"}
      BY <3>2, <3>4
    <3>6. SlotsFit'
      BY <1>3, <2>1, <3>4, <3>5, SlotsKeep
    <3> QED
      BY <1>3, <2>1, <3>4, <3>6, ReleaseIs
  <2>2. CASE exchange' = [exchange EXCEPT ![x].at = "done"] /\ admission' = admission
    <3>1. PICK r : r = [exchange[x] EXCEPT !.at = "done"]
      OBVIOUS
    <3>2. r \in ExchangeStates /\ r.slot = exchange[x].slot /\ r.at = "done" /\ r.told = exchange[x].told
      BY <1>7, <3>1 DEF ExchangeStates
    <3>3. exchange' = [exchange EXCEPT ![x] = r]
      BY <1>7, <2>2, <3>1
    <3>4. exchange' \in [Exchanges -> ExchangeStates] /\ exchange'[x] = r
          /\ \A y \in Exchanges \ {x} : exchange'[y] = exchange[y]
      BY <1>3, <1>7, <3>2, <3>3
    <3>5. exchange'[x].at \notin {"new", "upload"} /\ (exchange'[x].slot => exchange'[x].told = "none")
      BY <1>3, <3>2, <3>4 DEF SlotsFit
    <3>6. SlotsFit'
      BY <1>3, <2>2, <3>2, <3>4, <3>5, SlotsKeep
    <3> QED
      BY <1>7, <2>2, <3>4, <3>6
  <2> QED
    BY <1>1, <2>1, <2>2
<1> QED
  BY <1>1, <1>5, <1>6, <1>8 DEF ExposureType, PipelineFits

LEMMA AppendThrowsBase ==
  ASSUME ExposureBase, NEW s \in Planes, AppendThrows(s) PROVE ExposureBase' /\ sinkFaults' > 0
<1> USE DEF ExposureBase
<1> DEFINE event == Head(streams[s].tail)
           x == event.of
           m == Flushable(s, Buffered(s, event))
<1>1. PICK n \in 0 .. m - 1 :
        /\ streams[s].tail # <<>> /\ m > 0 /\ sinkFaults' = sinkFaults + 1
        /\ UNCHANGED <<pipeline, effects, port>>
        /\ \/ /\ Fails(x)
              /\ \/ streams' = [streams EXCEPT ![s] = Flushed(s, n)]
                 \/ streams' = [[streams EXCEPT ![s] = Flushed(s, n)] EXCEPT !["api"].tail =
                                   Append(@, FailedEvent(x))]
           \/ /\ exchange' = [exchange EXCEPT ![x].at = "done"]
              /\ streams' = [streams EXCEPT ![s] = Flushed(s, n)]
              /\ UNCHANGED admission
  BY DEF AppendThrows
<1>2. event \in ExchangeRecords
  BY <1>1, BufferedIs
<1>3. x \in Exchanges
  BY <1>2 DEF ExchangeRecords
<1>4. m \in Nat
  <2>1. IsFiniteSet(Buffered(s, event))
    BY <1>1, BufferedIs
  <2> QED
    BY <2>1, FlushableIs
<1>5. n \in Nat /\ n <= m
  BY <1>4
<1> DEFINE T == [streams EXCEPT ![s] = Flushed(s, n)]
<1>6. /\ T \in [Planes -> StreamStates] /\ \A t \in Planes : IsFiniteSet(T[t].pending)
      /\ \A t \in Planes : \A i \in DOMAIN T[t].file : T[t].file[i].sequence = i
  BY <1>1, <1>5, FlushKeepsOrder
<1>7. streams' = T \/ streams' = [T EXCEPT !["api"].tail = Append(@, FailedEvent(x))]
  BY <1>1
<1> HIDE DEF T, m, event, x
<1>8. /\ streams' \in [Planes -> StreamStates] /\ \A t \in Planes : IsFiniteSet(streams'[t].pending)
      /\ \A t \in Planes : streams'[t].file = T[t].file
  <2>1. PICK e : e = FailedEvent(x)
    OBVIOUS
  <2>2. e \in ExchangeRecords
    BY <1>3, <2>1, FailedIs
  <2>3. PICK U : U = [T EXCEPT !["api"].tail = Append(@, e)]
    OBVIOUS
  <2>4. "api" \in Planes
    BY DEF Planes
  <2>5. U \in [Planes -> StreamStates] /\ \A t \in Planes : IsFiniteSet(U[t].pending)
    BY <1>6, <2>2, <2>3, <2>4, SubmitType
  <2>6. \A t \in Planes : U[t].file = T[t].file
    BY <1>6, <2>3 DEF StreamStates
  <2> QED
    BY <1>6, <1>7, <2>1, <2>3, <2>5, <2>6
<1>9. FilesInOrder'
  BY <1>6, <1>8 DEF FilesInOrder
<1>10. exchange[x] \in ExchangeStates /\ exchange \in [Exchanges -> ExchangeStates]
      /\ admission \in [total : Nat, inFlight : Nat, window : Nat] /\ sinkFaults \in Nat
  BY <1>3 DEF ExposureType
<1>11. /\ exchange' \in [Exchanges -> ExchangeStates] /\ SlotsFit'
      /\ admission' \in [total : Nat, inFlight : Nat, window : Nat]
  <2>1. CASE Fails(x)
    BY <1>3, <2>1, FailsIs
  <2>2. CASE exchange' = [exchange EXCEPT ![x].at = "done"] /\ admission' = admission
    <3>1. PICK r : r = [exchange[x] EXCEPT !.at = "done"]
      OBVIOUS
    <3>2. r \in ExchangeStates /\ r.slot = exchange[x].slot /\ r.at = "done" /\ r.told = exchange[x].told
      BY <1>10, <3>1 DEF ExchangeStates
    <3>3. exchange' = [exchange EXCEPT ![x] = r]
      BY <1>10, <2>2, <3>1
    <3>4. exchange' \in [Exchanges -> ExchangeStates] /\ exchange'[x] = r
          /\ \A y \in Exchanges \ {x} : exchange'[y] = exchange[y]
      BY <1>3, <1>10, <3>2, <3>3
    <3>5. exchange'[x].at \notin {"new", "upload"} /\ (exchange'[x].slot => exchange'[x].told = "none")
      BY <1>3, <3>2, <3>4 DEF SlotsFit
    <3>6. SlotsFit'
      BY <1>3, <2>2, <3>2, <3>4, <3>5, SlotsKeep
    <3> QED
      BY <1>10, <2>2, <3>4, <3>6
  <2> QED
    BY <1>1, <2>1, <2>2
<1>12. sinkFaults' > 0 /\ sinkFaults' \in Nat
  BY <1>1, <1>10
<1> QED
  BY <1>1, <1>8, <1>9, <1>11, <1>12 DEF ExposureType, PipelineFits

LEMMA RestBase ==
  ASSUME ExposureBase, SecondPasses \/ ClosePort \/ UNCHANGED exposureVars
  PROVE  ExposureBase'
<1> USE DEF ExposureBase
<1>1. UNCHANGED <<exchange, pipeline, effects, streams, sinkFaults>>
  BY DEF SecondPasses, ClosePort, exposureVars
<1>2. admission' \in [total : Nat, inFlight : Nat, window : Nat] /\ admission'.inFlight = admission.inFlight
  <2>1. admission \in [total : Nat, inFlight : Nat, window : Nat]
    BY DEF ExposureType
  <2>2. CASE SecondPasses
    BY <2>1, <2>2 DEF SecondPasses
  <2>3. CASE ClosePort \/ UNCHANGED exposureVars
    BY <2>1, <2>3 DEF ClosePort, exposureVars
  <2> QED
    BY <2>2, <2>3
<1>3. SlotsFit'
  BY <1>1, <1>2 DEF SlotsFit, Holders
<1> QED
  BY <1>1, <1>2, <1>3, FilesKeep DEF ExposureType, PipelineFits

\* What a sequence of records holds after an append.
LEMMA AppendsTo ==
  ASSUME NEW S, NEW s \in Seq(S), NEW e \in S
  PROVE  LET t == Append(s, e)
         IN  /\ Len(s) \in Nat /\ DOMAIN s = 1 .. Len(s) /\ DOMAIN t = 1 .. Len(s) + 1
             /\ \A i \in DOMAIN s : t[i] = s[i] /\ i \in DOMAIN t
             /\ \A i \in DOMAIN t : i \in DOMAIN s \/ i = Len(s) + 1
             /\ Len(s) + 1 \in DOMAIN t /\ Len(s) + 1 \notin DOMAIN s /\ t[Len(s) + 1] = e
             /\ ToSet(t) = ToSet(s) \cup {e} /\ Len(t) = Len(s) + 1
<1> DEFINE t == Append(s, e)
<1>1. /\ t \in Seq(S) /\ Len(t) = Len(s) + 1 /\ t[Len(s) + 1] = e
      /\ \A i \in 1 .. Len(s) : t[i] = s[i]
  BY AppendProperties
<1> HIDE DEF t
<1>2. Len(s) \in Nat /\ DOMAIN s = 1 .. Len(s) /\ DOMAIN t = 1 .. Len(s) + 1
  BY <1>1, LenProperties
<1>3. \A i \in DOMAIN t : i \in DOMAIN s \/ i = Len(s) + 1
  BY <1>2
<1>4. \A i \in DOMAIN s : t[i] = s[i] /\ i \in DOMAIN t
  BY <1>1, <1>2
<1>5. Len(s) + 1 \in DOMAIN t /\ Len(s) + 1 \notin DOMAIN s
  BY <1>2
<1>6. ToSet(t) = ToSet(s) \cup {e}
  BY <1>1, <1>3, <1>4, <1>5 DEF ToSet
<1> QED
  BY <1>1, <1>2, <1>3, <1>4, <1>5, <1>6 DEF t

\* The plane whose file gets what is recorded of an exchange after the step.
HomeNext(x) == IF exchange'[x].outcome = "failed" THEN "api" ELSE PlaneOf[x]

LEMMA SubmitKeeps ==
  ASSUME ExposureType, QuietInv, NEW x \in Exchanges, NEW h \in Planes, NEW e \in ExchangeRecords,
         \A y \in Exchanges \ {x} : exchange'[y] = exchange[y],
         exchange[x].at \in {"upload", "gateway"},
         exchange'[x].at \in {"completing", "recording", "leaving"},
         exchange'[x].at = "recording" => exchange'[x].outcome = "failed" /\ exchange'[x].told = "failed",
         exchange'[x].at = "leaving" => exchange'[x].outcome = "failed" /\ exchange'[x].told = "gone",
         e.of = x, e.outcome = exchange'[x].outcome,
         h = HomeNext(x),
         \A s \in Planes : streams'[s].pending = streams[s].pending /\ streams'[s].file = streams[s].file,
         \A s \in Planes \ {h} : streams'[s].tail = streams[s].tail /\ streams'[s].next = streams[s].next,
         streams'[h].tail = Append(streams[h].tail, e),
         \/ /\ exchange[x].at = "upload" /\ e.sequence = streams[h].next
            /\ streams'[h].next = streams[h].next + 1 /\ pipeline' = pipeline
         \/ /\ exchange[x].at = "gateway" /\ h = "api" /\ e.sequence = exchange[x].sequence
            /\ streams'[h].next = streams[h].next
            /\ pipeline # <<>> /\ x = Head(pipeline) /\ pipeline' = Tail(pipeline),
         effects' = effects \/ (effects' = Append(effects, x) /\ x \in ToSet(e.effects))
  PROVE  QuietInv'
<1> USE DEF QuietInv
<1> DEFINE L == Len(streams[h].tail)
<1>1. /\ streams \in [Planes -> StreamStates] /\ pipeline \in Seq(Exchanges) /\ effects \in Seq(Exchanges)
      /\ exchange \in [Exchanges -> ExchangeStates]
  BY DEF ExposureType
<1>2. \A s \in Planes : streams[s].tail \in Seq(ExchangeRecords) /\ streams[s].next \in Nat
        /\ streams[s].file \in Seq(ExchangeRecords) /\ streams[s].pending \in SUBSET ExchangeRecords
  BY <1>1 DEF StreamStates
<1> HIDE DEF ExchangeRecords
<1>3. /\ L \in Nat /\ DOMAIN streams[h].tail = 1 .. L /\ DOMAIN streams'[h].tail = 1 .. L + 1
      /\ \A i \in DOMAIN streams[h].tail : streams'[h].tail[i] = streams[h].tail[i] /\ i \in DOMAIN streams'[h].tail
      /\ \A i \in DOMAIN streams'[h].tail : i \in DOMAIN streams[h].tail \/ i = L + 1
      /\ L + 1 \in DOMAIN streams'[h].tail /\ L + 1 \notin DOMAIN streams[h].tail
      /\ streams'[h].tail[L + 1] = e
      /\ ToSet(streams'[h].tail) = ToSet(streams[h].tail) \cup {e}
  <2>1. PICK a, b : a = streams[h].tail /\ b = streams'[h].tail
    OBVIOUS
  <2>2. a \in Seq(ExchangeRecords) /\ b = Append(a, e)
    BY <1>2, <2>1
  <2>3. /\ Len(a) \in Nat /\ DOMAIN a = 1 .. Len(a) /\ DOMAIN b = 1 .. Len(a) + 1
        /\ \A i \in DOMAIN a : b[i] = a[i] /\ i \in DOMAIN b
        /\ \A i \in DOMAIN b : i \in DOMAIN a \/ i = Len(a) + 1
        /\ Len(a) + 1 \in DOMAIN b /\ Len(a) + 1 \notin DOMAIN a /\ b[Len(a) + 1] = e
        /\ ToSet(b) = ToSet(a) \cup {e}
    BY <2>2, AppendsTo
  <2> QED
    BY <2>1, <2>3
<1> HIDE DEF L
<1>4. /\ e.sequence \in Nat /\ \A d \in ExchangeRecords : d.of \in Exchanges /\ d.sequence \in Nat
  BY DEF ExchangeRecords
<1>5. \A s \in Planes : Len(streams[s].file) \in Nat
  BY <1>2, LenProperties
<1>6. \A s \in Planes : \A i \in DOMAIN streams[s].tail :
        /\ streams[s].tail[i] \in ExchangeRecords
        /\ streams[s].tail[i].of \in Exchanges \ {x}
        /\ streams[s].tail[i].sequence \in Nat
  <2> TAKE s \in Planes
  <2> TAKE i \in DOMAIN streams[s].tail
  <2>1. streams[s].tail[i] \in ExchangeRecords
    BY <1>2
  <2>2. exchange[streams[s].tail[i].of].at \in {"completing", "recording", "leaving"}
    BY DEF TailFits
  <2> QED
    BY <1>4, <2>1, <2>2
\* The number of the new record is new to what waits in its stream.
<1>7. /\ Len(streams[h].file) < e.sequence /\ e.sequence < streams'[h].next
      /\ streams[h].next <= streams'[h].next
      /\ \A i \in DOMAIN streams[h].tail : streams[h].tail[i].sequence # e.sequence
      /\ \A d \in streams[h].pending : d.sequence # e.sequence
      /\ \A y \in Exchanges \ {x} :
           h = "api" /\ exchange[y].at = "gateway" => exchange[y].sequence # e.sequence
  <2>1. CASE /\ exchange[x].at = "upload" /\ e.sequence = streams[h].next
             /\ streams'[h].next = streams[h].next + 1
    <3>1. \A i \in DOMAIN streams[h].tail : streams[h].tail[i].sequence < streams[h].next
      BY DEF TailFits
    <3>2. \A d \in streams[h].pending : d.sequence < streams[h].next
      BY DEF PendingWaits
    <3>3. \A y \in Exchanges : exchange[y].at = "gateway" => exchange[y].sequence < streams["api"].next
      BY DEF GatewayFits
    <3>4. Len(streams[h].file) < streams[h].next
      BY DEF Covered
    <3> QED
      BY <1>2, <1>4, <1>5, <1>6, <2>1, <3>1, <3>2, <3>3, <3>4
  <2>2. CASE /\ exchange[x].at = "gateway" /\ h = "api" /\ e.sequence = exchange[x].sequence
             /\ streams'[h].next = streams[h].next
    BY <1>2, <2>2 DEF GatewayFits
  <2> QED
    BY <2>1, <2>2
<1>8. /\ \A y \in Exchanges \ {x} : HomeOf(y)' = HomeOf(y)
      /\ \A s \in Planes : streams[s].next \in Nat /\ streams'[s].next \in Nat
                            /\ streams[s].next <= streams'[s].next
  <2>1. \A y \in Exchanges \ {x} : HomeOf(y)' = HomeOf(y)
    BY DEF HomeOf
  <2>2. streams'[h].next \in Nat
    BY <1>2
  <2> QED
    BY <1>2, <1>7, <2>1, <2>2
<1> DEFINE HomeNow(y) == HomeNext(y)
<1>20. /\ \A y \in Exchanges \ {x} : HomeNow(y) = HomeOf(y)
       /\ h = HomeNow(x)
  BY DEF HomeOf, HomeNext
<1>21. ASSUME NEW s \in Planes, NEW i \in DOMAIN streams[s].tail
       PROVE  /\ Len(streams'[s].file) < streams[s].tail[i].sequence
              /\ streams[s].tail[i].sequence < streams'[s].next
              /\ \A d \in streams'[s].pending : d.sequence # streams[s].tail[i].sequence
              /\ exchange'[streams[s].tail[i].of].at \in {"completing", "recording", "leaving"}
              /\ streams[s].tail[i].outcome = exchange'[streams[s].tail[i].of].outcome
              /\ s = HomeNow(streams[s].tail[i].of)
              /\ \A j \in DOMAIN streams[s].tail :
                   /\ streams[s].tail[j].sequence = streams[s].tail[i].sequence => j = i
                   /\ streams[s].tail[j].of = streams[s].tail[i].of => j = i
  <2>1. /\ Len(streams[s].file) < streams[s].tail[i].sequence
        /\ streams[s].tail[i].sequence < streams[s].next
        /\ \A d \in streams[s].pending : d.sequence # streams[s].tail[i].sequence
        /\ exchange[streams[s].tail[i].of].at \in {"completing", "recording", "leaving"}
        /\ streams[s].tail[i].outcome = exchange[streams[s].tail[i].of].outcome
        /\ s = HomeOf(streams[s].tail[i].of)
        /\ \A j \in DOMAIN streams[s].tail :
             /\ streams[s].tail[j].sequence = streams[s].tail[i].sequence => j = i
             /\ streams[s].tail[j].of = streams[s].tail[i].of => j = i
    BY DEF TailFits
  <2>2. streams[s].next <= streams'[s].next /\ streams[s].next \in Nat
        /\ streams'[s].next \in Nat
    BY <1>8
  <2>3. exchange'[streams[s].tail[i].of] = exchange[streams[s].tail[i].of]
        /\ HomeNow(streams[s].tail[i].of) = HomeOf(streams[s].tail[i].of)
        /\ streams[s].tail[i].sequence \in Nat
    BY <1>6, <1>20
  <2> HIDE DEF HomeNow
  <2> QED
    BY <2>1, <2>2, <2>3
<1>22. TailFits(h)'
  <2>1. \A i \in DOMAIN streams[h].tail : streams[h].tail[i].sequence # e.sequence /\ streams[h].tail[i].of # x
    BY <1>6, <1>7
  <2>2. ASSUME NEW i \in DOMAIN streams'[h].tail
        PROVE  /\ Len(streams'[h].file) < streams'[h].tail[i].sequence
               /\ streams'[h].tail[i].sequence < streams'[h].next
               /\ \A d \in streams'[h].pending : d.sequence # streams'[h].tail[i].sequence
               /\ exchange'[streams'[h].tail[i].of].at \in {"completing", "recording", "leaving"}
               /\ streams'[h].tail[i].outcome = exchange'[streams'[h].tail[i].of].outcome
               /\ h = HomeNow(streams'[h].tail[i].of)
               /\ \A j \in DOMAIN streams'[h].tail :
                    /\ streams'[h].tail[j].sequence = streams'[h].tail[i].sequence => j = i
                    /\ streams'[h].tail[j].of = streams'[h].tail[i].of => j = i
    <3> HIDE DEF HomeNow
    <3>1. CASE i \in DOMAIN streams[h].tail
      <4>1. streams'[h].tail[i] = streams[h].tail[i]
        BY <1>3, <3>1
      <4>2. \A j \in DOMAIN streams'[h].tail :
              /\ streams'[h].tail[j].sequence = streams'[h].tail[i].sequence => j = i
              /\ streams'[h].tail[j].of = streams'[h].tail[i].of => j = i
        BY <1>3, <1>21, <2>1, <3>1, <4>1
      <4> QED
        BY <1>21, <3>1, <4>1, <4>2
    <3>2. CASE i = L + 1
      <4>1. streams'[h].tail[i] = e
        BY <1>3, <3>2
      <4>2. \A j \in DOMAIN streams'[h].tail :
              /\ streams'[h].tail[j].sequence = e.sequence => j = i
              /\ streams'[h].tail[j].of = x => j = i
        BY <1>3, <2>1, <3>2
      <4>3. Len(streams'[h].file) < e.sequence /\ e.sequence < streams'[h].next
            /\ \A d \in streams'[h].pending : d.sequence # e.sequence
        BY <1>7
      <4> QED
        BY <1>20, <4>1, <4>2, <4>3
    <3> QED
      BY <1>3, <3>1, <3>2
  <2> QED
    BY <2>2 DEF TailFits, HomeOf, HomeNext
<1>9. \A s \in Planes : TailFits(s)'
  <2> TAKE s \in Planes
  <2>1. CASE s = h
    BY <1>22, <2>1
  <2>2. CASE s # h
    <3>1. streams'[s].tail = streams[s].tail
      BY <2>2
    <3>2. ASSUME NEW i \in DOMAIN streams'[s].tail
          PROVE  /\ Len(streams'[s].file) < streams'[s].tail[i].sequence
                 /\ streams'[s].tail[i].sequence < streams'[s].next
                 /\ \A d \in streams'[s].pending : d.sequence # streams'[s].tail[i].sequence
                 /\ exchange'[streams'[s].tail[i].of].at \in {"completing", "recording", "leaving"}
                 /\ streams'[s].tail[i].outcome = exchange'[streams'[s].tail[i].of].outcome
                 /\ s = HomeNow(streams'[s].tail[i].of)
                 /\ \A j \in DOMAIN streams'[s].tail :
                      /\ streams'[s].tail[j].sequence = streams'[s].tail[i].sequence => j = i
                      /\ streams'[s].tail[j].of = streams'[s].tail[i].of => j = i
      <4> HIDE DEF HomeNow
      <4> QED
        BY <1>21, <3>1
    <3> QED
      BY <3>2 DEF TailFits, HomeOf, HomeNext
  <2> QED
    BY <2>1, <2>2
<1>10. \A s \in Planes : PendingWaits(s)'
  <2> TAKE s \in Planes
  <2>1. streams[s].next <= streams'[s].next /\ streams[s].next \in Nat /\ streams'[s].next \in Nat
    BY <1>8
  <2>2. \A d \in streams[s].pending : d.sequence \in Nat
    BY <1>2, <1>4
  <2>3. PendingWaits(s)
    OBVIOUS
  <2> QED
    BY <2>1, <2>2, <2>3 DEF PendingWaits
<1>11. \A s \in Planes : Covered(s)'
  <2> TAKE s \in Planes
  <2>1. ASSUME NEW i \in DOMAIN streams[s].tail
        PROVE  i \in DOMAIN streams'[s].tail /\ streams'[s].tail[i] = streams[s].tail[i]
    BY <1>3
  <2>2. ASSUME NEW q \in Len(streams'[s].file) + 1 .. streams'[s].next - 1
        PROVE  \/ \E i \in DOMAIN streams'[s].tail : streams'[s].tail[i].sequence = q
               \/ \E d \in streams'[s].pending : d.sequence = q
               \/ s = "api" /\ \E y \in Exchanges : exchange'[y].at = "gateway" /\ exchange'[y].sequence = q
    <3>1. CASE q <= streams[s].next - 1
      <4>1. q \in Len(streams[s].file) + 1 .. streams[s].next - 1
        BY <1>5, <1>8, <2>2, <3>1
      <4>2. \/ \E i \in DOMAIN streams[s].tail : streams[s].tail[i].sequence = q
            \/ \E d \in streams[s].pending : d.sequence = q
            \/ s = "api" /\ \E y \in Exchanges : exchange[y].at = "gateway" /\ exchange[y].sequence = q
        BY <4>1 DEF Covered
      <4>3. CASE s = "api" /\ \E y \in Exchanges : exchange[y].at = "gateway" /\ exchange[y].sequence = q
        <5>1. PICK y \in Exchanges : exchange[y].at = "gateway" /\ exchange[y].sequence = q
          BY <4>3
        <5>2. CASE y = x
          <6>1. h = s /\ e.sequence = q
            BY <4>3, <5>1, <5>2
          <6> QED
            BY <1>3, <6>1
        <5>3. CASE y # x
          BY <4>3, <5>1, <5>3
        <5> QED
          BY <5>2, <5>3
      <4> QED
        BY <2>1, <4>2, <4>3
    <3>2. CASE ~(q <= streams[s].next - 1)
      <4>1. q \in Int /\ streams'[s].next # streams[s].next
        BY <1>5, <1>8, <2>2, <3>2
      <4>2. s = h /\ e.sequence = streams[h].next /\ streams'[h].next = streams[h].next + 1
        BY <4>1
      <4>3. e.sequence = q
        BY <1>5, <1>8, <2>2, <3>2, <4>2
      <4> QED
        BY <1>3, <4>2, <4>3
    <3> QED
      BY <3>1, <3>2
  <2>3. Len(streams'[s].file) < streams'[s].next
    <3>1. Len(streams[s].file) < streams[s].next
      BY DEF Covered
    <3> QED
      BY <1>5, <1>8, <3>1
  <2> QED
    BY <2>2, <2>3 DEF Covered
<1>12. Len(effects) \in Nat /\ Len(effects') >= Len(effects) /\ Len(effects') \in Nat
       /\ ToSet(effects) \subseteq ToSet(effects')
       /\ \A y \in ToSet(effects') : y \in ToSet(effects) \/ (y = x /\ x \in ToSet(e.effects))
  <2>1. Len(effects) \in Nat
    BY <1>1
  <2>2. CASE effects' = effects
    BY <2>1, <2>2
  <2>3. CASE effects' = Append(effects, x) /\ x \in ToSet(e.effects)
    <3>1. ToSet(effects') = ToSet(effects) \cup {x} /\ Len(effects') = Len(effects) + 1
      <4>1. PICK b : b = effects'
        OBVIOUS
      <4>2. ToSet(b) = ToSet(effects) \cup {x} /\ Len(b) = Len(effects) + 1
        BY <1>1, <2>3, <4>1, AppendsTo
      <4> QED
        BY <4>1, <4>2
    <3> QED
      BY <2>1, <2>3, <3>1
  <2> QED
    BY <2>2, <2>3
<1>13. GatewayFits'
  <2>1. ASSUME NEW y \in Exchanges, exchange'[y].at = "gateway"
        PROVE  /\ y # x /\ exchange'[y] = exchange[y] /\ exchange[y].at = "gateway"
               /\ exchange[y].sequence \in Nat /\ exchange[y].before \in Nat
    <3>1. y # x
      BY <2>1
    <3>2. exchange[y] \in ExchangeStates
      BY <1>1
    <3> QED
      BY <2>1, <3>1, <3>2 DEF ExchangeStates
  <2>2. "api" \in Planes
    BY DEF Planes
  <2>3. ASSUME NEW y \in Exchanges, exchange'[y].at = "gateway"
        PROVE  /\ PlaneOf[y] = "api" /\ exchange'[y].before <= Len(effects')
               /\ exchange'[y].outcome = "served"
               /\ Len(streams'["api"].file) < exchange'[y].sequence
               /\ exchange'[y].sequence < streams'["api"].next
               /\ \A i \in DOMAIN streams'["api"].tail : streams'["api"].tail[i].sequence # exchange'[y].sequence
               /\ \A d \in streams'["api"].pending : d.sequence # exchange'[y].sequence
               /\ \A z \in Exchanges : exchange'[z].at = "gateway" /\ exchange'[z].sequence = exchange'[y].sequence => z = y
    <3>1. /\ y # x /\ exchange'[y] = exchange[y] /\ exchange[y].at = "gateway"
          /\ exchange[y].sequence \in Nat /\ exchange[y].before \in Nat
      BY <2>1, <2>3
    <3>2. /\ PlaneOf[y] = "api" /\ exchange[y].before <= Len(effects)
          /\ exchange[y].outcome = "served"
          /\ Len(streams["api"].file) < exchange[y].sequence
          /\ exchange[y].sequence < streams["api"].next
          /\ \A i \in DOMAIN streams["api"].tail : streams["api"].tail[i].sequence # exchange[y].sequence
          /\ \A d \in streams["api"].pending : d.sequence # exchange[y].sequence
          /\ \A z \in Exchanges : exchange[z].at = "gateway" /\ exchange[z].sequence = exchange[y].sequence => z = y
      BY <3>1 DEF GatewayFits
    <3>3. streams["api"].next <= streams'["api"].next /\ streams["api"].next \in Nat /\ streams'["api"].next \in Nat
      BY <1>8, <2>2
    <3>4. \A i \in DOMAIN streams'["api"].tail : streams'["api"].tail[i].sequence # exchange[y].sequence
      <4>1. CASE h # "api"
        BY <1>7, <2>2, <3>2, <4>1
      <4>2. CASE h = "api"
        <5>1. ASSUME NEW i \in DOMAIN streams'[h].tail PROVE streams'[h].tail[i].sequence # exchange[y].sequence
          <6>1. CASE i \in DOMAIN streams[h].tail
            BY <1>3, <3>2, <4>2, <6>1
          <6>2. CASE i = L + 1
            BY <1>3, <1>7, <3>1, <3>2, <4>2, <6>2
          <6> QED
            BY <1>3, <6>1, <6>2
        <5> QED
          BY <4>2, <5>1
      <4> QED
        BY <4>1, <4>2
    <3>5. \A z \in Exchanges : exchange'[z].at = "gateway" /\ exchange'[z].sequence = exchange'[y].sequence => z = y
      BY <2>1, <3>1, <3>2
    <3> QED
      BY <1>12, <2>2, <3>1, <3>2, <3>3, <3>4, <3>5
  <2>4. \A i \in DOMAIN pipeline : exchange[pipeline[i]].at = "gateway" /\ pipeline[i] \in Exchanges
          /\ \A j \in DOMAIN pipeline : pipeline[j] = pipeline[i] => j = i
    BY <1>1 DEF GatewayFits
  <2>5. \A i \in DOMAIN pipeline' : exchange'[pipeline'[i]].at = "gateway" /\
          \A j \in DOMAIN pipeline' : pipeline'[j] = pipeline'[i] => j = i
    <3>1. CASE exchange[x].at = "upload" /\ pipeline' = pipeline
      BY <2>4, <3>1
    <3>2. CASE pipeline # <<>> /\ x = Head(pipeline) /\ pipeline' = Tail(pipeline)
      <4>1. /\ Len(pipeline) \in Nat /\ DOMAIN pipeline = 1 .. Len(pipeline) /\ 1 \in DOMAIN pipeline
            /\ x = pipeline[1] /\ DOMAIN pipeline' = 1 .. Len(pipeline) - 1
            /\ \A i \in 1 .. Len(pipeline) - 1 : pipeline'[i] = pipeline[i + 1]
        BY <1>1, <3>2, HeadTailProperties, LenProperties, EmptySeq
      <4>2. \A i \in DOMAIN pipeline' : i \in Int /\ i + 1 \in DOMAIN pipeline /\ i + 1 # 1 /\ pipeline'[i] = pipeline[i + 1]
        BY <4>1
      <4>3. \A i \in DOMAIN pipeline' : pipeline'[i] \in Exchanges \ {x}
        BY <2>4, <4>1, <4>2
      <4>4. \A i, j \in DOMAIN pipeline' : pipeline'[j] = pipeline'[i] => j + 1 = i + 1
        BY <2>4, <4>2
      <4>5. \A i, j \in DOMAIN pipeline' : j + 1 = i + 1 => j = i
        BY <4>2
      <4> QED
        BY <2>4, <4>2, <4>3, <4>4, <4>5
    <3> QED
      BY <3>1, <3>2
  <2> QED
    BY <2>3, <2>5 DEF GatewayFits
<1>14. \A s \in Planes : /\ RecordsOf(s) \subseteq RecordsOf(s)'
                         /\ \A d \in RecordsOf(s)' : d \in RecordsOf(s) \/ d = e
  <2> TAKE s \in Planes
  <2>1. CASE s = h
    <3>1. /\ RecordsOf(h) = ToSet(streams[h].file) \cup streams[h].pending \cup ToSet(streams[h].tail)
          /\ RecordsOf(h)' = ToSet(streams'[h].file) \cup streams'[h].pending \cup ToSet(streams'[h].tail)
      BY DEF RecordsOf
    <3>2. RecordsOf(h)' = RecordsOf(h) \cup {e}
      BY <1>3, <3>1
    <3>3. RecordsOf(s) = RecordsOf(h) /\ RecordsOf(s)' = RecordsOf(h)'
      BY <2>1
    <3> QED
      BY <3>2, <3>3
  <2>2. CASE s # h
    BY <2>2 DEF RecordsOf
  <2> QED
    BY <2>1, <2>2
<1>15. \A s \in Planes : \A d \in RecordsOf(s) : d.of \in Exchanges
  <2> TAKE s \in Planes
  <2>1. ToSet(streams[s].file) \subseteq ExchangeRecords /\ ToSet(streams[s].tail) \subseteq ExchangeRecords
    BY <1>2 DEF ToSet
  <2> QED
    BY <1>2, <1>4, <2>1 DEF RecordsOf
<1>16. EffectsFit'
  <2>1. \A y \in ToSet(effects) : y \in Exchanges
    BY <1>1 DEF ToSet
  <2>2. \A y \in ToSet(effects') : exchange'[y].at \notin {"new", "upload", "gateway"}
    <3> TAKE y \in ToSet(effects')
    <3>1. CASE y = x
      BY <3>1
    <3>2. CASE y # x
      <4>1. y \in ToSet(effects)
        BY <1>12, <3>2
      <4> QED
        BY <2>1, <3>2, <4>1 DEF EffectsFit
    <3> QED
      BY <3>1, <3>2
  <2>3. ASSUME NEW s \in Planes, NEW d \in RecordsOf(s)'
        PROVE  /\ exchange'[d.of].at \notin {"new", "upload", "gateway"}
               /\ d.of \in ToSet(effects') => d.of \in ToSet(d.effects)
    <3>1. CASE d = e
      <4>1. x \notin ToSet(effects)
        BY DEF EffectsFit
      <4> QED
        BY <1>12, <3>1, <4>1
    <3>2. CASE d \in RecordsOf(s)
      <4>1. /\ exchange[d.of].at \notin {"new", "upload", "gateway"}
            /\ d.of \in ToSet(effects) => d.of \in ToSet(d.effects)
        BY <3>2 DEF EffectsFit
      <4>2. d.of \in Exchanges \ {x}
        BY <1>15, <3>2, <4>1
      <4> QED
        BY <1>12, <4>1, <4>2
    <3> QED
      BY <1>14, <3>1, <3>2
  <2> QED
    BY <2>2, <2>3 DEF EffectsFit
<1>17. ToldFits'
  <2>1. ASSUME NEW y \in Exchanges
        PROVE  /\ exchange'[y].at = "recording" => exchange'[y].outcome = "failed" /\ exchange'[y].told = "failed"
               /\ exchange'[y].at = "leaving" => exchange'[y].outcome = "failed" /\ exchange'[y].told = "gone"
    <3>1. CASE y = x
      BY <3>1
    <3>2. CASE y # x
      <4>1. exchange'[y] = exchange[y]
        BY <3>2
      <4> QED
        BY <4>1 DEF ToldFits
    <3> QED
      BY <3>1, <3>2
  <2> QED
    BY <2>1 DEF ToldFits
<1>18. DoneFits'
  <2>1. ASSUME NEW y \in Exchanges, exchange'[y].at = "done"
        PROVE  \E d \in RecordsOf(HomeOf(y))' :
                 d.of = y /\ d.outcome = exchange'[y].outcome /\ exchange'[y].told \in {d.outcome, "gone"}
    <3>1. y # x
      BY <2>1
    <3>2. exchange'[y] = exchange[y] /\ HomeOf(y)' = HomeOf(y)
      BY <1>8, <3>1
    <3>3. HomeOf(y) \in Planes
      BY ExposureAssumption DEF HomeOf, Planes
    <3>4. PICK d \in RecordsOf(HomeOf(y)) :
            d.of = y /\ d.outcome = exchange[y].outcome /\ exchange[y].told \in {d.outcome, "gone"}
      BY <2>1, <3>2 DEF DoneFits
    <3>5. PICK s \in Planes : s = HomeOf(y) /\ s = HomeOf(y)'
      BY <3>2, <3>3
    <3>6. d \in RecordsOf(s)'
      BY <1>14, <3>4, <3>5
    <3>7. RecordsOf(HomeOf(y))' = RecordsOf(s)'
      BY <3>5
    <3> QED
      BY <3>2, <3>4, <3>6, <3>7
  <2> QED
    BY <2>1 DEF DoneFits
<1> QED
  BY <1>9, <1>10, <1>11, <1>13, <1>16, <1>17, <1>18

\* A request within the limits joins the pipeline with the next number.
LEMMA EnterKeeps ==
  ASSUME ExposureType, QuietInv, NEW x \in Exchanges, PlaneOf[x] = "api",
         \A y \in Exchanges \ {x} : exchange'[y] = exchange[y],
         exchange[x].at = "upload", exchange'[x].at = "gateway", exchange'[x].outcome = "served",
         exchange'[x].sequence = streams["api"].next, exchange'[x].before = Len(effects),
         \A s \in Planes : /\ streams'[s].pending = streams[s].pending /\ streams'[s].file = streams[s].file
                           /\ streams'[s].tail = streams[s].tail,
         streams'["api"].next = streams["api"].next + 1, streams'["doc"].next = streams["doc"].next,
         pipeline' = Append(pipeline, x), effects' = effects
  PROVE  QuietInv'
<1> USE DEF QuietInv
<1>1. /\ streams \in [Planes -> StreamStates] /\ pipeline \in Seq(Exchanges) /\ effects \in Seq(Exchanges)
      /\ exchange \in [Exchanges -> ExchangeStates]
  BY DEF ExposureType
<1>2. \A s \in Planes : streams[s].tail \in Seq(ExchangeRecords) /\ streams[s].next \in Nat
        /\ streams[s].file \in Seq(ExchangeRecords) /\ streams[s].pending \in SUBSET ExchangeRecords
  BY <1>1 DEF StreamStates
<1> HIDE DEF ExchangeRecords
<1>3. \A d \in ExchangeRecords : d.of \in Exchanges /\ d.sequence \in Nat
  BY DEF ExchangeRecords
<1>4. \A s \in Planes : Len(streams[s].file) \in Nat
  BY <1>2, LenProperties
<1>5. "api" \in Planes /\ "doc" \in Planes /\ \A s \in Planes : s \in {"api", "doc"}
  BY DEF Planes
<1>6. \A s \in Planes : streams'[s].next \in Nat /\ streams[s].next <= streams'[s].next
  <2>1. streams["api"].next \in Nat /\ streams["doc"].next \in Nat
    BY <1>2, <1>5
  <2>2. streams'["api"].next = streams["api"].next + 1 /\ streams'["doc"].next = streams["doc"].next
    OBVIOUS
  <2>3. \A s \in Planes : s = "api" \/ s = "doc"
    BY <1>5
  <2> QED
    BY <2>1, <2>2, <2>3
<1>7. \A s \in Planes : \A i \in DOMAIN streams[s].tail :
        /\ streams[s].tail[i].of \in Exchanges \ {x}
        /\ streams[s].tail[i].sequence \in Nat
  <2> TAKE s \in Planes
  <2> TAKE i \in DOMAIN streams[s].tail
  <2>1. streams[s].tail[i] \in ExchangeRecords
    BY <1>2
  <2>2. exchange[streams[s].tail[i].of].at \in {"completing", "recording", "leaving"}
    BY DEF TailFits
  <2> QED
    BY <1>3, <2>1, <2>2
<1>8. \A y \in Exchanges \ {x} : HomeOf(y)' = HomeOf(y)
  BY DEF HomeOf
<1>9. \A s \in Planes : TailFits(s)'
  <2> TAKE s \in Planes
  <2>1. ASSUME NEW i \in DOMAIN streams[s].tail
        PROVE  /\ streams[s].tail[i].sequence < streams'[s].next
               /\ exchange'[streams[s].tail[i].of] = exchange[streams[s].tail[i].of]
    <3>1. streams[s].tail[i].sequence < streams[s].next
      BY DEF TailFits
    <3> QED
      BY <1>2, <1>6, <1>7, <3>1
  <2> QED
    BY <2>1 DEF TailFits, HomeOf
<1>10. \A s \in Planes : PendingWaits(s)'
  <2> TAKE s \in Planes
  <2>1. \A d \in streams[s].pending : d.sequence \in Nat
    BY <1>2, <1>3
  <2>2. PendingWaits(s)
    OBVIOUS
  <2> QED
    BY <1>2, <1>6, <2>1, <2>2 DEF PendingWaits
<1>11. \A s \in Planes : Covered(s)'
  <2> TAKE s \in Planes
  <2>1. ASSUME NEW q \in Len(streams'[s].file) + 1 .. streams'[s].next - 1
        PROVE  \/ \E i \in DOMAIN streams'[s].tail : streams'[s].tail[i].sequence = q
               \/ \E d \in streams'[s].pending : d.sequence = q
               \/ s = "api" /\ \E y \in Exchanges : exchange'[y].at = "gateway" /\ exchange'[y].sequence = q
    <3>1. CASE q <= streams[s].next - 1
      <4>1. q \in Len(streams[s].file) + 1 .. streams[s].next - 1
        BY <1>2, <1>4, <1>6, <2>1, <3>1
      <4>2. \/ \E i \in DOMAIN streams[s].tail : streams[s].tail[i].sequence = q
            \/ \E d \in streams[s].pending : d.sequence = q
            \/ s = "api" /\ \E y \in Exchanges : exchange[y].at = "gateway" /\ exchange[y].sequence = q
        BY <4>1 DEF Covered
      <4>3. \A y \in Exchanges : exchange[y].at = "gateway" => exchange'[y] = exchange[y]
        OBVIOUS
      <4> QED
        BY <4>2, <4>3
    <3>2. CASE ~(q <= streams[s].next - 1)
      <4>1. q \in Int /\ streams'[s].next # streams[s].next
        BY <1>2, <1>4, <1>6, <2>1, <3>2
      <4>2. s = "api"
        BY <1>5, <4>1
      <4>3. exchange'[x].sequence = q
        BY <1>2, <1>4, <1>6, <2>1, <3>2, <4>2
      <4> QED
        BY <4>2, <4>3
    <3> QED
      BY <3>1, <3>2
  <2>2. Len(streams'[s].file) < streams'[s].next
    <3>1. Len(streams[s].file) < streams[s].next
      BY DEF Covered
    <3> QED
      BY <1>2, <1>4, <1>6, <3>1
  <2> QED
    BY <2>1, <2>2 DEF Covered
<1>12. GatewayFits'
  <2>1. Len(effects) \in Nat
    BY <1>1
  <2>2. /\ \A i \in DOMAIN streams["api"].tail : streams["api"].tail[i].sequence # streams["api"].next
        /\ \A d \in streams["api"].pending : d.sequence # streams["api"].next
        /\ \A y \in Exchanges : exchange[y].at = "gateway" =>
             exchange[y].sequence \in Nat /\ exchange[y].sequence < streams["api"].next
        /\ Len(streams["api"].file) < streams["api"].next
    <3>1. \A i \in DOMAIN streams["api"].tail : streams["api"].tail[i].sequence < streams["api"].next
      BY <1>5 DEF TailFits
    <3>2. \A d \in streams["api"].pending : d.sequence < streams["api"].next
      BY <1>5 DEF PendingWaits
    <3>3. \A y \in Exchanges : exchange[y].at = "gateway" => exchange[y].sequence < streams["api"].next
      BY DEF GatewayFits
    <3>4. \A y \in Exchanges : exchange[y].sequence \in Nat
      BY <1>1 DEF ExchangeStates
    <3>5. Len(streams["api"].file) < streams["api"].next
      BY <1>5 DEF Covered
    <3> QED
      BY <1>2, <1>3, <1>5, <1>7, <3>1, <3>2, <3>3, <3>4, <3>5
  <2>3. ASSUME NEW y \in Exchanges, exchange'[y].at = "gateway"
        PROVE  /\ PlaneOf[y] = "api" /\ exchange'[y].before <= Len(effects')
               /\ exchange'[y].outcome = "served"
               /\ Len(streams'["api"].file) < exchange'[y].sequence
               /\ exchange'[y].sequence < streams'["api"].next
               /\ \A i \in DOMAIN streams'["api"].tail : streams'["api"].tail[i].sequence # exchange'[y].sequence
               /\ \A d \in streams'["api"].pending : d.sequence # exchange'[y].sequence
               /\ \A z \in Exchanges : exchange'[z].at = "gateway" /\ exchange'[z].sequence = exchange'[y].sequence => z = y
    <3>1. \A z \in Exchanges \ {x} : exchange'[z].at = "gateway" => exchange[z].at = "gateway"
            /\ exchange[z].sequence # streams["api"].next
      <4> TAKE z \in Exchanges \ {x}
      <4>1. exchange'[z] = exchange[z]
        OBVIOUS
      <4> QED
        BY <1>2, <1>5, <2>2, <4>1
    <3>2. CASE y = x
      <4>1. streams["api"].next < streams'["api"].next
        BY <1>2, <1>5
      <4> QED
        BY <1>5, <2>1, <2>2, <3>1, <3>2, <4>1
    <3>3. CASE y # x
      <4>1. exchange'[y] = exchange[y] /\ exchange[y].at = "gateway"
        BY <2>3, <3>3
      <4>2. /\ PlaneOf[y] = "api" /\ exchange[y].before <= Len(effects)
            /\ exchange[y].outcome = "served"
            /\ Len(streams["api"].file) < exchange[y].sequence
            /\ exchange[y].sequence < streams["api"].next
            /\ \A i \in DOMAIN streams["api"].tail : streams["api"].tail[i].sequence # exchange[y].sequence
            /\ \A d \in streams["api"].pending : d.sequence # exchange[y].sequence
            /\ \A z \in Exchanges : exchange[z].at = "gateway" /\ exchange[z].sequence = exchange[y].sequence => z = y
        BY <4>1 DEF GatewayFits
      <4>3. exchange[y].sequence < streams'["api"].next
        BY <1>2, <1>5, <1>6, <2>2, <4>1, <4>2
      <4>4. \A z \in Exchanges : exchange'[z].at = "gateway" /\ exchange'[z].sequence = exchange[y].sequence => z = y
        <5> TAKE z \in Exchanges
        <5>1. CASE z = x
          BY <1>2, <1>5, <2>2, <4>1, <5>1
        <5>2. CASE z # x
          BY <3>1, <4>2, <5>2
        <5> QED
          BY <5>1, <5>2
      <4> QED
        BY <1>5, <4>1, <4>2, <4>3, <4>4
    <3> QED
      BY <3>2, <3>3
  <2>4. \A i \in DOMAIN pipeline : exchange[pipeline[i]].at = "gateway" /\ pipeline[i] \in Exchanges \ {x}
          /\ \A j \in DOMAIN pipeline : pipeline[j] = pipeline[i] => j = i
    BY <1>1 DEF GatewayFits
  <2>5. /\ \A i \in DOMAIN pipeline : pipeline'[i] = pipeline[i] /\ i \in DOMAIN pipeline'
        /\ \A i \in DOMAIN pipeline' : i \in DOMAIN pipeline \/ i = Len(pipeline) + 1
        /\ pipeline'[Len(pipeline) + 1] = x
    BY <1>1, AppendsTo
  <2>6. \A i \in DOMAIN pipeline' : exchange'[pipeline'[i]].at = "gateway" /\
          \A j \in DOMAIN pipeline' : pipeline'[j] = pipeline'[i] => j = i
    <3> TAKE i \in DOMAIN pipeline'
    <3>1. CASE i \in DOMAIN pipeline
      <4>1. pipeline'[i] = pipeline[i] /\ pipeline[i] \in Exchanges \ {x} /\ exchange[pipeline[i]].at = "gateway"
        BY <2>4, <2>5, <3>1
      <4>2. \A j \in DOMAIN pipeline' : pipeline'[j] = pipeline'[i] => j = i
        BY <2>4, <2>5, <3>1, <4>1
      <4> QED
        BY <4>1, <4>2
    <3>2. CASE i \notin DOMAIN pipeline
      <4>1. i = Len(pipeline) + 1 /\ pipeline'[i] = x
        BY <2>5, <3>2
      <4>2. \A j \in DOMAIN pipeline' : pipeline'[j] = pipeline'[i] => j = i
        BY <2>4, <2>5, <4>1
      <4> QED
        BY <4>1, <4>2
    <3> QED
      BY <3>1, <3>2
  <2> QED
    BY <2>3, <2>6 DEF GatewayFits
<1>13. \A s \in Planes : RecordsOf(s)' = RecordsOf(s)
  BY DEF RecordsOf
<1>14. EffectsFit'
  <2>1. x \notin ToSet(effects) /\ \A y \in ToSet(effects) : y \in Exchanges \ {x}
    <3>1. x \notin ToSet(effects)
      BY DEF EffectsFit
    <3> QED
      BY <1>1, <3>1 DEF ToSet
  <2>2. ASSUME NEW s \in Planes, NEW d \in RecordsOf(s)
        PROVE  /\ exchange'[d.of].at \notin {"new", "upload", "gateway"}
               /\ d.of \in ToSet(effects') => d.of \in ToSet(d.effects)
    <3>1. /\ exchange[d.of].at \notin {"new", "upload", "gateway"}
          /\ d.of \in ToSet(effects) => d.of \in ToSet(d.effects)
      BY DEF EffectsFit
    <3>2. d \in ExchangeRecords
      BY <1>2 DEF RecordsOf, ToSet
    <3>3. d.of \in Exchanges \ {x}
      BY <1>3, <3>1, <3>2
    <3> QED
      BY <3>1, <3>3
  <2>3. \A y \in ToSet(effects') : exchange'[y].at \notin {"new", "upload", "gateway"}
    BY <2>1 DEF EffectsFit
  <2>4. ASSUME NEW s \in Planes, NEW d \in RecordsOf(s)'
        PROVE  /\ exchange'[d.of].at \notin {"new", "upload", "gateway"}
               /\ d.of \in ToSet(effects') => d.of \in ToSet(d.effects)
    BY <1>13, <2>2
  <2> QED
    BY <2>3, <2>4 DEF EffectsFit
<1>15. ToldFits'
  <2>1. ASSUME NEW y \in Exchanges
        PROVE  /\ exchange'[y].at = "recording" => exchange'[y].outcome = "failed" /\ exchange'[y].told = "failed"
               /\ exchange'[y].at = "leaving" => exchange'[y].outcome = "failed" /\ exchange'[y].told = "gone"
    <3>1. CASE y = x
      BY <3>1
    <3>2. CASE y # x
      <4>1. exchange'[y] = exchange[y]
        BY <3>2
      <4> QED
        BY <4>1 DEF ToldFits
    <3> QED
      BY <3>1, <3>2
  <2> QED
    BY <2>1 DEF ToldFits
<1>16. DoneFits'
  <2>1. ASSUME NEW y \in Exchanges, exchange'[y].at = "done"
        PROVE  \E d \in RecordsOf(HomeOf(y))' :
                 d.of = y /\ d.outcome = exchange'[y].outcome /\ exchange'[y].told \in {d.outcome, "gone"}
    <3>1. y # x
      BY <2>1
    <3>2. exchange'[y] = exchange[y] /\ HomeOf(y)' = HomeOf(y)
      BY <1>8, <3>1
    <3>3. HomeOf(y) \in Planes
      BY ExposureAssumption DEF HomeOf, Planes
    <3>4. PICK d \in RecordsOf(HomeOf(y)) :
            d.of = y /\ d.outcome = exchange[y].outcome /\ exchange[y].told \in {d.outcome, "gone"}
      BY <2>1, <3>2 DEF DoneFits
    <3>5. PICK s \in Planes : s = HomeOf(y) /\ s = HomeOf(y)'
      BY <3>2, <3>3
    <3>6. d \in RecordsOf(s)'
      BY <1>13, <3>4, <3>5
    <3>7. RecordsOf(HomeOf(y))' = RecordsOf(s)'
      BY <3>5
    <3> QED
      BY <3>2, <3>4, <3>6, <3>7
  <2> QED
    BY <2>1 DEF DoneFits
<1> QED
  BY <1>9, <1>10, <1>11, <1>12, <1>14, <1>15, <1>16

\* A completion appends what the file waited for and ends its exchange.
LEMMA CompleteKeeps ==
  ASSUME ExposureBase, QuietInv, NEW s \in Planes, CompleteRecord(s)
  PROVE  QuietInv'
<1> USE DEF QuietInv
<1> DEFINE e == Head(streams[s].tail)
           x == e.of
           E == Buffered(s, e)
           n == Flushable(s, E)
           f == Flushed(s, n)
           from == Len(streams[s].file)
<1>1. ExposureType
  BY DEF ExposureBase
<1>2. /\ streams[s].tail # <<>> /\ streams' = [streams EXCEPT ![s] = f]
      /\ UNCHANGED <<pipeline, effects, sinkFaults, port>>
  BY DEF CompleteRecord
<1>3. /\ streams \in [Planes -> StreamStates] /\ pipeline \in Seq(Exchanges) /\ effects \in Seq(Exchanges)
      /\ exchange \in [Exchanges -> ExchangeStates]
  BY <1>1 DEF ExposureType
<1>4. \A t \in Planes : streams[t].tail \in Seq(ExchangeRecords) /\ streams[t].next \in Nat
        /\ streams[t].file \in Seq(ExchangeRecords) /\ streams[t].pending \in SUBSET ExchangeRecords
  BY <1>3 DEF StreamStates
<1>5. /\ e \in ExchangeRecords /\ e = streams[s].tail[1] /\ E \in SUBSET ExchangeRecords /\ IsFiniteSet(E)
      /\ E = {d \in streams[s].pending : d.sequence # e.sequence} \cup {e}
  BY <1>1, <1>2, BufferedIs
<1>6. /\ n \in Nat /\ ~\E d \in E : d.sequence = from + n + 1
  BY <1>1, <1>5, FlushableIs
<1>7. /\ f \in StreamStates /\ f.next = streams[s].next /\ f.tail = Tail(streams[s].tail)
      /\ Len(f.file) = from + n
      /\ \A i \in 1 .. from : f.file[i] = streams[s].file[i]
      /\ \A i \in 1 .. n : f.file[from + i] \in E /\ f.file[from + i].sequence = from + i
      /\ f.pending = E \ {f.file[from + i] : i \in 1 .. n}
  <2>1. PICK k \in Nat : k = n /\ k <= Flushable(s, Buffered(s, Head(streams[s].tail)))
    BY <1>6
  <2>2. LET st == streams[s]
            g == Flushed(s, k)
            E1 == Buffered(s, Head(st.tail))
        IN  /\ g \in StreamStates /\ g.next = st.next /\ g.tail = Tail(st.tail)
            /\ Len(g.file) = Len(st.file) + k
            /\ \A i \in 1 .. Len(st.file) : g.file[i] = st.file[i]
            /\ \A i \in 1 .. k : g.file[Len(st.file) + i] \in E1 /\ g.file[Len(st.file) + i].sequence = Len(st.file) + i
            /\ g.pending = E1 \ {g.file[Len(st.file) + i] : i \in 1 .. k}
    BY <1>1, <1>2, <2>1, FlushedIs
  <2> QED
    BY <2>1, <2>2
<1>8. streams'[s] = f /\ \A t \in Planes \ {s} : streams'[t] = streams[t]
  BY <1>2, <1>3
<1>9. x \in Exchanges
  BY <1>5 DEF ExchangeRecords
<1>10. /\ exchange' \in [Exchanges -> ExchangeStates] /\ exchange'[x].at = "done"
       /\ exchange'[x].outcome = exchange[x].outcome
       /\ \A y \in Exchanges \ {x} : exchange'[y] = exchange[y]
       /\ exchange'[x].told \in {exchange[x].outcome, "gone"}
  <2> HIDE DEF e, f
  <2>0. exchange[x] \in ExchangeStates
    BY <1>3, <1>9
  <2>1. CASE exchange[x].at = "completing"
    <3>1. PICK r : r = [exchange[x] EXCEPT !.at = "done", !.slot = FALSE, !.told = exchange[x].outcome]
      OBVIOUS
    <3>2. exchange' = [exchange EXCEPT ![x] = r]
      BY <1>3, <1>9, <2>1, <3>1 DEF CompleteRecord, e
    <3>3. r \in ExchangeStates /\ r.at = "done" /\ r.outcome = exchange[x].outcome /\ r.told = exchange[x].outcome
      BY <2>0, <3>1 DEF ExchangeStates
    <3> HIDE DEF x
    <3> QED
      BY <1>3, <1>9, <3>2, <3>3
  <2>2. CASE exchange[x].at \in {"recording", "leaving"}
    <3>1. PICK r : r = [exchange[x] EXCEPT !.at = "done"]
      OBVIOUS
    <3>2. exchange' = [exchange EXCEPT ![x] = r]
      <4>1. CASE exchange[x].at = "recording"
        BY <1>3, <1>9, <3>1, <4>1 DEF CompleteRecord, e
      <4>2. CASE exchange[x].at = "leaving"
        BY <1>3, <1>9, <3>1, <4>2 DEF CompleteRecord, e
      <4> QED
        BY <2>2, <4>1, <4>2
    <3>3. r \in ExchangeStates /\ r.at = "done" /\ r.outcome = exchange[x].outcome /\ r.told = exchange[x].told
      BY <2>0, <3>1 DEF ExchangeStates
    <3>4. exchange[x].told \in {exchange[x].outcome, "gone"}
      BY <1>9, <2>2 DEF ToldFits
    <3> HIDE DEF x
    <3> QED
      BY <1>3, <1>9, <3>2, <3>3, <3>4
  <2>3. exchange[x].at \in {"completing", "recording", "leaving"}
    <3>1. 1 \in DOMAIN streams[s].tail
      BY <1>2, <1>4
    <3> QED
      BY <1>5, <3>1 DEF TailFits
  <2> QED
    BY <2>1, <2>2, <2>3
<1> HIDE DEF f, n, E, x, e, from
<1>11. /\ 1 \in DOMAIN streams[s].tail /\ streams[s].tail[1] = e /\ e.of = x
       /\ streams'[s].tail \in Seq(ExchangeRecords)
       /\ \A i \in DOMAIN streams'[s].tail : i \in Int /\ i + 1 \in DOMAIN streams[s].tail /\ i + 1 # 1
            /\ streams'[s].tail[i] = streams[s].tail[i + 1]
       /\ \A i \in DOMAIN streams[s].tail : i = 1 \/ \E j \in DOMAIN streams'[s].tail : streams'[s].tail[j] = streams[s].tail[i]
  <2>1. PICK a : a = streams[s].tail
    OBVIOUS
  <2>2. a \in Seq(ExchangeRecords) /\ a # <<>> /\ streams'[s].tail = Tail(a)
    BY <1>2, <1>4, <1>7, <1>8, <2>1
  <2>3. /\ Len(a) \in Nat /\ Len(a) > 0 /\ DOMAIN a = 1 .. Len(a)
        /\ Tail(a) \in Seq(ExchangeRecords) /\ DOMAIN Tail(a) = 1 .. Len(a) - 1
        /\ \A i \in 1 .. Len(a) - 1 : Tail(a)[i] = a[i + 1]
    <3> HIDE DEF ExchangeRecords
    <3> QED
      BY <2>2, HeadTailProperties, LenProperties, EmptySeq
  <2>4. \A i \in DOMAIN Tail(a) : i \in Int /\ i + 1 \in DOMAIN a /\ i + 1 # 1 /\ Tail(a)[i] = a[i + 1]
    BY <2>3
  <2>5. \A i \in DOMAIN a : i = 1 \/ (i - 1 \in DOMAIN Tail(a) /\ Tail(a)[i - 1] = a[i])
    BY <2>3
  <2>6. 1 \in DOMAIN a
    BY <2>3
  <2>7. \A i \in DOMAIN a : i = 1 \/ \E j \in DOMAIN Tail(a) : Tail(a)[j] = a[i]
    BY <2>5
  <2>8. a[1] = e /\ e.of = x
    BY <1>5, <2>1 DEF x
  <2> HIDE DEF ExchangeRecords
  <2> QED
    BY <2>1, <2>2, <2>3, <2>4, <2>6, <2>7, <2>8
<1> HIDE DEF ExchangeRecords
<1>12. \A d \in ExchangeRecords : d.of \in Exchanges /\ d.sequence \in Nat
  BY DEF ExchangeRecords
<1>13. from \in Nat /\ \A t \in Planes : Len(streams[t].file) \in Nat
  BY <1>4, LenProperties DEF from
<1>14. \A t \in Planes : \A i \in DOMAIN streams[t].tail :
         streams[t].tail[i].of \in Exchanges /\ streams[t].tail[i].sequence \in Nat
  BY <1>4, <1>12
\* The head waited for nothing that was there, and all of E is behind the file.
<1>15. /\ E = streams[s].pending \cup {e}
       /\ \A d \in E : d.sequence \in Nat /\ from < d.sequence /\ d.sequence < streams[s].next
       /\ \A c, d \in E : c.sequence = d.sequence => c = d
  <2>1. /\ from < e.sequence /\ e.sequence < streams[s].next
        /\ \A d \in streams[s].pending : d.sequence # e.sequence
    BY <1>11 DEF TailFits, from
  <2>2. \A d \in streams[s].pending : from + 1 < d.sequence /\ d.sequence < streams[s].next
    BY DEF PendingWaits, from
  <2>3. \A c, d \in streams[s].pending : c.sequence = d.sequence => c = d
    BY DEF PendingWaits
  <2>4. E = streams[s].pending \cup {e}
    BY <1>5, <2>1
  <2>5. \A d \in streams[s].pending : d.sequence \in Nat /\ from < d.sequence
    BY <1>4, <1>12, <1>13, <2>2
  <2>6. e.sequence \in Nat
    BY <1>5, <1>12
  <2> QED
    BY <2>1, <2>2, <2>3, <2>4, <2>5, <2>6
\* A number behind the old file and not of E is behind the new file.
<1>16. ASSUME NEW q \in Nat, from < q, \A d \in E : d.sequence # q PROVE from + n < q
  <2> SUFFICES ASSUME ~(from + n < q) PROVE FALSE
    OBVIOUS
  <2>1. q - from \in 1 .. n /\ from + (q - from) = q
    BY <1>6, <1>13, <1>16
  <2>2. f.file[q] \in E /\ f.file[q].sequence = q
    BY <1>7, <2>1
  <2> QED
    BY <1>16, <2>2
\* What stays in the buffer, and what went to the file.
<1>17. /\ \A d \in E : d \in f.pending <=> from + n < d.sequence
       /\ f.pending \subseteq E
       /\ \A d \in E \ f.pending : \E i \in 1 .. n : d = f.file[from + i]
  <2>1. ASSUME NEW d \in E PROVE d \in f.pending <=> from + n < d.sequence
    <3>1. CASE from + n < d.sequence
      <4>1. ASSUME NEW i \in 1 .. n PROVE f.file[from + i] # d
        <5>1. from + i <= from + n /\ from + i \in Nat /\ d.sequence \in Nat
          BY <1>6, <1>13, <1>15
        <5>2. f.file[from + i].sequence = from + i
          BY <1>7
        <5>3. d.sequence # from + i
          BY <1>6, <1>13, <3>1, <5>1
        <5> QED
          BY <5>2, <5>3
      <4> QED
        BY <1>7, <3>1, <4>1
    <3>2. CASE ~(from + n < d.sequence)
      <4>1. d.sequence - from \in 1 .. n /\ from + (d.sequence - from) = d.sequence
        BY <1>6, <1>13, <1>15, <3>2
      <4>2. f.file[d.sequence] \in E /\ f.file[d.sequence].sequence = d.sequence
        BY <1>7, <4>1
      <4>3. f.file[d.sequence] = d
        BY <1>15, <4>2
      <4> QED
        BY <1>7, <3>2, <4>1, <4>3
    <3> QED
      BY <3>1, <3>2
  <2> QED
    BY <1>7, <2>1
<1>18. from + n < streams[s].next
  <2>1. CASE n = 0
    BY <1>13, <2>1 DEF Covered, from
  <2>2. CASE n # 0
    <3>1. n \in 1 .. n
      BY <1>6, <2>2
    <3>2. f.file[from + n] \in E /\ f.file[from + n].sequence = from + n
      BY <1>7, <3>1
    <3> QED
      BY <1>15, <3>2
  <2> QED
    BY <2>1, <2>2
<1>19. /\ \A y \in Exchanges : HomeOf(y)' = HomeOf(y)
       /\ \A y \in Exchanges : exchange'[y].outcome = exchange[y].outcome
       /\ s = HomeOf(x)
  <2>1. s = HomeOf(x)
    BY <1>11 DEF TailFits
  <2>2. \A y \in Exchanges : exchange'[y].outcome = exchange[y].outcome
    BY <1>10
  <2> QED
    BY <2>1, <2>2 DEF HomeOf
<1>20. exchange[x].at \in {"completing", "recording", "leaving"} /\ e.outcome = exchange[x].outcome
  BY <1>11 DEF TailFits
<1>21. \A t \in Planes : TailFits(t)'
  <2> TAKE t \in Planes
  <2>1. CASE t # s
    <3>1. streams'[t] = streams[t]
      BY <1>8, <2>1
    <3>2. \A i \in DOMAIN streams[t].tail : exchange'[streams[t].tail[i].of] = exchange[streams[t].tail[i].of]
      <4> TAKE i \in DOMAIN streams[t].tail
      <4>1. t = HomeOf(streams[t].tail[i].of)
        BY DEF TailFits
      <4>2. streams[t].tail[i].of # x
        BY <1>19, <2>1, <4>1
      <4> QED
        BY <1>10, <1>14, <4>2
    <3> QED
      BY <3>1, <3>2 DEF TailFits, HomeOf
  <2>2. CASE t = s
    <3>1. ASSUME NEW i \in DOMAIN streams'[s].tail
          PROVE  /\ Len(streams'[s].file) < streams'[s].tail[i].sequence
                 /\ streams'[s].tail[i].sequence < streams'[s].next
                 /\ \A d \in streams'[s].pending : d.sequence # streams'[s].tail[i].sequence
                 /\ exchange'[streams'[s].tail[i].of] = exchange[streams'[s].tail[i].of]
                 /\ exchange[streams'[s].tail[i].of].at \in {"completing", "recording", "leaving"}
                 /\ streams'[s].tail[i].outcome = exchange[streams'[s].tail[i].of].outcome
                 /\ s = HomeOf(streams'[s].tail[i].of)
                 /\ \A j \in DOMAIN streams'[s].tail :
                      /\ streams'[s].tail[j].sequence = streams'[s].tail[i].sequence => j = i
                      /\ streams'[s].tail[j].of = streams'[s].tail[i].of => j = i
      <4>1. PICK d : d = streams'[s].tail[i] /\ d = streams[s].tail[i + 1] /\ i + 1 \in DOMAIN streams[s].tail
                     /\ i + 1 # 1 /\ i \in Int
        BY <1>11, <3>1
      <4>2. /\ from < d.sequence /\ d.sequence < streams[s].next
            /\ \A c \in streams[s].pending : c.sequence # d.sequence
            /\ exchange[d.of].at \in {"completing", "recording", "leaving"}
            /\ d.outcome = exchange[d.of].outcome
            /\ s = HomeOf(d.of)
            /\ \A j \in DOMAIN streams[s].tail :
                 /\ streams[s].tail[j].sequence = d.sequence => j = i + 1
                 /\ streams[s].tail[j].of = d.of => j = i + 1
        BY <4>1 DEF TailFits, from
      <4>3. e.sequence # d.sequence /\ d.of # x
        BY <1>11, <4>1, <4>2
      <4>4. d.of \in Exchanges /\ d.sequence \in Nat
        BY <1>14, <4>1
      <4>5. from + n < d.sequence
        BY <1>15, <1>16, <4>2, <4>3, <4>4
      <4>6. \A c \in f.pending : c.sequence # d.sequence
        BY <1>15, <1>17, <4>2, <4>3
      <4>7. \A j \in DOMAIN streams'[s].tail :
              /\ streams'[s].tail[j].sequence = d.sequence => j = i
              /\ streams'[s].tail[j].of = d.of => j = i
        <5> TAKE j \in DOMAIN streams'[s].tail
        <5>1. j \in Int /\ j + 1 \in DOMAIN streams[s].tail /\ streams'[s].tail[j] = streams[s].tail[j + 1]
          BY <1>11
        <5>2. j + 1 = i + 1 => j = i
          BY <4>1, <5>1
        <5> QED
          BY <4>2, <5>1, <5>2
      <4>8. exchange'[d.of] = exchange[d.of]
        BY <1>10, <4>3, <4>4
      <4>9. Len(streams'[s].file) = from + n /\ streams'[s].next = streams[s].next /\ streams'[s].pending = f.pending
        BY <1>7, <1>8
      <4>10. streams'[s].tail[i] = d
        BY <4>1
      <4> QED
        BY <4>2, <4>5, <4>6, <4>7, <4>8, <4>9, <4>10
    <3>2. TailFits(s)'
      BY <3>1 DEF TailFits, HomeOf
    <3> QED
      BY <2>2, <3>2
  <2> QED
    BY <2>1, <2>2
<1>22. \A t \in Planes : PendingWaits(t)'
  <2> TAKE t \in Planes
  <2>1. CASE t # s
    BY <1>8, <2>1 DEF PendingWaits
  <2>2. CASE t = s
    <3>1. ASSUME NEW d \in f.pending
          PROVE  /\ from + n + 1 < d.sequence /\ d.sequence < streams[s].next
                 /\ \A c \in f.pending : c.sequence = d.sequence => c = d
      <4>1. d \in E /\ from + n < d.sequence /\ d.sequence # from + n + 1 /\ d.sequence \in Nat
        BY <1>6, <1>15, <1>17
      <4> QED
        BY <1>6, <1>13, <1>15, <1>17, <4>1
    <3>2. PendingWaits(s)'
      BY <1>7, <1>8, <3>1 DEF PendingWaits
    <3> QED
      BY <2>2, <3>2
  <2> QED
    BY <2>1, <2>2
<1>23. \A y \in Exchanges : exchange[y].at = "gateway" => y # x /\ exchange'[y] = exchange[y]
  BY <1>10, <1>20
<1>24. \A t \in Planes : Covered(t)'
  <2> TAKE t \in Planes
  <2>1. CASE t # s
    BY <1>8, <1>23, <2>1 DEF Covered
  <2>2. CASE t = s
    <3>1. ASSUME NEW q \in from + n + 1 .. streams[s].next - 1
          PROVE  \/ \E i \in DOMAIN streams'[s].tail : streams'[s].tail[i].sequence = q
                 \/ \E d \in f.pending : d.sequence = q
                 \/ s = "api" /\ \E y \in Exchanges : exchange'[y].at = "gateway" /\ exchange'[y].sequence = q
      <4>1. q \in from + 1 .. streams[s].next - 1 /\ from + n < q
        BY <1>4, <1>6, <1>13
      <4>2. \/ \E i \in DOMAIN streams[s].tail : streams[s].tail[i].sequence = q
            \/ \E d \in streams[s].pending : d.sequence = q
            \/ s = "api" /\ \E y \in Exchanges : exchange[y].at = "gateway" /\ exchange[y].sequence = q
        BY <4>1 DEF Covered, from
      <4>3. CASE \E i \in DOMAIN streams[s].tail : streams[s].tail[i].sequence = q
        <5>1. PICK i \in DOMAIN streams[s].tail : streams[s].tail[i].sequence = q
          BY <4>3
        <5>2. CASE i = 1
          BY <1>11, <1>15, <1>17, <4>1, <5>1, <5>2
        <5>3. CASE i # 1
          BY <1>11, <5>1, <5>3
        <5> QED
          BY <5>2, <5>3
      <4>4. CASE \E d \in streams[s].pending : d.sequence = q
        BY <1>15, <1>17, <4>1, <4>4
      <4> QED
        BY <1>23, <4>2, <4>3, <4>4
    <3>2. Covered(s)'
      BY <1>7, <1>8, <1>18, <3>1 DEF Covered
    <3> QED
      BY <2>2, <3>2
  <2> QED
    BY <2>1, <2>2
<1>25. "api" \in Planes
  BY DEF Planes
<1>26. GatewayFits'
  <2>1. ASSUME NEW y \in Exchanges, exchange'[y].at = "gateway"
        PROVE  /\ PlaneOf[y] = "api" /\ exchange'[y].before <= Len(effects')
               /\ exchange'[y].outcome = "served"
               /\ Len(streams'["api"].file) < exchange'[y].sequence
               /\ exchange'[y].sequence < streams'["api"].next
               /\ \A i \in DOMAIN streams'["api"].tail : streams'["api"].tail[i].sequence # exchange'[y].sequence
               /\ \A d \in streams'["api"].pending : d.sequence # exchange'[y].sequence
               /\ \A z \in Exchanges : exchange'[z].at = "gateway" /\ exchange'[z].sequence = exchange'[y].sequence => z = y
    <3>1. exchange'[y] = exchange[y] /\ exchange[y].at = "gateway" /\ exchange[y].sequence \in Nat
      <4>1. y # x
        BY <1>10, <2>1
      <4>2. exchange'[y] = exchange[y] /\ exchange[y] \in ExchangeStates
        BY <1>3, <1>10, <4>1
      <4> QED
        BY <2>1, <4>2 DEF ExchangeStates
    <3>2. /\ PlaneOf[y] = "api" /\ exchange[y].before <= Len(effects)
          /\ exchange[y].outcome = "served"
          /\ Len(streams["api"].file) < exchange[y].sequence
          /\ exchange[y].sequence < streams["api"].next
          /\ \A i \in DOMAIN streams["api"].tail : streams["api"].tail[i].sequence # exchange[y].sequence
          /\ \A d \in streams["api"].pending : d.sequence # exchange[y].sequence
          /\ \A z \in Exchanges : exchange[z].at = "gateway" /\ exchange[z].sequence = exchange[y].sequence => z = y
      BY <3>1 DEF GatewayFits
    <3>3. \A z \in Exchanges : exchange'[z].at = "gateway" => exchange[z].at = "gateway" /\ exchange'[z] = exchange[z]
      BY <1>10
    <3>4. CASE s # "api"
      BY <1>2, <1>8, <1>25, <3>1, <3>2, <3>3, <3>4
    <3>5. CASE s = "api"
      <4>1. \A d \in E : d.sequence # exchange[y].sequence
        BY <1>11, <1>15, <3>2, <3>5
      <4>2. from + n < exchange[y].sequence
        BY <1>16, <3>1, <3>2, <3>5, <4>1 DEF from
      <4>3. ASSUME NEW i \in DOMAIN streams'["api"].tail
            PROVE  streams'["api"].tail[i].sequence # exchange[y].sequence
        <5>1. i + 1 \in DOMAIN streams["api"].tail /\ streams'["api"].tail[i] = streams["api"].tail[i + 1]
          BY <1>11, <3>5
        <5> QED
          BY <3>2, <5>1
      <4>4. \A d \in streams'["api"].pending : d.sequence # exchange[y].sequence
        BY <1>8, <1>17, <3>5, <4>1
      <4> QED
        BY <1>2, <1>7, <1>8, <3>1, <3>2, <3>3, <3>5, <4>2, <4>3, <4>4
    <3> QED
      BY <3>4, <3>5
  <2>2. \A i \in DOMAIN pipeline : exchange[pipeline[i]].at = "gateway" /\ pipeline[i] \in Exchanges
          /\ \A j \in DOMAIN pipeline : pipeline[j] = pipeline[i] => j = i
    BY <1>3 DEF GatewayFits
  <2>3. pipeline' = pipeline
    BY <1>2
  <2>4. \A i \in DOMAIN pipeline' : exchange'[pipeline'[i]].at = "gateway" /\
          \A j \in DOMAIN pipeline' : pipeline'[j] = pipeline'[i] => j = i
    BY <1>23, <2>2, <2>3
  <2> QED
    BY <2>1, <2>4 DEF GatewayFits
\* No record is lost.
<1>27. \A t \in Planes : RecordsOf(t)' = RecordsOf(t)
  <2> TAKE t \in Planes
  <2>1. CASE t # s
    BY <1>8, <2>1 DEF RecordsOf
  <2>2. CASE t = s
    <3>1. ToSet(streams[s].tail) = ToSet(streams'[s].tail) \cup {e}
      BY <1>11 DEF ToSet
    <3>2. ToSet(streams'[s].file) = ToSet(streams[s].file) \cup {f.file[from + i] : i \in 1 .. n}
      <4>1. DOMAIN streams[s].file = 1 .. from /\ DOMAIN f.file = 1 .. from + n
        <5>1. f.file \in Seq(ExchangeRecords)
          BY <1>7 DEF StreamStates
        <5> QED
          BY <1>4, <1>7, <5>1, LenProperties DEF from
      <4>2. \A i \in 1 .. from + n : i \in 1 .. from \/ (i - from \in 1 .. n /\ from + (i - from) = i)
        BY <1>6, <1>13
      <4>3. \A i \in 1 .. from : i \in 1 .. from + n
        BY <1>6, <1>13
      <4>4. \A i \in 1 .. n : from + i \in 1 .. from + n
        BY <1>6, <1>13
      <4>5. ToSet(f.file) \subseteq ToSet(streams[s].file) \cup {f.file[from + i] : i \in 1 .. n}
        <5>1. ASSUME NEW i \in 1 .. from + n
              PROVE  f.file[i] \in ToSet(streams[s].file) \cup {f.file[from + j] : j \in 1 .. n}
          <6>1. CASE i \in 1 .. from
            BY <1>7, <4>1, <6>1 DEF ToSet
          <6>2. CASE i \notin 1 .. from
            <7>1. PICK j \in 1 .. n : from + j = i
              BY <4>2, <6>2
            <7> QED
              BY <7>1
          <6> QED
            BY <6>1, <6>2
        <5> QED
          BY <4>1, <5>1 DEF ToSet
      <4>6. ToSet(streams[s].file) \cup {f.file[from + i] : i \in 1 .. n} \subseteq ToSet(f.file)
        BY <1>7, <4>1, <4>3, <4>4 DEF ToSet
      <4> QED
        BY <1>8, <4>5, <4>6
    <3>3. f.pending = E \ {f.file[from + i] : i \in 1 .. n}
          /\ {f.file[from + i] : i \in 1 .. n} \subseteq E
      BY <1>7
    <3>4. RecordsOf(s)' = ToSet(streams'[s].file) \cup f.pending \cup ToSet(streams'[s].tail)
      BY <1>8 DEF RecordsOf
    <3>5. RecordsOf(s) = ToSet(streams[s].file) \cup streams[s].pending \cup ToSet(streams[s].tail)
      BY DEF RecordsOf
    <3>6. RecordsOf(s)' = RecordsOf(s)
      <4> DEFINE out == {f.file[from + i] : i \in 1 .. n}
      <4>1. ToSet(streams'[s].file) = ToSet(streams[s].file) \cup out /\ f.pending = E \ out /\ out \subseteq E
        BY <3>2, <3>3
      <4> HIDE DEF out
      <4> QED
        BY <1>15, <3>1, <3>4, <3>5, <4>1
    <3> QED
      BY <2>2, <3>6
  <2> QED
    BY <2>1, <2>2
<1>28. EffectsFit'
  <2>1. \A y \in Exchanges : exchange[y].at \notin {"new", "upload", "gateway"} =>
                             exchange'[y].at \notin {"new", "upload", "gateway"}
    BY <1>10
  <2>2. \A y \in ToSet(effects) : y \in Exchanges
    BY <1>3 DEF ToSet
  <2>3. ASSUME NEW t \in Planes, NEW d \in RecordsOf(t)'
        PROVE  /\ exchange'[d.of].at \notin {"new", "upload", "gateway"}
               /\ d.of \in ToSet(effects') => d.of \in ToSet(d.effects)
    <3>1. d \in RecordsOf(t)
      BY <1>27
    <3>2. d \in ExchangeRecords
      BY <1>4, <3>1 DEF RecordsOf, ToSet
    <3>3. d.of \in Exchanges
      BY <1>12, <3>2
    <3> QED
      BY <1>2, <2>1, <3>1, <3>3 DEF EffectsFit
  <2>4. \A y \in ToSet(effects') : exchange'[y].at \notin {"new", "upload", "gateway"}
    BY <1>2, <2>1, <2>2 DEF EffectsFit
  <2> QED
    BY <2>3, <2>4 DEF EffectsFit
<1>29. ToldFits'
  <2>1. ASSUME NEW y \in Exchanges
        PROVE  /\ exchange'[y].at = "recording" => exchange'[y].outcome = "failed" /\ exchange'[y].told = "failed"
               /\ exchange'[y].at = "leaving" => exchange'[y].outcome = "failed" /\ exchange'[y].told = "gone"
    <3>1. CASE y = x
      BY <1>10, <3>1
    <3>2. CASE y # x
      <4>1. exchange'[y] = exchange[y]
        BY <1>10, <3>2
      <4> QED
        BY <4>1 DEF ToldFits
    <3> QED
      BY <3>1, <3>2
  <2> QED
    BY <2>1 DEF ToldFits
<1>30. DoneFits'
  <2>1. ASSUME NEW y \in Exchanges, exchange'[y].at = "done"
        PROVE  \E d \in RecordsOf(HomeOf(y))' :
                 d.of = y /\ d.outcome = exchange'[y].outcome /\ exchange'[y].told \in {d.outcome, "gone"}
    <3>1. HomeOf(y) \in Planes
      BY ExposureAssumption DEF HomeOf, Planes
    <3>2. PICK t \in Planes : t = HomeOf(y) /\ t = HomeOf(y)'
      BY <1>19, <3>1
    <3>3. RecordsOf(HomeOf(y))' = RecordsOf(t)
      <4>1. RecordsOf(HomeOf(y))' = RecordsOf(t)'
        BY <3>2
      <4> QED
        BY <1>27, <4>1
    <3>4. CASE y = x
      <4>1. e \in RecordsOf(s) /\ t = s
        BY <1>11, <1>19, <3>2, <3>4 DEF RecordsOf, ToSet
      <4> QED
        BY <1>10, <1>11, <1>20, <3>3, <3>4, <4>1
    <3>5. CASE y # x
      <4>1. exchange'[y] = exchange[y]
        BY <1>10, <3>5
      <4>2. PICK d \in RecordsOf(HomeOf(y)) :
              d.of = y /\ d.outcome = exchange[y].outcome /\ exchange[y].told \in {d.outcome, "gone"}
        BY <2>1, <4>1 DEF DoneFits
      <4> QED
        BY <3>2, <3>3, <4>1, <4>2
    <3> QED
      BY <3>4, <3>5
  <2> QED
    BY <2>1 DEF DoneFits
<1> QED
  BY <1>21, <1>22, <1>24, <1>26, <1>28, <1>29, <1>30

\* The requests for documents that were refused stay refused.
LEMMA QuietWas ==
  ASSUME Quiet', sinkFaults' = sinkFaults,
         \A y \in Exchanges : PlaneOf[y] = "doc" /\ exchange[y].outcome = "refused"
                                => exchange'[y].outcome = "refused"
  PROVE  Quiet
  BY DEF Quiet, DocumentRefused

\* A connection that comes, a second that passes and a port that closes leave
\* what is recorded alone.
LEMMA StillKeeps ==
  ASSUME ExposureType, QuietInv, UNCHANGED <<streams, pipeline, effects>>,
         \A y \in Exchanges : \/ exchange'[y] = exchange[y]
                              \/ exchange[y].at = "new" /\ exchange'[y].at = "upload"
  PROVE  QuietInv'
<1> USE DEF QuietInv
<1>1. /\ streams \in [Planes -> StreamStates] /\ pipeline \in Seq(Exchanges) /\ effects \in Seq(Exchanges)
      /\ streams' = streams /\ pipeline' = pipeline /\ effects' = effects
  BY DEF ExposureType
<1>2. \A t \in Planes : streams[t].tail \in Seq(ExchangeRecords)
        /\ streams[t].file \in Seq(ExchangeRecords) /\ streams[t].pending \in SUBSET ExchangeRecords
  BY <1>1 DEF StreamStates
<1> HIDE DEF ExchangeRecords
<1>3. \A d \in ExchangeRecords : d.of \in Exchanges
  BY DEF ExchangeRecords
<1>4. \A t \in Planes : RecordsOf(t)' = RecordsOf(t)
  BY <1>1 DEF RecordsOf
<1>5. \A y \in Exchanges : exchange[y].at # "new" => exchange'[y] = exchange[y]
  OBVIOUS
<1>6. \A y \in Exchanges : exchange'[y].at # "upload" => exchange'[y] = exchange[y]
  OBVIOUS
<1>7. \A t \in Planes : TailFits(t)'
  <2> TAKE t \in Planes
  <2>1. \A i \in DOMAIN streams[t].tail : exchange'[streams[t].tail[i].of] = exchange[streams[t].tail[i].of]
    <3> TAKE i \in DOMAIN streams[t].tail
    <3>1. streams[t].tail[i].of \in Exchanges
      BY <1>2, <1>3
    <3>2. exchange[streams[t].tail[i].of].at # "new"
      BY DEF TailFits
    <3> QED
      BY <1>5, <3>1, <3>2
  <2> QED
    BY <1>1, <2>1 DEF TailFits, HomeOf
<1>8. \A t \in Planes : PendingWaits(t)'
  BY <1>1 DEF PendingWaits
<1>9. \A t \in Planes : Covered(t)'
  BY <1>1, <1>5 DEF Covered
<1>10. GatewayFits'
  <2>1. \A y \in Exchanges : exchange'[y].at = "gateway" => exchange'[y] = exchange[y]
    BY <1>6
  <2>2. \A i \in DOMAIN pipeline : pipeline[i] \in Exchanges
    BY <1>1
  <2> QED
    BY <1>1, <1>5, <2>1, <2>2 DEF GatewayFits
<1>11. EffectsFit'
  <2>1. \A y \in ToSet(effects) : y \in Exchanges
    BY <1>1 DEF ToSet
  <2>2. \A t \in Planes : \A d \in RecordsOf(t) : d.of \in Exchanges
    BY <1>2, <1>3 DEF RecordsOf, ToSet
  <2>3. \A y \in ToSet(effects') : exchange'[y].at \notin {"new", "upload", "gateway"}
    BY <1>1, <1>5, <2>1 DEF EffectsFit
  <2>4. ASSUME NEW t \in Planes, NEW d \in RecordsOf(t)'
        PROVE  /\ exchange'[d.of].at \notin {"new", "upload", "gateway"}
               /\ d.of \in ToSet(effects') => d.of \in ToSet(d.effects)
    <3>1. d \in RecordsOf(t)
      BY <1>4
    <3> QED
      BY <1>1, <1>5, <2>2, <3>1 DEF EffectsFit
  <2> QED
    BY <2>3, <2>4 DEF EffectsFit
<1>12. ToldFits'
  <2>1. ASSUME NEW y \in Exchanges
        PROVE  /\ exchange'[y].at = "recording" => exchange'[y].outcome = "failed" /\ exchange'[y].told = "failed"
               /\ exchange'[y].at = "leaving" => exchange'[y].outcome = "failed" /\ exchange'[y].told = "gone"
    BY <1>6 DEF ToldFits
  <2> QED
    BY <2>1 DEF ToldFits
<1>13. DoneFits'
  <2>1. ASSUME NEW y \in Exchanges, exchange'[y].at = "done"
        PROVE  \E d \in RecordsOf(HomeOf(y))' :
                 d.of = y /\ d.outcome = exchange'[y].outcome /\ exchange'[y].told \in {d.outcome, "gone"}
    <3>1. exchange'[y] = exchange[y]
      BY <1>6, <2>1
    <3>2. HomeOf(y)' = HomeOf(y)
      BY <3>1 DEF HomeOf
    <3>3. RecordsOf(HomeOf(y))' = RecordsOf(HomeOf(y))
      BY <1>1, <3>2 DEF RecordsOf
    <3> QED
      BY <2>1, <3>1, <3>3 DEF DoneFits
  <2> QED
    BY <2>1 DEF DoneFits
<1> QED
  BY <1>7, <1>8, <1>9, <1>10, <1>11, <1>12, <1>13

LEMMA BodyEndsKeeps ==
  ASSUME ExposureBase, Quiet => QuietInv, Quiet',
         NEW x \in Exchanges, NEW tooLarge \in BOOLEAN, BodyEnds(x, tooLarge)
  PROVE  QuietInv'
<1> USE DEF ExposureBase
<1> DEFINE s == PlaneOf[x]
           refusal == Refusal(admission)
           refused == exchange[x].over \/ refusal # "none" \/ tooLarge
           toPlane == IF refused THEN "api" ELSE s
           number == streams[s].next
           reserved == [streams EXCEPT ![s].next = @ + 1]
           result == IF refused THEN "refused" ELSE "served"
           known == [exchange[x] EXCEPT !.sequence = number, !.slot = refusal = "none",
                                        !.outcome = result]
           waiting == [known EXCEPT !.at = "gateway", !.before = Len(effects)]
           ending == [known EXCEPT !.at = "completing"]
           e == ExchangeEvent(x, number, result, <<>>)
<1>1. /\ exchange[x] \in ExchangeStates /\ exchange \in [Exchanges -> ExchangeStates]
      /\ streams \in [Planes -> StreamStates] /\ s \in Planes /\ "api" \in Planes
      /\ Len(effects) \in Nat
  BY ExposureAssumption DEF ExposureType, Planes
<1>2. number \in Nat /\ number + 1 \in Nat \ {0}
  BY <1>1 DEF StreamStates
<1>3. result \in Outcomes /\ e \in ExchangeRecords
  BY <1>2, EmptySeq DEF ExchangeEvent, ExchangeRecords, Outcomes
<1>4. /\ known.outcome = result
      /\ ending.at = "completing" /\ ending.outcome = result /\ ending.sequence = number
      /\ waiting.at = "gateway" /\ waiting.outcome = result /\ waiting.sequence = number
      /\ waiting.before = Len(effects)
  <2> HIDE DEF number, refusal, result
  <2> QED
    BY <1>1 DEF ExchangeStates
<1>5. /\ exchange[x].at = "upload"
      /\ UNCHANGED <<effects, sinkFaults, failures, port>>
      /\ \/ /\ refused \/ s = "doc"
            /\ exchange' = [exchange EXCEPT ![x] = ending]
            /\ streams' = [reserved EXCEPT ![toPlane].tail = Append(@, e)]
            /\ UNCHANGED pipeline
         \/ /\ s = "api" /\ ~refused
            /\ exchange' = [exchange EXCEPT ![x] = waiting]
            /\ streams' = reserved
            /\ pipeline' = Append(pipeline, x)
  BY <1>1, <1>4 DEF BodyEnds, Planes
<1>6. /\ \A y \in Exchanges \ {x} : exchange'[y] = exchange[y]
      /\ exchange'[x].outcome = result /\ exchange'[x].sequence = number
      /\ exchange[x].outcome = "none"
  <2>1. exchange[x].outcome = "none"
    BY <1>5 DEF SlotsFit
  <2> HIDE DEF ending, waiting, result, number, refused, reserved, toPlane, s
  <2> QED
    BY <1>1, <1>4, <1>5, <2>1
<1>7. Quiet
  BY <1>5, <1>6, QuietWas
<1>8. s = "doc" => ~refused
  <2>1. result # "refused" \/ s # "doc"
    BY <1>6 DEF Quiet, DocumentRefused
  <2> QED
    BY <2>1
<1>9. CASE refused \/ s = "doc"
  <2>1. toPlane = s
    BY <1>1, <1>8, <1>9 DEF Planes
  <2>2. PICK h \in Planes : h = s
    BY <1>1
  <2>3. PICK r \in ExchangeRecords : r = e
    BY <1>3
  <2>4. PICK m \in Nat \ {0} : m = number + 1
    BY <1>2
  <2>5. r.of = x /\ r.outcome = exchange'[x].outcome /\ r.sequence = streams[h].next
        /\ m = streams[h].next + 1
    BY <1>6, <2>2, <2>3, <2>4 DEF ExchangeEvent
  <2>6. h = HomeNext(x)
    <3>1. exchange'[x].outcome # "failed"
      BY <1>6
    <3> QED
      BY <2>2, <3>1 DEF HomeNext
  <2>7. QuietInv /\ effects' = effects /\ ExposureType
    BY <1>5, <1>7
  <2> HIDE DEF ending, waiting, e, refused, toPlane, s
  <2>8. /\ exchange' = [exchange EXCEPT ![x] = ending]
        /\ streams' = [reserved EXCEPT ![h].tail = Append(@, r)]
        /\ pipeline' = pipeline
    BY <1>5, <1>9, <2>1, <2>2, <2>3
  <2>9. streams' = [streams EXCEPT ![h].next = m, ![h].tail = Append(@, r)]
    BY <2>2, <2>4, <2>8
  <2>10. exchange'[x].at = "completing"
    <3> HIDE DEF known
    <3> QED
      BY <1>1, <1>4, <2>8
  <2> HIDE DEF result, reserved, known, number, ExposureType, QuietInv, ExchangeRecords
  <2>11. /\ \A t \in Planes \ {h} : streams'[t] = streams[t]
         /\ streams'[h].next = m /\ streams'[h].tail = Append(streams[h].tail, r)
         /\ \A t \in Planes : streams'[t].pending = streams[t].pending /\ streams'[t].file = streams[t].file
    <3>1. streams \in [Planes -> StreamStates]
      BY <2>7 DEF ExposureType
    <3>2. PICK l : l = Append(streams[h].tail, r)
      OBVIOUS
    <3>3. PICK q : q = [streams[h] EXCEPT !.next = m, !.tail = l]
      OBVIOUS
    <3>4. q.next = m /\ q.tail = l /\ q.pending = streams[h].pending /\ q.file = streams[h].file
      BY <3>1, <3>3 DEF StreamStates
    <3>5. streams' = [streams EXCEPT ![h] = q]
      BY <2>9, <3>1, <3>2, <3>3
    <3> QED
      BY <3>1, <3>2, <3>4, <3>5
  <2>12. /\ exchange[x].at = "upload" /\ r.sequence = streams[h].next
         /\ streams'[h].next = streams[h].next + 1 /\ pipeline' = pipeline
    BY <1>5, <2>5, <2>8, <2>11
  <2>13. \A t \in Planes \ {h} : streams'[t].tail = streams[t].tail /\ streams'[t].next = streams[t].next
    BY <2>11
  <2> QED
    BY <1>6, <2>5, <2>6, <2>7, <2>10, <2>11, <2>12, <2>13, SubmitKeeps
<1>10. CASE ~refused /\ s = "api"
  <2>1. /\ exchange' = [exchange EXCEPT ![x] = waiting] /\ streams' = reserved
        /\ pipeline' = Append(pipeline, x) /\ effects' = effects
    BY <1>5, <1>10
  <2>2. result = "served"
    BY <1>10
  <2>3. exchange'[x].at = "gateway" /\ exchange'[x].outcome = "served" /\ exchange'[x].before = Len(effects)
        /\ exchange'[x].sequence = streams["api"].next
    <3> HIDE DEF known, waiting, result
    <3> QED
      BY <1>1, <1>4, <1>6, <1>10, <2>1, <2>2
  <2>4. /\ \A t \in Planes : /\ streams'[t].pending = streams[t].pending /\ streams'[t].file = streams[t].file
                             /\ streams'[t].tail = streams[t].tail
        /\ streams'["api"].next = streams["api"].next + 1 /\ streams'["doc"].next = streams["doc"].next
    BY <1>1, <1>10, <2>1 DEF StreamStates, Planes
  <2>5. QuietInv
    BY <1>7
  <2> HIDE DEF QuietInv, ExposureType, refused, waiting, reserved, result, number, known
  <2> QED
    BY <1>5, <1>6, <1>10, <2>1, <2>3, <2>4, <2>5, EnterKeeps
<1> QED
  BY <1>1, <1>9, <1>10 DEF Planes

LEMMA GatewayAnswersKeeps ==
  ASSUME ExposureBase, Quiet => QuietInv, Quiet', GatewayAnswers PROVE QuietInv'
<1> USE DEF ExposureBase
<1>1. PICK commits \in BOOLEAN :
        LET x == Head(pipeline)
            all == IF commits THEN Append(effects, x) ELSE effects
            own == SubSeq(all, exchange[x].before + 1, Len(all))
        IN  /\ pipeline # <<>>
            /\ effects' = all
            /\ pipeline' = Tail(pipeline)
            /\ exchange' = [exchange EXCEPT ![x].at = "completing"]
            /\ streams' = Submit("api", ExchangeEvent(x, exchange[x].sequence, "served", own))
            /\ UNCHANGED <<admission, sinkFaults, failures, port>>
  BY DEF GatewayAnswers
<1>2. PICK x \in Exchanges : x = Head(pipeline) /\ PlaneOf[x] = "api" /\ 1 \in DOMAIN pipeline /\ x = pipeline[1]
  BY <1>1, PipelineKeeps
<1>3. /\ exchange[x] \in ExchangeStates /\ exchange \in [Exchanges -> ExchangeStates]
      /\ streams \in [Planes -> StreamStates] /\ effects \in Seq(Exchanges) /\ "api" \in Planes
      /\ exchange[x].before \in Nat /\ exchange[x].sequence \in Nat
  BY <1>2 DEF ExposureType, ExchangeStates, Planes
<1>4. /\ effects' \in Seq(Exchanges) /\ Len(effects) \in Nat
      /\ \/ effects' = effects
         \/ effects' = Append(effects, x) /\ Len(effects') = Len(effects) + 1 /\ effects'[Len(effects) + 1] = x
  BY <1>1, <1>2, <1>3, AppendProperties
<1>5. PICK own : own = SubSeq(effects', exchange[x].before + 1, Len(effects'))
  OBVIOUS
<1>6. exchange'[x].at = "completing" /\ exchange'[x].outcome = exchange[x].outcome
      /\ exchange'[x].sequence = exchange[x].sequence
      /\ \A y \in Exchanges \ {x} : exchange'[y] = exchange[y]
  <2>1. PICK r : r = [exchange[x] EXCEPT !.at = "completing"]
    OBVIOUS
  <2>2. r.at = "completing" /\ r.outcome = exchange[x].outcome /\ r.sequence = exchange[x].sequence
    BY <1>3, <2>1 DEF ExchangeStates
  <2>3. exchange' = [exchange EXCEPT ![x] = r]
    BY <1>1, <1>2, <1>3, <2>1
  <2> QED
    BY <1>3, <2>2, <2>3
<1>7. Quiet
  <2>1. sinkFaults' = sinkFaults
    BY <1>1
  <2>2. \A y \in Exchanges : PlaneOf[y] = "doc" /\ exchange[y].outcome = "refused" => exchange'[y].outcome = "refused"
    BY <1>6
  <2> QED
    BY <2>1, <2>2, QuietWas
<1>8. QuietInv /\ ExposureType
  BY <1>7
<1>9. exchange[x].at = "gateway" /\ exchange[x].before <= Len(effects) /\ exchange[x].outcome = "served"
  BY <1>2, <1>8 DEF QuietInv, GatewayFits
<1>10. own \in Seq(Exchanges) /\ (effects' # effects => x \in ToSet(own))
  <2>1. exchange[x].before + 1 \in Nat /\ exchange[x].before + 1 >= 1 /\ Len(effects') \in Nat
    BY <1>3, <1>4
  <2>2. /\ own \in Seq(Exchanges)
        /\ Len(own) = IF exchange[x].before + 1 <= Len(effects') THEN Len(effects') - (exchange[x].before + 1) + 1 ELSE 0
        /\ \A i \in 1 .. Len(effects') - (exchange[x].before + 1) + 1 : own[i] = effects'[exchange[x].before + 1 + i - 1]
    <3>1. \A i \in exchange[x].before + 1 .. Len(effects') : i \in 1 .. Len(effects')
      BY <2>1
    <3> QED
      BY <1>4, <1>5, <2>1, <3>1, SubSeqProperties
  <2>3. ASSUME effects' # effects PROVE x \in ToSet(own)
    <3>1. Len(effects') = Len(effects) + 1 /\ effects'[Len(effects) + 1] = x
      BY <1>4, <2>3
    <3>2. PICK k : k = Len(effects) + 1 - exchange[x].before
      OBVIOUS
    <3>3. /\ k \in 1 .. Len(effects') - (exchange[x].before + 1) + 1
          /\ exchange[x].before + 1 + k - 1 = Len(effects) + 1 /\ Len(own) = k
      <4>1. PICK b \in Nat, L \in Nat : b = exchange[x].before /\ L = Len(effects)
        BY <1>3, <1>4
      <4>2. b <= L /\ k = L + 1 - b /\ Len(effects') = L + 1
        BY <1>9, <3>1, <3>2, <4>1
      <4>3. k \in Nat /\ k >= 1 /\ (L + 1) - (b + 1) + 1 = k /\ b + 1 + k - 1 = L + 1 /\ b + 1 <= L + 1
        BY <4>2
      <4>4. Len(own) = k
        BY <2>2, <4>1, <4>2, <4>3
      <4> QED
        BY <4>1, <4>2, <4>3, <4>4
    <3>4. own[k] = x
      BY <2>2, <3>1, <3>3
    <3>5. DOMAIN own = 1 .. Len(own)
      BY <2>2, LenProperties
    <3>6. k \in DOMAIN own
      BY <1>3, <1>4, <2>1, <3>3, <3>5
    <3> QED
      BY <3>4, <3>6 DEF ToSet
  <2> QED
    BY <2>2, <2>3
<1>11. PICK e : e = ExchangeEvent(x, exchange[x].sequence, "served", own)
  OBVIOUS
<1>12. /\ e \in ExchangeRecords /\ e.of = x /\ e.outcome = "served" /\ e.sequence = exchange[x].sequence
       /\ e.effects = own
  BY <1>2, <1>3, <1>10, <1>11 DEF ExchangeEvent, ExchangeRecords, Outcomes
<1>13. /\ \A t \in Planes \ {"api"} : streams'[t] = streams[t]
       /\ streams'["api"].next = streams["api"].next /\ streams'["api"].tail = Append(streams["api"].tail, e)
       /\ \A t \in Planes : streams'[t].pending = streams[t].pending /\ streams'[t].file = streams[t].file
  <2>1. PICK l : l = Append(streams["api"].tail, e)
    OBVIOUS
  <2>2. PICK q : q = [streams["api"] EXCEPT !.tail = l]
    OBVIOUS
  <2>3. q.next = streams["api"].next /\ q.tail = l /\ q.pending = streams["api"].pending /\ q.file = streams["api"].file
    BY <1>3, <2>2 DEF StreamStates
  <2>4. streams' = [streams EXCEPT !["api"] = q]
    BY <1>1, <1>2, <1>3, <1>5, <1>11, <2>1, <2>2 DEF Submit
  <2> QED
    BY <1>3, <2>1, <2>3, <2>4
<1>14. /\ exchange[x].at = "gateway" /\ e.sequence = exchange[x].sequence
       /\ pipeline # <<>> /\ x = Head(pipeline) /\ pipeline' = Tail(pipeline)
  BY <1>1, <1>2, <1>9, <1>12
<1>15. effects' = effects \/ (effects' = Append(effects, x) /\ x \in ToSet(e.effects))
  BY <1>4, <1>10, <1>12
<1>16. HomeNext(x) = "api"
  BY <1>2 DEF HomeNext
<1>17. \A t \in Planes \ {"api"} : streams'[t].tail = streams[t].tail /\ streams'[t].next = streams[t].next
  BY <1>13
<1>18. e.outcome = exchange'[x].outcome
  BY <1>6, <1>9, <1>12
<1> QED
  BY <1>3, <1>6, <1>8, <1>12, <1>13, <1>14, <1>15, <1>16, <1>17, <1>18, SubmitKeeps

LEMMA GatewayThrowsKeeps ==
  ASSUME ExposureBase, Quiet => QuietInv, Quiet', GatewayThrows PROVE QuietInv'
<1> USE DEF ExposureBase
<1>1. /\ pipeline # <<>> /\ pipeline' = Tail(pipeline) /\ Fails(Head(pipeline))
      /\ streams' = [streams EXCEPT !["api"].tail = Append(@, FailedEvent(Head(pipeline)))]
      /\ UNCHANGED <<effects, sinkFaults, port>>
  BY DEF GatewayThrows, Submit
<1>2. PICK x \in Exchanges : x = Head(pipeline) /\ PlaneOf[x] = "api" /\ 1 \in DOMAIN pipeline /\ x = pipeline[1]
  BY <1>1, PipelineKeeps
<1>3. /\ exchange[x] \in ExchangeStates /\ streams \in [Planes -> StreamStates] /\ "api" \in Planes
  BY <1>2 DEF ExposureType, Planes
<1>4. /\ \A y \in Exchanges \ {x} : exchange'[y] = exchange[y]
      /\ exchange'[x].at = "recording" /\ exchange'[x].told = "failed" /\ exchange'[x].outcome = "failed"
      /\ exchange'[x].sequence = exchange[x].sequence
  BY <1>1, <1>2, FailsIs
<1>5. Quiet
  <2>1. sinkFaults' = sinkFaults
    BY <1>1
  <2>2. \A y \in Exchanges : PlaneOf[y] = "doc" /\ exchange[y].outcome = "refused" => exchange'[y].outcome = "refused"
    BY <1>2, <1>4
  <2> QED
    BY <2>1, <2>2, QuietWas
<1>6. QuietInv /\ ExposureType
  BY <1>5
<1>7. exchange[x].at = "gateway"
  BY <1>2, <1>6 DEF QuietInv, GatewayFits
<1>8. PICK e : e = FailedEvent(x)
  OBVIOUS
<1>9. /\ e \in ExchangeRecords /\ e.of = x /\ e.outcome = "failed" /\ e.sequence = exchange[x].sequence
  <2>1. e \in ExchangeRecords
    BY <1>6, <1>8, FailedIs
  <2> QED
    BY <1>8, <2>1 DEF FailedEvent, ExchangeEvent
<1>10. /\ \A t \in Planes \ {"api"} : streams'[t] = streams[t]
       /\ streams'["api"].next = streams["api"].next /\ streams'["api"].tail = Append(streams["api"].tail, e)
       /\ \A t \in Planes : streams'[t].pending = streams[t].pending /\ streams'[t].file = streams[t].file
  <2>1. PICK l : l = Append(streams["api"].tail, e)
    OBVIOUS
  <2>2. PICK q : q = [streams["api"] EXCEPT !.tail = l]
    OBVIOUS
  <2>3. q.next = streams["api"].next /\ q.tail = l /\ q.pending = streams["api"].pending /\ q.file = streams["api"].file
    BY <1>3, <2>2 DEF StreamStates
  <2>4. streams' = [streams EXCEPT !["api"] = q]
    BY <1>1, <1>2, <1>3, <1>8, <2>1, <2>2
  <2> QED
    BY <1>3, <2>1, <2>3, <2>4
<1>11. /\ exchange[x].at = "gateway" /\ e.sequence = exchange[x].sequence
       /\ pipeline # <<>> /\ x = Head(pipeline) /\ pipeline' = Tail(pipeline) /\ effects' = effects
  BY <1>1, <1>2, <1>7, <1>9
<1>12. HomeNext(x) = "api"
  BY <1>4 DEF HomeNext
<1>13. \A t \in Planes \ {"api"} : streams'[t].tail = streams[t].tail /\ streams'[t].next = streams[t].next
  BY <1>10
<1> QED
  BY <1>3, <1>4, <1>6, <1>9, <1>10, <1>11, <1>12, <1>13, SubmitKeeps

LEMMA DisconnectKeeps ==
  ASSUME ExposureBase, Quiet => QuietInv, Quiet', NEW x \in Exchanges, Disconnect(x) PROVE QuietInv'
<1> USE DEF ExposureBase
<1>1. /\ exchange[x] \in ExchangeStates /\ exchange \in [Exchanges -> ExchangeStates]
      /\ streams \in [Planes -> StreamStates] /\ "api" \in Planes
  BY DEF ExposureType, Planes
<1>2. PICK n \in Nat : n = streams["api"].next
  BY <1>1 DEF StreamStates
<1>3. PICK e : e = ExchangeEvent(x, n, "failed", <<>>)
  OBVIOUS
<1>4. e \in ExchangeRecords /\ e.of = x /\ e.outcome = "failed" /\ e.sequence = n
  BY <1>2, <1>3, EmptySeq DEF ExchangeEvent, ExchangeRecords, Outcomes
<1>5. /\ exchange[x].at = "upload"
      /\ exchange' = [exchange EXCEPT ![x].at = "leaving", ![x].told = "gone",
                         ![x].outcome = "failed", ![x].sequence = n]
      /\ streams' = [streams EXCEPT !["api"].next = @ + 1, !["api"].tail = Append(@, e)]
      /\ UNCHANGED <<admission, pipeline, effects, sinkFaults, failures, port>>
  BY <1>2, <1>3 DEF Disconnect
<1>6. /\ exchange'[x].at = "leaving" /\ exchange'[x].told = "gone" /\ exchange'[x].outcome = "failed"
      /\ \A y \in Exchanges \ {x} : exchange'[y] = exchange[y]
  <2>1. PICK r : r = [exchange[x] EXCEPT !.at = "leaving", !.told = "gone", !.outcome = "failed", !.sequence = n]
    OBVIOUS
  <2>2. r.at = "leaving" /\ r.told = "gone" /\ r.outcome = "failed"
    BY <1>1, <2>1 DEF ExchangeStates
  <2>3. exchange' = [exchange EXCEPT ![x] = r]
    BY <1>1, <1>5, <2>1
  <2> QED
    BY <1>1, <2>2, <2>3
<1>7. Quiet
  <2>1. sinkFaults' = sinkFaults /\ exchange[x].outcome = "none"
    BY <1>5 DEF SlotsFit
  <2>2. \A y \in Exchanges : PlaneOf[y] = "doc" /\ exchange[y].outcome = "refused" => exchange'[y].outcome = "refused"
    BY <1>6, <2>1
  <2> QED
    BY <2>1, <2>2, QuietWas
<1>8. QuietInv /\ ExposureType
  BY <1>7
<1>9. /\ \A t \in Planes \ {"api"} : streams'[t] = streams[t]
      /\ streams'["api"].next = n + 1 /\ streams'["api"].tail = Append(streams["api"].tail, e)
      /\ \A t \in Planes : streams'[t].pending = streams[t].pending /\ streams'[t].file = streams[t].file
  <2>1. PICK l : l = Append(streams["api"].tail, e)
    OBVIOUS
  <2>2. PICK q : q = [streams["api"] EXCEPT !.next = n + 1, !.tail = l]
    OBVIOUS
  <2>3. q.next = n + 1 /\ q.tail = l /\ q.pending = streams["api"].pending /\ q.file = streams["api"].file
    BY <1>1, <2>2 DEF StreamStates
  <2>4. streams' = [streams EXCEPT !["api"] = q]
    BY <1>1, <1>2, <1>5, <2>1, <2>2
  <2> QED
    BY <1>1, <2>1, <2>3, <2>4
<1>10. /\ exchange[x].at = "upload" /\ e.sequence = streams["api"].next
       /\ streams'["api"].next = streams["api"].next + 1 /\ pipeline' = pipeline /\ effects' = effects
  BY <1>2, <1>4, <1>5, <1>9
<1>11. HomeNext(x) = "api"
  BY <1>6 DEF HomeNext
<1>12. \A t \in Planes \ {"api"} : streams'[t].tail = streams[t].tail /\ streams'[t].next = streams[t].next
  BY <1>9
<1> QED
  BY <1>1, <1>4, <1>6, <1>8, <1>9, <1>10, <1>11, <1>12, SubmitKeeps

LEMMA ExposureInitHolds == ASSUME ExposureInit PROVE ExposureInv /\ ExposureType
<1>1. /\ exchange = [x \in Exchanges |-> NewExchange]
      /\ admission = [total |-> 0, inFlight |-> 0, window |-> 0]
      /\ pipeline = <<>> /\ effects = <<>> /\ sinkFaults = 0
      /\ streams = [s \in Planes |-> [next |-> 1, tail |-> <<>>, pending |-> {}, file |-> <<>>]]
  BY DEF ExposureInit, Planes
<1>2. \A x \in Exchanges : /\ exchange[x] \in ExchangeStates /\ exchange[x].at = "new" /\ ~exchange[x].slot
                           /\ exchange[x].told = "none" /\ exchange[x].outcome = "none"
  BY <1>1 DEF NewExchange, ExchangeStates, Outcomes
<1>3. <<>> \in Seq(ExchangeRecords) /\ <<>> \in Seq(Exchanges) /\ Len(<<>>) = 0 /\ DOMAIN <<>> = {}
  OBVIOUS
<1>4. ToSet(<<>>) = {}
  BY <1>3 DEF ToSet
<1>5. \A s \in Planes : /\ streams[s].next = 1 /\ streams[s].tail = <<>> /\ streams[s].pending = {}
                        /\ streams[s].file = <<>>
  BY <1>1
<1>6. ExposureType
  <2>1. [next |-> 1, tail |-> <<>>, pending |-> {}, file |-> <<>>] \in StreamStates
    BY <1>3 DEF StreamStates
  <2>2. streams \in [Planes -> StreamStates]
    BY <1>1, <2>1
  <2>3. \A s \in Planes : IsFiniteSet(streams[s].pending)
    BY <1>5, FS_EmptySet
  <2>4. exchange \in [Exchanges -> ExchangeStates]
    BY <1>1, <1>2
  <2> QED
    BY <1>1, <1>3, <2>2, <2>3, <2>4 DEF ExposureType
<1>7. SlotsFit
  <2>1. Holders = {}
    BY <1>2 DEF Holders
  <2>2. Cardinality(Holders) = 0
    BY <2>1, FS_EmptySet
  <2> QED
    BY <1>1, <1>2, <2>2, ExposureAssumption DEF SlotsFit
<1>8. FilesInOrder
  BY <1>3, <1>5 DEF FilesInOrder
<1>9. PipelineFits
  BY <1>1, <1>3 DEF PipelineFits
<1>10. QuietInv
  <2>1. \A s \in Planes : RecordsOf(s) = {}
    BY <1>4, <1>5 DEF RecordsOf
  <2>2. \A s \in Planes : TailFits(s)
    BY <1>3, <1>5 DEF TailFits
  <2>3. \A s \in Planes : PendingWaits(s)
    BY <1>5 DEF PendingWaits
  <2>4. \A s \in Planes : Covered(s)
    BY <1>3, <1>5 DEF Covered
  <2>5. GatewayFits
    BY <1>1, <1>2, <1>3 DEF GatewayFits
  <2>6. EffectsFit
    BY <1>1, <1>4, <2>1 DEF EffectsFit
  <2>7. ToldFits
    BY <1>2 DEF ToldFits
  <2>8. DoneFits
    BY <1>2 DEF DoneFits
  <2> QED
    BY <2>2, <2>3, <2>4, <2>5, <2>6, <2>7, <2>8 DEF QuietInv
<1> QED
  BY <1>6, <1>7, <1>8, <1>9, <1>10 DEF ExposureInv

LEMMA ExposureStep ==
  ASSUME ExposureInv, ExposureType, [ExposureNext]_exposureVars
  PROVE  ExposureInv' /\ ExposureType'
<1>1. ExposureBase /\ (Quiet => QuietInv)
  BY DEF ExposureInv, ExposureBase
<1>2. ASSUME ExposureBase', Quiet' => QuietInv' PROVE ExposureInv' /\ ExposureType'
  BY <1>2 DEF ExposureInv, ExposureBase
<1>3. ASSUME NEW x \in Exchanges, Arrive(x) PROVE ExposureInv' /\ ExposureType'
  <2>1. ExposureBase'
    BY <1>1, <1>3, ArriveBase
  <2>2. ASSUME Quiet' PROVE QuietInv'
    <3>1. PICK r : r = [exchange[x] EXCEPT !.at = "upload", !.over = Cardinality(Connected) >= MaxConcurrent]
      OBVIOUS
    <3>2. exchange[x] \in ExchangeStates /\ exchange \in [Exchanges -> ExchangeStates]
      BY <1>1 DEF ExposureBase, ExposureType
    <3>3. r.at = "upload" /\ r.outcome = exchange[x].outcome
      BY <3>1, <3>2 DEF ExchangeStates
    <3>4. exchange' = [exchange EXCEPT ![x] = r] /\ exchange[x].at = "new"
          /\ UNCHANGED <<streams, pipeline, effects, sinkFaults>>
      BY <1>3, <3>1, <3>2 DEF Arrive
    <3>5. \A y \in Exchanges : \/ exchange'[y] = exchange[y]
                               \/ /\ exchange[y].at = "new" /\ exchange'[y].at = "upload"
                                  /\ exchange'[y].outcome = exchange[y].outcome
      BY <3>2, <3>3, <3>4
    <3>6. Quiet
      BY <2>2, <3>4, <3>5, QuietWas
    <3>7. UNCHANGED <<streams, pipeline, effects>> /\ ExposureType /\ QuietInv
      BY <1>1, <3>4, <3>6 DEF ExposureBase
    <3> QED
      BY <3>5, <3>7, StillKeeps
  <2> QED
    BY <1>2, <2>1, <2>2
<1>4. ASSUME NEW x \in Exchanges, NEW tooLarge \in BOOLEAN, BodyEnds(x, tooLarge)
      PROVE  ExposureInv' /\ ExposureType'
  BY <1>1, <1>2, <1>4, BodyEndsBase, BodyEndsKeeps
<1>5. ASSUME NEW x \in Exchanges, Disconnect(x) PROVE ExposureInv' /\ ExposureType'
  BY <1>1, <1>2, <1>5, DisconnectBase, DisconnectKeeps
<1>6. ASSUME GatewayAnswers PROVE ExposureInv' /\ ExposureType'
  BY <1>1, <1>2, <1>6, GatewayAnswersBase, GatewayAnswersKeeps
<1>7. ASSUME GatewayThrows PROVE ExposureInv' /\ ExposureType'
  BY <1>1, <1>2, <1>7, GatewayThrowsBase, GatewayThrowsKeeps
<1>8. ASSUME NEW s \in Planes, CompleteRecord(s) PROVE ExposureInv' /\ ExposureType'
  <2>1. ExposureBase'
    BY <1>1, <1>8, CompleteBase
  <2>2. ASSUME Quiet' PROVE QuietInv'
    <3>1. sinkFaults' = sinkFaults
      BY <1>8 DEF CompleteRecord
    <3>2. exchange \in [Exchanges -> ExchangeStates]
      BY <1>1 DEF ExposureBase, ExposureType
    <3>3. \A y \in Exchanges : exchange'[y].outcome = exchange[y].outcome
      <4> DEFINE x == Head(streams[s].tail).of
      <4>1. \/ exchange' = [exchange EXCEPT ![x].at = "done", ![x].slot = FALSE, ![x].told = exchange[x].outcome]
            \/ exchange' = [exchange EXCEPT ![x].at = "done"]
        BY <1>8 DEF CompleteRecord
      <4> HIDE DEF x
      <4>2. \A y \in Exchanges : exchange[y] \in ExchangeStates
        BY <3>2
      <4>3. ASSUME NEW y \in Exchanges PROVE exchange'[y].outcome = exchange[y].outcome
        <5>1. CASE y # x
          BY <3>2, <4>1, <5>1
        <5>2. CASE y = x
          <6>1. CASE exchange' = [exchange EXCEPT ![x].at = "done"]
            BY <3>2, <4>2, <5>2, <6>1 DEF ExchangeStates
          <6>2. CASE exchange' = [exchange EXCEPT ![x].at = "done", ![x].slot = FALSE, ![x].told = exchange[x].outcome]
            BY <3>2, <4>2, <5>2, <6>2 DEF ExchangeStates
          <6> QED
            BY <4>1, <6>1, <6>2
        <5> QED
          BY <5>1, <5>2
      <4> QED
        BY <4>3
    <3>4. Quiet
      BY <2>2, <3>1, <3>3, QuietWas
    <3> QED
      BY <1>1, <1>8, <3>4, CompleteKeeps
  <2> QED
    BY <1>2, <2>1, <2>2
<1>9. ASSUME NEW s \in Planes, AppendThrows(s) PROVE ExposureInv' /\ ExposureType'
  <2>1. ExposureBase' /\ sinkFaults' > 0
    BY <1>1, <1>9, AppendThrowsBase
  <2>2. ~Quiet'
    BY <2>1 DEF Quiet
  <2> QED
    BY <1>2, <2>1, <2>2
<1>10. ASSUME SecondPasses \/ ClosePort \/ UNCHANGED exposureVars PROVE ExposureInv' /\ ExposureType'
  <2>1. ExposureBase'
    BY <1>1, <1>10, RestBase
  <2>2. ASSUME Quiet' PROVE QuietInv'
    <3>1. UNCHANGED <<exchange, streams, pipeline, effects, sinkFaults>>
      BY <1>10 DEF SecondPasses, ClosePort, exposureVars
    <3>2. Quiet
      BY <2>2, <3>1, QuietWas
    <3>3. ExposureType /\ QuietInv /\ UNCHANGED <<streams, pipeline, effects>>
      BY <1>1, <3>1, <3>2 DEF ExposureBase
    <3>4. \A y \in Exchanges : exchange'[y] = exchange[y]
      BY <3>1
    <3> QED
      BY <3>3, <3>4, StillKeeps
  <2> QED
    BY <1>2, <2>1, <2>2
<1> QED
  BY <1>3, <1>4, <1>5, <1>6, <1>7, <1>8, <1>9, <1>10 DEF ExposureNext, ExposureSteps, Planes

\* At rest the streams wait for nobody: what was reserved is in the files.
LEMMA ExposureSound == ASSUME ExposureInv, ExposureType PROVE ExchangesAreTraced
<1>1. SlotsFit /\ FilesInOrder /\ (Quiet => QuietInv)
  BY DEF ExposureInv
<1>2. streams \in [Planes -> StreamStates]
  BY DEF ExposureType
<1>3. \A t \in Planes : streams[t].tail \in Seq(ExchangeRecords) /\ streams[t].next \in Nat
        /\ streams[t].file \in Seq(ExchangeRecords) /\ streams[t].pending \in SUBSET ExchangeRecords
  BY <1>2 DEF StreamStates
<1> HIDE DEF ExchangeRecords
<1>4. \A d \in ExchangeRecords : d.of \in Exchanges /\ d.sequence \in Nat
  BY DEF ExchangeRecords
<1>5. ASSUME Quiet, NEW x \in Exchanges, exchange[x].at = "done"
      PROVE  \E e \in RecordsOf(HomeOf(x)) :
               /\ e.of = x /\ e.outcome = exchange[x].outcome
               /\ exchange[x].told \in {e.outcome, "gone"}
               /\ x \in ToSet(effects) => x \in ToSet(e.effects)
  <2>1. DoneFits /\ EffectsFit
    BY <1>1, <1>5 DEF QuietInv
  <2>2. HomeOf(x) \in Planes
    BY ExposureAssumption DEF HomeOf, Planes
  <2>3. PICK e \in RecordsOf(HomeOf(x)) :
          e.of = x /\ e.outcome = exchange[x].outcome /\ exchange[x].told \in {e.outcome, "gone"}
    BY <1>5, <2>1 DEF DoneFits
  <2>4. x \in ToSet(effects) => x \in ToSet(e.effects)
    BY <2>1, <2>2, <2>3 DEF EffectsFit
  <2> QED
    BY <2>3, <2>4
<1>6. ASSUME Quiet, \A x \in Exchanges : exchange[x].at \in {"new", "upload", "done"}, NEW s \in Planes
      PROVE  streams[s].pending = {}
  <2>1. TailFits(s) /\ PendingWaits(s) /\ Covered(s)
    BY <1>1, <1>6 DEF QuietInv
  <2>2. DOMAIN streams[s].tail = {}
    <3>1. ASSUME NEW i \in DOMAIN streams[s].tail PROVE FALSE
      <4>1. streams[s].tail[i].of \in Exchanges
        BY <1>3, <1>4
      <4> QED
        BY <1>6, <2>1, <4>1 DEF TailFits
    <3> QED
      BY <3>1
  <2>3. ASSUME NEW e \in streams[s].pending PROVE FALSE
    <3>1. PICK q : q = Len(streams[s].file) + 1
      OBVIOUS
    <3>2. e.sequence \in Nat /\ Len(streams[s].file) \in Nat
      BY <1>3, <1>4, LenProperties
    <3>3. q < e.sequence /\ e.sequence < streams[s].next
      BY <2>1, <3>1 DEF PendingWaits
    <3>4. q \in Len(streams[s].file) + 1 .. streams[s].next - 1
      BY <1>3, <3>1, <3>2, <3>3
    <3>5. \E d \in streams[s].pending : d.sequence = q
      BY <1>6, <2>1, <2>2, <3>4 DEF Covered
    <3> QED
      BY <2>1, <3>1, <3>2, <3>5 DEF PendingWaits
  <2> QED
    BY <2>3
<1>7. Quiet <=> sinkFaults = 0 /\ ~DocumentRefused
  BY DEF Quiet
<1>8. \A s \in {"api", "doc"} : \A i \in DOMAIN streams[s].file : streams[s].file[i].sequence = i
  BY <1>1 DEF FilesInOrder, Planes
<1>9. /\ admission.inFlight = Cardinality({x \in Exchanges : exchange[x].slot})
      /\ admission.inFlight <= MaxConcurrent
      /\ \A x \in Exchanges : exchange[x].slot => exchange[x].told = "none"
  BY <1>1 DEF SlotsFit, Holders
<1> QED
  BY <1>5, <1>6, <1>7, <1>8, <1>9 DEF ExchangesAreTraced, HomeOf, Planes

\* The traces of the exposure: in every behaviour of its specification, the
\* files hold the records of a run in order and once, and while no append fails
\* and no request for a document is refused, nothing stays in a buffer at rest,
\* a socket got what its record says, and a committed effect is in the record
\* of its exchange; a slot is held by one exchange each (exposure.ts, trace.ts).
THEOREM ExchangesTraced == ExposureSpec => []ExchangesAreTraced
<1>1. ExposureInit => ExposureInv /\ ExposureType
  BY ExposureInitHolds
<1>2. ExposureInv /\ ExposureType /\ [ExposureNext]_exposureVars => (ExposureInv /\ ExposureType)'
  BY ExposureStep
<1>3. ExposureInv /\ ExposureType => ExchangesAreTraced
  BY ExposureSound
<1> QED
  BY <1>1, <1>2, <1>3, PTL DEF ExposureSpec
===============================================================================
