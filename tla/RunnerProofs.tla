---------------------------- MODULE RunnerProofs ----------------------------
(* Machine-checked proofs about the runner: the process of an agent, for     *)
(* every script and every order of exits, signals, timers and output; a      *)
(* batch of trials, for every number of trials and lanes, every order of     *)
(* launches, ends, throws and ledger failures; and one trial.                *)
EXTENDS Trial, Batch, FiniteSetTheorems, SequenceTheorems, WellFoundedInduction,
        TLAPS

(***************************************************************************)
(* The inductive invariant of an agent's process                           *)
(***************************************************************************)

\* Which processes there are in each phase.
ProcessesFit ==
  /\ closure.phase = "idle" => leader = "none"
  /\ leader = "none" => member = "none" /\ stray = "none"
  /\ leader # "none" => closure.pid
  /\ closure.phase \in {"settled", "resolved"} => leader # "running" /\ member # "alive"
  /\ leader = "running" => closure.phase = "running"

\* Which timers may be armed in each phase.
TimersFit ==
  /\ closure.phase = "idle" => timers = {} /\ ~closure.listening
  /\ closure.phase = "running" => "drain" \notin timers
  /\ closure.phase = "settled" => timers \subseteq {"drain"} /\ ~closure.listening
  /\ closure.phase = "resolved" => timers = {} /\ ~closure.listening
  /\ "grace" \in timers => closure.stopping

\* A stop has one reason, and a forced end is a stop that was not graceful.
ReasonsFit ==
  /\ ~(closure.timedOut /\ closure.cancelled)
  /\ closure.stopping => closure.timedOut \/ closure.cancelled
  /\ ~closure.stopping => ~closure.timedOut /\ ~closure.cancelled
  /\ closure.forced => closure.stopping /\ ~closure.graceful

\* Until the promise resolves no line is lost between the writers, the pipe and
\* the callbacks; afterwards only a drain that ran out has lost some.
LinesFit ==
  /\ closure.phase = "idle" => heard = << >> /\ spoken = << >>
  /\ closure.phase # "resolved" => heard \o pipe = spoken
  /\ closure.phase = "resolved" /\ closure.drained => heard = spoken

\* The promise resolved with what the closure knew.
ResultFits ==
  /\ result # NoResult => closure.phase = "resolved"
  /\ result # NoResult =>
       /\ ~(result.timedOut /\ result.cancelled)
       /\ result.forced => (result.timedOut \/ result.cancelled) /\ ~result.graceful

ProcessInv ==
  /\ ProcessTypeOK /\ ProcessesFit /\ TimersFit /\ ReasonsFit /\ LinesFit
  /\ ResultFits

-----------------------------------------------------------------------------
LEMMA ProcessInitially == ProcessInit => ProcessInv
<1> SUFFICES ASSUME ProcessInit PROVE ProcessInv
  OBVIOUS
<1> USE DEF ProcessInit, Fresh
<1>7. closure \in Closures
  BY DEF Closures, Phases
<1>8. pipe \in Seq(Kinds) /\ heard \in Seq(Kinds) /\ spoken \in Seq(Kinds)
  OBVIOUS
<1>9. /\ leader \in {"none", "running"} \cup Ends /\ aborted \in BOOLEAN
      /\ member \in {"none", "alive", "dead"} /\ stray \in {"none", "alive", "dead"}
      /\ timers \subseteq {"limit", "grace", "drain"} /\ result \in {NoResult} \cup Results
  OBVIOUS
<1>1. ProcessTypeOK
  BY <1>7, <1>8, <1>9 DEF ProcessTypeOK
<1>2. ProcessesFit /\ TimersFit
  BY DEF ProcessesFit, TimersFit
<1>5. ReasonsFit
  BY DEF ReasonsFit
<1>6. ResultFits
  BY DEF ResultFits
<1>3. << >> \o << >> = << >>
  BY ConcatEmptySeq, << >> \in Seq(Kinds)
<1>4. LinesFit
  BY <1>3 DEF LinesFit
<1> QED
  BY <1>1, <1>2, <1>4, <1>5, <1>6 DEF ProcessInv

\* What stop() leaves of the closure.
LEMMA StopKeeps ==
  ASSUME NEW c \in Closures, NEW reason \in {"timeout", "abort"}
  PROVE  /\ Stop(c, reason) \in Closures
         /\ Stop(c, reason).phase = c.phase
         /\ Stop(c, reason).pid = c.pid
         /\ Stop(c, reason).listening = c.listening
         /\ Stop(c, reason).graceful = c.graceful
         /\ Stop(c, reason).forced = c.forced
         /\ Stop(c, reason).drained = c.drained
         /\ ~Stoppable(c) => Stop(c, reason) = c
         /\ Stoppable(c) =>
              /\ Stop(c, reason).stopping
              /\ Stop(c, reason).timedOut <=> reason = "timeout"
              /\ Stop(c, reason).cancelled <=> reason = "abort"
<1>1. CASE Stoppable(c)
  BY <1>1 DEF Stop, Closures
<1>2. CASE ~Stoppable(c)
  BY <1>2 DEF Stop, Closures
<1> QED
  BY <1>1, <1>2

\* spawn() threw.
LEMMA KeepSpawnThrows == ASSUME ProcessInv, SpawnThrows PROVE ProcessInv'
<1> USE DEF ProcessInv, SpawnThrows
<1>1. closure \in Closures /\ closure' \in Closures
  BY DEF ProcessTypeOK, Closures, Phases
<1>2. /\ closure'.phase = "resolved" /\ closure'.pid = closure.pid
      /\ closure'.listening = closure.listening
      /\ closure'.stopping = closure.stopping /\ closure'.timedOut = closure.timedOut
      /\ closure'.cancelled = closure.cancelled /\ closure'.forced = closure.forced
      /\ closure'.graceful = FALSE
  BY <1>1 DEF Closures
<1>6. result' \in Results
  BY DEF Results
<1>3. ProcessTypeOK'
  BY <1>1, <1>6 DEF ProcessTypeOK
<1>4. (ProcessesFit /\ TimersFit /\ ReasonsFit /\ ResultFits)'
  BY <1>2 DEF ProcessesFit, TimersFit, ReasonsFit, ResultFits, ProcessTypeOK
<1>5. LinesFit'
  BY <1>2 DEF LinesFit, ProcessTypeOK
<1> QED
  BY <1>3, <1>4, <1>5

\* A line that is read moves from the pipe to the callbacks.
LEMMA ReadMoves ==
  ASSUME NEW s \in Seq(Kinds), NEW t \in Seq(Kinds), t # << >>
  PROVE  /\ Append(s, Head(t)) \in Seq(Kinds) /\ Tail(t) \in Seq(Kinds)
         /\ Append(s, Head(t)) \o Tail(t) = s \o t
<1>1. Head(t) \in Kinds /\ Tail(t) \in Seq(Kinds)
  BY HeadTailProperties
<1>2. <<Head(t)>> \in Seq(Kinds)
  BY <1>1
<1>3. t = <<Head(t)>> \o Tail(t)
  BY <1>1, <1>2
<1>4. Append(s, Head(t)) = s \o <<Head(t)>>
  BY <1>1, AppendIsConcat
<1>5. (s \o <<Head(t)>>) \o Tail(t) = s \o (<<Head(t)>> \o Tail(t))
  BY <1>1, <1>2, ConcatAssociative
<1> QED
  BY <1>1, <1>3, <1>4, <1>5, AppendProperties

\* A line that is written lengthens the pipe and what was spoken.
LEMMA WriteLengthens ==
  ASSUME NEW s \in Seq(Kinds), NEW t \in Seq(Kinds), NEW k \in Kinds
  PROVE  s \o Append(t, k) = Append(s \o t, k)
<1>1. <<k>> \in Seq(Kinds) /\ s \o t \in Seq(Kinds)
  BY ConcatProperties
<1>2. Append(t, k) = t \o <<k>> /\ Append(s \o t, k) = (s \o t) \o <<k>>
  BY <1>1, AppendIsConcat
<1> QED
  BY <1>1, <1>2, ConcatAssociative

\* What holds of the closure, the timers, the lines and the result is kept by
\* whatever leaves them alone.
LEMMA Unmoved ==
  ASSUME ProcessInv,
         UNCHANGED <<pipe, heard, spoken, closure, timers, result>>,
         leader' \in {"none", "running"} \cup Ends,
         member' \in {"none", "alive", "dead"},
         stray' \in {"none", "alive", "dead"},
         aborted' \in BOOLEAN, ProcessesFit'
  PROVE  ProcessInv'
<1> USE DEF ProcessInv
<1>1. ProcessTypeOK'
  BY DEF ProcessTypeOK
<1>2. TimersFit'
  BY DEF TimersFit
<1>3. ReasonsFit'
  BY DEF ReasonsFit
<1>4. LinesFit'
  BY DEF LinesFit
<1>5. ResultFits'
  BY DEF ResultFits
<1> QED
  BY <1>1, <1>2, <1>3, <1>4, <1>5

-----------------------------------------------------------------------------
(***************************************************************************)
(* The steps of a process                                                  *)
(***************************************************************************)

\* spawn() returned a child, with or without a pid.
LEMMA KeepSpawn == ASSUME ProcessInv, Spawn PROVE ProcessInv'
<1> USE DEF ProcessInv
<1>1. PICK started \in BOOLEAN :
        LET opened == [closure EXCEPT !.phase = "running", !.pid = started,
                                      !.listening = ~aborted]
        IN  /\ leader' = IF started THEN "running" ELSE "none"
            /\ closure' = IF aborted THEN Stop(opened, "abort") ELSE opened
            /\ timers' = IF aborted THEN StopTimers(opened, {"limit"}) ELSE {"limit"}
  BY DEF Spawn
<1> DEFINE opened == [closure EXCEPT !.phase = "running", !.pid = started,
                                     !.listening = ~aborted]
<1>2. /\ closure \in Closures /\ closure.phase = "idle"
      /\ UNCHANGED <<member, stray, pipe, heard, spoken, aborted, result>>
  BY DEF ProcessTypeOK, Closures, Spawn
<1>3. /\ opened \in Closures /\ opened.phase = "running" /\ opened.pid = started
      /\ opened.stopping = closure.stopping /\ opened.timedOut = closure.timedOut
      /\ opened.cancelled = closure.cancelled /\ opened.forced = closure.forced
      /\ opened.graceful = closure.graceful
  BY <1>2 DEF ProcessTypeOK, Closures, Phases
<1>4. /\ leader' = IF started THEN "running" ELSE "none"
      /\ closure' = IF aborted THEN Stop(opened, "abort") ELSE opened
      /\ timers' = IF aborted THEN StopTimers(opened, {"limit"}) ELSE {"limit"}
  BY <1>1
<1> HIDE DEF opened
<1>5. /\ closure' \in Closures /\ closure'.phase = "running"
      /\ closure'.pid = started /\ closure'.forced = closure.forced
      /\ closure'.graceful = closure.graceful
      /\ ~(closure'.timedOut /\ closure'.cancelled)
      /\ closure'.stopping => closure'.timedOut \/ closure'.cancelled
      /\ ~closure'.stopping => ~closure'.timedOut /\ ~closure'.cancelled
      /\ closure.stopping => closure'.stopping
      /\ "grace" \in timers' => closure'.stopping
      /\ timers' \subseteq {"limit", "grace"}
  BY <1>3, <1>4, StopKeeps DEF ReasonsFit, StopTimers
<1>6. leader = "none" /\ member = "none" /\ stray = "none" /\ result = NoResult
  BY <1>2 DEF ProcessesFit, ResultFits
<1>7. ProcessTypeOK'
  BY <1>2, <1>4, <1>5, <1>6 DEF ProcessTypeOK
<1>8. (ProcessesFit /\ TimersFit /\ ReasonsFit /\ ResultFits /\ LinesFit)'
  BY <1>2, <1>4, <1>5, <1>6
  DEF ProcessesFit, TimersFit, ReasonsFit, ResultFits, LinesFit
<1> QED
  BY <1>7, <1>8

\* What the processes do by themselves.
LEMMA KeepProcesses == ASSUME ProcessInv, Processes PROVE ProcessInv'
<1> USE DEF ProcessInv
<1>a. /\ leader \in {"none", "running"} \cup Ends
      /\ member \in {"none", "alive", "dead"} /\ stray \in {"none", "alive", "dead"}
      /\ aborted \in BOOLEAN
  BY DEF ProcessTypeOK
<1>1. CASE Fork
  <2>1. ProcessesFit'
    BY <1>1 DEF Fork, ProcessesFit
  <2> QED
    BY <1>1, <1>a, <2>1, Unmoved DEF Fork
<1>2. CASE Exits
  <2>1. ProcessesFit'
    BY <1>2 DEF Exits, ProcessesFit, Ends
  <2> QED
    BY <1>2, <1>a, <2>1, Unmoved DEF Exits
<1>3. CASE DescendantExits
  <2>1. ProcessesFit'
    BY <1>3 DEF DescendantExits, ProcessesFit
  <2> QED
    BY <1>3, <1>a, <2>1, Unmoved DEF DescendantExits
<1>4. CASE Write
  <2>1. PICK k \in Kinds : pipe' = Append(pipe, k) /\ spoken' = Append(spoken, k)
    <3>1. Len(spoken) \in Nat /\ Len(spoken) + 1 \in 1 .. Len(Script)
      BY <1>4, ScriptAssumption DEF Write, ProcessTypeOK
    <3> QED
      BY <1>4, <3>1, ScriptAssumption DEF Write
  <2>2. /\ UNCHANGED <<leader, member, stray, heard, aborted, closure, timers, result>>
        /\ closure.phase # "resolved" /\ closure.phase # "idle"
    BY <1>4 DEF Write, Writers, ProcessesFit
  <2>3. heard \o Append(pipe, k) = Append(heard \o pipe, k)
    BY WriteLengthens DEF ProcessTypeOK
  <2>4. pipe' \in Seq(Kinds) /\ spoken' \in Seq(Kinds)
    BY <2>1, AppendProperties DEF ProcessTypeOK
  <2>5. ProcessTypeOK'
    BY <2>2, <2>4 DEF ProcessTypeOK
  <2>7. ProcessesFit' /\ TimersFit'
    BY <2>2 DEF ProcessesFit, TimersFit
  <2>8. ReasonsFit'
    BY <2>2 DEF ReasonsFit
  <2>9. ResultFits'
    BY <2>2 DEF ResultFits
  <2>6. LinesFit'
    BY <2>1, <2>2, <2>3 DEF LinesFit
  <2> QED
    BY <2>5, <2>6, <2>7, <2>8, <2>9
<1> QED
  BY <1>1, <1>2, <1>3, <1>4 DEF Processes, Leader

\* A 'data' event.
LEMMA KeepRead == ASSUME ProcessInv, Read PROVE ProcessInv'
<1> USE DEF ProcessInv
<1>1. /\ heard' = Append(heard, Head(pipe)) /\ pipe' = Tail(pipe)
      /\ UNCHANGED <<leader, member, stray, spoken, aborted, closure, timers, result>>
      /\ closure.phase \in {"running", "settled"} /\ pipe # << >>
  BY DEF Read
<1>2. heard' \in Seq(Kinds) /\ pipe' \in Seq(Kinds) /\ heard' \o pipe' = heard \o pipe
  BY <1>1, ReadMoves DEF ProcessTypeOK
<1>3. ProcessTypeOK'
  BY <1>1, <1>2 DEF ProcessTypeOK
<1>4. LinesFit'
  BY <1>1, <1>2 DEF LinesFit
<1>5. ProcessesFit' /\ TimersFit'
  BY <1>1 DEF ProcessesFit, TimersFit
<1>6. ReasonsFit'
  BY <1>1 DEF ReasonsFit
<1>7. ResultFits'
  BY <1>1 DEF ResultFits
<1> QED
  BY <1>3, <1>4, <1>5, <1>6, <1>7

\* A stop for either reason, as the abort listener and the limit timer call it.
LEMMA KeepStop ==
  ASSUME ProcessInv, NEW reason \in {"timeout", "abort"},
         closure' = Stop(closure, reason),
         timers' = StopTimers(closure, timers) \/
           timers' = StopTimers(closure, timers) \ {"limit"},
         aborted' \in BOOLEAN,
         UNCHANGED <<leader, member, stray, pipe, heard, spoken, result>>
  PROVE  ProcessInv'
<1> USE DEF ProcessInv
<1>1. closure \in Closures
  BY DEF ProcessTypeOK
<1>2. /\ closure' \in Closures /\ closure'.phase = closure.phase
      /\ closure'.pid = closure.pid /\ closure'.listening = closure.listening
      /\ closure'.forced = closure.forced /\ closure'.graceful = closure.graceful
      /\ closure'.drained = closure.drained
      /\ ~(closure'.timedOut /\ closure'.cancelled)
      /\ closure'.stopping => closure'.timedOut \/ closure'.cancelled
      /\ ~closure'.stopping => ~closure'.timedOut /\ ~closure'.cancelled
      /\ closure.stopping => closure'.stopping
      /\ Stoppable(closure) => closure'.stopping
  <2>1. CASE Stoppable(closure)
    BY <1>1, <2>1, StopKeeps DEF ReasonsFit
  <2>2. CASE ~Stoppable(closure)
    BY <1>1, <2>2, StopKeeps DEF ReasonsFit
  <2> QED
    BY <2>1, <2>2
<1>3. /\ timers' \subseteq timers \cup {"grace"}
      /\ "grace" \in timers' => "grace" \in timers \/ Stoppable(closure)
  BY DEF StopTimers
<1>4. ProcessTypeOK'
  BY <1>2, <1>3 DEF ProcessTypeOK
<1>5. (ProcessesFit /\ ReasonsFit /\ ResultFits /\ LinesFit)'
  BY <1>2 DEF ProcessesFit, ReasonsFit, ResultFits, LinesFit
<1>6. TimersFit'
  BY <1>1, <1>2, <1>3 DEF TimersFit, Stoppable, Closures, Phases
<1> QED
  BY <1>4, <1>5, <1>6

LEMMA KeepAbort == ASSUME ProcessInv, Abort PROVE ProcessInv'
<1>1. CASE closure.listening
  BY <1>1, KeepStop DEF Abort
<1>2. CASE ~closure.listening
  <2>1. ProcessesFit'
    BY <1>2 DEF Abort, ProcessInv, ProcessesFit
  <2> QED
    BY <1>2, <2>1, Unmoved DEF Abort, ProcessInv, ProcessTypeOK
<1> QED
  BY <1>1, <1>2

LEMMA KeepLimit == ASSUME ProcessInv, LimitFires PROVE ProcessInv'
  BY KeepStop DEF LimitFires, ProcessInv, ProcessTypeOK

\* The grace interval ran out.
LEMMA KeepGrace == ASSUME ProcessInv, GraceFires PROVE ProcessInv'
<1> USE DEF ProcessInv
<1>1. /\ "grace" \in timers /\ timers' = timers \ {"grace"}
      /\ closure' = [closure EXCEPT !.graceful = FALSE, !.forced = TRUE]
      /\ leader' = IF leader = "running" THEN "signal" ELSE leader
      /\ member' = IF member = "alive" THEN "dead" ELSE member
      /\ stray' \in IF stray = "alive" /\ leader = "running"
                    THEN {"alive", "dead"} ELSE {stray}
      /\ UNCHANGED <<pipe, heard, spoken, aborted, result>>
  BY DEF GraceFires, KillGroup, KillStrays
<1>2. closure \in Closures
  BY DEF ProcessTypeOK
<1>3. /\ closure' \in Closures /\ closure'.phase = closure.phase
      /\ closure'.pid = closure.pid /\ closure'.listening = closure.listening
      /\ closure'.stopping = closure.stopping /\ closure'.timedOut = closure.timedOut
      /\ closure'.cancelled = closure.cancelled /\ closure'.drained = closure.drained
      /\ closure'.forced /\ ~closure'.graceful
  BY <1>1, <1>2 DEF Closures
<1>4. closure.stopping /\ closure.phase = "running"
  BY <1>1, <1>2 DEF TimersFit, Closures, Phases
<1>7. /\ leader' \in {"none", "running"} \cup Ends
      /\ member' \in {"none", "alive", "dead"} /\ stray' \in {"none", "alive", "dead"}
  BY <1>1 DEF ProcessTypeOK, Ends
<1>5. ProcessTypeOK'
  BY <1>1, <1>3, <1>7 DEF ProcessTypeOK
<1>6. (ProcessesFit /\ TimersFit /\ ReasonsFit /\ ResultFits /\ LinesFit)'
  BY <1>1, <1>3, <1>4
  DEF ProcessesFit, TimersFit, ReasonsFit, ResultFits, LinesFit
<1> QED
  BY <1>5, <1>6

\* settle(), for an exit and for an error event.
LEMMA KeepSettle ==
  ASSUME ProcessInv, NEW failed \in BOOLEAN, Settle(failed), leader # "running"
  PROVE  ProcessInv'
<1> USE DEF ProcessInv
<1>1. /\ closure.phase = "running" /\ timers' = {"drain"}
      /\ closure' = [closure EXCEPT !.phase = "settled", !.listening = FALSE,
                       !.spawnError = failed,
                       !.graceful = closure.graceful /\ ~(failed /\ closure.stopping)]
      /\ UNCHANGED <<leader, stray, pipe, heard, spoken, aborted, result>>
      /\ IF closure.pid THEN member' = IF member = "alive" THEN "dead" ELSE member
                        ELSE member' = member
  BY DEF Settle, KillGroup
<1>2. closure \in Closures
  BY DEF ProcessTypeOK
<1>3. /\ closure' \in Closures /\ closure'.phase = "settled"
      /\ closure'.pid = closure.pid /\ closure'.listening = FALSE
      /\ closure'.stopping = closure.stopping /\ closure'.timedOut = closure.timedOut
      /\ closure'.cancelled = closure.cancelled /\ closure'.forced = closure.forced
      /\ closure'.drained = closure.drained
      /\ closure'.graceful => closure.graceful
  BY <1>1, <1>2, ZenonT(30) DEF Closures, Phases
<1>5. member' # "alive" /\ member' \in {"none", "alive", "dead"}
  <2>1. member \in {"none", "alive", "dead"} /\ leader \in {"none", "running"} \cup Ends
    BY DEF ProcessTypeOK
  <2> QED
    BY <1>1, <2>1 DEF ProcessesFit
<1>4. ProcessTypeOK'
  BY <1>1, <1>3, <1>5 DEF ProcessTypeOK
<1>6. (ProcessesFit /\ TimersFit /\ ReasonsFit /\ ResultFits /\ LinesFit)'
  BY <1>1, <1>3, <1>5
  DEF ProcessesFit, TimersFit, ReasonsFit, ResultFits, LinesFit
<1> QED
  BY <1>4, <1>6

\* The promise resolves, with its streams at their end or without.
LEMMA KeepResolve ==
  ASSUME ProcessInv, NEW drained \in BOOLEAN, Resolve(drained),
         closure.phase = "settled", drained => pipe = << >>
  PROVE  ProcessInv'
<1> USE DEF ProcessInv
<1>1. /\ closure' = [closure EXCEPT !.phase = "resolved", !.drained = drained]
      /\ timers' = {} /\ pipe' = << >>
      /\ UNCHANGED <<leader, member, stray, heard, spoken, aborted>>
      /\ result' = [resolved |-> TRUE, spawnError |-> closure.spawnError,
                    exit |-> IF closure.spawnError THEN "none" ELSE leader,
                    timedOut |-> closure.timedOut, cancelled |-> closure.cancelled,
                    graceful |-> closure.graceful /\ ~closure.spawnError,
                    forced |-> closure.forced]
  BY DEF Resolve
<1>2. closure \in Closures
  BY DEF ProcessTypeOK
<1>3. /\ closure' \in Closures /\ closure'.phase = "resolved"
      /\ closure'.pid = closure.pid /\ closure'.listening = closure.listening
      /\ closure'.stopping = closure.stopping /\ closure'.timedOut = closure.timedOut
      /\ closure'.cancelled = closure.cancelled /\ closure'.forced = closure.forced
      /\ closure'.graceful = closure.graceful /\ closure'.drained = drained
  BY <1>1, <1>2 DEF Closures, Phases
<1>4. leader \in {"none"} \cup Ends /\ member # "alive"
  BY DEF ProcessTypeOK, ProcessesFit
<1>5. result' \in Results
  BY <1>1, <1>2, <1>4 DEF Closures, Results
<1>6. ProcessTypeOK'
  BY <1>1, <1>3, <1>5 DEF ProcessTypeOK
<1>7. (ProcessesFit /\ TimersFit /\ ReasonsFit)'
  BY <1>1, <1>3, <1>4 DEF ProcessesFit, TimersFit, ReasonsFit
<1>8. ResultFits'
  BY <1>1, <1>2, <1>3 DEF ResultFits, ReasonsFit
<1>9. LinesFit'
  <2>1. heard \o << >> = heard
    BY ConcatEmptySeq DEF ProcessTypeOK
  <2> QED
    BY <1>1, <1>3, <2>1 DEF LinesFit
<1> QED
  BY <1>6, <1>7, <1>8, <1>9

-----------------------------------------------------------------------------
(***************************************************************************)
(* The theorems about a process                                            *)
(***************************************************************************)

\* Every step of the process, of the system and of the event loop keeps the
\* invariant.
THEOREM ProcessInvariant == ProcessSpec => []ProcessInv
<1>1. ProcessInv /\ [ProcessNext]_processVars => ProcessInv'
  <2> SUFFICES ASSUME ProcessInv, [ProcessNext]_processVars PROVE ProcessInv'
    OBVIOUS
  <2>1. CASE SpawnThrows \/ Spawn \/ Abort \/ Processes
    BY <2>1, KeepSpawnThrows, KeepSpawn, KeepAbort, KeepProcesses
  <2>2. CASE Read \/ LimitFires \/ GraceFires
    BY <2>2, KeepRead, KeepLimit, KeepGrace
  <2>3. CASE OnExit
    BY <2>3, KeepSettle DEF OnExit, Ends
  <2>4. CASE OnError
    BY <2>4, KeepSettle DEF OnError
  <2>5. CASE StreamsEnd
    BY <2>5, KeepResolve DEF StreamsEnd
  <2>6. CASE DrainFires
    BY <2>6, KeepResolve DEF DrainFires
  <2>7. CASE UNCHANGED processVars
    <3>1. ProcessesFit'
      BY <2>7 DEF processVars, ProcessInv, ProcessesFit
    <3> QED
      BY <2>7, <3>1, Unmoved DEF processVars, ProcessInv, ProcessTypeOK
  <2> QED
    BY <2>1, <2>2, <2>3, <2>4, <2>5, <2>6, <2>7
    DEF ProcessNext, Callbacks, Due
<1> QED
  BY ProcessInitially, <1>1, PTL DEF ProcessSpec

\* When the promise resolved neither the leader nor anything in its group is
\* alive, and from the moment it settled nothing is armed that could signal the
\* process id (process.ts settle).
THEOREM NothingSurvivesARun == ProcessSpec => []NothingSurvives
<1>1. ProcessInv => NothingSurvives
  BY DEF ProcessInv, ProcessesFit, TimersFit, NothingSurvives, GroupGone,
         NothingLeftArmed
<1> QED
  BY <1>1, ProcessInvariant, PTL

\* The result names one reason at most, a forced end had one, and a promise that
\* resolved because the streams ended delivered every line that was written.
THEOREM ResultIsAlwaysTrue == ProcessSpec => []ResultIsTrue
<1>1. ProcessInv => ResultIsTrue
  BY DEF ProcessInv, ResultFits, LinesFit, ResultIsTrue, OneReason, OutputComplete
<1> QED
  BY <1>1, ProcessInvariant, PTL

-----------------------------------------------------------------------------
(***************************************************************************)
(* The inductive invariant of a batch                                      *)
(***************************************************************************)

Events ==
  [kind : {"launched", "terminal", "not_started"}, trial : Trials,
   disposition : Dispositions \cup {"unknown"}, censor : CensorClasses \cup {"unknown"}]
Ledgers == [chain : Seq(Events), written : Seq(Events), failed : BOOLEAN]
Returned ==
  [disposition : Dispositions \ {"not_started"}, censor : CensorClasses,
   integrity : Integrity, evaluated : BOOLEAN]
Defects == {"none", "batch_defect", "ledger_write_failed"}
BatchStages == {"running", "joined", "recorded", "flushed", "completed"}
Settled == {"recorded", "flushed", "completed"}

BatchType ==
  /\ lane \in [Lanes -> 0 .. Left]
  /\ nextIndex \in 1 .. Count + 1
  /\ launched = 1 .. nextIndex - 1
  /\ control \subseteq Trials
  /\ outcomes \in [Trials -> Returned \cup {Unknown}]
  /\ stop \in BOOLEAN /\ defect \in Defects
  /\ assignments \in Ledgers
  /\ lfaults \in 0 .. LedgerFaults
  /\ step \in BatchStages

\* A lane runs a trial that was launched and has no outcome, and no two lanes
\* run the same one; once the lanes are joined none runs any.
LanesFit ==
  /\ \A l \in Lanes : lane[l] \in Trials =>
       lane[l] \in launched /\ outcomes[lane[l]] = Unknown
  /\ \A l, m \in Lanes : lane[l] \in Trials /\ lane[l] = lane[m] => l = m
  /\ step # "running" => \A l \in Lanes : lane[l] = Left

\* Only a launched trial has an outcome; one that no lane runs any more and has
\* none threw, and the batch remembers that.
OutcomesFit ==
  /\ \A i \in Trials : outcomes[i] # Unknown =>
       /\ i \in launched
       /\ outcomes[i].censor # "pre_control_nonparticipant" => i \in control
       /\ outcomes[i].disposition = "harness_aborted" => defect # "none"
  /\ \A i \in launched : outcomes[i] = Unknown =>
       /\ step \notin Settled
       /\ defect # "none" \/ \E l \in Lanes : lane[l] = i

Same(e, f) == e.kind = f.kind /\ e.trial = f.trial

\* What happened to a trial and belongs into the ledger.
Happened(kind, i) ==
  \/ kind = "launched" /\ i \in launched
  \/ kind = "terminal" /\ outcomes[i] # Unknown
  \/ kind = "not_started" /\ i \notin launched /\ step \in Settled

\* What a record of the assignment ledger says is so.
SaysSo(e) ==
  /\ Happened(e.kind, e.trial)
  /\ e.kind = "terminal" =>
       /\ e.disposition = outcomes[e.trial].disposition
       /\ e.censor = outcomes[e.trial].censor

Once(s) == \A m, n \in DOMAIN s : Same(s[m], s[n]) => m = n
Says(s, kind, i) == \E n \in DOMAIN s : s[n].kind = kind /\ s[n].trial = i

\* Nothing is recorded twice, everything recorded is so, and unless an append
\* failed everything that is so is recorded or still owed to the ledger.
LedgerFits ==
  /\ Once(assignments.written) /\ Once(assignments.chain)
  /\ \A m \in DOMAIN assignments.written, n \in DOMAIN assignments.chain :
       ~Same(assignments.written[m], assignments.chain[n])
  /\ \A n \in DOMAIN assignments.written : SaysSo(assignments.written[n])
  /\ \A n \in DOMAIN assignments.chain : SaysSo(assignments.chain[n])
  /\ ~assignments.failed =>
       \A kind, i : i \in Trials /\ Happened(kind, i) =>
         Says(assignments.written, kind, i) \/ Says(assignments.chain, kind, i)

\* The ledger was flushed, and what it lost surfaced; the cohort counts what
\* the batch holds.
EndFits ==
  /\ step \in {"flushed", "completed"} =>
       /\ assignments.chain = << >>
       /\ assignments.failed => defect = "ledger_write_failed"
  /\ cohort # Unknown => step = "completed" /\ cohort = CohortEvaluation

BatchInv == BatchType /\ LanesFit /\ OutcomesFit /\ LedgerFits /\ EndFits

-----------------------------------------------------------------------------
\* An outcome is told from none, and from the outcomes of the batch itself.
LEMMA OutcomesAreKnown ==
  /\ \A o \in Returned : o # Unknown /\ o.disposition # "unknown"
                           /\ o.disposition \in Dispositions
                           /\ o.censor \in CensorClasses
  /\ \A o \in TrialOutcomes : o \in Returned /\ o.disposition # "harness_aborted"
<1>1. \A o \in Returned : o.disposition \in Dispositions /\ o.disposition # "unknown"
                            /\ o.censor \in CensorClasses
  BY DEF Returned, Dispositions
<1>2. Unknown.disposition = "unknown"
  BY DEF Unknown
<1>3. \A o \in TrialOutcomes : o \in Returned /\ o.disposition # "harness_aborted"
  BY OutcomesAssumption DEF Returned, Accepted
<1> QED
  BY <1>1, <1>2, <1>3

\* Lanes and trials are numbers, told from the marks 0 and Left.
LEMMA LanesAre ==
  /\ Left \in Nat /\ Left # 0 /\ Left \notin Trials /\ 0 \notin Trials
  /\ Trials \subseteq Nat /\ 0 \in 0 .. Left /\ Left \in 0 .. Left
  /\ Trials \subseteq 0 .. Left
  BY BatchAssumption DEF Left, Trials

\* Records that join the ones owed to the ledger, when nothing says the same.
LEMMA OwedMore ==
  ASSUME assignments \in Ledgers, LedgerFits, NEW t \in Seq(Events), Once(t),
         \A k \in DOMAIN t :
           /\ \A n \in DOMAIN assignments.written : ~Same(assignments.written[n], t[k])
           /\ \A n \in DOMAIN assignments.chain : ~Same(assignments.chain[n], t[k]),
         assignments' = [assignments EXCEPT !.chain = @ \o t]
  PROVE  /\ assignments' \in Ledgers
         /\ assignments'.written = assignments.written
         /\ assignments'.failed = assignments.failed
         /\ Once(assignments'.chain)
         /\ \A m \in DOMAIN assignments.written, n \in DOMAIN assignments'.chain :
              ~Same(assignments.written[m], assignments'.chain[n])
         /\ \A n \in DOMAIN assignments'.chain :
              \/ \E m \in DOMAIN assignments.chain :
                   assignments'.chain[n] = assignments.chain[m]
              \/ \E k \in DOMAIN t : assignments'.chain[n] = t[k]
         /\ \A kind, i : Says(assignments.chain, kind, i) \/ Says(t, kind, i) =>
              Says(assignments'.chain, kind, i)
<1> DEFINE c == assignments.chain
           d == c \o t
<1>1. c \in Seq(Events) /\ assignments'.chain = d /\ assignments' \in Ledgers
      /\ assignments'.written = assignments.written
      /\ assignments'.failed = assignments.failed
  <2>1. c \in Seq(Events)
    BY DEF Ledgers
  <2>2. d \in Seq(Events)
    BY <2>1, ConcatProperties
  <2> HIDE DEF d
  <2>3. assignments' = [assignments EXCEPT !.chain = d]
    BY DEF d
  <2> QED
    BY <2>1, <2>2, <2>3 DEF Ledgers
<1>2. /\ Len(c) \in Nat /\ Len(t) \in Nat /\ DOMAIN c = 1 .. Len(c)
      /\ DOMAIN t = 1 .. Len(t) /\ DOMAIN d = 1 .. Len(c) + Len(t)
  BY <1>1, ConcatProperties, LenProperties
<1>3. \A n \in 1 .. Len(c) : d[n] = c[n] /\ n \in DOMAIN d
  BY <1>1, <1>2, ConcatProperties
<1>4. \A n \in 1 .. Len(t) : d[Len(c) + n] = t[n] /\ Len(c) + n \in DOMAIN d
  <2> SUFFICES ASSUME NEW n \in 1 .. Len(t)
               PROVE  d[Len(c) + n] = t[n] /\ Len(c) + n \in DOMAIN d
    OBVIOUS
  <2>1. Len(c) + n \in 1 .. Len(c) + Len(t) /\ ~(Len(c) + n <= Len(c))
        /\ (Len(c) + n) - Len(c) = n
    BY <1>2
  <2> QED
    BY <1>1, <1>2, <2>1, ConcatProperties
<1>5. \A n \in DOMAIN d : \/ n \in 1 .. Len(c)
                          \/ \E k \in 1 .. Len(t) : n = Len(c) + k
  <2> SUFFICES ASSUME NEW n \in DOMAIN d, n \notin 1 .. Len(c)
               PROVE  \E k \in 1 .. Len(t) : n = Len(c) + k
    OBVIOUS
  <2>1. n - Len(c) \in 1 .. Len(t) /\ n = Len(c) + (n - Len(c))
    BY <1>2
  <2> QED
    BY <2>1
<1> HIDE DEF d, c
<1>6. Once(d)
  <2>0. \A m, n \in 1 .. Len(c) : Same(c[m], c[n]) => m = n
    BY <1>2 DEF LedgerFits, Once, c
  <2>1. \A m, n \in 1 .. Len(t) : Same(t[m], t[n]) => m = n
    BY <1>2 DEF Once
  <2>2. \A m \in 1 .. Len(c), n \in 1 .. Len(t) :
          ~Same(c[m], t[n]) /\ ~Same(t[n], c[m])
    BY <1>2 DEF Same, c
  <2>3. ASSUME NEW m \in DOMAIN d, NEW n \in DOMAIN d, Same(d[m], d[n])
        PROVE  m = n
    <3>1. CASE m \in 1 .. Len(c) /\ n \in 1 .. Len(c)
      BY <2>0, <2>3, <3>1, <1>3
    <3>2. CASE m \in 1 .. Len(c) /\ n \notin 1 .. Len(c)
      BY <2>2, <2>3, <3>2, <1>3, <1>4, <1>5
    <3>3. CASE m \notin 1 .. Len(c) /\ n \in 1 .. Len(c)
      BY <2>2, <2>3, <3>3, <1>3, <1>4, <1>5
    <3>4. CASE m \notin 1 .. Len(c) /\ n \notin 1 .. Len(c)
      BY <2>1, <2>3, <3>4, <1>4, <1>5
    <3> QED
      BY <3>1, <3>2, <3>3, <3>4
  <2> QED
    BY <2>3 DEF Once
<1>7. \A m \in DOMAIN assignments.written, n \in DOMAIN d :
        ~Same(assignments.written[m], d[n])
  <2>1. \A m \in DOMAIN assignments.written, n \in 1 .. Len(c) :
          ~Same(assignments.written[m], c[n])
    BY <1>2 DEF LedgerFits, c
  <2>2. \A m \in DOMAIN assignments.written, n \in 1 .. Len(t) :
          ~Same(assignments.written[m], t[n])
    BY <1>2
  <2> QED
    BY <2>1, <2>2, <1>3, <1>4, <1>5
<1>8. \A n \in DOMAIN d : \/ \E m \in DOMAIN c : d[n] = c[m]
                          \/ \E k \in DOMAIN t : d[n] = t[k]
  BY <1>2, <1>3, <1>4, <1>5
<1>9. \A kind, i : Says(c, kind, i) \/ Says(t, kind, i) => Says(d, kind, i)
  BY <1>2, <1>3, <1>4 DEF Says
<1> QED
  BY <1>1, <1>6, <1>7, <1>8, <1>9 DEF c

\* Records of what just happened, and of that alone, keep the ledger true.
LEMMA LedgerGrows ==
  ASSUME assignments \in Ledgers, LedgerFits, NEW t \in Seq(Events), Once(t),
         \A k \in DOMAIN t : ~Happened(t[k].kind, t[k].trial),
         assignments' = [assignments EXCEPT !.chain = @ \o t],
         \A f : SaysSo(f) => SaysSo(f)',
         \A k \in DOMAIN t : SaysSo(t[k])',
         \A kind, i : i \in Trials /\ Happened(kind, i)' =>
           Happened(kind, i) \/ Says(t, kind, i)
  PROVE  assignments' \in Ledgers /\ LedgerFits'
<1>1. \A k \in DOMAIN t :
        /\ \A n \in DOMAIN assignments.written : ~Same(assignments.written[n], t[k])
        /\ \A n \in DOMAIN assignments.chain : ~Same(assignments.chain[n], t[k])
  BY DEF LedgerFits, SaysSo, Same
<1>2. /\ assignments' \in Ledgers
      /\ assignments'.written = assignments.written
      /\ assignments'.failed = assignments.failed
      /\ Once(assignments'.chain)
      /\ \A m \in DOMAIN assignments.written, n \in DOMAIN assignments'.chain :
           ~Same(assignments.written[m], assignments'.chain[n])
      /\ \A n \in DOMAIN assignments'.chain :
           \/ \E m \in DOMAIN assignments.chain :
                assignments'.chain[n] = assignments.chain[m]
           \/ \E k \in DOMAIN t : assignments'.chain[n] = t[k]
      /\ \A kind, i : Says(assignments.chain, kind, i) \/ Says(t, kind, i) =>
           Says(assignments'.chain, kind, i)
  BY <1>1, OwedMore
<1>3. (\A n \in DOMAIN assignments.written : SaysSo(assignments.written[n]))'
  <2> SUFFICES ASSUME NEW n \in (DOMAIN assignments.written)'
               PROVE  SaysSo(assignments.written[n])'
    OBVIOUS
  <2> PICK f : f = assignments.written[n]
    OBVIOUS
  <2>1. SaysSo(f) /\ f = (assignments.written[n])'
    BY <1>2 DEF LedgerFits
  <2>2. SaysSo(f)'
    BY <2>1
  <2> QED
    BY <2>1, <2>2 DEF SaysSo, Happened
<1>4. (\A n \in DOMAIN assignments.chain : SaysSo(assignments.chain[n]))'
  <2> SUFFICES ASSUME NEW n \in (DOMAIN assignments.chain)'
               PROVE  SaysSo(assignments.chain[n])'
    OBVIOUS
  <2> PICK f : f = (assignments.chain[n])'
    OBVIOUS
  <2>1. CASE \E m \in DOMAIN assignments.chain : f = assignments.chain[m]
    <3>1. SaysSo(f)
      BY <2>1 DEF LedgerFits
    <3>2. SaysSo(f)'
      BY <3>1
    <3> QED
      BY <3>2 DEF SaysSo, Happened
  <2>2. CASE \E k \in DOMAIN t : f = t[k]
    <3>1. SaysSo(f)'
      BY <2>2
    <3> QED
      BY <3>1 DEF SaysSo, Happened
  <2> QED
    BY <1>2, <2>1, <2>2
<1>5. (~assignments.failed =>
        \A kind, i : i \in Trials /\ Happened(kind, i) =>
          Says(assignments.written, kind, i) \/ Says(assignments.chain, kind, i))'
  <2> SUFFICES ASSUME ~assignments'.failed, NEW kind, NEW i \in Trials,
                      Happened(kind, i)'
               PROVE  (Says(assignments.written, kind, i)
                         \/ Says(assignments.chain, kind, i))'
    OBVIOUS
  <2>1. Happened(kind, i) \/ Says(t, kind, i)
    OBVIOUS
  <2>2. Says(assignments.written, kind, i) \/ Says(assignments.chain, kind, i)
          \/ Says(t, kind, i)
    BY <1>2, <2>1 DEF LedgerFits
  <2> QED
    BY <1>2, <2>2
<1> QED
  BY <1>2, <1>3, <1>4, <1>5 DEF LedgerFits

\* One more record.
LEMMA LedgerGrowsByOne ==
  ASSUME assignments \in Ledgers, LedgerFits, NEW e \in Events,
         ~Happened(e.kind, e.trial), assignments' = Record(assignments, e),
         \A f : SaysSo(f) => SaysSo(f)', SaysSo(e)',
         \A kind, i : i \in Trials /\ Happened(kind, i)' =>
           Happened(kind, i) \/ (kind = e.kind /\ i = e.trial)
  PROVE  assignments' \in Ledgers /\ LedgerFits'
<1> PICK t : t = <<e>>
  OBVIOUS
<1>1. t \in Seq(Events) /\ DOMAIN t = {1} /\ t[1] = e
  OBVIOUS
<1>2. Append(assignments.chain, e) = assignments.chain \o t
  BY AppendIsConcat DEF Ledgers
<1>3. assignments' = [assignments EXCEPT !.chain = @ \o t]
  BY <1>2 DEF Record
<1>4. Once(t) /\ Says(t, e.kind, e.trial)
  BY <1>1 DEF Once, Says
<1>5. \A k \in DOMAIN t : ~Happened(t[k].kind, t[k].trial)
  BY <1>1
<1>6. \A k \in DOMAIN t : SaysSo(t[k])'
  <2> SUFFICES ASSUME NEW k \in DOMAIN t PROVE SaysSo(t[k])'
    OBVIOUS
  <2>1. t[k] = e
    BY <1>1
  <2> QED
    BY <2>1 DEF SaysSo, Happened
<1>7. \A kind, i : i \in Trials /\ Happened(kind, i)' =>
        Happened(kind, i) \/ Says(t, kind, i)
  BY <1>4
<1> QED
  BY <1>1, <1>3, <1>4, <1>5, <1>6, <1>7, LedgerGrows

\* A step that leaves the ledger, the launches and the outcomes alone.
LEMMA LedgerUnmoved ==
  ASSUME LedgerFits, UNCHANGED <<assignments, launched, outcomes>>,
         step' \in Settled <=> step \in Settled
  PROVE  LedgerFits'
<1>1. \A e : SaysSo(e) => SaysSo(e)'
  BY DEF SaysSo, Happened
<1>2. \A kind, i : Happened(kind, i)' => Happened(kind, i)
  BY DEF Happened
<1>3. assignments' = assignments
  OBVIOUS
<1>4. (\A n \in DOMAIN assignments.written : SaysSo(assignments.written[n]))'
  BY DEF LedgerFits, SaysSo, Happened
<1>5. (\A n \in DOMAIN assignments.chain : SaysSo(assignments.chain[n]))'
  BY DEF LedgerFits, SaysSo, Happened
<1> QED
  BY <1>2, <1>3, <1>4, <1>5 DEF LedgerFits

-----------------------------------------------------------------------------
(***************************************************************************)
(* The steps of a batch                                                    *)
(***************************************************************************)
LEMMA BatchInitially == BatchInit => BatchInv
<1> SUFFICES ASSUME BatchInit PROVE BatchInv
  OBVIOUS
<1>1. BatchType
  <2>1. << >> \in Seq(Events) /\ [l \in Lanes |-> 0] \in [Lanes -> 0 .. Left]
    BY LanesAre
  <2>2. [chain |-> << >>, written |-> << >>, failed |-> FALSE] \in Ledgers
    BY <2>1 DEF Ledgers
  <2>3. 1 .. 1 - 1 = {}
    OBVIOUS
  <2>4. outcomes \in [Trials -> Returned \cup {Unknown}]
    BY DEF BatchInit
  <2>5. nextIndex \in 1 .. Count + 1 /\ lfaults \in 0 .. LedgerFaults
    BY BatchAssumption DEF BatchInit
  <2>6. step \in BatchStages /\ defect \in Defects /\ stop \in BOOLEAN
    BY DEF BatchInit, BatchStages, Defects
  <2> QED
    BY <2>1, <2>2, <2>3, <2>4, <2>5, <2>6 DEF BatchInit, BatchType
<1>2. LanesFit /\ OutcomesFit
  BY LanesAre DEF BatchInit, LanesFit, OutcomesFit
<1>3. LedgerFits /\ EndFits
  BY DEF BatchInit, LedgerFits, EndFits, Once, Settled, Happened
<1> QED
  BY <1>1, <1>2, <1>3 DEF BatchInv

LEMMA KeepLaunch ==
  ASSUME BatchInv, NEW l \in Lanes, Launch(l) PROVE BatchInv'
<1> USE DEF BatchInv
<1>1. /\ lane[l] = 0 /\ defect = "none" /\ ~stop /\ nextIndex \in Trials
      /\ lane' = [lane EXCEPT ![l] = nextIndex]
      /\ nextIndex' = nextIndex + 1
      /\ launched' = launched \cup {nextIndex}
      /\ UNCHANGED <<outcomes, control, stop, defect, lfaults, step, cohort>>
  BY BatchAssumption DEF Launch, Halted, BatchType, Trials
<1>2. step = "running" /\ nextIndex \notin launched /\ launched' = 1 .. nextIndex' - 1
      /\ outcomes[nextIndex] = Unknown /\ nextIndex' \in 1 .. Count + 1
  <2>1. nextIndex \notin launched /\ launched' = 1 .. nextIndex' - 1
        /\ nextIndex' \in 1 .. Count + 1
    BY <1>1, BatchAssumption DEF BatchType, Trials
  <2> QED
    BY <2>1, <1>1, LanesAre DEF LanesFit, OutcomesFit
<1> PICK i : i = nextIndex
  OBVIOUS
<1> PICK e : e = Event("launched", i, "unknown", "unknown")
  OBVIOUS
<1>3. e \in Events /\ e.kind = "launched" /\ e.trial = i
  BY <1>1 DEF Event, Events
<1>4. assignments' \in Ledgers /\ LedgerFits'
  <2>1. assignments' = Record(assignments, e) /\ assignments \in Ledgers
    BY DEF Launch, BatchType
  <2>2. ~Happened(e.kind, e.trial)
    BY <1>2, <1>3 DEF Happened
  <2>3. \A f : SaysSo(f) => SaysSo(f)'
    BY <1>1, <1>2 DEF SaysSo, Happened, Settled
  <2>4. SaysSo(e)'
    BY <1>1, <1>3 DEF SaysSo, Happened
  <2>5. \A kind, j : j \in Trials /\ Happened(kind, j)' =>
          Happened(kind, j) \/ (kind = e.kind /\ j = e.trial)
    BY <1>1, <1>3 DEF Happened
  <2> QED
    BY <1>3, <2>1, <2>2, <2>3, <2>4, <2>5, LedgerGrowsByOne
<1>7. BatchType'
  BY <1>1, <1>2, <1>4, LanesAre DEF BatchType
<1>8. LanesFit'
  BY <1>1, <1>2, LanesAre DEF BatchType, LanesFit
<1>9. OutcomesFit'
  <2>1. \A k \in launched' : outcomes'[k] = Unknown =>
          step' \notin Settled /\ \E m \in Lanes : lane'[m] = k
    <3> SUFFICES ASSUME NEW k \in launched', outcomes[k] = Unknown
                 PROVE  step' \notin Settled /\ \E m \in Lanes : lane'[m] = k
      BY <1>1
    <3>1. CASE k = nextIndex
      BY <3>1, <1>1, <1>2 DEF BatchType, Settled
    <3>2. CASE k # nextIndex
      <4>1. k \in launched
        BY <3>2, <1>1
      <4>2. PICK m \in Lanes : lane[m] = k
        BY <4>1, <1>1 DEF OutcomesFit
      <4>3. m # l /\ lane'[m] = k
        BY <4>1, <4>2, <1>1, LanesAre DEF BatchType
      <4> QED
        BY <4>3, <1>1, <1>2 DEF Settled
    <3> QED
      BY <3>1, <3>2
  <2> QED
    BY <2>1, <1>1 DEF OutcomesFit
<1>11. EndFits'
  BY <1>1, <1>2 DEF EndFits
<1> QED
  BY <1>4, <1>7, <1>8, <1>9, <1>11

\* An append that succeeds moves the record owed longest to the ledger; one
\* that fails drops it, and that is remembered.
LEMMA KeepAppend == ASSUME BatchInv, AppendEvent PROVE BatchInv'
<1> USE DEF BatchInv
<1> PICK c : c = assignments.chain
  OBVIOUS
<1> PICK w : w = assignments.written
  OBVIOUS
<1>1. /\ c # << >> /\ assignments \in Ledgers
      /\ UNCHANGED <<lane, nextIndex, launched, outcomes, control, stop, defect, step,
                     cohort>>
      /\ lfaults' \in 0 .. LedgerFaults
  BY BatchAssumption DEF AppendEvent, BatchType
<1>2. c \in Seq(Events) /\ w \in Seq(Events)
  BY <1>1 DEF Ledgers
<1>3. /\ Head(c) = c[1] /\ Head(c) \in Events /\ Tail(c) \in Seq(Events)
      /\ Len(c) \in Nat /\ Len(c) > 0 /\ DOMAIN c = 1 .. Len(c)
      /\ DOMAIN Tail(c) = 1 .. Len(c) - 1
      /\ \A n \in 1 .. Len(c) - 1 : Tail(c)[n] = c[n + 1] /\ n + 1 \in DOMAIN c
  BY <1>1, <1>2, HeadTailProperties, LenProperties, EmptySeq
<1> PICK h : h = Head(c)
  OBVIOUS
<1> PICK r : r = Tail(c)
  OBVIOUS
<1>4. /\ Once(r) /\ \A n \in DOMAIN r : ~Same(h, r[n]) /\ SaysSo(r[n])
      /\ SaysSo(h)
  <2>1. \A m, n \in DOMAIN c : Same(c[m], c[n]) => m = n
    BY DEF LedgerFits, Once
  <2>a. \A n \in DOMAIN r : n \in Nat /\ r[n] = c[n + 1] /\ n + 1 \in DOMAIN c
    BY <1>3
  <2>b. ASSUME NEW m \in DOMAIN r, NEW n \in DOMAIN r, Same(r[m], r[n]) PROVE m = n
    <3>1. m + 1 = n + 1
      BY <2>1, <2>a, <2>b
    <3> QED
      BY <2>a, <3>1
  <2>2. Once(r)
    BY <2>b DEF Once
  <2>3. \A n \in DOMAIN c : SaysSo(c[n])
    BY DEF LedgerFits
  <2>4. 1 \in DOMAIN c /\ SaysSo(h)
    BY <1>3, <2>3
  <2>5. \A n \in DOMAIN r : SaysSo(r[n])
    BY <1>3, <2>3
  <2>6. \A n \in DOMAIN r : ~Same(h, r[n])
    BY <1>3, <2>1, <2>4
  <2> QED
    BY <2>2, <2>4, <2>5, <2>6
<1>5. \A m \in DOMAIN w : /\ ~Same(w[m], h) /\ SaysSo(w[m])
                          /\ \A n \in DOMAIN r : ~Same(w[m], r[n])
  <2>1. \A m \in DOMAIN w : SaysSo(w[m]) /\ \A n \in DOMAIN c : ~Same(w[m], c[n])
    BY DEF LedgerFits
  <2>2. 1 \in DOMAIN c /\ h = c[1]
    BY <1>3
  <2>3. \A n \in DOMAIN r : \E k \in DOMAIN c : r[n] = c[k]
    BY <1>3
  <2> QED
    BY <2>1, <2>2, <2>3
<1>6. Once(w)
  BY DEF LedgerFits
<1>7. \A kind, i : Says(c, kind, i) =>
        (h.kind = kind /\ h.trial = i) \/ Says(r, kind, i)
  <2> SUFFICES ASSUME NEW kind, NEW i, NEW n \in DOMAIN c, c[n].kind = kind,
                      c[n].trial = i
               PROVE  (h.kind = kind /\ h.trial = i) \/ Says(r, kind, i)
    BY DEF Says
  <2>1. CASE n = 1
    BY <1>3, <2>1
  <2>2. CASE n # 1
    <3>1. n - 1 \in 1 .. Len(c) - 1 /\ (n - 1) + 1 = n
      BY <1>3, <2>2
    <3> QED
      BY <1>3, <3>1 DEF Says
  <2> QED
    BY <2>1, <2>2
<1>8. /\ \A f : SaysSo(f) => SaysSo(f)'
      /\ \A kind, i : Happened(kind, i)' => Happened(kind, i)
  BY <1>1 DEF SaysSo, Happened
<1>9. CASE assignments' = [assignments EXCEPT !.chain = Tail(@),
                             !.written = Append(@, Head(assignments.chain))]
  <2> PICK v : v = Append(w, h)
    OBVIOUS
  <2>1. /\ v \in Seq(Events) /\ Len(w) \in Nat /\ DOMAIN w = 1 .. Len(w)
        /\ DOMAIN v = 1 .. Len(w) + 1
        /\ \A n \in DOMAIN w : v[n] = w[n] /\ n \in DOMAIN v
        /\ v[Len(w) + 1] = h /\ Len(w) + 1 \in DOMAIN v
        /\ \A n \in DOMAIN v : n \in DOMAIN w \/ n = Len(w) + 1
    BY <1>2, <1>3, AppendProperties, LenProperties
  <2>2. /\ assignments' \in Ledgers /\ assignments'.chain = r
        /\ assignments'.written = v /\ assignments'.failed = assignments.failed
    BY <1>1, <1>3, <1>9, <2>1 DEF Ledgers
  <2>3. \A n \in DOMAIN v : (n \in DOMAIN w /\ v[n] = w[n]) \/ v[n] = h
    BY <2>1
  <2>4. Once(v)
    <3>1. \A m, n \in DOMAIN w : Same(w[m], w[n]) => m = n
      BY <1>6 DEF Once
    <3>2. \A m \in DOMAIN w : ~Same(w[m], h) /\ ~Same(h, w[m])
      BY <1>5 DEF Same
    <3>3. ASSUME NEW m \in DOMAIN v, NEW n \in DOMAIN v, Same(v[m], v[n])
          PROVE  m = n
      <4>1. CASE m \in DOMAIN w /\ n \in DOMAIN w
        BY <2>1, <3>1, <3>3, <4>1
      <4>2. CASE m \in DOMAIN w /\ n = Len(w) + 1
        BY <2>1, <3>2, <3>3, <4>2
      <4>3. CASE m = Len(w) + 1 /\ n \in DOMAIN w
        BY <2>1, <3>2, <3>3, <4>3
      <4> QED
        BY <2>1, <4>1, <4>2, <4>3
    <3> QED
      BY <3>3 DEF Once
  <2>5. \A m \in DOMAIN v, n \in DOMAIN r : ~Same(v[m], r[n])
    BY <1>4, <1>5, <2>3
  <2>6. \A n \in DOMAIN v : SaysSo(v[n])'
    <3> SUFFICES ASSUME NEW n \in DOMAIN v PROVE SaysSo(v[n])'
      OBVIOUS
    <3> PICK f : f = v[n]
      OBVIOUS
    <3>1. SaysSo(f)
      BY <1>4, <1>5, <2>3
    <3>2. SaysSo(f)'
      BY <1>8, <3>1
    <3> QED
      BY <3>2 DEF SaysSo, Happened
  <2>7. \A n \in DOMAIN r : SaysSo(r[n])'
    BY <1>4, <1>1 DEF SaysSo, Happened
  <2>8. (~assignments.failed =>
          \A kind, i : i \in Trials /\ Happened(kind, i) =>
            Says(assignments.written, kind, i) \/ Says(assignments.chain, kind, i))'
    <3> SUFFICES ASSUME ~assignments.failed, NEW kind, NEW i \in Trials,
                        Happened(kind, i)
                 PROVE  Says(v, kind, i) \/ Says(r, kind, i)
      BY <1>8, <2>2
    <3>1. Says(w, kind, i) \/ Says(c, kind, i)
      BY <1>1 DEF LedgerFits
    <3>2. Says(w, kind, i) => Says(v, kind, i)
      BY <2>1 DEF Says
    <3>3. h.kind = kind /\ h.trial = i => Says(v, kind, i)
      BY <2>1 DEF Says
    <3> QED
      BY <1>7, <3>1, <3>2, <3>3
  <2>a. /\ (\A n \in DOMAIN assignments.written : SaysSo(assignments.written[n]))'
        /\ (\A n \in DOMAIN assignments.chain : SaysSo(assignments.chain[n]))'
    BY <2>2, <2>6, <2>7 DEF SaysSo, Happened
  <2>9. LedgerFits'
    BY <1>4, <2>2, <2>4, <2>5, <2>a, <2>8 DEF LedgerFits
  <2>10. BatchType' /\ LanesFit' /\ OutcomesFit'
    BY <1>1, <2>2 DEF BatchType, LanesFit, OutcomesFit
  <2>11. EndFits'
    BY <1>1, <2>2 DEF EndFits, CohortEvaluation, CountOf, NotStarted
  <2> QED
    BY <2>9, <2>10, <2>11
<1>10. CASE assignments' = [assignments EXCEPT !.chain = Tail(@), !.failed = TRUE]
  <2>2. /\ assignments' \in Ledgers /\ assignments'.chain = r
        /\ assignments'.written = w /\ assignments'.failed
    BY <1>1, <1>3, <1>10 DEF Ledgers
  <2>6. \A n \in DOMAIN w : SaysSo(w[n])'
    BY <1>5, <1>1 DEF SaysSo, Happened
  <2>7. \A n \in DOMAIN r : SaysSo(r[n])'
    BY <1>4, <1>1 DEF SaysSo, Happened
  <2>a. /\ (\A n \in DOMAIN assignments.written : SaysSo(assignments.written[n]))'
        /\ (\A n \in DOMAIN assignments.chain : SaysSo(assignments.chain[n]))'
    BY <2>2, <2>6, <2>7 DEF SaysSo, Happened
  <2>9. LedgerFits'
    BY <1>4, <1>5, <1>6, <2>2, <2>a DEF LedgerFits
  <2>10. BatchType' /\ LanesFit' /\ OutcomesFit'
    BY <1>1, <2>2 DEF BatchType, LanesFit, OutcomesFit
  <2>11. EndFits'
    BY <1>1, <2>2 DEF EndFits, CohortEvaluation, CountOf, NotStarted
  <2> QED
    BY <2>9, <2>10, <2>11
<1> QED
  BY <1>9, <1>10 DEF AppendEvent

\* The signal of the operator.
LEMMA KeepInterrupt == ASSUME BatchInv, Interrupt PROVE BatchInv'
<1> USE DEF BatchInv
<1>1. /\ UNCHANGED <<lane, nextIndex, launched, outcomes, control, defect, assignments,
                     lfaults, step, cohort>>
      /\ stop' \in BOOLEAN
  BY DEF Interrupt
<1>2. LedgerFits'
  BY <1>1, LedgerUnmoved
<1>3. BatchType' /\ LanesFit' /\ OutcomesFit'
  BY <1>1 DEF BatchType, LanesFit, OutcomesFit
<1>4. EndFits'
  BY <1>1 DEF EndFits, CohortEvaluation, CountOf, NotStarted
<1> QED
  BY <1>2, <1>3, <1>4

\* A lane that finds nothing more to launch.
LEMMA KeepLeaveLane ==
  ASSUME BatchInv, NEW l \in Lanes, LeaveLane(l) PROVE BatchInv'
<1> USE DEF BatchInv
<1>1. /\ UNCHANGED <<nextIndex, launched, outcomes, control, stop, defect, assignments,
                     lfaults, step, cohort>>
      /\ lane' = [lane EXCEPT ![l] = Left] /\ lane[l] = 0
  BY DEF LeaveLane
<1>2. LedgerFits'
  BY <1>1, LedgerUnmoved
<1>3. lane \in [Lanes -> 0 .. Left] /\ lane' \in [Lanes -> 0 .. Left]
      /\ \A m \in Lanes : m # l => lane'[m] = lane[m]
      /\ lane'[l] = Left
  BY <1>1, LanesAre DEF BatchType
<1>4. BatchType'
  BY <1>1, <1>3 DEF BatchType
<1>5. LanesFit'
  BY <1>1, <1>3, LanesAre DEF LanesFit
<1>6. OutcomesFit'
  <2>1. \A i \in launched : i # 0
    BY <1>1 DEF BatchType
  <2>2. \A i \in launched : (\E m \in Lanes : lane[m] = i) => \E m \in Lanes : lane'[m] = i
    BY <1>1, <1>3, <2>1
  <2> QED
    BY <1>1, <2>2 DEF OutcomesFit
<1>7. EndFits'
  BY <1>1 DEF EndFits, CohortEvaluation, CountOf, NotStarted
<1> QED
  BY <1>2, <1>4, <1>5, <1>6, <1>7

\* The append of the participant's control arrives.
LEMMA KeepControl ==
  ASSUME BatchInv, NEW i \in Trials, ControlLands(i) PROVE BatchInv'
<1> USE DEF BatchInv
<1>1. /\ UNCHANGED <<lane, nextIndex, launched, outcomes, stop, defect, assignments,
                     lfaults, step, cohort>>
      /\ control' = control \cup {i}
  BY DEF ControlLands
<1>2. LedgerFits'
  BY <1>1, LedgerUnmoved
<1>3. BatchType' /\ LanesFit' /\ OutcomesFit'
  BY <1>1 DEF BatchType, LanesFit, OutcomesFit
<1>4. EndFits'
  BY <1>1 DEF EndFits, CohortEvaluation, CountOf, NotStarted
<1> QED
  BY <1>2, <1>3, <1>4

\* A trial returns its outcome.
LEMMA KeepReturns ==
  ASSUME BatchInv, NEW l \in Lanes, NEW o \in TrialOutcomes, TrialReturns(l, o)
  PROVE  BatchInv'
<1> USE DEF BatchInv
<1> PICK i : i = lane[l]
  OBVIOUS
<1>1. /\ i \in Trials /\ i \in launched /\ outcomes[i] = Unknown
      /\ o.censor # "pre_control_nonparticipant" => i \in control
      /\ outcomes' = [outcomes EXCEPT ![i] = o]
      /\ lane' = [lane EXCEPT ![l] = 0]
      /\ UNCHANGED <<nextIndex, launched, control, stop, defect, lfaults, step, cohort>>
  BY DEF TrialReturns, LanesFit
<1>2. /\ o \in Returned /\ o # Unknown /\ o.disposition # "harness_aborted"
      /\ o.disposition \in Dispositions /\ o.censor \in CensorClasses
  BY OutcomesAreKnown
<1>3. /\ outcomes' \in [Trials -> Returned \cup {Unknown}]
      /\ outcomes'[i] = o
      /\ \A j \in Trials : j # i => outcomes'[j] = outcomes[j]
  BY <1>1, <1>2 DEF BatchType
<1>4. /\ lane' \in [Lanes -> 0 .. Left] /\ lane'[l] = 0
      /\ \A m \in Lanes : m # l => lane'[m] = lane[m] /\ lane[m] # i
  BY <1>1, LanesAre DEF BatchType, LanesFit
<1>5. step = "running" /\ cohort = Unknown
  BY <1>1, LanesAre DEF LanesFit, EndFits
<1> PICK e : e = Event("terminal", i, o.disposition, o.censor)
  OBVIOUS
<1>6. /\ e \in Events /\ e.kind = "terminal" /\ e.trial = i
      /\ e.disposition = o.disposition /\ e.censor = o.censor
  BY <1>1, <1>2 DEF Event, Events
<1>7. assignments' \in Ledgers /\ LedgerFits'
  <2>1. assignments' = Record(assignments, e) /\ assignments \in Ledgers
    BY DEF TrialReturns, BatchType
  <2>2. ~Happened(e.kind, e.trial)
    BY <1>1, <1>6 DEF Happened
  <2>3. \A f : SaysSo(f) => SaysSo(f)'
    <3> SUFFICES ASSUME NEW f, SaysSo(f) PROVE SaysSo(f)'
      OBVIOUS
    <3>1. CASE f.kind = "terminal"
      <4>1. f.trial # i
        BY <3>1, <1>1 DEF SaysSo, Happened
      <4>2. outcomes'[f.trial] = outcomes[f.trial]
        BY <4>1, <1>1 DEF BatchType
      <4> QED
        BY <3>1, <4>2 DEF SaysSo, Happened
    <3>2. CASE f.kind # "terminal"
      BY <3>2, <1>1 DEF SaysSo, Happened
    <3> QED
      BY <3>1, <3>2
  <2>4. SaysSo(e)'
    BY <1>2, <1>3, <1>6 DEF SaysSo, Happened
  <2>5. \A kind, j : j \in Trials /\ Happened(kind, j)' =>
          Happened(kind, j) \/ (kind = e.kind /\ j = e.trial)
    BY <1>1, <1>3, <1>6 DEF Happened
  <2> QED
    BY <1>6, <2>1, <2>2, <2>3, <2>4, <2>5, LedgerGrowsByOne
<1>8. BatchType'
  BY <1>1, <1>3, <1>4, <1>7 DEF BatchType
<1>9. LanesFit'
  BY <1>1, <1>3, <1>4, <1>5, LanesAre DEF BatchType, LanesFit
<1>10. OutcomesFit'
  <2>1. \A j \in launched : j \in Trials /\ (j # i /\ (\E m \in Lanes : lane[m] = j) =>
                                  \E m \in Lanes : lane'[m] = j)
    BY <1>1, <1>4, BatchAssumption DEF BatchType, Trials
  <2> QED
    BY <1>1, <1>2, <1>3, <2>1 DEF OutcomesFit
<1>11. EndFits'
  BY <1>1, <1>5 DEF EndFits
<1> QED
  BY <1>7, <1>8, <1>9, <1>10, <1>11

\* A trial throws.
LEMMA KeepThrows ==
  ASSUME BatchInv, NEW l \in Lanes, TrialThrows(l) PROVE BatchInv'
<1> USE DEF BatchInv
<1>1. /\ lane[l] \in Trials /\ defect' = "batch_defect"
      /\ lane' = [lane EXCEPT ![l] = 0]
      /\ UNCHANGED <<nextIndex, launched, outcomes, control, stop, assignments, lfaults,
                     step, cohort>>
  BY DEF TrialThrows
<1>2. /\ lane' \in [Lanes -> 0 .. Left] /\ lane'[l] = 0
      /\ \A m \in Lanes : m # l => lane'[m] = lane[m]
  BY <1>1, LanesAre DEF BatchType
<1>3. step = "running" /\ cohort = Unknown
  BY <1>1, LanesAre DEF LanesFit, EndFits
<1>4. LedgerFits'
  BY <1>1, LedgerUnmoved
<1>5. BatchType'
  BY <1>1, <1>2 DEF BatchType, Defects
<1>6. LanesFit' /\ OutcomesFit' /\ EndFits'
  BY <1>1, <1>2, <1>3, LanesAre DEF LanesFit, OutcomesFit, EndFits
<1> QED
  BY <1>4, <1>5, <1>6

\* All lanes were left.
LEMMA KeepJoin == ASSUME BatchInv, Join PROVE BatchInv'
<1> USE DEF BatchInv
<1>1. /\ step = "running" /\ step' = "joined" /\ \A l \in Lanes : lane[l] = Left
      /\ UNCHANGED <<lane, nextIndex, launched, outcomes, control, stop, defect,
                     assignments, lfaults, cohort>>
  BY DEF Join
<1>2. step \notin Settled /\ step' \notin Settled /\ step' \in BatchStages
  BY <1>1 DEF Settled, BatchStages
<1>3. LedgerFits'
  BY <1>1, <1>2, LedgerUnmoved
<1>4. BatchType' /\ LanesFit'
  BY <1>1, <1>2 DEF BatchType, LanesFit
<1>5. OutcomesFit' /\ EndFits'
  BY <1>1, <1>2 DEF OutcomesFit, EndFits
<1> QED
  BY <1>3, <1>4, <1>5

-----------------------------------------------------------------------------
(***************************************************************************)
(* Rules in order                                                          *)
(***************************************************************************)

\* The first rule that applies decides.
LEMMA FirstRuleIs ==
  ASSUME NEW rules, NEW n \in Nat, DOMAIN rules = 1 .. n, NEW i \in 1 .. n,
         rules[i][1], \A j \in 1 .. i - 1 : ~rules[j][1]
  PROVE  FirstRule(rules) = rules[i][2]
<1> DEFINE First(k) == rules[k][1] /\ \A j \in 1 .. k - 1 : ~rules[j][1]
           c == CHOOSE k \in DOMAIN rules : First(k)
<1>1. i \in DOMAIN rules /\ First(i)
  OBVIOUS
<1>2. c \in DOMAIN rules /\ First(c)
  BY <1>1, Zenon
<1>3. c = i
  <2>1. c \in 1 .. n
    BY <1>2
  <2> HIDE DEF c
  <2>2. ~(c < i)
    BY <1>2, <2>1
  <2>3. ~(i < c)
    BY <1>2, <2>1
  <2> QED
    BY <2>1, <2>2, <2>3
<1>4. FirstRule(rules) = rules[c][2]
  BY DEF FirstRule
<1> QED
  BY <1>3, <1>4

LEMMA CensorClassIs ==
  ASSUME NEW disposition, NEW control_ \in BOOLEAN, NEW requirements
  PROVE  /\ classifyCensorClass(disposition, control_, requirements) \in CensorClasses
         /\ classifyCensorClass(disposition, control_, requirements)
              = "pre_control_nonparticipant" <=> ~control_
<1> DEFINE damaged == \E id \in DOMAIN requirements : requirements[id] # "ok"
           administrative == disposition \in {"operator_interrupted", "harness_aborted"}
           rules == << <<~control_, "pre_control_nonparticipant">>,
                       <<administrative, "administrative_censor">>,
                       <<damaged, "instrumentation_censor">>, <<TRUE, "none">> >>
<1>1. classifyCensorClass(disposition, control_, requirements) = FirstRule(rules)
  BY DEF classifyCensorClass
<1> HIDE DEF damaged, administrative
<1>a. /\ DOMAIN rules = 1 .. 4
      /\ rules[1][2] = "pre_control_nonparticipant"
      /\ rules[2][2] = "administrative_censor"
      /\ rules[3][2] = "instrumentation_censor"
      /\ rules[4][2] = "none"
  OBVIOUS
<1>b. /\ rules[1][1] <=> ~control_
      /\ rules[2][1] <=> administrative
      /\ rules[3][1] <=> damaged
      /\ rules[4][1]
  BY Zenon
<1> HIDE DEF rules
<1>3. \A j \in 1 .. 4 : j = 1 \/ j = 2 \/ j = 3 \/ j = 4
  OBVIOUS
<1>4. CASE ~control_
  <2>0. rules[1][1] /\ \A j \in 1 .. 1 - 1 : ~rules[j][1]
    BY <1>a, <1>b, <1>4
  <2>1. FirstRule(rules) = rules[1][2]
    BY <1>a, <1>b, <2>0, FirstRuleIs, 4 \in Nat, 1 \in 1 .. 4
  <2> QED
    BY <1>1, <1>a, <1>b, <1>4, <2>1 DEF CensorClasses
<1>5. CASE control_ /\ administrative
  <2>0. rules[2][1] /\ \A j \in 1 .. 2 - 1 : ~rules[j][1]
    BY <1>a, <1>b, <1>5
  <2>1. FirstRule(rules) = rules[2][2]
    BY <1>a, <1>b, <2>0, FirstRuleIs, 4 \in Nat, 2 \in 1 .. 4
  <2> QED
    BY <1>1, <1>a, <1>b, <1>5, <2>1 DEF CensorClasses
<1>6. CASE control_ /\ ~administrative /\ damaged
  <2>0. rules[3][1] /\ \A j \in 1 .. 3 - 1 : ~rules[j][1]
    BY <1>a, <1>b, <1>6
  <2>1. FirstRule(rules) = rules[3][2]
    BY <1>a, <1>b, <2>0, FirstRuleIs, 4 \in Nat, 3 \in 1 .. 4
  <2> QED
    BY <1>1, <1>a, <1>b, <1>6, <2>1 DEF CensorClasses
<1>7. CASE control_ /\ ~administrative /\ ~damaged
  <2>0. rules[4][1] /\ \A j \in 1 .. 4 - 1 : ~rules[j][1]
    BY <1>a, <1>b, <1>7
  <2>1. FirstRule(rules) = rules[4][2]
    BY <1>a, <1>b, <2>0, FirstRuleIs, 4 \in Nat, 4 \in 1 .. 4
  <2> QED
    BY <1>1, <1>a, <1>b, <1>7, <2>1 DEF CensorClasses
<1> QED
  BY <1>4, <1>5, <1>6, <1>7

LEMMA IntegrityIs ==
  ASSUME NEW requirements PROVE evidenceIntegrityOf(requirements) \in Integrity
<1> DEFINE statuses == {requirements[id] : id \in DOMAIN requirements}
           clean == statuses \subseteq {"ok"}
           corrupt == "corrupt" \in statuses
           rules == << <<clean, "intact">>, <<corrupt, "corrupt">>, <<TRUE, "missing">> >>
<1>1. evidenceIntegrityOf(requirements) = FirstRule(rules)
  BY DEF evidenceIntegrityOf
<1> HIDE DEF clean, corrupt
<1>2. /\ DOMAIN rules = 1 .. 3 /\ rules[1][2] = "intact"
      /\ rules[2][2] = "corrupt" /\ rules[3][2] = "missing"
  OBVIOUS
<1>3. (rules[1][1] <=> clean) /\ (rules[2][1] <=> corrupt) /\ rules[3][1]
  BY Zenon
<1> HIDE DEF rules
<1>4. \A j \in 1 .. 3 : j = 1 \/ j = 2 \/ j = 3
  OBVIOUS
<1>5. CASE clean
  <2>1. rules[1][1] /\ \A j \in 1 .. 1 - 1 : ~rules[j][1]
    BY <1>3, <1>5
  <2>2. FirstRule(rules) = rules[1][2]
    BY <1>2, <2>1, FirstRuleIs, 3 \in Nat, 1 \in 1 .. 3
  <2> QED
    BY <1>1, <1>2, <2>2 DEF Integrity
<1>6. CASE ~clean /\ corrupt
  <2>1. rules[2][1] /\ \A j \in 1 .. 2 - 1 : ~rules[j][1]
    BY <1>3, <1>6
  <2>2. FirstRule(rules) = rules[2][2]
    BY <1>2, <2>1, FirstRuleIs, 3 \in Nat, 2 \in 1 .. 3
  <2> QED
    BY <1>1, <1>2, <2>2 DEF Integrity
<1>7. CASE ~clean /\ ~corrupt
  <2>1. rules[3][1] /\ \A j \in 1 .. 3 - 1 : ~rules[j][1]
    BY <1>3, <1>7
  <2>2. FirstRule(rules) = rules[3][2]
    BY <1>2, <2>1, FirstRuleIs, 3 \in Nat, 3 \in 1 .. 3
  <2> QED
    BY <1>1, <1>2, <2>2 DEF Integrity
<1> QED
  BY <1>5, <1>6, <1>7

\* What the batch says of a trial that threw.
LEMMA RecoveredIs ==
  ASSUME NEW i \in Trials
  PROVE  /\ Recovered(i) \in Returned /\ Recovered(i).disposition = "harness_aborted"
         /\ Recovered(i).censor # "pre_control_nonparticipant" => i \in control
<1> DEFINE requirements == [id \in {"primary"} |-> "missing"]
           controlled == i \in control
           c == classifyCensorClass("harness_aborted", controlled, requirements)
           x == evidenceIntegrityOf(requirements)
<1>1. c \in CensorClasses /\ (c = "pre_control_nonparticipant" <=> ~controlled)
  <2>1. controlled \in BOOLEAN
    OBVIOUS
  <2> HIDE DEF controlled, requirements
  <2> QED
    BY <2>1, CensorClassIs
<1>2. x \in Integrity
  BY IntegrityIs
<1>3. Recovered(i) = Outcome("harness_aborted", c, x, FALSE)
  BY DEF Recovered
<1> HIDE DEF c, x
<1>4. "harness_aborted" \in Dispositions \ {"not_started"}
  BY DEF Dispositions
<1> QED
  BY <1>1, <1>2, <1>3, <1>4 DEF Outcome, Returned

-----------------------------------------------------------------------------
\* A nonempty set of natural numbers has a least one.
LEMMA LeastOfNaturals ==
  ASSUME NEW S \in SUBSET Nat, S # {}
  PROVE  \E m \in S : \A n \in S : m <= n
<1>1. \E m \in S : \A n \in S : <<n, m>> \notin OpToRel(<, Nat)
  BY WFMin, NatLessThanWellFounded, Zenon
<1>2. PICK m \in S : \A n \in S : <<n, m>> \notin OpToRel(<, Nat)
  BY <1>1
<1>3. ASSUME NEW n \in S PROVE m <= n
  <2>1. <<n, m>> \notin OpToRel(<, Nat)
    BY <1>2
  <2>2. ~(n < m)
    BY <2>1 DEF OpToRel
  <2> QED
    BY <2>2
<1> QED
  BY <1>3

\* The first launched trial without an outcome gets one.
LEMMA KeepRecover == ASSUME BatchInv, Recover PROVE BatchInv'
<1> USE DEF BatchInv
<1> DEFINE least == CHOOSE x \in Open : \A y \in Open : x <= y
<1>1. /\ step = "joined" /\ Open # {}
      /\ outcomes' = [outcomes EXCEPT ![least] = Recovered(least)]
      /\ assignments' = Record(assignments, Event("terminal", least,
                                 Recovered(least).disposition, Recovered(least).censor))
      /\ UNCHANGED <<lane, nextIndex, launched, control, stop, defect, lfaults, step,
                     cohort>>
  BY DEF Recover
<1>2. Open \subseteq Trials /\ Open \subseteq launched
  BY BatchAssumption DEF Open, BatchType, Trials
<1>3. least \in Open
  <2>1. \E x \in Open : \A y \in Open : x <= y
    BY <1>1, <1>2, LanesAre, LeastOfNaturals
  <2> QED
    BY <2>1
<1> PICK i : i = least
  OBVIOUS
<1> PICK o : o = Recovered(i)
  OBVIOUS
<1> PICK e : e = Event("terminal", i, o.disposition, o.censor)
  OBVIOUS
<1>4. i \in Trials /\ i \in launched /\ outcomes[i] = Unknown
  BY <1>2, <1>3 DEF Open
<1>5. /\ o \in Returned /\ o # Unknown /\ o.disposition = "harness_aborted"
      /\ o.disposition \in Dispositions /\ o.censor \in CensorClasses
      /\ o.censor # "pre_control_nonparticipant" => i \in control
  BY <1>4, RecoveredIs, OutcomesAreKnown
<1>6. outcomes' = [outcomes EXCEPT ![i] = o] /\ assignments' = Record(assignments, e)
  BY <1>1
<1> HIDE DEF least
<1>7. /\ outcomes' \in [Trials -> Returned \cup {Unknown}]
      /\ outcomes'[i] = o
      /\ \A j \in Trials : j # i => outcomes'[j] = outcomes[j]
  BY <1>4, <1>5, <1>6 DEF BatchType
<1>8. cohort = Unknown /\ defect # "none" /\ step \notin Settled
  <2>1. \A l \in Lanes : lane[l] # i
    BY <1>1, <1>4, LanesAre DEF LanesFit
  <2> QED
    BY <1>1, <1>4, <2>1 DEF EndFits, OutcomesFit, Settled
<1>9. /\ e \in Events /\ e.kind = "terminal" /\ e.trial = i
      /\ e.disposition = o.disposition /\ e.censor = o.censor
  BY <1>4, <1>5 DEF Event, Events
<1>10. assignments' \in Ledgers /\ LedgerFits'
  <2>1. assignments \in Ledgers
    BY DEF BatchType
  <2>2. ~Happened(e.kind, e.trial)
    BY <1>4, <1>9 DEF Happened
  <2>3. \A f : SaysSo(f) => SaysSo(f)'
    <3> SUFFICES ASSUME NEW f, SaysSo(f) PROVE SaysSo(f)'
      OBVIOUS
    <3>1. CASE f.kind = "terminal"
      <4>1. f.trial # i
        BY <3>1, <1>4 DEF SaysSo, Happened
      <4>2. outcomes'[f.trial] = outcomes[f.trial]
        BY <4>1, <1>6 DEF BatchType
      <4> QED
        BY <3>1, <4>2 DEF SaysSo, Happened
    <3>2. CASE f.kind # "terminal"
      BY <3>2, <1>1 DEF SaysSo, Happened
    <3> QED
      BY <3>1, <3>2
  <2>4. SaysSo(e)'
    BY <1>5, <1>7, <1>9 DEF SaysSo, Happened
  <2>5. \A kind, j : j \in Trials /\ Happened(kind, j)' =>
          Happened(kind, j) \/ (kind = e.kind /\ j = e.trial)
    BY <1>1, <1>7, <1>9 DEF Happened
  <2> QED
    BY <1>6, <1>9, <2>1, <2>2, <2>3, <2>4, <2>5, LedgerGrowsByOne
<1>11. BatchType'
  BY <1>1, <1>7, <1>10 DEF BatchType
<1>12. LanesFit'
  BY <1>1, LanesAre DEF LanesFit
<1>13. OutcomesFit'
  <2>1. launched \subseteq Trials
    BY BatchAssumption DEF BatchType, Trials
  <2> QED
    BY <1>1, <1>4, <1>5, <1>7, <1>8, <2>1 DEF OutcomesFit
<1>14. EndFits'
  BY <1>1, <1>8 DEF EndFits
<1> QED
  BY <1>10, <1>11, <1>12, <1>13, <1>14

\* The assignments never started are recorded.
LEMMA KeepNotStarted == ASSUME BatchInv, RecordNotStarted PROVE BatchInv'
<1> USE DEF BatchInv
<1>1. /\ step = "joined" /\ Open = {} /\ step' = "recorded"
      /\ UNCHANGED <<lane, nextIndex, launched, outcomes, control, stop, defect, lfaults,
                     cohort>>
  BY DEF RecordNotStarted
<1>2. nextIndex \in 1 .. Count + 1 /\ launched = 1 .. nextIndex - 1 /\ Count \in Nat
      /\ NotStarted = nextIndex .. Count
  BY BatchAssumption DEF BatchType, NotStarted, Trials
<1>3. /\ Cardinality(launched) = nextIndex - 1
      /\ Cardinality(NotStarted) = Count - (nextIndex - 1)
  <2>1. Cardinality(1 .. nextIndex - 1) = IF 1 > nextIndex - 1 THEN 0
                                          ELSE (nextIndex - 1) - 1 + 1
    BY <1>2, FS_Interval
  <2>2. Cardinality(nextIndex .. Count) = IF nextIndex > Count THEN 0
                                          ELSE Count - nextIndex + 1
    BY <1>2, FS_Interval
  <2> QED
    BY <1>2, <2>1, <2>2
<1> PICK past : past = nextIndex - 1
  OBVIOUS
<1> PICK left : left = Count - past
  OBVIOUS
<1>4. past \in Nat /\ left \in Nat /\ launched = 1 .. past /\ past + left = Count
  BY <1>2
<1> PICK t : t = [n \in 1 .. left |-> Event("not_started", past + n, "not_started",
                                            "pre_control_nonparticipant")]
  OBVIOUS
<1>5. \A n \in 1 .. left :
        /\ past + n \in Trials /\ past + n \notin launched
        /\ t[n] \in Events /\ t[n].kind = "not_started" /\ t[n].trial = past + n
  <2> SUFFICES ASSUME NEW n \in 1 .. left
               PROVE  /\ past + n \in Trials /\ past + n \notin launched
                      /\ t[n] \in Events /\ t[n].kind = "not_started"
                      /\ t[n].trial = past + n
    OBVIOUS
  <2>1. past + n \in Trials /\ past + n \notin launched
    BY <1>4 DEF Trials
  <2>2. t[n] = Event("not_started", past + n, "not_started", "pre_control_nonparticipant")
    OBVIOUS
  <2>3. "not_started" \in Dispositions /\ "pre_control_nonparticipant" \in CensorClasses
    BY DEF Dispositions, CensorClasses
  <2> QED
    BY <2>1, <2>2, <2>3 DEF Event, Events
<1>6. t \in Seq(Events) /\ DOMAIN t = 1 .. left
  <2>1. t \in [1 .. left -> Events] /\ DOMAIN t = 1 .. left
    BY <1>5
  <2>2. t \in UNION {[1 .. n -> Events] : n \in Nat}
    BY <1>4, <2>1
  <2> QED
    BY <2>1, <2>2, SeqDef, Zenon
<1>7. assignments' \in Ledgers /\ LedgerFits'
  <2>1. assignments' = [assignments EXCEPT !.chain = @ \o t] /\ assignments \in Ledgers
    BY <1>3 DEF RecordNotStarted, BatchType
  <2>2. Once(t)
    BY <1>4, <1>5, <1>6 DEF Once, Same
  <2>3. \A k \in DOMAIN t : ~Happened(t[k].kind, t[k].trial)
    BY <1>1, <1>5, <1>6 DEF Happened, Settled
  <2>4. \A f : SaysSo(f) => SaysSo(f)'
    BY <1>1 DEF SaysSo, Happened, Settled
  <2>5. \A k \in DOMAIN t : SaysSo(t[k])'
    BY <1>1, <1>5, <1>6 DEF SaysSo, Happened, Settled
  <2>6. \A kind, i : i \in Trials /\ Happened(kind, i)' =>
          Happened(kind, i) \/ Says(t, kind, i)
    <3> SUFFICES ASSUME NEW kind, NEW i \in Trials, Happened(kind, i)',
                        ~Happened(kind, i)
                 PROVE  Says(t, kind, i)
      OBVIOUS
    <3>1. kind = "not_started" /\ i \notin launched
      BY <1>1 DEF Happened
    <3>2. i - past \in 1 .. left /\ past + (i - past) = i
      BY <1>4, <3>1 DEF Trials
    <3> QED
      BY <1>5, <1>6, <3>1, <3>2 DEF Says
  <2> QED
    BY <1>6, <2>1, <2>2, <2>3, <2>4, <2>5, <2>6, LedgerGrows
<1>8. BatchType'
  BY <1>1, <1>7 DEF BatchType, BatchStages
<1>9. LanesFit'
  BY <1>1 DEF LanesFit
<1>10. OutcomesFit'
  BY <1>1 DEF OutcomesFit, Open
<1>11. EndFits'
  BY <1>1 DEF EndFits
<1> QED
  BY <1>7, <1>8, <1>9, <1>10, <1>11

\* The ledger was flushed; what it lost becomes the defect.
LEMMA KeepFlush == ASSUME BatchInv, Flush PROVE BatchInv'
<1> USE DEF BatchInv
<1>1. /\ step = "recorded" /\ step' = "flushed" /\ assignments.chain = << >>
      /\ defect' = IF assignments.failed THEN "ledger_write_failed" ELSE defect
      /\ UNCHANGED <<lane, nextIndex, launched, outcomes, control, stop, assignments,
                     lfaults, cohort>>
  BY DEF Flush
<1>2. LedgerFits'
  BY <1>1, LedgerUnmoved DEF Settled
<1>3. BatchType'
  BY <1>1 DEF BatchType, BatchStages, Defects
<1>4. LanesFit' /\ OutcomesFit' /\ EndFits'
  BY <1>1 DEF LanesFit, OutcomesFit, EndFits, Settled
<1> QED
  BY <1>2, <1>3, <1>4

\* The cohort is written.
LEMMA KeepComplete == ASSUME BatchInv, Complete PROVE BatchInv'
<1> USE DEF BatchInv
<1>1. /\ step = "flushed" /\ step' = "completed"
      /\ cohort' = IF launched = {} THEN cohort ELSE CohortEvaluation
      /\ UNCHANGED <<lane, nextIndex, launched, outcomes, control, stop, defect,
                     assignments, lfaults>>
  BY DEF Complete
<1>2. LedgerFits'
  BY <1>1, LedgerUnmoved DEF Settled
<1>3. BatchType'
  BY <1>1 DEF BatchType, BatchStages
<1>4. LanesFit' /\ OutcomesFit'
  BY <1>1 DEF LanesFit, OutcomesFit, Settled
<1>5. CohortEvaluation' = CohortEvaluation
  BY <1>1 DEF CohortEvaluation, CountOf, NotStarted
<1>6. EndFits'
  BY <1>1, <1>5 DEF EndFits
<1> QED
  BY <1>2, <1>3, <1>4, <1>6

-----------------------------------------------------------------------------
LEMMA BatchPreserves == BatchInv /\ [BatchNext]_batchVars => BatchInv'
<1> SUFFICES ASSUME BatchInv, [BatchNext]_batchVars PROVE BatchInv'
  OBVIOUS
<1>1. CASE UNCHANGED batchVars
  <2>1. UNCHANGED <<lane, nextIndex, launched, outcomes, control, stop, defect,
                    assignments, lfaults, step, cohort>>
    BY <1>1 DEF batchVars
  <2>2. LedgerFits'
    BY <2>1, LedgerUnmoved DEF BatchInv
  <2>3. BatchType' /\ LanesFit' /\ OutcomesFit'
    BY <2>1 DEF BatchInv, BatchType, LanesFit, OutcomesFit
  <2>4. EndFits'
    BY <2>1 DEF BatchInv, EndFits, CohortEvaluation, CountOf, NotStarted
  <2> QED
    BY <2>2, <2>3, <2>4 DEF BatchInv
<1>2. CASE BatchNext
  BY <1>2, KeepAppend, KeepJoin, KeepRecover, KeepNotStarted, KeepFlush, KeepComplete,
     KeepLaunch, KeepLeaveLane, KeepThrows, KeepReturns, KeepInterrupt, KeepControl
  DEF BatchNext, BatchSteps
<1> QED
  BY <1>1, <1>2

\* The inductive invariant of a batch: for every number of trials and lanes.
THEOREM BatchInvariant == BatchSpec => []BatchInv
  BY BatchInitially, BatchPreserves, PTL DEF BatchSpec

-----------------------------------------------------------------------------
(***************************************************************************)
(* What the invariant says of a batch                                      *)
(***************************************************************************)

\* The ledger has one record of what it says and none of what it does not.
LEMMA RecordsAre ==
  ASSUME BatchInv, NEW kind, NEW i
  PROVE  /\ Says(assignments.written, kind, i) => Records(kind, i) = 1
         /\ ~Says(assignments.written, kind, i) => Records(kind, i) = 0
<1> DEFINE w == assignments.written
           found == {n \in DOMAIN w : w[n].kind = kind /\ w[n].trial = i}
<1>1. Records(kind, i) = Cardinality(found)
  BY DEF Records
<1>2. \A m, n \in found : m = n
  BY DEF BatchInv, LedgerFits, Once, Same
<1>3. Says(w, kind, i) <=> found # {}
  BY DEF Says
<1>4. CASE found = {}
  BY <1>1, <1>3, <1>4, FS_EmptySet
<1>5. CASE found # {}
  <2>1. PICK n : n \in found
    BY <1>5
  <2>2. found = {n}
    BY <1>2, <2>1
  <2>3. Cardinality({n}) = 1
    BY FS_Singleton
  <2> QED
    BY <1>1, <1>3, <1>5, <2>2, <2>3
<1> QED
  BY <1>4, <1>5

LEMMA BatchEndsEach == BatchInv => OneEndEach
<1> SUFFICES ASSUME BatchInv, step \in {"flushed", "completed"}, NEW i \in Trials
             PROVE  LET all == <<Records("launched", i), Records("terminal", i),
                                 Records("not_started", i)>>
                    IN  IF assignments.failed
                        THEN /\ \A n \in 1 .. 3 : all[n] <= 1
                             /\ all[3] = 1 => all[1] + all[2] = 0
                        ELSE all \in {<<1, 1, 0>>, <<0, 0, 1>>}
  BY DEF OneEndEach
<1> DEFINE a == Records("launched", i)
           b == Records("terminal", i)
           c == Records("not_started", i)
           w == assignments.written
<1>1. /\ Says(w, "launched", i) => a = 1 /\ i \in launched
      /\ ~Says(w, "launched", i) => a = 0
      /\ Says(w, "terminal", i) => b = 1 /\ outcomes[i] # Unknown
      /\ ~Says(w, "terminal", i) => b = 0
      /\ Says(w, "not_started", i) => c = 1 /\ i \notin launched
      /\ ~Says(w, "not_started", i) => c = 0
  <2>1. \A kind : Says(w, kind, i) => Happened(kind, i)
    BY DEF BatchInv, LedgerFits, SaysSo, Says
  <2> QED
    BY <2>1, RecordsAre DEF Happened
<1>2. (outcomes[i] # Unknown) <=> i \in launched
  BY DEF BatchInv, OutcomesFit, Settled
<1>3. ~assignments.failed =>
        /\ i \in launched => Says(w, "launched", i) /\ Says(w, "terminal", i)
        /\ i \notin launched => Says(w, "not_started", i)
  <2>1. \A kind : ~Says(assignments.chain, kind, i)
    BY DEF BatchInv, EndFits, Says
  <2>2. ~assignments.failed => \A kind : Happened(kind, i) => Says(w, kind, i)
    BY <2>1 DEF BatchInv, LedgerFits
  <2> QED
    BY <1>2, <2>2 DEF Happened, Settled
<1> HIDE DEF a, b, c
<1>4. a \in {0, 1} /\ b \in {0, 1} /\ c \in {0, 1} /\ (c = 1 => a = 0 /\ b = 0)
  BY <1>1, <1>2
<1>5. ~assignments.failed => (a = 1 /\ b = 1 /\ c = 0) \/ (a = 0 /\ b = 0 /\ c = 1)
  BY <1>1, <1>2, <1>3
<1>6. ~assignments.failed => <<a, b, c>> \in {<<1, 1, 0>>, <<0, 0, 1>>}
  BY <1>5
<1>7. /\ \A n \in 1 .. 3 : <<a, b, c>>[n] <= 1
      /\ <<a, b, c>>[3] = 1 => <<a, b, c>>[1] + <<a, b, c>>[2] = 0
  BY <1>4
<1> QED
  BY <1>6, <1>7 DEF a, b, c

LEMMA BatchTells == BatchInv => BatchTypeOK /\ LedgerTellsOutcome /\ DefectSurfaces
<1> SUFFICES ASSUME BatchInv PROVE BatchTypeOK /\ LedgerTellsOutcome /\ DefectSurfaces
  OBVIOUS
<1> USE DEF BatchInv
<1>1. BatchTypeOK
  <2>1. \A i \in Trials : outcomes[i].disposition \in Dispositions \cup {"unknown"}
    BY OutcomesAreKnown DEF BatchType, Unknown
  <2>2. launched \subseteq Trials
    BY BatchAssumption DEF BatchType, Trials
  <2> QED
    BY <2>1, <2>2 DEF BatchType, BatchTypeOK, Defects, BatchStages
<1>2. LedgerTellsOutcome
  BY DEF LedgerTellsOutcome, LedgerFits, SaysSo, OutcomesFit
<1>3. DefectSurfaces
  <2>1. \A i \in Trials : outcomes[i].disposition = "harness_aborted" => defect # "none"
    BY DEF OutcomesFit, Unknown
  <2> QED
    BY <2>1 DEF DefectSurfaces, EndFits
<1> QED
  BY <1>1, <1>2, <1>3

\* Nothing is launched once the operator or a defect stopped the batch.
THEOREM LaunchesStop == BatchSpec => NoLaunchAfterStop
<1>1. [BatchNext]_batchVars => [stop \/ defect # "none" => launched' = launched]_batchVars
  <2> SUFFICES ASSUME BatchNext, stop \/ defect # "none" PROVE launched' = launched
    BY DEF batchVars
  <2>1. \A l \in Lanes : ~Launch(l)
    BY DEF Launch, Halted
  <2> QED
    BY <2>1 DEF BatchNext, BatchSteps, AppendEvent, Join, Recover, RecordNotStarted, Flush,
       Complete, LeaveLane, TrialThrows, TrialReturns, Interrupt, ControlLands
<1> QED
  BY <1>1, PTL DEF BatchSpec, NoLaunchAfterStop

-----------------------------------------------------------------------------
(***************************************************************************)
(* Sums                                                                    *)
(***************************************************************************)

\* A count that adds up over every subset adds up over the whole set.
LEMMA TotalCounts ==
  ASSUME NEW S, IsFiniteSet(S), NEW f, DOMAIN f = S,
         NEW c, c \in [SUBSET S -> Nat], c[{}] = 0,
         \A s \in SUBSET S : \A x \in s : c[s] = f[x] + c[s \ {x}]
  PROVE  Total(f) = c[S]
<1> DEFINE pick(s) == CHOOSE x \in s : TRUE
           Sums(h) == h = [s \in SUBSET S |->
                             IF s = {} THEN 0 ELSE f[pick(s)] + h[s \ {pick(s)}]]
           g == CHOOSE h : Sums(h)
<1>1. \A s \in SUBSET S : s # {} => pick(s) \in s /\ s \ {pick(s)} \in SUBSET S
  OBVIOUS
<1>2. Total(f) = g[S]
  BY DEF Total, FoldFunction, FoldFunctionOnSet, MapThenFoldSet
<1> HIDE DEF pick
<1>3. Sums(c)
  <2>1. \A s \in SUBSET S :
          c[s] = IF s = {} THEN 0 ELSE f[pick(s)] + c[s \ {pick(s)}]
    BY <1>1
  <2> QED
    BY <2>1
<1>4. Sums(g)
  <2> HIDE DEF Sums
  <2> QED
    BY <1>3
<1> HIDE DEF g
<1>5. \A s \in SUBSET S :
        g[s] = IF s = {} THEN 0 ELSE f[pick(s)] + g[s \ {pick(s)}]
  BY <1>4
<1> DEFINE wrong == {s \in SUBSET S : g[s] # c[s]}
           sizes == {Cardinality(s) : s \in wrong}
<1>6. \A s \in SUBSET S : IsFiniteSet(s) /\ Cardinality(s) \in Nat
  BY FS_Subset, FS_CardinalityType
<1>7. wrong = {}
  <2> SUFFICES ASSUME wrong # {} PROVE FALSE
    OBVIOUS
  <2>1. sizes \in SUBSET Nat /\ sizes # {}
    BY <1>6
  <2>2. PICK m \in sizes : \A n \in sizes : m <= n
    BY <2>1, LeastOfNaturals
  <2>3. PICK s \in wrong : m = Cardinality(s)
    BY <2>2
  <2>4. s # {}
    BY <1>5, <2>3
  <2> DEFINE r == s \ {pick(s)}
  <2>5. r \in SUBSET S /\ pick(s) \in s
    BY <1>1, <2>3, <2>4
  <2>6. Cardinality(r) = m - 1 /\ m \in Nat
    BY <1>6, <2>3, <2>5, FS_RemoveElement
  <2>7. r \notin wrong
    BY <2>1, <2>2, <2>6
  <2>8. g[r] = c[r]
    BY <2>5, <2>7
  <2>9. g[s] = f[pick(s)] + g[r] /\ c[s] = f[pick(s)] + c[r]
    BY <1>5, <2>3, <2>4, <2>5
  <2> QED
    BY <2>3, <2>8, <2>9
<1> QED
  BY <1>2, <1>7

\* The members of L that v puts into class x.
OfClass(L, v, x) == {i \in L : v[i] = x}

\* The counts of the classes of a finite set add up to what there is, with k
\* more of one class.
LEMMA ClassesAddUp ==
  ASSUME NEW L, IsFiniteSet(L), NEW S, IsFiniteSet(S), NEW v, \A i \in L : v[i] \in S,
         NEW x0 \in S, NEW k \in Nat,
         NEW f, DOMAIN f = S, f[x0] = Cardinality(OfClass(L, v, x0)) + k,
         \A x \in S : x # x0 => f[x] = Cardinality(OfClass(L, v, x))
  PROVE  Total(f) = Cardinality(L) + k
<1> DEFINE In(s) == {i \in L : v[i] \in s}
           more(s) == IF x0 \in s THEN k ELSE 0
           c == [s \in SUBSET S |-> Cardinality(In(s)) + more(s)]
<1>1. \A s : IsFiniteSet(In(s)) /\ Cardinality(In(s)) \in Nat /\ more(s) \in Nat
  <2> SUFFICES ASSUME NEW s
               PROVE  IsFiniteSet(In(s)) /\ Cardinality(In(s)) \in Nat /\ more(s) \in Nat
    OBVIOUS
  <2>1. In(s) \in SUBSET L
    OBVIOUS
  <2> HIDE DEF In
  <2> QED
    BY <2>1, FS_Subset, FS_CardinalityType
<1>2. c \in [SUBSET S -> Nat]
  <2> HIDE DEF In, more
  <2> QED
    BY <1>1
<1>3. c[{}] = 0
  <2>1. In({}) = {} /\ more({}) = 0 /\ {} \in SUBSET S
    OBVIOUS
  <2> HIDE DEF In, more
  <2> QED
    BY <2>1, FS_EmptySet
<1>4. ASSUME NEW s \in SUBSET S, NEW x \in s
      PROVE  c[s] = f[x] + c[s \ {x}]
  <2> DEFINE r == s \ {x}
             here == OfClass(L, v, x)
  <2>1. In(s) = In(r) \cup here /\ In(r) \cap here = {} /\ here = In({x})
    BY DEF OfClass
  <2>2. r \in SUBSET S /\ x \in S
    OBVIOUS
  <2>0. Cardinality(here) \in Nat
    BY <1>1, <2>1
  <2>3. f[x] = Cardinality(here) + more({x})
    BY <2>0, <2>2
  <2>4. more(s) = more(r) + more({x})
    OBVIOUS
  <2> HIDE DEF here, more, r, In
  <2>5. Cardinality(In(s)) = Cardinality(In(r)) + Cardinality(here)
    <3>1. Cardinality(In(r) \cup here) =
            Cardinality(In(r)) + Cardinality(here) - Cardinality(In(r) \cap here)
      BY <1>1, <2>1, FS_Union
    <3>2. Cardinality(In(r) \cap here) = 0
      BY <2>1, FS_EmptySet
    <3>3. Cardinality(In(r)) \in Nat /\ Cardinality(here) \in Nat
      BY <1>1, <2>1
    <3> QED
      BY <2>1, <3>1, <3>2, <3>3
  <2>6. /\ Cardinality(In(s)) \in Nat /\ Cardinality(In(r)) \in Nat
        /\ Cardinality(here) \in Nat
        /\ more(s) \in Nat /\ more(r) \in Nat /\ more({x}) \in Nat
    BY <1>1, <2>1
  <2>7. c[s] = Cardinality(In(s)) + more(s) /\ c[r] = Cardinality(In(r)) + more(r)
    BY <2>2
  <2>8. c[s] = f[x] + c[r]
    BY <2>3, <2>4, <2>5, <2>6, <2>7
  <2> QED
    BY <2>8 DEF r
<1>5. c[S] = Cardinality(L) + k
  <2>1. In(S) = L /\ more(S) = k /\ S \in SUBSET S
    OBVIOUS
  <2> HIDE DEF In, more
  <2> QED
    BY <2>1
<1> HIDE DEF c
<1>7. \A s \in SUBSET S : \A x \in s : c[s] = f[x] + c[s \ {x}]
  BY <1>4
<1> PICK d : d = c
  OBVIOUS
<1>8. Total(f) = d[S]
  <2>1. d \in [SUBSET S -> Nat] /\ d[{}] = 0
    BY <1>2, <1>3
  <2>2. \A s \in SUBSET S : \A x \in s : d[s] = f[x] + d[s \ {x}]
    BY <1>7
  <2>3. IsFiniteSet(S) /\ DOMAIN f = S
    OBVIOUS
  <2> QED
    BY ONLY <2>1, <2>2, <2>3, TotalCounts, SMT
<1> QED
  BY <1>5, <1>8

\* The classes of an outcome are finitely many.
LEMMA FiniteClasses ==
  IsFiniteSet(Dispositions) /\ IsFiniteSet(CensorClasses) /\ IsFiniteSet(Integrity)
<1>1. \A n \in Nat : IsFiniteSet(1 .. n)
  BY FS_Interval
<1>2. IsFiniteSet(Integrity)
  <2> DEFINE s == <<"intact", "corrupt", "missing">>
  <2>1. s \in Surjection(1 .. 3, Integrity)
    BY DEF Surjection, Integrity
  <2>2. IsFiniteSet(1 .. 3)
    BY <1>1
  <2> HIDE DEF s
  <2> QED
    BY <2>1, <2>2, FS_Surjection
<1>3. IsFiniteSet(CensorClasses)
  <2> DEFINE s == <<"none", "pre_control_nonparticipant", "administrative_censor",
                    "instrumentation_censor">>
  <2>1. s \in Surjection(1 .. 4, CensorClasses)
    BY DEF Surjection, CensorClasses
  <2>2. IsFiniteSet(1 .. 4)
    BY <1>1
  <2> HIDE DEF s
  <2> QED
    BY <2>1, <2>2, FS_Surjection
<1>4. IsFiniteSet(Dispositions)
  <2> DEFINE s == <<"completed", "agent_incomplete", "agent_failed", "timed_out",
                    "budget_exhausted", "operator_interrupted",
                    "provider_failed_pre_control", "provider_failed_post_control",
                    "infrastructure_failed_pre_control",
                    "infrastructure_failed_post_control", "harness_aborted",
                    "not_started", "invalid_setup">>
  <2>1. s \in Surjection(1 .. 13, Dispositions)
    BY DEF Surjection, Dispositions
  <2>2. IsFiniteSet(1 .. 13)
    BY <1>1
  <2> HIDE DEF s
  <2> QED
    BY <2>1, <2>2, FS_Surjection
<1> QED
  BY <1>2, <1>3, <1>4

\* What was launched and what was not are all there is.
LEMMA LaunchedAre ==
  ASSUME BatchInv
  PROVE  /\ IsFiniteSet(launched) /\ IsFiniteSet(NotStarted)
         /\ Cardinality(launched) \in Nat /\ Cardinality(NotStarted) \in Nat
         /\ Cardinality(launched) + Cardinality(NotStarted) = Count
<1>1. nextIndex \in 1 .. Count + 1 /\ launched = 1 .. nextIndex - 1 /\ Count \in Nat
      /\ NotStarted = nextIndex .. Count
  BY BatchAssumption DEF BatchInv, BatchType, NotStarted, Trials
<1>2. /\ IsFiniteSet(1 .. nextIndex - 1) /\ IsFiniteSet(nextIndex .. Count)
      /\ Cardinality(1 .. nextIndex - 1) =
           (IF 1 > nextIndex - 1 THEN 0 ELSE (nextIndex - 1) - 1 + 1)
      /\ Cardinality(nextIndex .. Count) =
           (IF nextIndex > Count THEN 0 ELSE Count - nextIndex + 1)
  BY <1>1, FS_Interval
<1> QED
  BY <1>1, <1>2

LEMMA BatchAddsUp == BatchInv => CohortAddsUp
<1> SUFFICES ASSUME BatchInv, cohort # Unknown
             PROVE  /\ cohort.launched + cohort.notStarted = cohort.primary
                    /\ Total(cohort.dispositions) = cohort.primary
                    /\ Total(cohort.integrity) = cohort.launched
                    /\ Total(cohort.censors) = cohort.launched
                    /\ cohort.evaluated + cohort.notEvaluated = cohort.primary
  BY DEF CohortAddsUp
<1> DEFINE n == Cardinality(launched)
           k == Cardinality(NotStarted)
           ofDisposition(d) == {i \in launched : outcomes[i].disposition = d}
           ofIntegrity(x) == {i \in launched : outcomes[i].integrity = x}
           ofCensor(c) == {i \in launched : outcomes[i].censor = c}
           yes == {i \in launched : outcomes[i].evaluated}
           no == {i \in launched : ~outcomes[i].evaluated}
<1>1. cohort = CohortEvaluation /\ step \in Settled
  BY DEF BatchInv, EndFits, Settled
<1>2. /\ cohort.primary = Count /\ cohort.launched = n /\ cohort.notStarted = k
      /\ cohort.dispositions =
           [d \in Dispositions |-> Cardinality(ofDisposition(d))
                                     + IF d = "not_started" THEN k ELSE 0]
      /\ cohort.integrity = [x \in Integrity |-> Cardinality(ofIntegrity(x))]
      /\ cohort.censors = [c \in CensorClasses |-> Cardinality(ofCensor(c))]
      /\ cohort.evaluated = Cardinality(yes)
      /\ cohort.notEvaluated = Cardinality(no) + k
  BY <1>1 DEF CohortEvaluation, CountOf
<1>3. \A i \in launched : i \in Trials /\ outcomes[i] \in Returned
  <2>1. \A i \in launched : i \in Trials
    BY BatchAssumption DEF BatchInv, BatchType, Trials
  <2> QED
    BY <1>1, <2>1 DEF BatchInv, BatchType, OutcomesFit
<1>4. \A i \in launched :
        /\ outcomes[i].disposition \in Dispositions
        /\ outcomes[i].integrity \in Integrity
        /\ outcomes[i].censor \in CensorClasses
  BY <1>3 DEF Returned
<1>5. /\ IsFiniteSet(launched) /\ n \in Nat /\ k \in Nat /\ n + k = Count
  BY LaunchedAre
<1> HIDE DEF n, k, ofDisposition, ofIntegrity, ofCensor, yes, no
<1>6. Total(cohort.dispositions) = n + k
  <2> PICK f : f = cohort.dispositions
    OBVIOUS
  <2> PICK v : v = [i \in launched |-> outcomes[i].disposition]
    OBVIOUS
  <2> PICK L : L = launched
    OBVIOUS
  <2> PICK m : m = k
    OBVIOUS
  <2>1. \A x : ofDisposition(x) = OfClass(L, v, x)
    BY DEF ofDisposition, OfClass
  <2>2. \A x : Cardinality(OfClass(L, v, x)) \in Nat
    <3>1. \A x : OfClass(L, v, x) \in SUBSET L
      BY DEF OfClass
    <3> QED
      BY <1>5, <3>1, FS_Subset, FS_CardinalityType
  <2>3. /\ DOMAIN f = Dispositions /\ "not_started" \in Dispositions
        /\ f["not_started"] = Cardinality(OfClass(L, v, "not_started")) + m
        /\ \A x \in Dispositions : x # "not_started" => f[x] = Cardinality(OfClass(L, v, x))
    <3>1. "not_started" \in Dispositions
      BY DEF Dispositions
    <3> QED
      BY <1>2, <1>5, <2>1, <2>2, <3>1
  <2>4. \A i \in L : v[i] \in Dispositions
    BY <1>4
  <2>5. Total(f) = Cardinality(L) + m
    BY <1>5, <2>3, <2>4, FiniteClasses, ClassesAddUp
  <2> QED
    BY <1>5, <2>5 DEF n
<1>7. Total(cohort.integrity) = n
  <2> PICK f : f = cohort.integrity
    OBVIOUS
  <2> PICK v : v = [i \in launched |-> outcomes[i].integrity]
    OBVIOUS
  <2> PICK L : L = launched
    OBVIOUS
  <2> PICK m : m = 0
    OBVIOUS
  <2>1. \A x : ofIntegrity(x) = OfClass(L, v, x)
    BY DEF ofIntegrity, OfClass
  <2>2. \A x : Cardinality(OfClass(L, v, x)) \in Nat
    <3>1. \A x : OfClass(L, v, x) \in SUBSET L
      BY DEF OfClass
    <3> QED
      BY <1>5, <3>1, FS_Subset, FS_CardinalityType
  <2>3. /\ DOMAIN f = Integrity /\ "intact" \in Integrity
        /\ f["intact"] = Cardinality(OfClass(L, v, "intact")) + m
        /\ \A x \in Integrity : x # "intact" => f[x] = Cardinality(OfClass(L, v, x))
    <3>1. "intact" \in Integrity
      BY DEF Integrity
    <3> QED
      BY <1>2, <1>5, <2>1, <2>2, <3>1
  <2>4. \A i \in L : v[i] \in Integrity
    BY <1>4
  <2>5. Total(f) = Cardinality(L) + m
    BY <1>5, <2>3, <2>4, FiniteClasses, ClassesAddUp
  <2> QED
    BY <1>5, <2>5 DEF n
<1>8. Total(cohort.censors) = n
  <2> PICK f : f = cohort.censors
    OBVIOUS
  <2> PICK v : v = [i \in launched |-> outcomes[i].censor]
    OBVIOUS
  <2> PICK L : L = launched
    OBVIOUS
  <2> PICK m : m = 0
    OBVIOUS
  <2>1. \A x : ofCensor(x) = OfClass(L, v, x)
    BY DEF ofCensor, OfClass
  <2>2. \A x : Cardinality(OfClass(L, v, x)) \in Nat
    <3>1. \A x : OfClass(L, v, x) \in SUBSET L
      BY DEF OfClass
    <3> QED
      BY <1>5, <3>1, FS_Subset, FS_CardinalityType
  <2>3. /\ DOMAIN f = CensorClasses /\ "none" \in CensorClasses
        /\ f["none"] = Cardinality(OfClass(L, v, "none")) + m
        /\ \A x \in CensorClasses : x # "none" => f[x] = Cardinality(OfClass(L, v, x))
    <3>1. "none" \in CensorClasses
      BY DEF CensorClasses
    <3> QED
      BY <1>2, <1>5, <2>1, <2>2, <3>1
  <2>4. \A i \in L : v[i] \in CensorClasses
    BY <1>4
  <2>5. Total(f) = Cardinality(L) + m
    BY <1>5, <2>3, <2>4, FiniteClasses, ClassesAddUp
  <2> QED
    BY <1>5, <2>5 DEF n
<1>9. Cardinality(yes) + Cardinality(no) = n
  <2>1. yes \cup no = launched /\ yes \cap no = {}
        /\ yes \in SUBSET launched /\ no \in SUBSET launched
    BY DEF yes, no
  <2>2. IsFiniteSet(yes) /\ IsFiniteSet(no)
    BY <1>5, <2>1, FS_Subset
  <2>3. Cardinality(yes) \in Nat /\ Cardinality(no) \in Nat
    BY <2>2, FS_CardinalityType
  <2>4. Cardinality(yes \cup no) = Cardinality(yes) + Cardinality(no)
                                     - Cardinality(yes \cap no)
    BY <2>2, FS_Union
  <2>5. Cardinality(yes \cap no) = 0
    BY <2>1, FS_EmptySet
  <2>6. Cardinality(yes \cup no) = n
    BY <2>1 DEF n
  <2> QED
    BY <2>3, <2>4, <2>5, <2>6
<1>10. Cardinality(yes) \in Nat /\ Cardinality(no) \in Nat
  <2>1. yes \in SUBSET launched /\ no \in SUBSET launched
    BY DEF yes, no
  <2> QED
    BY <1>5, <2>1, FS_Subset, FS_CardinalityType
<1> QED
  BY <1>2, <1>5, <1>6, <1>7, <1>8, <1>9, <1>10

\* Every assignment is accounted for once, in the ledger, in what the batch
\* returned and in its cohort, whatever stopped the batch and whichever append
\* failed.
THEOREM AssignmentsAreAccounted == BatchSpec => []BatchAccounts
<1>1. BatchInv => BatchAccounts
  BY BatchTells, BatchEndsEach, BatchAddsUp DEF BatchAccounts
<1> QED
  BY <1>1, BatchInvariant, PTL

-----------------------------------------------------------------------------
\* A result tells how the leader ended, unless nothing was spawned.
ExitFits ==
  /\ closure.phase = "settled" /\ ~closure.spawnError => leader \in Ends
  /\ result # NoResult => (result.spawnError <=> result.exit = "none")

-----------------------------------------------------------------------------
(***************************************************************************)
(* The inductive invariant of a trial                                      *)
(***************************************************************************)
Places ==
  {"start", "setup", "exposed", "open", "prepare", "running", "ran", "flush",
   "reported", "conclude", "manifest", "terminal", "done", "threw"}
Before == {"start", "setup", "exposed", "open"}
AfterRun == {"ran", "flush", "reported", "conclude", "manifest"}
Moments == {Never} \cup 0 .. MaxTime
StageQueues == [offered : SUBSET StageNames, chain : Seq(StageNames), failed : BOOLEAN]
AgentStatuses ==
  {"none", "completed", "failed", "timed_out", "cancelled", "provider_failed",
   "spawn_failed"}

Facts == [spawned : BOOLEAN, modelStarted : BOOLEAN, apiStarted : BOOLEAN]

TrialType ==
  /\ at \in Places
  /\ scenario \in {"off", "open", "closed"} /\ exposure \in {"none", "open", "closed"}
  /\ ledger \in Seq(StageNames) /\ stages \in StageQueues
  /\ session \in [owed : BOOLEAN, failed : BOOLEAN]
  /\ facts \in Facts
  /\ interrupted \in BOOLEAN /\ hooked \in BOOLEAN /\ guard \in BOOLEAN
  /\ signals \in [operator : Moments, timeout : Moments]
  /\ clock \in 0 .. MaxTime /\ status \in AgentStatuses
  /\ faults \in 0 .. MaxFaults

\* What a trial holds at each place: nothing is held where it can end.
HeldFits ==
  /\ guard \/ hooked => at \in {"prepare", "running"}
  /\ exposure = "open" => at \in {"exposed", "open", "prepare", "running"}
  /\ scenario = "open" =>
       at \in {"setup", "exposed", "open", "prepare", "running", "ran"}

\* A record that was written is the one of its end: a trial whose setup failed
\* has run nothing, one that was classified has an agent's result.
Verdict == at = "done" /\ record.disposition # "invalid_setup"
Ran == at \in {"running"} \cup AfterRun \/ Verdict

\* Where a stage comes from: the queue, or the steps that record their own.
OwnStages ==
  {"scheduled", "workspace_prepared", "server_ready", "finalization_started",
   "evidence_finalized"}
QueueFits(sq) ==
  /\ ToSet(sq.chain) \subseteq sq.offered
  /\ \A s \in sq.offered : s \in ToSet(sq.chain) \/ s \in ToSet(ledger) \/ sq.failed

StagesFit ==
  /\ QueueFits(stages)
  /\ ToSet(ledger) \subseteq stages.offered \cup OwnStages
  /\ "evidence_finalized" \notin stages.offered
  /\ at \in Before => stages.offered = {}
  /\ "turn_completed" \in stages.offered => "turn.completed" \in ToSet(heard)
  /\ Ran => {"participant_spawned", "participant_control_started"} \subseteq stages.offered
  /\ at \in {"conclude", "manifest"} \/ Verdict =>
       stages.chain = << >> /\ ~stages.failed
  /\ at = "done" => stages.chain = << >>
  /\ "evidence_finalized" \in ToSet(ledger) =>
       at \in {"manifest", "done", "threw"} /\ stages.chain = << >>

\* What was noticed of the operator and the limit.
SignalsFit ==
  /\ signals.operator # Never => interrupted /\ OperatorStage \in stages.offered
  /\ at \in Before => signals.operator = Never /\ signals.timeout = Never
  /\ at = "done" /\ record.disposition = "invalid_setup" => signals.timeout = Never

\* Every event of the agent is in the session file once the trial goes on to
\* its report, and the adapter's status fits the result.
SessionFits ==
  /\ at \in {"reported", "conclude", "manifest"} \/ Verdict =>
       ~session.owed /\ ~session.failed
  /\ at \in AfterRun \/ Verdict =>
       result # NoResult /\ (result.spawnError => status = "spawn_failed")

\* What a disposition d rests on.
Earned(d) ==
  /\ d \in Dispositions \ {"harness_aborted", "not_started", "invalid_setup"}
  /\ d = "completed" =>
       /\ "turn.completed" \in ToSet(heard)
       /\ result.exit = "zero" /\ ~result.spawnError
       /\ signals.timeout = Never /\ signals.operator = Never
  /\ signals.timeout # Never =>
       d = IF signals.operator # Never /\ signals.operator < signals.timeout
           THEN "operator_interrupted" ELSE "timed_out"
  /\ d = "operator_interrupted" => interrupted

\* The censor class of a record is that of its ledger.
Censored(c) ==
  /\ c \in CensorClasses
  /\ c = "pre_control_nonparticipant" <=>
       "participant_control_started" \notin ToSet(ledger)

RecordFits ==
  /\ at \notin {"manifest", "done"} => record = NoRecord
  /\ at = "manifest" =>
       /\ record.disposition = "classified" /\ Earned(record.pending)
       /\ Censored(record.censor) /\ record.integrity \in Integrity
       /\ Last(ledger) = "evidence_finalized"
  /\ at = "done" => Censored(record.censor)
  /\ Verdict => /\ Earned(record.disposition) /\ record.integrity \in Integrity
                /\ Last(ledger) = "evidence_finalized"

TrialInv ==
  /\ ProcessInv /\ ExitFits /\ TrialType /\ HeldFits /\ StagesFit /\ SignalsFit
  /\ SessionFits /\ RecordFits

-----------------------------------------------------------------------------
(***************************************************************************)
(* The process of a trial                                                  *)
(***************************************************************************)
LEMMA ProcessKept ==
  ASSUME ProcessInv, ExitFits, UNCHANGED processVars
  PROVE  ProcessInv' /\ ExitFits'
<1>1. UNCHANGED <<leader, member, stray, pipe, heard, spoken, aborted, closure, timers,
                  result>>
  BY DEF processVars
<1>2. ProcessTypeOK' /\ ProcessesFit' /\ TimersFit'
  BY <1>1 DEF ProcessInv, ProcessTypeOK, ProcessesFit, TimersFit
<1>3. ReasonsFit' /\ LinesFit' /\ ResultFits' /\ ExitFits'
  BY <1>1 DEF ProcessInv, ReasonsFit, LinesFit, ResultFits, ExitFits
<1> QED
  BY <1>2, <1>3 DEF ProcessInv

LEMMA ExitInitially == ProcessInit => ExitFits
  BY DEF ProcessInit, ExitFits, Fresh, NoResult

LEMMA ExitKeptAborting ==
  ASSUME ProcessInv, ExitFits, Abort PROVE ExitFits' /\ UNCHANGED <<heard, result>>
<1>1. UNCHANGED <<leader, heard, result>> /\ closure \in Closures
      /\ (closure' = closure \/ closure' = Stop(closure, "abort"))
  BY DEF Abort, ProcessInv, ProcessTypeOK
<1>2. closure'.phase = closure.phase /\ closure'.spawnError = closure.spawnError
  BY <1>1 DEF Stop, Closures
<1> QED
  BY <1>1, <1>2 DEF ExitFits

LEMMA ExitKeptReading ==
  ASSUME ExitFits, Read PROVE ExitFits' /\ UNCHANGED result
  BY DEF ExitFits, Read

LEMMA ExitKeptStarting ==
  ASSUME ProcessInv, ExitFits, Spawn \/ SpawnThrows
  PROVE  ExitFits' /\ UNCHANGED heard
<1>1. closure \in Closures /\ result # NoResult => closure.phase = "resolved"
  BY DEF ProcessInv, ProcessTypeOK, ResultFits
<1>2. CASE SpawnThrows
  <2>1. closure'.phase = "resolved"
    BY <1>2 DEF SpawnThrows, ProcessInv, ProcessTypeOK, Closures
  <2>2. result'.spawnError = TRUE /\ result'.exit = "none" /\ UNCHANGED heard
    BY <1>2 DEF SpawnThrows
  <2> QED
    BY <2>1, <2>2 DEF ExitFits
<1>3. CASE Spawn
  <2>1. /\ closure.phase = "idle" /\ UNCHANGED <<heard, result>>
    BY <1>3 DEF Spawn
  <2>2. closure'.phase = "running"
    <3>1. PICK started \in BOOLEAN :
            LET opened == [closure EXCEPT !.phase = "running", !.pid = started,
                                          !.listening = ~aborted]
            IN  closure' = IF aborted THEN Stop(opened, "abort") ELSE opened
      BY <1>3 DEF Spawn
    <3> DEFINE opened == [closure EXCEPT !.phase = "running", !.pid = started,
                                         !.listening = ~aborted]
    <3>2. opened \in Closures /\ opened.phase = "running"
      BY DEF ProcessInv, ProcessTypeOK, Closures, Phases
    <3>3. closure' = IF aborted THEN Stop(opened, "abort") ELSE opened
      BY <3>1
    <3> HIDE DEF opened
    <3> QED
      BY <3>2, <3>3, StopKeeps
  <2>3. result = NoResult
    BY <2>1 DEF ProcessInv, ResultFits
  <2> QED
    BY <2>1, <2>2, <2>3 DEF ExitFits
<1> QED
  BY <1>2, <1>3

LEMMA ExitKeptRunning ==
  ASSUME ProcessInv, ExitFits, Leader \/ Due \/ LimitFires
  PROVE  ExitFits' /\ UNCHANGED heard
<1>0. closure \in Closures /\ (result # NoResult => closure.phase = "resolved")
      /\ (leader = "running" => closure.phase = "running")
  BY DEF ProcessInv, ProcessTypeOK, ResultFits, ProcessesFit
<1>1. CASE Exits
  BY <1>0, <1>1 DEF Exits, ExitFits
<1>2. CASE Write
  BY <1>2 DEF Write, ExitFits
<1>3. CASE LimitFires
  <2>1. closure'.phase = closure.phase /\ closure'.spawnError = closure.spawnError
    BY <1>0, <1>3 DEF LimitFires, Stop, Closures
  <2> QED
    BY <1>3, <2>1 DEF LimitFires, ExitFits
<1>4. CASE GraceFires
  <2>1. closure'.phase = closure.phase /\ closure'.spawnError = closure.spawnError
    BY <1>0, <1>4 DEF GraceFires, Closures
  <2>2. leader \in Ends => leader' \in Ends
    BY <1>4 DEF GraceFires, Ends
  <2> QED
    BY <1>4, <2>1, <2>2 DEF GraceFires, ExitFits
<1>5. CASE OnExit \/ OnError
  <2>1. PICK failed \in BOOLEAN : Settle(failed) /\ (~failed => leader \in Ends)
    BY <1>5 DEF OnExit, OnError
  <2>2. closure.phase = "running" /\ closure'.spawnError = failed
        /\ UNCHANGED <<leader, heard, result>>
    BY <1>0, <2>1 DEF Settle, Closures
  <2> QED
    BY <1>0, <2>1, <2>2 DEF ExitFits
<1>6. CASE StreamsEnd \/ DrainFires
  <2>1. PICK drained \in BOOLEAN : Resolve(drained) /\ closure.phase = "settled"
    BY <1>6 DEF StreamsEnd, DrainFires
  <2>2. /\ closure'.phase = "resolved" /\ UNCHANGED heard
        /\ result'.spawnError = closure.spawnError
        /\ result'.exit = IF closure.spawnError THEN "none" ELSE leader
    BY <1>0, <2>1 DEF Resolve, Closures
  <2>3. ~closure.spawnError => leader # "none"
    BY <2>1 DEF ExitFits, Ends
  <2>4. closure.spawnError \in BOOLEAN
    BY <1>0 DEF Closures
  <2> QED
    BY <2>2, <2>3, <2>4 DEF ExitFits
<1> QED
  BY <1>1, <1>2, <1>3, <1>4, <1>5, <1>6 DEF Leader, Due

\* A step of the process that is not a spawn, as a trial takes it.
LEMMA ProcessGoesOn ==
  ASSUME ProcessInv, ExitFits, Leader \/ Due \/ LimitFires
  PROVE  ProcessInv' /\ ExitFits' /\ UNCHANGED heard
<1>1. ProcessInv'
  <2>1. CASE Leader
    BY <2>1, KeepProcesses DEF Processes
  <2>2. CASE LimitFires
    BY <2>2, KeepLimit
  <2>3. CASE GraceFires
    BY <2>3, KeepGrace
  <2>4. CASE OnExit
    BY <2>4, KeepSettle DEF OnExit, Ends
  <2>5. CASE OnError
    BY <2>5, KeepSettle DEF OnError
  <2>6. CASE StreamsEnd \/ DrainFires
    BY <2>6, KeepResolve DEF StreamsEnd, DrainFires
  <2> QED
    BY <2>1, <2>2, <2>3, <2>4, <2>5, <2>6 DEF Due
<1> QED
  BY <1>1, ExitKeptRunning

-----------------------------------------------------------------------------
(***************************************************************************)
(* Stages and the queue                                                    *)
(***************************************************************************)

\* What a sequence holds after an append, without its head and as one.
LEMMA Members ==
  ASSUME NEW S, NEW s \in Seq(S)
  PROVE  /\ ToSet(s) \subseteq S
         /\ \A x \in S : /\ ToSet(Append(s, x)) = ToSet(s) \cup {x}
                         /\ Append(s, x) \in Seq(S) /\ Last(Append(s, x)) = x
         /\ s # << >> => /\ Head(s) \in S /\ Tail(s) \in Seq(S)
                         /\ Head(s) \in ToSet(s)
                         /\ ToSet(s) = ToSet(Tail(s)) \cup {Head(s)}
         /\ s = << >> <=> ToSet(s) = {}
<1>1. Len(s) \in Nat /\ DOMAIN s = 1 .. Len(s) /\ \A i \in DOMAIN s : s[i] \in S
  OBVIOUS
<1>2. ToSet(s) \subseteq S
  BY <1>1 DEF ToSet
<1>3. ASSUME NEW x \in S
      PROVE  /\ ToSet(Append(s, x)) = ToSet(s) \cup {x}
             /\ Append(s, x) \in Seq(S) /\ Last(Append(s, x)) = x
  <2> DEFINE t == Append(s, x)
  <2>1. /\ t \in Seq(S) /\ Len(t) = Len(s) + 1 /\ DOMAIN t = 1 .. Len(s) + 1
        /\ t[Len(s) + 1] = x /\ \A i \in 1 .. Len(s) : t[i] = s[i]
    BY <1>1, AppendProperties, LenProperties
  <2> HIDE DEF t
  <2>2. 1 .. Len(s) + 1 = (1 .. Len(s)) \cup {Len(s) + 1}
    BY <1>1
  <2>3. ToSet(t) = ToSet(s) \cup {x}
    BY <1>1, <2>1, <2>2 DEF ToSet
  <2>4. Last(t) = x
    BY <2>1 DEF Last
  <2> QED
    BY <2>1, <2>3, <2>4 DEF t
<1>4. ASSUME s # << >>
      PROVE  /\ Head(s) \in S /\ Tail(s) \in Seq(S) /\ Head(s) \in ToSet(s)
             /\ ToSet(s) = ToSet(Tail(s)) \cup {Head(s)}
  <2> DEFINE t == Tail(s)
             h == Head(s)
  <2>1. /\ h = s[1] /\ h \in S /\ t \in Seq(S) /\ Len(t) = Len(s) - 1
        /\ \A i \in 1 .. Len(s) - 1 : t[i] = s[i + 1]
        /\ Len(s) > 0 /\ DOMAIN t = 1 .. Len(s) - 1
    BY <1>1, <1>4, HeadTailProperties, LenProperties, EmptySeq
  <2> HIDE DEF t, h
  <2>2. \A i \in 1 .. Len(s) : i = 1 \/ (i - 1 \in 1 .. Len(s) - 1 /\ t[i - 1] = s[i])
    BY <1>1, <2>1
  <2>3. \A i \in 1 .. Len(s) - 1 : i + 1 \in 1 .. Len(s) /\ t[i] = s[i + 1]
    BY <1>1, <2>1
  <2>4. 1 \in 1 .. Len(s)
    BY <1>1, <2>1
  <2>5. ToSet(s) \subseteq ToSet(t) \cup {h}
    BY <1>1, <2>1, <2>2 DEF ToSet
  <2>6. ToSet(t) \cup {h} \subseteq ToSet(s)
    BY <1>1, <2>1, <2>3, <2>4 DEF ToSet
  <2> QED
    BY <2>1, <2>5, <2>6 DEF t, h
<1>5. s = << >> <=> ToSet(s) = {}
  <2>1. CASE s = << >>
    BY <2>1 DEF ToSet
  <2>2. CASE s # << >>
    BY <2>2, <1>4
  <2> QED
    BY <2>1, <2>2
<1> QED
  BY <1>2, <1>3, <1>4, <1>5

LEMMA MembersJoin ==
  ASSUME NEW S, NEW s \in Seq(S), NEW t \in Seq(S)
  PROVE  s \o t \in Seq(S) /\ ToSet(s \o t) = ToSet(s) \cup ToSet(t)
<1> DEFINE u == s \o t
<1>1. /\ Len(s) \in Nat /\ Len(t) \in Nat /\ u \in Seq(S)
      /\ DOMAIN s = 1 .. Len(s) /\ DOMAIN t = 1 .. Len(t)
      /\ DOMAIN u = 1 .. Len(s) + Len(t)
      /\ \A i \in 1 .. Len(s) : u[i] = s[i]
  BY ConcatProperties, LenProperties
<1>2. \A i \in 1 .. Len(t) : u[Len(s) + i] = t[i] /\ Len(s) + i \in DOMAIN u
  <2> SUFFICES ASSUME NEW i \in 1 .. Len(t)
               PROVE  u[Len(s) + i] = t[i] /\ Len(s) + i \in DOMAIN u
    OBVIOUS
  <2>1. Len(s) + i \in 1 .. Len(s) + Len(t) /\ ~(Len(s) + i <= Len(s))
        /\ (Len(s) + i) - Len(s) = i
    BY <1>1
  <2> QED
    BY <1>1, <2>1, ConcatProperties
<1> HIDE DEF u
<1>3. \A n \in DOMAIN u :
        \/ n \in 1 .. Len(s)
        \/ n - Len(s) \in 1 .. Len(t) /\ Len(s) + (n - Len(s)) = n
  BY <1>1
<1>4. ToSet(u) \subseteq ToSet(s) \cup ToSet(t)
  <2> SUFFICES ASSUME NEW n \in DOMAIN u PROVE u[n] \in ToSet(s) \cup ToSet(t)
    BY DEF ToSet
  <2>1. CASE n \in 1 .. Len(s)
    BY <1>1, <2>1 DEF ToSet
  <2>2. CASE n \notin 1 .. Len(s)
    <3>1. n - Len(s) \in 1 .. Len(t) /\ u[n] = t[n - Len(s)]
      BY <1>2, <1>3, <2>2
    <3> QED
      BY <1>1, <3>1 DEF ToSet
  <2> QED
    BY <2>1, <2>2
<1>5. ToSet(s) \subseteq ToSet(u)
  <2>1. \A i \in 1 .. Len(s) : i \in DOMAIN u
    BY <1>1
  <2> QED
    BY <1>1, <2>1 DEF ToSet
<1>6. ToSet(t) \subseteq ToSet(u)
  BY <1>1, <1>2 DEF ToSet
<1> QED
  BY <1>1, <1>4, <1>5, <1>6 DEF u

\* A queue that was offered stages of S.
Grows(q, r, S) ==
  /\ r \in StageQueues /\ r.failed = q.failed
  /\ q.offered \subseteq r.offered /\ r.offered \subseteq q.offered \cup S
  /\ QueueFits(q) => QueueFits(r)

LEMMA OfferGrows ==
  ASSUME NEW q \in StageQueues, NEW s \in StageNames
  PROVE  Grows(q, Offer(q, s), {s}) /\ holds(Offer(q, s), s)
<1>1. CASE holds(q, s)
  BY <1>1 DEF Offer, Grows
<1>2. CASE ~holds(q, s)
  <2> DEFINE o == q.offered \cup {s}
             c == Append(q.chain, s)
             r == Offer(q, s)
  <2>1. o \in SUBSET StageNames /\ c \in Seq(StageNames)
        /\ ToSet(c) = ToSet(q.chain) \cup {s} /\ q.failed \in BOOLEAN
    BY Members DEF StageQueues
  <2>2. r = [q EXCEPT !.offered = o, !.chain = c]
    BY <1>2 DEF Offer
  <2> HIDE DEF r, c, o
  <2>3. r \in StageQueues /\ r.failed = q.failed /\ r.offered = o /\ r.chain = c
    BY <2>1, <2>2 DEF StageQueues
  <2>4. QueueFits(q) => QueueFits(r)
    BY <2>1, <2>3 DEF QueueFits, o
  <2> QED
    BY <2>3, <2>4 DEF Grows, holds, r, o
<1> QED
  BY <1>1, <1>2

LEMMA OfferIfGrows ==
  ASSUME NEW q \in StageQueues, NEW s \in StageNames, NEW condition
  PROVE  /\ Grows(q, OfferIf(q, condition, s), {s})
         /\ condition => holds(OfferIf(q, condition, s), s)
         /\ ~condition => OfferIf(q, condition, s) = q
<1>1. CASE condition
  BY <1>1, OfferGrows DEF OfferIf
<1>2. CASE ~condition
  BY <1>2 DEF OfferIf, Grows
<1> QED
  BY <1>1, <1>2

LEMMA GrowsOn ==
  ASSUME NEW q, NEW r, NEW t, NEW S, NEW T, Grows(q, r, S), Grows(r, t, T)
  PROVE  /\ Grows(q, t, S \cup T)
         /\ \A s : holds(q, s) => holds(r, s)
  BY DEF Grows, holds

\* The stages that are named, each of them.
LEMMA StagesNamed ==
  /\ {"scheduled", "workspace_prepared", "server_ready", "participant_spawned",
      "model_started", "participant_control_started", "api_started", "turn_completed",
      "report_present", "report_valid", "finalization_started",
      "evidence_finalized"} \subseteq StageNames
  /\ OperatorStage \in StageNames
<1>1. DOMAIN ORDERED_STAGES = 1 .. 12
  BY DEF ORDERED_STAGES
<1>2. \A i \in 1 .. 12 : ORDERED_STAGES[i] \in StageNames
  BY <1>1 DEF StageNames, ToSet
<1>3. /\ ORDERED_STAGES[1] = "scheduled" /\ ORDERED_STAGES[2] = "workspace_prepared"
      /\ ORDERED_STAGES[3] = "server_ready"
      /\ ORDERED_STAGES[4] = "participant_spawned"
      /\ ORDERED_STAGES[5] = "model_started"
      /\ ORDERED_STAGES[6] = "participant_control_started"
      /\ ORDERED_STAGES[7] = "api_started" /\ ORDERED_STAGES[8] = "turn_completed"
      /\ ORDERED_STAGES[9] = "report_present" /\ ORDERED_STAGES[10] = "report_valid"
      /\ ORDERED_STAGES[11] = "finalization_started"
      /\ ORDERED_STAGES[12] = "evidence_finalized"
  BY DEF ORDERED_STAGES
<1>4. /\ 1 \in 1 .. 12 /\ 2 \in 1 .. 12 /\ 3 \in 1 .. 12 /\ 4 \in 1 .. 12
      /\ 5 \in 1 .. 12 /\ 6 \in 1 .. 12 /\ 7 \in 1 .. 12 /\ 8 \in 1 .. 12
      /\ 9 \in 1 .. 12 /\ 10 \in 1 .. 12 /\ 11 \in 1 .. 12 /\ 12 \in 1 .. 12
  OBVIOUS
<1> HIDE DEF ORDERED_STAGES
<1>5. OperatorStage \in StageNames
  BY DEF StageNames
<1> QED
  BY <1>2, <1>3, <1>4, <1>5

\* The stages an event of the agent may prove.
Proven ==
  {"participant_spawned", "model_started", "participant_control_started", "api_started"}

LEMMA ObserveIs ==
  ASSUME NEW q \in StageQueues, NEW f \in Facts, NEW event
  PROVE  LET o == Observe(q, f, event)
         IN  /\ Grows(q, o.queue, Proven \cup {"turn_completed"})
             /\ event # "turn.completed" => Grows(q, o.queue, Proven)
             /\ o.facts \in Facts
             /\ event = "agent.started" =>
                  o.facts.spawned /\ holds(o.queue, "participant_spawned")
             /\ event = "argv.recorded" /\ f.spawned =>
                  holds(o.queue, "participant_control_started")
<1> DEFINE f1 == CASE event = "agent.started" ->
                        [f EXCEPT !.spawned = TRUE, !.modelStarted = @ \/ ModelNamed]
                   [] event = "argv.recorded" -> [f EXCEPT !.modelStarted = TRUE]
                   [] event = "http.request" -> [f EXCEPT !.apiStarted = TRUE]
                   [] OTHER -> f
           c1 == event = "agent.started"
           s1 == OfferIf(q, c1, "participant_spawned")
           c2 == event = "agent.started" /\ ModelNamed
                   /\ ~holds(s1, "participant_control_started")
           s2 == OfferIf(s1, c2, "model_started")
           c3 == event = "turn.completed"
           s3 == OfferIf(s2, c3, "turn_completed")
           c4 == f1.spawned /\ (f1.modelStarted \/ f1.apiStarted)
           s4 == OfferIf(s3, c4, "participant_control_started")
           c5 == f1.spawned /\ f1.apiStarted
           s5 == OfferIf(s4, c5, "api_started")
           o == Observe(q, f, event)
<1>1. o = [queue |-> s5, facts |-> f1]
  BY DEF Observe
<1>2. /\ f1 \in Facts /\ (event = "agent.started" => f1.spawned)
      /\ (event = "argv.recorded" /\ f.spawned => f1.spawned /\ f1.modelStarted)
  <2>1. CASE event = "agent.started"
    <3> DEFINE m == f.modelStarted \/ ModelNamed
    <3>1. m \in BOOLEAN
      OBVIOUS
    <3>2. f1 = [f EXCEPT !.spawned = TRUE, !.modelStarted = m]
      BY <2>1
    <3> HIDE DEF m, f1
    <3> QED
      BY <2>1, <3>1, <3>2 DEF Facts
  <2>2. CASE event = "argv.recorded"
    BY <2>2 DEF Facts
  <2>3. CASE event = "http.request"
    BY <2>3 DEF Facts
  <2>4. CASE event \notin {"agent.started", "argv.recorded", "http.request"}
    BY <2>4 DEF Facts
  <2> QED
    BY <2>1, <2>2, <2>3, <2>4
<1> HIDE DEF f1, o, c1, c2, c3, c4, c5
<1>3. Grows(q, s1, {"participant_spawned"}) /\ (c1 => holds(s1, "participant_spawned"))
  BY StagesNamed, OfferIfGrows
<1> HIDE DEF s1
<1>4. Grows(s1, s2, {"model_started"})
  BY <1>3, StagesNamed, OfferIfGrows DEF Grows
<1> HIDE DEF s2
<1>5. Grows(s2, s3, {"turn_completed"}) /\ (~c3 => s3 = s2)
  BY <1>4, StagesNamed, OfferIfGrows DEF Grows
<1> HIDE DEF s3
<1>6. /\ Grows(s3, s4, {"participant_control_started"})
      /\ c4 => holds(s4, "participant_control_started")
  BY <1>5, StagesNamed, OfferIfGrows DEF Grows
<1> HIDE DEF s4
<1>7. Grows(s4, s5, {"api_started"})
  BY <1>6, StagesNamed, OfferIfGrows DEF Grows
<1> HIDE DEF s5
<1>8. Grows(q, s5, Proven \cup {"turn_completed"})
  BY <1>3, <1>4, <1>5, <1>6, <1>7 DEF Grows, Proven
<1>9. ~c3 => Grows(q, s5, Proven)
  BY <1>3, <1>4, <1>5, <1>6, <1>7 DEF Grows, Proven
<1>10. /\ holds(s1, "participant_spawned") => holds(s5, "participant_spawned")
       /\ holds(s4, "participant_control_started")
            => holds(s5, "participant_control_started")
  BY <1>4, <1>5, <1>6, <1>7 DEF Grows, holds
<1>11. o.queue = s5 /\ o.facts = f1
  BY <1>1
<1> QED
  BY <1>2, <1>3, <1>6, <1>8, <1>9, <1>10, <1>11 DEF o, c1, c3, c4

\* The disposition of a trial whose participant had control: what it never is,
\* what a completed one and a timed out one have behind them, and that it is
\* the operator's only when the operator was noticed.
LEMMA DispositionIs ==
  ASSUME NEW input,
         input.budgetAt = Never, input.invalidSetup = FALSE,
         input.operatorAt \in Moments, input.timeoutAt \in Moments,
         {"participant_spawned", "participant_control_started"} \subseteq input.stages
  PROVE  LET d == classifyDisposition(input)
         IN  /\ d \in Dispositions \ {"harness_aborted", "not_started", "invalid_setup"}
             /\ d = "completed" =>
                  /\ "turn_completed" \in input.stages
                  /\ ~failedExit(input.exit) /\ input.failure \notin {"provider", "infrastructure"}
                  /\ input.operatorAt = Never /\ input.timeoutAt = Never
             /\ input.timeoutAt # Never =>
                  d = IF input.operatorAt # Never /\ input.operatorAt < input.timeoutAt
                      THEN "operator_interrupted" ELSE "timed_out"
             /\ d = "operator_interrupted" => input.operatorAt # Never
<1> DEFINE control_ == "participant_control_started" \in input.stages
           spawned == "participant_spawned" \in input.stages
           fired == earliest(input.timeoutAt, input.budgetAt)
           split(pre, post) == IF control_ THEN post ELSE pre
           interrupts == input.operatorAt # Never
                           /\ (fired = Never \/ input.operatorAt < fired)
           limited == input.timeoutAt # Never
           budgeted == input.budgetAt # Never
           unset == input.invalidSetup /\ ~spawned
           provider == input.failure = "provider"
           infrastructure == input.failure = "infrastructure"
           failedRun == control_ /\ failedExit(input.exit)
           turned == "turn_completed" \in input.stages
           unstarted == input.notStarted
           rules ==
             << <<interrupts, "operator_interrupted">>, <<limited, "timed_out">>,
                <<budgeted, "budget_exhausted">>, <<unset, "invalid_setup">>,
                <<provider, split("provider_failed_pre_control",
                                  "provider_failed_post_control")>>,
                <<infrastructure, split("infrastructure_failed_pre_control",
                                        "infrastructure_failed_post_control")>>,
                <<failedRun, "agent_failed">>, <<turned, "completed">>,
                <<spawned, "agent_incomplete">>, <<unstarted, "not_started">>,
                <<TRUE, "harness_aborted">> >>
           d == classifyDisposition(input)
<1>1. d = FirstRule(rules)
  BY DEF classifyDisposition
<1>2. control_ /\ spawned /\ ~budgeted /\ ~unset
  OBVIOUS
<1>3. fired = input.timeoutAt
  BY DEF earliest
<1>4. interrupts <=> input.operatorAt # Never
                       /\ (input.timeoutAt = Never \/ input.operatorAt < input.timeoutAt)
  BY <1>3
<1>5. failedRun <=> failedExit(input.exit)
  BY <1>2
<1> HIDE DEF control_, spawned, fired, interrupts, limited, budgeted, unset, provider,
             infrastructure, failedRun, turned, unstarted, d
<1>6. DOMAIN rules = 1 .. 11 /\ rules[1][2] = "operator_interrupted"
      /\ rules[2][2] = "timed_out" /\ rules[7][2] = "agent_failed"
      /\ rules[8][2] = "completed" /\ rules[9][2] = "agent_incomplete"
  OBVIOUS
<1>7. rules[5][2] = "provider_failed_post_control"
      /\ rules[6][2] = "infrastructure_failed_post_control"
  BY <1>2
<1>8. /\ rules[1][1] <=> interrupts
      /\ rules[2][1] <=> limited
      /\ rules[3][1] <=> budgeted
      /\ rules[4][1] <=> unset
      /\ rules[5][1] <=> provider
      /\ rules[6][1] <=> infrastructure
      /\ rules[7][1] <=> failedRun
      /\ rules[8][1] <=> turned
      /\ rules[9][1] <=> spawned
  BY Zenon
<1> HIDE DEF rules
<1>9. CASE interrupts
  <2>1. rules[1][1] /\ \A j \in 1 .. 1 - 1 : ~rules[j][1]
    <3>1. \A j \in 1 .. 1 - 1 : FALSE
      OBVIOUS
    <3> QED
      BY <1>2, <1>8, <1>9, <3>1
  <2>2. d = rules[1][2]
    BY <1>1, <1>6, <2>1, FirstRuleIs, 11 \in Nat, 1 \in 1 .. 11
  <2>3. d = "operator_interrupted"
    BY <1>6, <1>7, <2>2
  <2> QED
    BY <1>4, <1>5, <1>9, <2>3 DEF Dispositions, limited, provider, infrastructure, turned, d,
       Moments, Never
<1>10. CASE ~interrupts /\ limited
  <2>1. rules[2][1] /\ \A j \in 1 .. 2 - 1 : ~rules[j][1]
    <3>1. \A j \in 1 .. 2 - 1 : j = 1
      OBVIOUS
    <3> QED
      BY <1>2, <1>8, <1>10, <3>1
  <2>2. d = rules[2][2]
    BY <1>1, <1>6, <2>1, FirstRuleIs, 11 \in Nat, 2 \in 1 .. 11
  <2>3. d = "timed_out"
    BY <1>6, <1>7, <2>2
  <2> QED
    BY <1>4, <1>5, <1>10, <2>3 DEF Dispositions, limited, provider, infrastructure, turned, d,
       Moments, Never
<1>11. CASE ~interrupts /\ ~limited /\ provider
  <2>1. rules[5][1] /\ \A j \in 1 .. 5 - 1 : ~rules[j][1]
    <3>1. \A j \in 1 .. 5 - 1 : j = 1 \/ j = 2 \/ j = 3 \/ j = 4
      OBVIOUS
    <3> QED
      BY <1>2, <1>8, <1>11, <3>1
  <2>2. d = rules[5][2]
    BY <1>1, <1>6, <2>1, FirstRuleIs, 11 \in Nat, 5 \in 1 .. 11
  <2>3. d = "provider_failed_post_control"
    BY <1>6, <1>7, <2>2
  <2> QED
    BY <1>4, <1>5, <1>11, <2>3 DEF Dispositions, limited, provider, infrastructure, turned, d,
       Moments, Never
<1>12. CASE ~interrupts /\ ~limited /\ ~provider /\ infrastructure
  <2>1. rules[6][1] /\ \A j \in 1 .. 6 - 1 : ~rules[j][1]
    <3>1. \A j \in 1 .. 6 - 1 : j = 1 \/ j = 2 \/ j = 3 \/ j = 4 \/ j = 5
      OBVIOUS
    <3> QED
      BY <1>2, <1>8, <1>12, <3>1
  <2>2. d = rules[6][2]
    BY <1>1, <1>6, <2>1, FirstRuleIs, 11 \in Nat, 6 \in 1 .. 11
  <2>3. d = "infrastructure_failed_post_control"
    BY <1>6, <1>7, <2>2
  <2> QED
    BY <1>4, <1>5, <1>12, <2>3 DEF Dispositions, limited, provider, infrastructure, turned, d,
       Moments, Never
<1>13. CASE ~interrupts /\ ~limited /\ ~provider /\ ~infrastructure /\ failedRun
  <2>1. rules[7][1] /\ \A j \in 1 .. 7 - 1 : ~rules[j][1]
    <3>1. \A j \in 1 .. 7 - 1 : j = 1 \/ j = 2 \/ j = 3 \/ j = 4 \/ j = 5 \/ j = 6
      OBVIOUS
    <3> QED
      BY <1>2, <1>8, <1>13, <3>1
  <2>2. d = rules[7][2]
    BY <1>1, <1>6, <2>1, FirstRuleIs, 11 \in Nat, 7 \in 1 .. 11
  <2>3. d = "agent_failed"
    BY <1>6, <1>7, <2>2
  <2> QED
    BY <1>4, <1>5, <1>13, <2>3 DEF Dispositions, limited, provider, infrastructure, turned, d,
       Moments, Never
<1>14. CASE ~interrupts /\ ~limited /\ ~provider /\ ~infrastructure /\ ~failedRun /\ turned
  <2>1. rules[8][1] /\ \A j \in 1 .. 8 - 1 : ~rules[j][1]
    <3>1. \A j \in 1 .. 8 - 1 : j = 1 \/ j = 2 \/ j = 3 \/ j = 4 \/ j = 5 \/ j = 6 \/ j = 7
      OBVIOUS
    <3> QED
      BY <1>2, <1>8, <1>14, <3>1
  <2>2. d = rules[8][2]
    BY <1>1, <1>6, <2>1, FirstRuleIs, 11 \in Nat, 8 \in 1 .. 11
  <2>3. d = "completed"
    BY <1>6, <1>7, <2>2
  <2> QED
    BY <1>4, <1>5, <1>14, <2>3 DEF Dispositions, limited, provider, infrastructure, turned, d,
       Moments, Never
<1>15. CASE ~interrupts /\ ~limited /\ ~provider /\ ~infrastructure /\ ~failedRun /\ ~turned
  <2>1. rules[9][1] /\ \A j \in 1 .. 9 - 1 : ~rules[j][1]
    <3>1. \A j \in 1 .. 9 - 1 : j = 1 \/ j = 2 \/ j = 3 \/ j = 4 \/ j = 5 \/ j = 6 \/ j = 7 \/ j = 8
      OBVIOUS
    <3> QED
      BY <1>2, <1>8, <1>15, <3>1
  <2>2. d = rules[9][2]
    BY <1>1, <1>6, <2>1, FirstRuleIs, 11 \in Nat, 9 \in 1 .. 11
  <2>3. d = "agent_incomplete"
    BY <1>6, <1>7, <2>2
  <2> QED
    BY <1>4, <1>5, <1>15, <2>3 DEF Dispositions, limited, provider, infrastructure, turned, d,
       Moments, Never
<1> QED
  BY <1>9, <1>10, <1>11, <1>12, <1>13, <1>14, <1>15

-----------------------------------------------------------------------------
(***************************************************************************)
(* Each step of a trial keeps the invariant                                *)
(***************************************************************************)
LEMMA RecordStays ==
  ASSUME RecordFits, UNCHANGED record, at \notin {"manifest", "done"},
         at' \notin {"manifest", "done"}
  PROVE  RecordFits' /\ ~Verdict /\ ~Verdict'
  BY DEF RecordFits, Verdict

LEMMA FaultsStay ==
  ASSUME faults \in 0 .. MaxFaults, Fault \/ NoFault PROVE faults' \in 0 .. MaxFaults
  BY TrialAssumption DEF Fault, NoFault

LEMMA ScenarioCloses ==
  ASSUME scenario \in {"off", "open", "closed"}, CloseScenario
  PROVE  scenario' \in {"off", "closed"}
  BY DEF CloseScenario

\* Before the agent is spawned nothing is queued, and the ledger holds only
\* what the setup recorded.
LEMMA BeforeIsBare ==
  ASSUME TrialInv, at \in Before
  PROVE  /\ stages.chain = << >> /\ stages.offered = {}
         /\ ToSet(ledger) \subseteq OwnStages /\ ToSet(<< >>) = {}
<1>1. stages.chain \in Seq(StageNames)
  BY DEF TrialInv, TrialType, StageQueues
<1>2. stages.offered = {} /\ ToSet(stages.chain) = {}
      /\ ToSet(ledger) \subseteq OwnStages
  BY DEF TrialInv, StagesFit, QueueFits
<1>3. ToSet(<< >>) = {}
  BY DEF ToSet
<1> QED
  BY <1>1, <1>2, <1>3, Members

LEMMA TrialInitially == ASSUME TrialInit PROVE TrialInv
<1>1. ProcessInv /\ ExitFits
  BY ProcessInitially, ExitInitially DEF TrialInit
<1>2. TrialType
  <2>1. /\ at \in Places /\ status \in AgentStatuses
        /\ scenario \in {"off", "open", "closed"} /\ exposure \in {"none", "open", "closed"}
    BY DEF TrialInit, Places, AgentStatuses
  <2>2. ledger \in Seq(StageNames) /\ stages \in StageQueues
    BY DEF TrialInit, StageQueues
  <2>3. session \in [owed : BOOLEAN, failed : BOOLEAN] /\ facts \in Facts
        /\ interrupted \in BOOLEAN /\ hooked \in BOOLEAN /\ guard \in BOOLEAN
    BY DEF TrialInit, Facts
  <2>4. /\ signals \in [operator : Moments, timeout : Moments]
        /\ clock \in 0 .. MaxTime /\ faults \in 0 .. MaxFaults
    BY TrialAssumption DEF TrialInit, Moments
  <2> QED
    BY <2>1, <2>2, <2>3, <2>4 DEF TrialType
<1>3. HeldFits /\ SignalsFit /\ SessionFits /\ RecordFits
  BY DEF TrialInit, HeldFits, SignalsFit, SessionFits, RecordFits, Verdict, AfterRun
<1>4. ToSet(<< >>) = {}
  BY DEF ToSet
<1>5. StagesFit
  BY <1>4 DEF TrialInit, StagesFit, QueueFits, Verdict, Ran, AfterRun
<1> QED
  BY <1>1, <1>2, <1>3, <1>5 DEF TrialInv

\* What a trial whose setup failed leaves behind.
LEMMA FailedSetup ==
  ASSUME TrialInv, at \in Before, SetupFailure,
         UNCHANGED <<processVars, stages, session, interrupted, hooked, guard, signals,
                     clock, status, facts>>,
         exposure' \in {"none", "closed"}, scenario' \in {"off", "closed"},
         ledger' \in Seq(StageNames), ToSet(ledger') \subseteq OwnStages
  PROVE  TrialInv'
<1>1. ProcessInv' /\ ExitFits'
  BY ProcessKept DEF TrialInv
<1>0. faults \in 0 .. MaxFaults /\ record = NoRecord
  BY DEF TrialInv, TrialType, RecordFits, Before
<1>2. /\ faults' \in 0 .. MaxFaults /\ at' \in {"done", "threw"}
      /\ at' = "threw" => record' = NoRecord
      /\ at' = "done" => record'.disposition = "invalid_setup"
                         /\ record'.censor = "pre_control_nonparticipant"
  <2>1. CASE NoFault /\ at' = "done"
             /\ record' = [disposition |-> "invalid_setup",
                           censor |-> "pre_control_nonparticipant"]
    BY <1>0, <2>1 DEF NoFault
  <2>2. CASE Fault /\ UNCHANGED record /\ at' = "threw"
    BY <1>0, <2>2, TrialAssumption DEF Fault
  <2> QED
    BY <2>1, <2>2 DEF SetupFailure, Goto
<1>3. TrialType'
  BY <1>2 DEF TrialInv, TrialType, Places
<1>4. HeldFits'
  BY <1>2 DEF TrialInv, HeldFits, Before
<1>5. ~Verdict' /\ ~Ran'
  BY <1>2 DEF Verdict, Ran, AfterRun
<1>6. StagesFit'
  BY <1>2, <1>5, BeforeIsBare, Members DEF TrialInv, TrialType, StagesFit, QueueFits, Before
<1>7. SignalsFit' /\ SessionFits'
  BY <1>2, <1>5 DEF TrialInv, SignalsFit, SessionFits, AfterRun, Before
<1>8. "participant_control_started" \notin ToSet(ledger')
  BY DEF OwnStages
<1>9. RecordFits'
  BY <1>2, <1>5, <1>8 DEF RecordFits, Censored, CensorClasses
<1> QED
  BY <1>1, <1>3, <1>4, <1>6, <1>7, <1>9 DEF TrialInv

LEMMA KeepOpenScenario == ASSUME TrialInv, OpenScenario PROVE TrialInv'
<1>0. at = "start" /\ at \in Before /\ exposure \in {"none", "open", "closed"}
      /\ exposure # "open" /\ scenario # "open" /\ scenario \in {"off", "open", "closed"}
      /\ ledger \in Seq(StageNames)
  BY DEF OpenScenario, TrialInv, HeldFits, TrialType, Before
<1>1. CASE SetupFailure /\ UNCHANGED scenario
  BY <1>0, <1>1, BeforeIsBare, FailedSetup DEF OpenScenario
<1>2. CASE at' = "setup" /\ scenario' \in {"open", "off"} /\ UNCHANGED <<faults, record>>
  <2>1. ProcessInv' /\ ExitFits' /\ RecordFits' /\ ~Verdict'
    BY <1>0, <1>2, ProcessKept, RecordStays DEF OpenScenario, TrialInv
  <2>2. TrialType'
    BY <1>2 DEF TrialInv, TrialType, OpenScenario, Places
  <2>3. HeldFits' /\ SignalsFit' /\ SessionFits'
    BY <1>0, <1>2, <2>1 DEF TrialInv, HeldFits, SignalsFit, SessionFits, OpenScenario, Before,
       AfterRun
  <2>4. StagesFit'
    BY <1>0, <1>2, <2>1 DEF TrialInv, StagesFit, QueueFits, OpenScenario, Before, Ran, AfterRun,
       processVars
  <2> QED
    BY <2>1, <2>2, <2>3, <2>4 DEF TrialInv
<1> QED
  BY <1>1, <1>2 DEF OpenScenario, Goto, NoFault

\* The stages setup records itself.
LEMMA OwnSequences ==
  /\ <<"scheduled">> \in Seq(StageNames) /\ ToSet(<<"scheduled">>) = {"scheduled"}
  /\ <<"workspace_prepared", "server_ready">> \in Seq(StageNames)
  /\ ToSet(<<"workspace_prepared", "server_ready">>)
       = {"workspace_prepared", "server_ready"}
  /\ <<"finalization_started", "evidence_finalized">> \in Seq(StageNames)
  /\ ToSet(<<"finalization_started", "evidence_finalized">>)
       = {"finalization_started", "evidence_finalized"}
  /\ <<"scheduled", "finalization_started", "evidence_finalized">> \in Seq(StageNames)
  /\ ToSet(<<"scheduled", "finalization_started", "evidence_finalized">>)
       = {"scheduled", "finalization_started", "evidence_finalized"}
  /\ << >> \in Seq(StageNames) /\ ToSet(<< >>) = {}
<1>1. /\ "scheduled" \in StageNames /\ "workspace_prepared" \in StageNames
      /\ "server_ready" \in StageNames /\ "finalization_started" \in StageNames
      /\ "evidence_finalized" \in StageNames
  BY StagesNamed
<1>2. \A x, y, z \in StageNames :
        /\ <<x>> \in Seq(StageNames) /\ <<x, y>> \in Seq(StageNames)
        /\ <<x, y, z>> \in Seq(StageNames)
  OBVIOUS
<1>3. \A x, y, z : /\ ToSet(<<x>>) = {x} /\ ToSet(<<x, y>>) = {x, y}
                   /\ ToSet(<<x, y, z>>) = {x, y, z}
  <2> TAKE x, y, z
  <2>1. /\ DOMAIN <<x>> = {1} /\ <<x>>[1] = x
        /\ DOMAIN <<x, y>> = {1, 2} /\ <<x, y>>[1] = x /\ <<x, y>>[2] = y
        /\ DOMAIN <<x, y, z>> = {1, 2, 3} /\ <<x, y, z>>[1] = x /\ <<x, y, z>>[2] = y
        /\ <<x, y, z>>[3] = z
    OBVIOUS
  <2> QED
    BY <2>1 DEF ToSet
<1> QED
  BY <1>1, <1>2, <1>3 DEF ToSet

LEMMA KeepSetupStarts == ASSUME TrialInv, SetupStarts PROVE TrialInv'
<1>0. /\ at = "setup" /\ at \in Before /\ exposure \in {"none", "open", "closed"}
      /\ exposure # "open" /\ scenario \in {"off", "open", "closed"}
      /\ faults \in 0 .. MaxFaults
  BY DEF SetupStarts, TrialInv, HeldFits, TrialType, Before
<1>1. CASE /\ ledger' = <<"scheduled", "finalization_started", "evidence_finalized">>
           /\ CloseScenario /\ UNCHANGED exposure /\ SetupFailure
  BY <1>0, <1>1, OwnSequences, FailedSetup DEF SetupStarts, CloseScenario, OwnStages
<1>2. CASE \/ /\ ledger' = <<"scheduled">> /\ exposure' = "open" /\ at' = "exposed"
              /\ UNCHANGED <<scenario, record, faults>>
           \/ /\ Fault /\ at' = "threw" /\ ledger' \in {<< >>, <<"scheduled">>}
              /\ CloseScenario /\ UNCHANGED <<exposure, record>>
  <2>0. /\ ledger' \in Seq(StageNames) /\ ToSet(ledger') \subseteq {"scheduled"}
        /\ at' \in {"exposed", "threw"} /\ faults' \in 0 .. MaxFaults
        /\ scenario' \in {"off", "open", "closed"}
        /\ scenario' = "open" => at' = "exposed"
        /\ exposure' \in {"none", "open", "closed"} /\ (exposure' = "open" => at' = "exposed")
        /\ UNCHANGED record
    <3>1. /\ ledger' \in Seq(StageNames) /\ ToSet(ledger') \subseteq {"scheduled"}
      BY <1>2, OwnSequences
    <3>2. faults' \in 0 .. MaxFaults
      BY <1>0, <1>2, FaultsStay DEF NoFault
    <3>3. /\ scenario' \in {"off", "open", "closed"}
          /\ scenario' = "open" => at' = "exposed"
      BY <1>0, <1>2, ScenarioCloses
    <3> QED
      BY <1>0, <1>2, <3>1, <3>2, <3>3
  <2>1. ProcessInv' /\ ExitFits' /\ RecordFits' /\ ~Verdict'
    BY <1>0, <2>0, ProcessKept, RecordStays DEF SetupStarts, TrialInv
  <2>2. TrialType'
    BY <2>0 DEF TrialInv, TrialType, SetupStarts, Places
  <2>3. HeldFits' /\ SignalsFit' /\ SessionFits'
    BY <1>0, <2>0, <2>1 DEF TrialInv, HeldFits, SignalsFit, SessionFits, SetupStarts, Before,
       AfterRun
  <2>4. StagesFit'
    BY <1>0, <2>0, <2>1, BeforeIsBare, OwnSequences
    DEF TrialInv, StagesFit, QueueFits, SetupStarts, Before, Ran, AfterRun, OwnStages
  <2> QED
    BY <2>1, <2>2, <2>3, <2>4 DEF TrialInv
<1> QED
  BY <1>1, <1>2 DEF SetupStarts, Goto, NoFault

LEMMA KeepSetupFinishes == ASSUME TrialInv, SetupFinishes PROVE TrialInv'
<1>0. /\ at = "exposed" /\ at \in Before /\ ledger \in Seq(StageNames)
      /\ scenario \in {"off", "open", "closed"} /\ faults \in 0 .. MaxFaults
  BY DEF SetupFinishes, TrialInv, TrialType, Before
<1>1. CASE /\ \E prefix \in {<< >>, <<"workspace_prepared", "server_ready">>} :
                ledger' = ledger \o prefix
                            \o <<"finalization_started", "evidence_finalized">>
           /\ exposure' = "closed" /\ CloseScenario /\ SetupFailure
  <2>1. PICK prefix \in {<< >>, <<"workspace_prepared", "server_ready">>} :
          ledger' = (ledger \o prefix) \o <<"finalization_started", "evidence_finalized">>
    BY <1>1
  <2>2. prefix \in Seq(StageNames)
        /\ ToSet(prefix) \subseteq {"workspace_prepared", "server_ready"}
    BY OwnSequences
  <2>3. /\ ledger \o prefix \in Seq(StageNames)
        /\ ToSet(ledger \o prefix) = ToSet(ledger) \cup ToSet(prefix)
    BY <1>0, <2>2, MembersJoin
  <2>4. /\ ledger' \in Seq(StageNames)
        /\ ToSet(ledger') = ToSet(ledger \o prefix)
                              \cup {"finalization_started", "evidence_finalized"}
    <3>1. PICK t : t = <<"finalization_started", "evidence_finalized">>
      OBVIOUS
    <3>2. PICK l : l = ledger \o prefix
      OBVIOUS
    <3>3. l \in Seq(StageNames) /\ t \in Seq(StageNames) /\ ledger' = l \o t
          /\ ToSet(t) = {"finalization_started", "evidence_finalized"}
      BY <2>1, <2>3, <3>1, <3>2, OwnSequences
    <3>4. ledger' \in Seq(StageNames) /\ ToSet(ledger') = ToSet(l) \cup ToSet(t)
      BY <3>3, MembersJoin
    <3> QED
      BY <3>2, <3>3, <3>4
  <2>5. ToSet(ledger') \subseteq OwnStages
    BY <1>0, <2>2, <2>3, <2>4, BeforeIsBare DEF OwnStages
  <2> QED
    BY <1>0, <1>1, <2>4, <2>5, FailedSetup DEF SetupFinishes, CloseScenario
<1>2. CASE /\ ledger' = ledger \o <<"workspace_prepared", "server_ready">>
           /\ at' = "open" /\ UNCHANGED <<scenario, exposure, record, faults>>
  <2>0. /\ ledger' \in Seq(StageNames)
        /\ ToSet(ledger') = ToSet(ledger) \cup {"workspace_prepared", "server_ready"}
    <3>1. PICK t : t = <<"workspace_prepared", "server_ready">>
      OBVIOUS
    <3>2. t \in Seq(StageNames) /\ ledger' = ledger \o t
          /\ ToSet(t) = {"workspace_prepared", "server_ready"}
      BY <1>2, <3>1, OwnSequences
    <3>3. ledger' \in Seq(StageNames) /\ ToSet(ledger') = ToSet(ledger) \cup ToSet(t)
      BY <1>0, <3>2, MembersJoin
    <3> QED
      BY <3>2, <3>3
  <2>1. ProcessInv' /\ ExitFits' /\ RecordFits' /\ ~Verdict'
    BY <1>0, <1>2, ProcessKept, RecordStays DEF SetupFinishes, TrialInv
  <2>2. TrialType'
    BY <1>2, <2>0 DEF TrialInv, TrialType, SetupFinishes, Places
  <2>3. HeldFits' /\ SignalsFit' /\ SessionFits'
    BY <1>0, <1>2, <2>1 DEF TrialInv, HeldFits, SignalsFit, SessionFits, SetupFinishes, Before,
       AfterRun
  <2>4. StagesFit'
    BY <1>0, <1>2, <2>0, <2>1, BeforeIsBare, OwnSequences
    DEF TrialInv, StagesFit, QueueFits, SetupFinishes, Before, Ran, AfterRun, OwnStages
  <2> QED
    BY <2>1, <2>2, <2>3, <2>4 DEF TrialInv
<1> QED
  BY <1>1, <1>2 DEF SetupFinishes, Goto, NoFault

LEMMA KeepOpenSession == ASSUME TrialInv, OpenSession PROVE TrialInv'
<1>0. /\ at = "open" /\ at \in Before /\ faults \in 0 .. MaxFaults
      /\ scenario \in {"off", "open", "closed"} /\ hooked = FALSE /\ guard = FALSE
  BY DEF OpenSession, TrialInv, TrialType, HeldFits, Before
<1>1. /\ at' \in {"prepare", "threw"} /\ faults' \in 0 .. MaxFaults
      /\ hooked' \in BOOLEAN /\ guard' \in BOOLEAN
      /\ guard' \/ hooked' => at' = "prepare"
      /\ scenario' \in {"off", "open", "closed"} /\ (scenario' = "open" => at' = "prepare")
      /\ exposure' \in {exposure, "closed"} /\ (exposure' = "open" => at' = "prepare")
  <2>1. CASE /\ hooked' = ~interrupted /\ guard' = TRUE /\ at' = "prepare" /\ NoFault
             /\ UNCHANGED <<scenario, exposure>>
    <3>1. /\ faults' \in 0 .. MaxFaults /\ hooked' \in BOOLEAN
          /\ exposure \in {"none", "open", "closed"}
      BY <1>0, <2>1, FaultsStay DEF TrialInv, TrialType
    <3> QED
      BY <1>0, <2>1, <3>1
  <2>2. CASE /\ Fault /\ exposure' = "closed" /\ CloseScenario /\ at' = "threw"
             /\ UNCHANGED <<hooked, guard>>
    BY <1>0, <2>2, FaultsStay, ScenarioCloses
  <2> QED
    BY <2>1, <2>2 DEF OpenSession, Goto
<1>2. ProcessInv' /\ ExitFits' /\ RecordFits' /\ ~Verdict'
  BY <1>0, <1>1, ProcessKept, RecordStays DEF OpenSession, TrialInv
<1>3. TrialType'
  BY <1>1 DEF TrialInv, TrialType, OpenSession, Places
<1>4. HeldFits' /\ SignalsFit' /\ SessionFits'
  BY <1>0, <1>1, <1>2 DEF TrialInv, HeldFits, SignalsFit, SessionFits, OpenSession, Before,
     AfterRun
<1>5. StagesFit'
  BY <1>0, <1>1, <1>2, BeforeIsBare
  DEF TrialInv, StagesFit, QueueFits, OpenSession, Before, Ran, AfterRun, OwnStages
<1> QED
  BY <1>2, <1>3, <1>4, <1>5 DEF TrialInv

LEMMA KeepTick == ASSUME TrialInv, Tick PROVE TrialInv'
<1>0. at \in {"prepare", "running"} /\ at' = at /\ clock' \in 0 .. MaxTime
  <2>1. clock \in 0 .. MaxTime /\ clock < MaxTime /\ clock' = clock + 1
    BY DEF Tick, TrialInv, TrialType
  <2> QED
    BY <2>1, TrialAssumption DEF Tick
<1>1. ProcessInv' /\ ExitFits' /\ RecordFits' /\ ~Verdict'
  BY <1>0, ProcessKept, RecordStays DEF Tick, TrialInv
<1>2. TrialType'
  BY <1>0 DEF TrialInv, TrialType, Tick
<1>3. HeldFits' /\ SignalsFit' /\ SessionFits'
  BY <1>0, <1>1 DEF TrialInv, HeldFits, SignalsFit, SessionFits, Tick, Before, AfterRun
<1>4. StagesFit'
  BY <1>0, <1>1 DEF TrialInv, StagesFit, QueueFits, Tick, Before, Ran, AfterRun, processVars
<1> QED
  BY <1>1, <1>2, <1>3, <1>4 DEF TrialInv

LEMMA KeepPrepareThrows == ASSUME TrialInv, PrepareThrows PROVE TrialInv'
<1>0. /\ at = "prepare" /\ at' = "threw" /\ faults' \in 0 .. MaxFaults
      /\ scenario' \in {"off", "closed"}
      /\ guard' = FALSE /\ hooked' = FALSE /\ exposure' = "closed"
  BY FaultsStay, ScenarioCloses DEF PrepareThrows, TrialInv, TrialType, Goto, LeaveRun
<1>1. ProcessInv' /\ ExitFits' /\ RecordFits' /\ ~Verdict'
  BY <1>0, ProcessKept, RecordStays DEF PrepareThrows, TrialInv
<1>2. TrialType'
  BY <1>0 DEF TrialInv, TrialType, PrepareThrows, Places
<1>3. HeldFits' /\ SignalsFit' /\ SessionFits'
  BY <1>0, <1>1 DEF TrialInv, HeldFits, SignalsFit, SessionFits, PrepareThrows, Before,
     AfterRun
<1>4. StagesFit'
  BY <1>0, <1>1 DEF TrialInv, StagesFit, QueueFits, PrepareThrows, Before, Ran, AfterRun,
     processVars
<1> QED
  BY <1>1, <1>2, <1>3, <1>4 DEF TrialInv

LEMMA KeepReadScenario == ASSUME TrialInv, ReadScenario PROVE TrialInv'
<1>0. at = "ran" /\ at' = "flush" /\ scenario' \in {"off", "closed"}
  BY ScenarioCloses DEF ReadScenario, TrialInv, TrialType, Goto
<1>1. ProcessInv' /\ ExitFits' /\ RecordFits' /\ ~Verdict'
  BY <1>0, ProcessKept, RecordStays DEF ReadScenario, TrialInv
<1>2. TrialType'
  BY <1>0 DEF TrialInv, TrialType, ReadScenario, Places
<1>3. HeldFits' /\ SignalsFit' /\ SessionFits'
  BY <1>0, <1>1 DEF TrialInv, HeldFits, SignalsFit, SessionFits, ReadScenario, Before,
     AfterRun, processVars
<1>4. StagesFit'
  BY <1>0, <1>1 DEF TrialInv, StagesFit, QueueFits, ReadScenario, Before, Ran, AfterRun,
     processVars
<1> QED
  BY <1>1, <1>2, <1>3, <1>4 DEF TrialInv

LEMMA KeepAppendSession == ASSUME TrialInv, AppendSession PROVE TrialInv'
<1>0. /\ at = "flush" /\ at' = at /\ faults' \in 0 .. MaxFaults
      /\ session' \in [owed : BOOLEAN, failed : BOOLEAN]
  <2>1. session' \in [owed : BOOLEAN, failed : BOOLEAN]
    <3>1. session \in [owed : BOOLEAN, failed : BOOLEAN]
      BY DEF TrialInv, TrialType
    <3>2. CASE session' = [session EXCEPT !.owed = FALSE]
      BY <3>1, <3>2
    <3>3. CASE session' = [owed |-> FALSE, failed |-> TRUE]
      BY <3>3
    <3> QED
      BY <3>2, <3>3 DEF AppendSession
  <2>2. at = "flush" /\ at' = at /\ faults' \in 0 .. MaxFaults
    BY FaultsStay DEF AppendSession, TrialInv, TrialType
  <2> QED
    BY <2>1, <2>2
<1>1. ProcessInv' /\ ExitFits' /\ RecordFits' /\ ~Verdict'
  BY <1>0, ProcessKept, RecordStays DEF AppendSession, TrialInv
<1>2. TrialType'
  BY <1>0 DEF TrialInv, TrialType, AppendSession
<1>3. HeldFits' /\ SignalsFit' /\ SessionFits'
  BY <1>0, <1>1 DEF TrialInv, HeldFits, SignalsFit, SessionFits, AppendSession, Before,
     AfterRun, processVars
<1>4. StagesFit'
  BY <1>0, <1>1 DEF TrialInv, StagesFit, QueueFits, AppendSession, Before, Ran, AfterRun,
     processVars
<1> QED
  BY <1>1, <1>2, <1>3, <1>4 DEF TrialInv

LEMMA KeepFlushAgain == ASSUME TrialInv, FlushAgain PROVE TrialInv'
<1>0. /\ at = "reported" /\ at' \in {"threw", "conclude"} /\ stages.chain = << >>
      /\ at' = "conclude" => ~stages.failed
  BY DEF FlushAgain, Goto, Drained
<1>1. ProcessInv' /\ ExitFits' /\ RecordFits' /\ ~Verdict'
  BY <1>0, ProcessKept, RecordStays DEF FlushAgain, TrialInv
<1>2. TrialType'
  BY <1>0 DEF TrialInv, TrialType, FlushAgain, Places
<1>3. HeldFits' /\ SignalsFit' /\ SessionFits'
  BY <1>0, <1>1 DEF TrialInv, HeldFits, SignalsFit, SessionFits, FlushAgain, Before,
     AfterRun, processVars
<1>4. StagesFit'
  BY <1>0, <1>1 DEF TrialInv, StagesFit, QueueFits, FlushAgain, Before, Ran, AfterRun,
     processVars
<1> QED
  BY <1>1, <1>2, <1>3, <1>4 DEF TrialInv

LEMMA KeepWriteThrows == ASSUME TrialInv, WriteThrows PROVE TrialInv'
<1>0. /\ at \in {"conclude", "manifest"} /\ at' = "threw" /\ faults' \in 0 .. MaxFaults
      /\ record' = NoRecord
  BY FaultsStay DEF WriteThrows, Goto, TrialInv, TrialType
<1>1. ProcessInv' /\ ExitFits' /\ RecordFits' /\ ~Verdict'
  BY <1>0, ProcessKept DEF WriteThrows, TrialInv, RecordFits, Verdict
<1>2. TrialType'
  BY <1>0 DEF TrialInv, TrialType, WriteThrows, Places
<1>3. HeldFits' /\ SignalsFit' /\ SessionFits'
  BY <1>0, <1>1 DEF TrialInv, HeldFits, SignalsFit, SessionFits, WriteThrows, Before,
     AfterRun, processVars
<1>4. StagesFit'
  BY <1>0, <1>1 DEF TrialInv, StagesFit, QueueFits, WriteThrows, Before, Ran, AfterRun,
     processVars
<1> QED
  BY <1>1, <1>2, <1>3, <1>4 DEF TrialInv

LEMMA KeepWriteRecord == ASSUME TrialInv, WriteRecord PROVE TrialInv'
<1>0. /\ at = "manifest" /\ at' = "done"
      /\ record' = [disposition |-> record.pending, censor |-> record.censor,
                    integrity |-> record.integrity]
      /\ UNCHANGED <<processVars, ledger, stages, session, signals, interrupted>>
  BY DEF WriteRecord, Goto
<1>1. ProcessInv' /\ ExitFits' /\ UNCHANGED <<heard, result>>
  BY <1>0, ProcessKept DEF TrialInv, processVars
<1>2. RecordFits' /\ record'.disposition # "invalid_setup" /\ Verdict'
  <2>1. /\ Earned(record.pending) /\ Censored(record.censor)
        /\ record.integrity \in Integrity /\ Last(ledger) = "evidence_finalized"
    BY <1>0 DEF TrialInv, RecordFits
  <2>2. PICK d, c : d = record.pending /\ c = record.censor
    OBVIOUS
  <2>3. Earned(d)' /\ Censored(c)'
    BY <1>0, <1>1, <2>1, <2>2 DEF Earned, Censored
  <2>4. d # "invalid_setup"
    BY <2>1, <2>2 DEF Earned
  <2>5. record'.disposition = d /\ record'.censor = c /\ record'.integrity = record.integrity
    BY <1>0, <2>2
  <2>6. Earned(record.disposition)' /\ Censored(record.censor)'
    BY <2>3, <2>5 DEF Earned, Censored
  <2> QED
    BY <1>0, <2>1, <2>4, <2>5, <2>6 DEF RecordFits, Verdict
<1>3. TrialType'
  BY <1>0 DEF TrialInv, TrialType, WriteRecord, Places
<1>4. HeldFits' /\ SignalsFit' /\ SessionFits'
  BY <1>0, <1>1, <1>2 DEF TrialInv, HeldFits, SignalsFit, SessionFits, WriteRecord, Before,
     AfterRun, processVars
<1>5. StagesFit'
  BY <1>0, <1>1, <1>2 DEF TrialInv, StagesFit, QueueFits, WriteRecord, Before, Ran, AfterRun,
     processVars
<1> QED
  BY <1>1, <1>2, <1>3, <1>4, <1>5 DEF TrialInv

LEMMA KeepProcessSteps == ASSUME TrialInv, ProcessSteps PROVE TrialInv'
<1>0. /\ at = "running" /\ at' = at /\ result = result
      /\ UNCHANGED <<scenario, exposure, ledger, stages, session, facts, interrupted, hooked,
                     guard, signals, clock, status, record, faults>>
  BY DEF ProcessSteps, trialOwn
<1>1. ProcessInv' /\ ExitFits' /\ heard' = heard
  BY ProcessGoesOn DEF ProcessSteps, TrialInv
<1>2. RecordFits' /\ ~Verdict' /\ ~Verdict
  BY <1>0, RecordStays DEF TrialInv
<1>3. TrialType'
  BY <1>0 DEF TrialInv, TrialType
<1>4. HeldFits' /\ SignalsFit' /\ SessionFits'
  BY <1>0, <1>2 DEF TrialInv, HeldFits, SignalsFit, SessionFits, Before, AfterRun
<1>5. StagesFit'
  BY <1>0, <1>1, <1>2 DEF TrialInv, StagesFit, QueueFits, Before, Ran, AfterRun
<1> QED
  BY <1>1, <1>2, <1>3, <1>4, <1>5 DEF TrialInv

\* The controller is aborted at most once, and the process goes on.
LEMMA ControllerAborts ==
  ASSUME ProcessInv, ExitFits, AbortController
  PROVE  ProcessInv' /\ ExitFits' /\ UNCHANGED <<heard, result>>
<1>1. CASE aborted
  BY <1>1, ProcessKept DEF AbortController, processVars
<1>2. CASE ~aborted
  BY <1>2, KeepAbort, ExitKeptAborting DEF AbortController
<1> QED
  BY <1>1, <1>2

LEMMA KeepGuardFires == ASSUME TrialInv, GuardFires PROVE TrialInv'
<1>0. /\ at \in {"prepare", "running"} /\ guard' = FALSE
      /\ UNCHANGED <<at, scenario, exposure, ledger, stages, session, facts, interrupted,
                     hooked, clock, status, record, faults>>
  BY DEF GuardFires, TrialInv, HeldFits
<1>1. /\ signals' \in [operator : Moments, timeout : Moments]
      /\ signals'.operator = signals.operator
  BY DEF GuardFires, TrialInv, TrialType, Moments
<1>2. ProcessInv' /\ ExitFits' /\ UNCHANGED <<heard, result>>
  BY ControllerAborts DEF GuardFires, TrialInv
<1>3. RecordFits' /\ ~Verdict' /\ ~Verdict
  BY <1>0, RecordStays DEF TrialInv
<1>4. TrialType'
  BY <1>0, <1>1 DEF TrialInv, TrialType
<1>5. HeldFits' /\ SignalsFit' /\ SessionFits'
  BY <1>0, <1>1, <1>3 DEF TrialInv, HeldFits, SignalsFit, SessionFits, Before, AfterRun
<1>6. StagesFit'
  BY <1>0, <1>2, <1>3 DEF TrialInv, StagesFit, QueueFits, Before, Ran, AfterRun
<1> QED
  BY <1>2, <1>3, <1>4, <1>5, <1>6 DEF TrialInv

LEMMA KeepOperatorInterrupts == ASSUME TrialInv, OperatorInterrupts PROVE TrialInv'
<1>0. /\ at \notin {"done", "threw"} /\ interrupted' = TRUE /\ at \in Places
      /\ UNCHANGED <<at, scenario, exposure, ledger, session, facts, guard, clock, status,
                     record, faults>>
  BY DEF OperatorInterrupts, Ended, TrialInv, TrialType
<1>a. ~Verdict /\ ~Verdict'
  BY <1>0 DEF Verdict
<1>1. CASE ~hooked
  <2>0. UNCHANGED <<processVars, signals, stages, hooked>>
    BY <1>1 DEF OperatorInterrupts
  <2>1. ProcessInv' /\ ExitFits' /\ UNCHANGED <<heard, result>>
    BY <2>0, ProcessKept DEF TrialInv, processVars
  <2>2. RecordFits'
    <3>1. PICK d, c : d = record.pending /\ c = record.censor
      OBVIOUS
    <3>2. CASE at = "manifest"
      <4>1. /\ record.disposition = "classified" /\ Earned(d) /\ Censored(c)
            /\ record.integrity \in Integrity /\ Last(ledger) = "evidence_finalized"
        BY <3>1, <3>2 DEF TrialInv, RecordFits
      <4>2. Earned(d)' /\ Censored(c)'
        BY <1>0, <2>0, <2>1, <4>1 DEF Earned, Censored
      <4>3. Earned(record.pending)' /\ Censored(record.censor)'
        BY <1>0, <3>1, <4>2 DEF Earned, Censored
      <4> QED
        BY <1>0, <1>a, <3>2, <4>1, <4>3 DEF RecordFits
    <3>3. CASE at # "manifest"
      BY <1>0, <3>3, RecordStays DEF TrialInv
    <3> QED
      BY <3>2, <3>3
  <2>3. TrialType'
    BY <1>0, <2>0 DEF TrialInv, TrialType
  <2>4. HeldFits' /\ SignalsFit' /\ SessionFits'
    BY <1>0, <1>a, <2>0, <2>1 DEF TrialInv, HeldFits, SignalsFit, SessionFits, Before, AfterRun
  <2>5. StagesFit'
    BY <1>0, <1>a, <2>0, <2>1 DEF TrialInv, StagesFit, QueueFits, Before, Ran, AfterRun
  <2> QED
    BY <2>1, <2>2, <2>3, <2>4, <2>5 DEF TrialInv
<1>2. CASE hooked
  <2>0. /\ signals' = [signals EXCEPT !.operator = clock]
        /\ stages' = Offer(stages, OperatorStage) /\ hooked' = FALSE /\ AbortController
        /\ at \in {"prepare", "running"}
    BY <1>2 DEF OperatorInterrupts, TrialInv, HeldFits
  <2>1. ProcessInv' /\ ExitFits' /\ UNCHANGED <<heard, result>>
    BY <2>0, ControllerAborts DEF TrialInv
  <2>2. RecordFits'
    BY <1>0, <2>0, RecordStays DEF TrialInv
  <2>3. /\ signals' \in [operator : Moments, timeout : Moments]
        /\ signals'.timeout = signals.timeout
    BY <2>0 DEF TrialInv, TrialType, Moments
  <2>4. Grows(stages, stages', {OperatorStage}) /\ holds(stages', OperatorStage)
    BY <2>0, StagesNamed, OfferGrows DEF TrialInv, TrialType
  <2>5. TrialType'
    BY <1>0, <2>0, <2>3, <2>4 DEF TrialInv, TrialType, Grows
  <2>6. HeldFits' /\ SessionFits'
    BY <1>0, <1>a, <2>0, <2>1 DEF TrialInv, HeldFits, SessionFits, Before, AfterRun
  <2>7. OperatorStage \in stages'.offered
    BY <2>4 DEF holds, Grows, TrialInv, StagesFit, OwnStages, OperatorStage
  <2>8. SignalsFit'
    BY <1>0, <1>a, <2>0, <2>3, <2>7 DEF TrialInv, SignalsFit, Before
  <2>9. StagesFit'
    BY <1>0, <1>a, <2>0, <2>1, <2>4
    DEF TrialInv, StagesFit, QueueFits, Grows, Before, Ran, AfterRun, OperatorStage
  <2> QED
    BY <2>1, <2>2, <2>5, <2>6, <2>8, <2>9 DEF TrialInv
<1> QED
  BY <1>1, <1>2

\* One link of the chain: the head leaves the queue, and it is in the ledger
\* now, was there before, or the queue has failed.
LEMMA KeepAppendStage == ASSUME TrialInv, AppendStage PROVE TrialInv'
<1> DEFINE s == Head(stages.chain)
           t == Tail(stages.chain)
<1>0. /\ stages.chain # << >> /\ stages \in StageQueues /\ ledger \in Seq(StageNames)
      /\ faults \in 0 .. MaxFaults
      /\ UNCHANGED <<processVars, at, scenario, exposure, session, facts, interrupted,
                     hooked, guard, signals, clock, status, record>>
  BY DEF AppendStage, TrialInv, TrialType
<1>1. /\ s \in StageNames /\ t \in Seq(StageNames)
      /\ ToSet(stages.chain) = ToSet(t) \cup {s}
  BY <1>0, Members DEF StageQueues
<1>2. s \in stages.offered /\ s # "evidence_finalized"
  BY <1>1 DEF TrialInv, StagesFit, QueueFits
<1>3. /\ stages' \in StageQueues /\ stages'.offered = stages.offered /\ stages'.chain = t
      /\ ledger' \in Seq(StageNames) /\ ToSet(ledger) \subseteq ToSet(ledger')
      /\ ToSet(ledger') \subseteq ToSet(ledger) \cup {s}
      /\ s \in ToSet(ledger') \/ stages'.failed
      /\ stages.failed => stages'.failed
      /\ faults' \in 0 .. MaxFaults
  <2> DEFINE rest == [stages EXCEPT !.chain = t]
  <2>0. /\ rest \in StageQueues /\ rest.offered = stages.offered /\ rest.chain = t
        /\ rest.failed = stages.failed
    BY <1>0, <1>1 DEF StageQueues
  <2>1. CASE /\ stages.failed \/ s \in ToSet(ledger)
             /\ stages' = rest /\ UNCHANGED ledger /\ NoFault
    <3>1. faults' \in 0 .. MaxFaults
      BY <1>0, <2>1, FaultsStay
    <3> HIDE DEF rest, s, t
    <3> QED
      BY <1>0, <2>0, <2>1, <3>1
  <2>2. CASE /\ ~stages.failed /\ s \notin ToSet(ledger)
             /\ ledger' = Append(ledger, s) /\ stages' = rest /\ NoFault
    <3>1. faults' \in 0 .. MaxFaults
      BY <1>0, <2>2, FaultsStay
    <3>2. ledger' \in Seq(StageNames) /\ ToSet(ledger') = ToSet(ledger) \cup {s}
      BY <1>0, <1>1, <2>2, Members
    <3> HIDE DEF rest, s, t
    <3> QED
      BY <1>0, <2>0, <2>2, <3>1, <3>2
  <2>3. CASE /\ ~stages.failed /\ s \notin ToSet(ledger) /\ (Fault \/ NoFault)
             /\ stages' = [rest EXCEPT !.failed = TRUE] /\ UNCHANGED ledger
    <3>1. faults' \in 0 .. MaxFaults
      BY <1>0, <2>3, FaultsStay
    <3> HIDE DEF rest, s, t
    <3>2. /\ stages' \in StageQueues /\ stages'.offered = rest.offered
          /\ stages'.chain = rest.chain /\ stages'.failed = TRUE
      BY <2>0, <2>3 DEF StageQueues
    <3> QED
      BY <1>0, <2>0, <2>3, <3>1, <3>2
  <2> QED
    BY <2>1, <2>2, <2>3 DEF AppendStage
<1> HIDE DEF s, t
<1>4. at \notin {"conclude", "manifest", "done"} /\ "evidence_finalized" \notin ToSet(ledger)
      /\ at \notin Before
  BY <1>0, <1>2, BeforeIsBare DEF TrialInv, StagesFit, Verdict
<1>5. ProcessInv' /\ ExitFits' /\ UNCHANGED <<heard, result>>
  BY <1>0, ProcessKept DEF TrialInv, processVars
<1>6. RecordFits' /\ ~Verdict' /\ ~Verdict
  BY <1>0, <1>4, RecordStays DEF TrialInv
<1>7. TrialType'
  BY <1>0, <1>3 DEF TrialInv, TrialType
<1>8. HeldFits' /\ SignalsFit' /\ SessionFits'
  BY <1>0, <1>3, <1>4, <1>5, <1>6 DEF TrialInv, HeldFits, SignalsFit, SessionFits, AfterRun
<1>9. QueueFits(stages)'
  BY <1>1, <1>3 DEF TrialInv, StagesFit, QueueFits
<1>10. StagesFit'
  BY <1>0, <1>2, <1>3, <1>4, <1>5, <1>6, <1>9 DEF TrialInv, StagesFit, Ran, AfterRun
<1> QED
  BY <1>5, <1>6, <1>7, <1>8, <1>10 DEF TrialInv

\* The agent starts: the adapter has reported it and its arguments, which
\* makes it a participant with control.
LEMMA KeepStartAgent == ASSUME TrialInv, StartAgent PROVE TrialInv'
<1> DEFINE first == Observe(stages, facts, "agent.started")
           second == Observe(first.queue, first.facts, "argv.recorded")
<1>0. /\ at = "prepare" /\ at' = "running" /\ session' = [session EXCEPT !.owed = TRUE]
      /\ Spawn \/ SpawnThrows
      /\ stages' = second.queue /\ facts' = second.facts
      /\ UNCHANGED <<scenario, exposure, ledger, interrupted, hooked, guard, signals, clock,
                     status, record, faults>>
  BY DEF StartAgent, Goto
<1>1. /\ Grows(stages, first.queue, Proven) /\ first.facts \in Facts
      /\ first.facts.spawned /\ holds(first.queue, "participant_spawned")
  BY ObserveIs DEF TrialInv, TrialType
<1>2. first.queue \in StageQueues
  BY <1>1 DEF Grows
<1> HIDE DEF first
<1>3. /\ Grows(first.queue, second.queue, Proven) /\ second.facts \in Facts
      /\ holds(second.queue, "participant_control_started")
  BY <1>1, <1>2, ObserveIs
<1> HIDE DEF second
<1>4. /\ Grows(stages, stages', Proven) /\ holds(stages', "participant_spawned")
      /\ holds(stages', "participant_control_started")
  BY <1>0, <1>1, <1>3 DEF Grows, holds
<1>5. ProcessInv' /\ ExitFits' /\ UNCHANGED heard
  BY <1>0, KeepSpawn, KeepSpawnThrows, ExitKeptStarting DEF TrialInv
<1>6. RecordFits' /\ ~Verdict' /\ ~Verdict
  BY <1>0, RecordStays DEF TrialInv
<1>7. session' \in [owed : BOOLEAN, failed : BOOLEAN]
  BY <1>0 DEF TrialInv, TrialType
<1>8. TrialType'
  BY <1>0, <1>3, <1>4, <1>7 DEF TrialInv, TrialType, Grows, Places
<1>9. HeldFits' /\ SignalsFit' /\ SessionFits'
  BY <1>0, <1>4, <1>6 DEF TrialInv, HeldFits, SignalsFit, SessionFits, Before, AfterRun, Grows
<1>10. {"participant_spawned", "participant_control_started"} \subseteq stages'.offered
  BY <1>4 DEF holds, Grows, TrialInv, StagesFit, OwnStages
<1>11. QueueFits(stages)'
  BY <1>0, <1>4 DEF TrialInv, StagesFit, QueueFits, Grows
<1>12. /\ "evidence_finalized" \notin stages'.offered
       /\ "turn_completed" \in stages'.offered => "turn_completed" \in stages.offered
       /\ stages.offered \subseteq stages'.offered
  BY <1>4 DEF TrialInv, StagesFit, Grows, Proven
<1>13. StagesFit'
  BY <1>0, <1>5, <1>6, <1>10, <1>11, <1>12 DEF TrialInv, StagesFit, Ran, AfterRun, Before
<1> QED
  BY <1>5, <1>6, <1>8, <1>9, <1>13 DEF TrialInv

LEMMA KeepHear == ASSUME TrialInv, Hear PROVE TrialInv'
<1>0. /\ at = "running" /\ at' = "running" /\ session' = [session EXCEPT !.owed = TRUE]
      /\ Read /\ pipe # << >> /\ pipe \in Seq(Kinds) /\ heard \in Seq(Kinds)
      /\ heard' = Append(heard, Head(pipe)) /\ UNCHANGED result
      /\ stages' = Observe(stages, facts, Head(pipe)).queue
      /\ facts' = Observe(stages, facts, Head(pipe)).facts
      /\ UNCHANGED <<scenario, exposure, ledger, interrupted, hooked, guard, signals, clock,
                     status, record, faults>>
  BY DEF Hear, Read, TrialInv, ProcessInv, ProcessTypeOK
<1>1. PICK e : e = Head(pipe)
  OBVIOUS
<1>2. /\ Grows(stages, stages', Proven \cup {"turn_completed"}) /\ facts' \in Facts
      /\ e # "turn.completed" => Grows(stages, stages', Proven)
  BY <1>0, <1>1, ObserveIs DEF TrialInv, TrialType
<1>3. ToSet(heard') = ToSet(heard) \cup {e}
  BY <1>0, <1>1, Members
<1>4. ProcessInv' /\ ExitFits'
  BY <1>0, KeepRead, ExitKeptReading DEF TrialInv
<1>5. RecordFits' /\ ~Verdict' /\ ~Verdict
  BY <1>0, RecordStays DEF TrialInv
<1>6. session' \in [owed : BOOLEAN, failed : BOOLEAN]
  BY <1>0 DEF TrialInv, TrialType
<1>7. TrialType'
  BY <1>0, <1>2, <1>6 DEF TrialInv, TrialType, Grows, Places
<1>8. HeldFits' /\ SignalsFit' /\ SessionFits'
  BY <1>0, <1>2, <1>5 DEF TrialInv, HeldFits, SignalsFit, SessionFits, Before, AfterRun, Grows
<1>9. QueueFits(stages)'
  BY <1>0, <1>2 DEF TrialInv, StagesFit, QueueFits, Grows
<1>10. /\ "evidence_finalized" \notin stages'.offered
       /\ stages.offered \subseteq stages'.offered
       /\ "turn_completed" \in stages'.offered => "turn.completed" \in ToSet(heard')
  BY <1>2, <1>3 DEF TrialInv, StagesFit, Grows, Proven
<1>11. StagesFit'
  BY <1>0, <1>5, <1>9, <1>10 DEF TrialInv, StagesFit, Ran, AfterRun, Before
<1> QED
  BY <1>4, <1>5, <1>7, <1>8, <1>11 DEF TrialInv

\* The adapter's verdict on a result: one of its statuses, and a spawn that
\* failed is told as such.
LEMMA ClassifiedIs ==
  ASSUME NEW r, NEW v \in Classified(r)
  PROVE  v \in AgentStatuses /\ (r.spawnError => v = "spawn_failed")
<1>1. CASE r.spawnError
  <2>1. Classified(r) = {"spawn_failed"}
    BY <1>1 DEF Classified
  <2> QED
    BY <2>1 DEF AgentStatuses
<1>2. CASE ~r.spawnError /\ r.timedOut
  BY <1>2 DEF Classified, AgentStatuses
<1>3. CASE ~r.spawnError /\ ~r.timedOut /\ r.cancelled
  BY <1>3 DEF Classified, AgentStatuses
<1>4. CASE ~r.spawnError /\ ~r.timedOut /\ ~r.cancelled /\ r.exit = "zero"
  BY <1>4 DEF Classified, AgentStatuses
<1>5. CASE ~r.spawnError /\ ~r.timedOut /\ ~r.cancelled /\ r.exit # "zero"
  <2>1. Classified(r) = {"provider_failed", "failed"}
    BY <1>5 DEF Classified
  <2> QED
    BY <1>5, <2>1 DEF AgentStatuses
<1> QED
  BY <1>1, <1>2, <1>3, <1>4, <1>5

LEMMA KeepAgentReturns == ASSUME TrialInv, AgentReturns PROVE TrialInv'
<1>0. /\ at = "running" /\ at' = "ran" /\ result # NoResult
      /\ status' \in Classified(result) /\ session' = [session EXCEPT !.owed = TRUE]
      /\ guard' = FALSE /\ hooked' = FALSE /\ exposure' = "closed"
      /\ UNCHANGED <<processVars, scenario, ledger, stages, facts, interrupted, clock,
                     record, faults>>
  BY DEF AgentReturns, LeaveRun, Goto
<1>1. /\ signals' \in [operator : Moments, timeout : Moments]
      /\ signals'.operator = signals.operator
  <2>1. signals \in [operator : Moments, timeout : Moments] /\ clock \in Moments
    BY DEF TrialInv, TrialType, Moments
  <2>2. signals' = signals \/ signals' = [signals EXCEPT !.timeout = clock]
    BY DEF AgentReturns
  <2> QED
    BY <2>1, <2>2
<1>2. status' \in AgentStatuses /\ (result.spawnError => status' = "spawn_failed")
  BY <1>0, ClassifiedIs
<1>3. ProcessInv' /\ ExitFits' /\ UNCHANGED <<heard, result>>
  BY <1>0, ProcessKept DEF TrialInv, processVars
<1>4. RecordFits' /\ ~Verdict' /\ ~Verdict
  BY <1>0, RecordStays DEF TrialInv
<1>5. session' \in [owed : BOOLEAN, failed : BOOLEAN]
  BY <1>0 DEF TrialInv, TrialType
<1>6. TrialType'
  BY <1>0, <1>1, <1>2, <1>5 DEF TrialInv, TrialType, Places
<1>7. HeldFits' /\ SignalsFit' /\ SessionFits'
  BY <1>0, <1>1, <1>2, <1>3, <1>4
  DEF TrialInv, HeldFits, SignalsFit, SessionFits, Before, AfterRun
<1>8. StagesFit'
  BY <1>0, <1>3, <1>4 DEF TrialInv, StagesFit, QueueFits, Ran, AfterRun, Before
<1> QED
  BY <1>3, <1>4, <1>6, <1>7, <1>8 DEF TrialInv

LEMMA KeepFlushAndReport == ASSUME TrialInv, FlushAndReport PROVE TrialInv'
<1>0. /\ at = "flush" /\ at' \in {"threw", "reported"} /\ ~session.owed
      /\ at' = "reported" => ~session.failed
      /\ UNCHANGED <<processVars, scenario, exposure, ledger, session, facts, interrupted,
                     hooked, guard, signals, clock, status, record, faults>>
  BY DEF FlushAndReport, Goto, Kept
<1> DEFINE Reports == {"report_present", "report_valid", "finalization_started"}
<1>1. Grows(stages, stages', Reports)
  <2>0. stages \in StageQueues
    BY DEF TrialInv, TrialType
  <2>1. CASE UNCHANGED stages
    BY <2>0, <2>1 DEF Grows
  <2>2. CASE \E report \in {"none", "text", "valid"} :
               LET present == OfferIf(stages, report # "none", "report_present")
                   valid == OfferIf(present, report = "valid", "report_valid")
               IN  stages' = Offer(valid, "finalization_started")
    <3>1. PICK report \in {"none", "text", "valid"} :
               LET present == OfferIf(stages, report # "none", "report_present")
                   valid == OfferIf(present, report = "valid", "report_valid")
               IN  stages' = Offer(valid, "finalization_started")
      BY <2>2
    <3> DEFINE there == report # "none"
               good == report = "valid"
               present == OfferIf(stages, there, "report_present")
               valid == OfferIf(present, good, "report_valid")
    <3>2. stages' = Offer(valid, "finalization_started")
      BY <3>1
    <3> HIDE DEF there, good
    <3>3. Grows(stages, present, {"report_present"})
      BY <2>0, StagesNamed, OfferIfGrows
    <3> HIDE DEF present
    <3>4. Grows(present, valid, {"report_valid"})
      BY <3>3, StagesNamed, OfferIfGrows DEF Grows
    <3> HIDE DEF valid
    <3>5. Grows(valid, stages', {"finalization_started"})
      BY <3>2, <3>4, StagesNamed, OfferGrows DEF Grows
    <3> QED
      BY <3>3, <3>4, <3>5 DEF Grows
  <2> QED
    BY <2>1, <2>2 DEF FlushAndReport
<1>2. ProcessInv' /\ ExitFits' /\ UNCHANGED <<heard, result>>
  BY <1>0, ProcessKept DEF TrialInv, processVars
<1>3. RecordFits' /\ ~Verdict' /\ ~Verdict
  BY <1>0, RecordStays DEF TrialInv
<1>4. TrialType'
  BY <1>0, <1>1 DEF TrialInv, TrialType, Places, Grows
<1>5. HeldFits' /\ SignalsFit' /\ SessionFits'
  BY <1>0, <1>1, <1>2, <1>3
  DEF TrialInv, HeldFits, SignalsFit, SessionFits, Before, AfterRun, Grows
<1>6. QueueFits(stages)'
  BY <1>0, <1>1 DEF TrialInv, StagesFit, QueueFits, Grows
<1>7. /\ "evidence_finalized" \notin stages'.offered
      /\ stages.offered \subseteq stages'.offered
      /\ "turn_completed" \in stages'.offered => "turn_completed" \in stages.offered
  BY <1>1 DEF TrialInv, StagesFit, Grows
<1>8. StagesFit'
  BY <1>0, <1>2, <1>3, <1>6, <1>7 DEF TrialInv, StagesFit, Ran, AfterRun, Before
<1> QED
  BY <1>2, <1>3, <1>4, <1>5, <1>8 DEF TrialInv

\* The ledger that is classified holds every stage that was offered; a
\* participant that was to have been started and was not is a failure of the
\* infrastructure, so that a completed trial has a process that ended well.
LEMMA KeepConclude == ASSUME TrialInv, Conclude PROVE TrialInv'
<1> DEFINE C == ToSet(ledger)
           Input(lost) ==
             [stages |-> ToSet(ledger), operatorAt |-> signals.operator,
              timeoutAt |-> signals.timeout, budgetAt |-> Never,
              invalidSetup |-> FALSE, failure |-> FailureFact(lost),
              exit |-> result.exit, notStarted |-> FALSE]
<1>0. /\ at = "conclude" /\ at' = "manifest"
      /\ ledger' = Append(ledger, "evidence_finalized")
      /\ UNCHANGED <<processVars, scenario, exposure, stages, session, facts, interrupted,
                     hooked, guard, signals, clock, status, faults>>
  BY DEF Conclude, Goto
<1>1. PICK lost, requirements :
        record' =
          [disposition |-> "classified", pending |-> classifyDisposition(Input(lost)),
           integrity |-> evidenceIntegrityOf(requirements),
           censor |-> classifyCensorClass(classifyDisposition(Input(lost)),
                        "participant_control_started" \in ToSet(ledger), requirements)]
  BY DEF Conclude
<1>2. /\ stages.chain = << >> /\ ~stages.failed /\ ledger \in Seq(StageNames)
      /\ result # NoResult /\ (result.spawnError => status = "spawn_failed")
      /\ result \in {NoResult} \cup Results
  BY <1>0 DEF TrialInv, TrialType, StagesFit, SessionFits, AfterRun, ProcessInv, ProcessTypeOK
<1>3. stages.offered \subseteq C /\ C \subseteq stages.offered \cup OwnStages
  BY <1>2, Members DEF TrialInv, StagesFit, QueueFits, ToSet
<1>4. /\ {"participant_spawned", "participant_control_started"} \subseteq C
      /\ "turn_completed" \in C => "turn.completed" \in ToSet(heard)
  BY <1>0, <1>3 DEF TrialInv, StagesFit, Ran, AfterRun, OwnStages
<1>5. result.spawnError => FailureFact(lost) = "infrastructure"
  <2> SUFFICES ASSUME status = "spawn_failed" PROVE FailureFact(lost) = "infrastructure"
    BY <1>2
  <2>1. CASE lost
    BY <2>1 DEF FailureFact
  <2>2. CASE ~lost
    BY <2>2 DEF FailureFact
  <2> QED
    BY <2>1, <2>2
<1>6. /\ result.exit \in {"none"} \cup Ends /\ (result.spawnError <=> result.exit = "none")
      /\ result.spawnError \in BOOLEAN
  BY <1>2 DEF TrialInv, ExitFits, Results
<1>7. signals.operator \in Moments /\ signals.timeout \in Moments
  BY DEF TrialInv, TrialType
<1>8. PICK input : input = Input(lost)
  OBVIOUS
<1>9. /\ input.stages = C /\ input.operatorAt = signals.operator
      /\ input.timeoutAt = signals.timeout /\ input.budgetAt = Never
      /\ input.invalidSetup = FALSE /\ input.failure = FailureFact(lost)
      /\ input.exit = result.exit
  BY <1>8
<1>10. PICK d : d = classifyDisposition(input)
  OBVIOUS
<1>11. /\ d \in Dispositions \ {"harness_aborted", "not_started", "invalid_setup"}
       /\ d = "completed" =>
            /\ "turn_completed" \in C
            /\ ~failedExit(result.exit)
            /\ FailureFact(lost) \notin {"provider", "infrastructure"}
            /\ signals.operator = Never /\ signals.timeout = Never
       /\ signals.timeout # Never =>
            d = IF signals.operator # Never /\ signals.operator < signals.timeout
                THEN "operator_interrupted" ELSE "timed_out"
       /\ d = "operator_interrupted" => signals.operator # Never
  BY <1>4, <1>7, <1>9, <1>10, DispositionIs
<1>12. Earned(d)
  BY <1>4, <1>5, <1>6, <1>11 DEF Earned, failedExit, Ends, TrialInv, SignalsFit
<1>13. ProcessInv' /\ ExitFits' /\ UNCHANGED <<heard, result>>
  BY <1>0, ProcessKept DEF TrialInv, processVars
<1>14. /\ ledger' \in Seq(StageNames) /\ Last(ledger') = "evidence_finalized"
       /\ ToSet(ledger') = C \cup {"evidence_finalized"}
  BY <1>0, <1>2, StagesNamed, Members
<1>15. RecordFits'
  <2> DEFINE controlled == "participant_control_started" \in ToSet(ledger)
  <2>1. controlled \in BOOLEAN /\ controlled
    BY <1>4
  <2>2. PICK c : c = classifyCensorClass(d, controlled, requirements)
    OBVIOUS
  <2>3. /\ record'.disposition = "classified" /\ record'.pending = d
        /\ record'.integrity = evidenceIntegrityOf(requirements) /\ record'.censor = c
    BY <1>1, <1>8, <1>10, <2>2
  <2> HIDE DEF controlled
  <2>4. c \in CensorClasses /\ (c = "pre_control_nonparticipant" <=> ~controlled)
    BY <2>1, <2>2, CensorClassIs
  <2>5. record'.integrity \in Integrity
    BY <2>3, IntegrityIs
  <2>6. Earned(d)'
    BY <1>0, <1>12, <1>13 DEF Earned
  <2>7. Censored(c)'
    BY <1>4, <1>14, <2>1, <2>4 DEF Censored
  <2>8. Earned(record.pending)' /\ Censored(record.censor)'
    BY <2>3, <2>6, <2>7 DEF Earned, Censored
  <2> QED
    BY <1>0, <1>14, <2>3, <2>5, <2>8 DEF RecordFits, Verdict
<1>16. TrialType'
  BY <1>0, <1>14 DEF TrialInv, TrialType, Places
<1>17. ~Verdict' /\ ~Verdict
  BY <1>0 DEF Verdict
<1>18. HeldFits' /\ SignalsFit' /\ SessionFits'
  BY <1>0, <1>13, <1>17 DEF TrialInv, HeldFits, SignalsFit, SessionFits, Before, AfterRun
<1>19. StagesFit'
  BY <1>0, <1>2, <1>13, <1>14, <1>17
  DEF TrialInv, StagesFit, QueueFits, Ran, AfterRun, Before, OwnStages
<1> QED
  BY <1>13, <1>15, <1>16, <1>18, <1>19 DEF TrialInv

LEMMA KeepTrialStill == ASSUME TrialInv, UNCHANGED trialVars PROVE TrialInv'
<1>0. UNCHANGED <<processVars, at, scenario, exposure, ledger, stages, session, facts,
                  interrupted, hooked, guard, signals, clock, status, record, faults>>
  BY DEF trialVars, trialOwn
<1>1. ProcessInv' /\ ExitFits' /\ UNCHANGED <<heard, result>>
  BY <1>0, ProcessKept DEF TrialInv, processVars
<1>2. TrialType' /\ HeldFits' /\ SignalsFit' /\ SessionFits'
  BY <1>0, <1>1
  DEF TrialInv, TrialType, HeldFits, SignalsFit, SessionFits, Verdict
<1>3. StagesFit'
  BY <1>0, <1>1 DEF TrialInv, StagesFit, QueueFits, Ran, Verdict
<1>4. RecordFits'
  BY <1>0, <1>1 DEF TrialInv, RecordFits, Verdict, Earned, Censored
<1> QED
  BY <1>1, <1>2, <1>3, <1>4 DEF TrialInv

\* For every script of the agent, every time the guard and the operator come
\* and every failure of the disk: what a trial holds, has recorded and knows
\* at each place of runTrial.
THEOREM TrialInvariant == TrialSpec => []TrialInv
<1>1. TrialInit => TrialInv
  BY TrialInitially
<1>2. TrialInv /\ [TrialNext]_trialVars => TrialInv'
  <2> SUFFICES ASSUME TrialInv, [TrialNext]_trialVars PROVE TrialInv'
    OBVIOUS
  <2>1. CASE OpenScenario
    BY <2>1, KeepOpenScenario
  <2>2. CASE SetupStarts
    BY <2>2, KeepSetupStarts
  <2>3. CASE SetupFinishes
    BY <2>3, KeepSetupFinishes
  <2>4. CASE OpenSession
    BY <2>4, KeepOpenSession
  <2>5. CASE StartAgent
    BY <2>5, KeepStartAgent
  <2>6. CASE Hear
    BY <2>6, KeepHear
  <2>7. CASE AgentReturns
    BY <2>7, KeepAgentReturns
  <2>8. CASE ReadScenario
    BY <2>8, KeepReadScenario
  <2>9. CASE FlushAndReport
    BY <2>9, KeepFlushAndReport
  <2>10. CASE FlushAgain
    BY <2>10, KeepFlushAgain
  <2>11. CASE Conclude
    BY <2>11, KeepConclude
  <2>12. CASE WriteRecord
    BY <2>12, KeepWriteRecord
  <2>13. CASE AppendStage
    BY <2>13, KeepAppendStage
  <2>14. CASE AppendSession
    BY <2>14, KeepAppendSession
  <2>15. CASE GuardFires
    BY <2>15, KeepGuardFires
  <2>16. CASE PrepareThrows
    BY <2>16, KeepPrepareThrows
  <2>17. CASE WriteThrows
    BY <2>17, KeepWriteThrows
  <2>18. CASE Tick
    BY <2>18, KeepTick
  <2>19. CASE ProcessSteps
    BY <2>19, KeepProcessSteps
  <2>20. CASE OperatorInterrupts
    BY <2>20, KeepOperatorInterrupts
  <2>21. CASE UNCHANGED trialVars
    BY <2>21, KeepTrialStill
  <2> QED
    BY <2>1, <2>2, <2>3, <2>4, <2>5, <2>6, <2>7, <2>8, <2>9, <2>10, <2>11, <2>12, <2>13,
       <2>14, <2>15, <2>16, <2>17, <2>18, <2>19, <2>20, <2>21 DEF TrialNext, Runner
<1> QED
  BY <1>1, <1>2, PTL DEF TrialSpec

\* A trial that has ended, by its record or by a throw, holds no port, no
\* behavior child, no timer and no listener of the operator's signal.
THEOREM TrialsRelease == TrialSpec => []Released
<1>1. TrialInv => Released
  BY DEF TrialInv, HeldFits, Released, Ended
<1> QED
  BY <1>1, TrialInvariant, PTL

\* The terminal record of a trial is true: completed was earned, a limit that
\* fired outranks what came later, and the ledger and the session file hold
\* what it rests on.
THEOREM VerdictsAreEarned == TrialSpec => []VerdictIsEarned
<1>1. ASSUME TrialInv PROVE VerdictIsEarned
  <2>1. TrialTypeOK
    <3>1. record.disposition \in Dispositions \cup {"unwritten", "classified"}
      <4>1. CASE at \notin {"manifest", "done"}
        BY <1>1, <4>1 DEF TrialInv, RecordFits, NoRecord
      <4>2. CASE at = "manifest"
        BY <1>1, <4>2 DEF TrialInv, RecordFits
      <4>3. CASE at = "done" /\ record.disposition = "invalid_setup"
        BY <4>3 DEF Dispositions
      <4>4. CASE at = "done" /\ record.disposition # "invalid_setup"
        BY <1>1, <4>4 DEF TrialInv, RecordFits, Verdict, Earned
      <4> QED
        BY <4>1, <4>2, <4>3, <4>4
    <3>2. TrialType /\ ProcessTypeOK
      BY <1>1 DEF TrialInv, ProcessInv
    <3>3. /\ at \in {"start", "setup", "exposed", "open", "prepare", "running", "ran",
                     "flush", "reported", "conclude", "manifest", "terminal",
                     "done", "threw"}
          /\ status \in {"none", "completed", "failed", "timed_out", "cancelled",
                         "provider_failed", "spawn_failed"}
          /\ facts \in [spawned : BOOLEAN, modelStarted : BOOLEAN, apiStarted : BOOLEAN]
          /\ signals \in [operator : {Never} \cup 0 .. MaxTime,
                          timeout : {Never} \cup 0 .. MaxTime]
      BY <3>2 DEF TrialType, Places, AgentStatuses, Facts, Moments
    <3>4. stages \in [offered : SUBSET StageNames, chain : Seq(StageNames),
                      failed : BOOLEAN]
      BY <3>2 DEF TrialType, StageQueues
    <3> QED
      BY <3>1, <3>2, <3>3, <3>4 DEF TrialTypeOK, TrialType
  <2>2. CompletedIsEarned
    BY <1>1 DEF TrialInv, RecordFits, Verdict, Earned, CompletedIsEarned
  <2>3. LimitOutranks
    <3> SUFFICES ASSUME at = "done", signals.timeout # Never
                 PROVE  record.disposition =
                          IF signals.operator # Never /\ signals.operator < signals.timeout
                          THEN "operator_interrupted" ELSE "timed_out"
      BY DEF LimitOutranks
    <3>1. Verdict
      BY <1>1 DEF TrialInv, SignalsFit, Verdict
    <3> QED
      BY <1>1, <3>1 DEF TrialInv, RecordFits, Earned
  <2>4. RecordBacked
    <3> SUFFICES ASSUME Verdict
                 PROVE  /\ signals.operator # Never => OperatorStage \in ToSet(ledger)
                        /\ ~session.owed /\ ~session.failed /\ ~stages.failed
                        /\ Last(ledger) = "evidence_finalized"
      BY DEF RecordBacked, Verdict
    <3>1. ~stages.failed /\ stages.chain = << >> /\ ~session.owed /\ ~session.failed
          /\ Last(ledger) = "evidence_finalized"
      BY <1>1 DEF TrialInv, StagesFit, SessionFits, RecordFits
    <3>2. ToSet(stages.chain) = {}
      BY <3>1 DEF ToSet
    <3>3. stages.offered \subseteq ToSet(ledger)
      BY <1>1, <3>1, <3>2 DEF TrialInv, StagesFit, QueueFits
    <3> QED
      BY <1>1, <3>1, <3>3 DEF TrialInv, SignalsFit
  <2> QED
    BY <2>1, <2>2, <2>3, <2>4 DEF VerdictIsEarned
<1> QED
  BY <1>1, TrialInvariant, PTL

\* Nothing is recorded after evidence_finalized: the chain of queued stages is
\* empty by then, and nothing is offered to it that is not held already.
THEOREM LedgersClose == TrialSpec => LedgerCloses
<1>1. ASSUME TrialInv, [TrialNext]_trialVars
      PROVE  [("evidence_finalized" \in ToSet(ledger)) => ledger' = ledger]_trialVars
  <2> SUFFICES ASSUME "evidence_finalized" \in ToSet(ledger) PROVE ledger' = ledger
    OBVIOUS
  <2>1. at \in {"manifest", "done", "threw"} /\ stages.chain = << >>
    BY <1>1 DEF TrialInv, StagesFit
  <2>2. CASE UNCHANGED trialVars
    BY <2>2 DEF trialVars, trialOwn
  <2>3. CASE AppendStage
    BY <2>1, <2>3 DEF AppendStage
  <2>4. ~OpenScenario /\ ~SetupStarts /\ ~SetupFinishes /\ ~Conclude
    BY <2>1 DEF OpenScenario, SetupStarts, SetupFinishes, Conclude
  <2>5. CASE OpenSession \/ StartAgent \/ Hear \/ AgentReturns \/ ReadScenario
    BY <2>5 DEF OpenSession, StartAgent, Hear, AgentReturns, ReadScenario
  <2>6. CASE FlushAndReport \/ FlushAgain \/ WriteRecord \/ AppendSession \/ GuardFires
    BY <2>6 DEF FlushAndReport, FlushAgain, WriteRecord, AppendSession, GuardFires
  <2>7. CASE PrepareThrows \/ WriteThrows \/ Tick \/ ProcessSteps \/ OperatorInterrupts
    BY <2>7 DEF PrepareThrows, WriteThrows, Tick, ProcessSteps, OperatorInterrupts, trialOwn
  <2> QED
    BY <1>1, <2>2, <2>3, <2>4, <2>5, <2>6, <2>7 DEF TrialNext, Runner
<1> QED
  BY <1>1, TrialInvariant, PTL DEF TrialSpec, LedgerCloses

\* What a batch takes from its trials: a trial that returned did so with a
\* disposition of Accepted and a censor class; the class says the participant
\* had no control just when the ledger has no participant_control_started; and
\* it is the operator's only if the operator interrupted.
ReturnsAccepted ==
  at = "done" =>
    /\ record.disposition \in {o.disposition : o \in Accepted}
    /\ record.censor \in CensorClasses
    /\ record.censor = "pre_control_nonparticipant" <=>
         "participant_control_started" \notin ToSet(ledger)
    /\ record.disposition = "operator_interrupted" => interrupted

THEOREM TrialReturnsAccepted == TrialSpec => []ReturnsAccepted
<1>1. ASSUME TrialInv, at = "done"
      PROVE  /\ record.disposition \in Dispositions \ {"harness_aborted", "not_started"}
             /\ record.disposition = "operator_interrupted" => interrupted
             /\ Censored(record.censor)
  <2>1. CASE record.disposition = "invalid_setup"
    BY <1>1, <2>1 DEF TrialInv, RecordFits, Dispositions
  <2>2. CASE record.disposition # "invalid_setup"
    BY <1>1, <2>2 DEF TrialInv, RecordFits, Verdict, Earned
  <2> QED
    BY <2>1, <2>2
<1>2. ASSUME NEW d \in Dispositions \ {"harness_aborted", "not_started"}
      PROVE  d \in {o.disposition : o \in Accepted}
  <2> DEFINE o == [disposition |-> d, censor |-> "none", integrity |-> "intact",
                   evaluated |-> TRUE]
  <2>1. o \in Accepted /\ o.disposition = d
    BY DEF Accepted, CensorClasses, Integrity
  <2> HIDE DEF o
  <2> QED
    BY <2>1
<1>3. TrialInv => ReturnsAccepted
  BY <1>1, <1>2 DEF ReturnsAccepted, Censored
<1> QED
  BY <1>3, TrialInvariant, PTL
=============================================================================
