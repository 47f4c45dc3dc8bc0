---------------------------- MODULE AgentProcess ----------------------------
(***************************************************************************)
(* One agent process as runProcessGroup of                                 *)
(* packages/agent-adapter/src/process.ts runs it: a leader spawned in its  *)
(* own process group, the descendants it forks, the timers and listeners   *)
(* that may stop it, the pipe its output travels in, and the promise that  *)
(* resolves exactly once with what happened.                               *)
(*                                                                         *)
(* The operating system is part of the model: a leader may ignore SIGINT   *)
(* and SIGTERM, leave children behind, and keep its output pipe open.      *)
(***************************************************************************)
EXTENDS Naturals, Sequences

CONSTANTS
  Kinds,   \* what one line of output says, as far as anybody reads it
  Script   \* bound: what a process and its descendants say, as far as they get

ASSUME ScriptAssumption == Script \in Seq(Kinds)

VARIABLES
  leader,   \* "none", "running", or how it ended: "zero", "nonzero", "signal"
  member,   \* a descendant inside the group: "none", "alive", "dead"
  stray,    \* a descendant that left the group: "none", "alive", "dead"
  pipe,     \* lines written and not read yet
  heard,    \* lines handed to the callbacks, in order
  spoken,   \* every line written, in order (history)
  aborted,  \* the caller's AbortSignal
  closure,  \* the variables runProcessGroup closes over
  timers,   \* armed timers: "limit", "grace", "drain"
  result    \* what the promise resolved with, or NoResult

processVars ==
  <<leader, member, stray, pipe, heard, spoken, aborted, closure, timers, result>>

Ends == {"zero", "nonzero", "signal"}
NoResult == [resolved |-> FALSE]
Phases == {"idle", "running", "settled", "resolved"}

Fresh ==
  [phase |-> "idle", pid |-> FALSE, listening |-> FALSE, stopping |-> FALSE,
   timedOut |-> FALSE, cancelled |-> FALSE, graceful |-> TRUE,
   forced |-> FALSE, spawnError |-> FALSE, drained |-> TRUE]

Closures ==
  [phase : Phases, pid : BOOLEAN, listening : BOOLEAN, stopping : BOOLEAN,
   timedOut : BOOLEAN, cancelled : BOOLEAN, graceful : BOOLEAN,
   forced : BOOLEAN, spawnError : BOOLEAN, drained : BOOLEAN]

Results ==
  [resolved : {TRUE}, spawnError : BOOLEAN, exit : {"none"} \cup Ends,
   timedOut : BOOLEAN, cancelled : BOOLEAN, graceful : BOOLEAN,
   forced : BOOLEAN]

ProcessTypeOK ==
  /\ leader \in {"none", "running"} \cup Ends
  /\ member \in {"none", "alive", "dead"}
  /\ stray \in {"none", "alive", "dead"}
  /\ pipe \in Seq(Kinds) /\ heard \in Seq(Kinds) /\ spoken \in Seq(Kinds)
  /\ aborted \in BOOLEAN
  /\ closure \in Closures
  /\ timers \subseteq {"limit", "grace", "drain"}
  /\ result \in {NoResult} \cup Results

ProcessInit ==
  /\ leader = "none" /\ member = "none" /\ stray = "none"
  /\ pipe = << >> /\ heard = << >> /\ spoken = << >>
  /\ aborted = FALSE
  /\ closure = Fresh
  /\ timers = {}
  /\ result = NoResult

-----------------------------------------------------------------------------
(***************************************************************************)
(* Stopping                                                                *)
(***************************************************************************)

\* stop(reason): the first reason wins, and a child without a pid, or one
\* that settled, is left alone. The graceful signal itself decides nothing:
\* a process that honours it ends by itself, one that does not runs on.
Stoppable(c) == c.phase = "running" /\ c.pid /\ ~c.stopping

Stop(c, reason) ==
  IF Stoppable(c)
  THEN [c EXCEPT !.stopping = TRUE,
                 !.timedOut = (reason = "timeout"),
                 !.cancelled = (reason = "abort")]
  ELSE c

StopTimers(c, armed) == IF Stoppable(c) THEN armed \cup {"grace"} ELSE armed

\* SIGKILL to the group, then to what the walk of /proc still finds below
\* the leader. The walk runs after the group was killed, so a descendant that
\* left the group is found only while the dying leader is still listed as its
\* parent: both outcomes are possible while the leader ran, none later.
\* Mutant: the signal reaches the leader only.
KillNothing == UNCHANGED member

KillGroup == member' = IF member = "alive" THEN "dead" ELSE member

KillStrays ==
  stray' \in IF stray = "alive" /\ leader = "running"
             THEN {"alive", "dead"} ELSE {stray}

-----------------------------------------------------------------------------
(***************************************************************************)
(* Starting                                                                *)
(***************************************************************************)

\* spawn() threw: the promise resolves at once, nothing was set up.
SpawnThrows ==
  /\ closure.phase = "idle"
  /\ closure' = [closure EXCEPT !.phase = "resolved", !.spawnError = TRUE,
                                !.graceful = FALSE]
  /\ result' = [resolved |-> TRUE, spawnError |-> TRUE, exit |-> "none",
                timedOut |-> FALSE, cancelled |-> FALSE, graceful |-> FALSE,
                forced |-> FALSE]
  /\ UNCHANGED <<leader, member, stray, pipe, heard, spoken, aborted, timers>>

\* spawn() returned a child. With no pid the executable could not be started
\* and an error event follows; a signal that is aborted already stops a child
\* that has one, and is then not listened to.
Spawn ==
  /\ closure.phase = "idle"
  /\ \E started \in BOOLEAN :
       LET opened == [closure EXCEPT !.phase = "running", !.pid = started,
                                     !.listening = ~aborted]
       IN  /\ leader' = IF started THEN "running" ELSE "none"
           /\ closure' = IF aborted THEN Stop(opened, "abort") ELSE opened
           /\ timers' = IF aborted THEN StopTimers(opened, {"limit"})
                                   ELSE {"limit"}
  /\ UNCHANGED <<member, stray, pipe, heard, spoken, aborted, result>>

-----------------------------------------------------------------------------
(***************************************************************************)
(* The processes                                                           *)
(***************************************************************************)

Fork ==
  /\ leader = "running"
  /\ \/ member = "none" /\ member' = "alive" /\ UNCHANGED stray
     \/ stray = "none" /\ stray' = "alive" /\ UNCHANGED member
  /\ UNCHANGED <<leader, pipe, heard, spoken, aborted, closure, timers, result>>

Exits ==
  /\ leader = "running"
  /\ \E how \in Ends :
       /\ how = "signal" => closure.stopping
       /\ leader' = how
  /\ UNCHANGED <<member, stray, pipe, heard, spoken, aborted, closure, timers, result>>

DescendantExits ==
  /\ \/ member = "alive" /\ member' = "dead" /\ UNCHANGED stray
     \/ stray = "alive" /\ stray' = "dead" /\ UNCHANGED member
  /\ UNCHANGED <<leader, pipe, heard, spoken, aborted, closure, timers, result>>

Writers == leader = "running" \/ member = "alive" \/ stray = "alive"

Write ==
  /\ Writers
  /\ closure.phase # "resolved"
  /\ Len(spoken) < Len(Script)
  /\ pipe' = Append(pipe, Script[Len(spoken) + 1])
  /\ spoken' = Append(spoken, Script[Len(spoken) + 1])
  /\ UNCHANGED <<leader, member, stray, heard, aborted, closure, timers, result>>

-----------------------------------------------------------------------------
(***************************************************************************)
(* The callbacks of the event loop                                         *)
(***************************************************************************)

\* A 'data' event: bounded capture and the caller's callback.
Read ==
  /\ closure.phase \in {"running", "settled"}
  /\ pipe # << >>
  /\ heard' = Append(heard, Head(pipe))
  /\ pipe' = Tail(pipe)
  /\ UNCHANGED <<leader, member, stray, spoken, aborted, closure, timers, result>>

Abort ==
  /\ ~aborted
  /\ aborted' = TRUE
  /\ IF closure.listening
     THEN /\ closure' = Stop(closure, "abort")
          /\ timers' = StopTimers(closure, timers)
     ELSE UNCHANGED <<closure, timers>>
  /\ UNCHANGED <<leader, member, stray, pipe, heard, spoken, result>>

LimitFires ==
  /\ "limit" \in timers
  /\ closure' = Stop(closure, "timeout")
  /\ timers' = StopTimers(closure, timers) \ {"limit"}
  /\ UNCHANGED <<leader, member, stray, pipe, heard, spoken, aborted, result>>

GraceFires ==
  /\ "grace" \in timers
  /\ closure' = [closure EXCEPT !.graceful = FALSE, !.forced = TRUE]
  /\ timers' = timers \ {"grace"}
  /\ leader' = IF leader = "running" THEN "signal" ELSE leader
  /\ KillGroup /\ KillStrays
  /\ UNCHANGED <<pipe, heard, spoken, aborted, result>>

\* settle(): timers cleared, listener removed, the group killed, and the two
\* streams drained for at most drainMs.
Settle(failed) ==
  /\ closure.phase = "running"
  /\ closure' = [closure EXCEPT !.phase = "settled", !.listening = FALSE,
                                !.spawnError = failed,
                                !.graceful = closure.graceful
                                  /\ ~(failed /\ closure.stopping)]
  /\ timers' = {"drain"}
  /\ IF closure.pid THEN KillGroup ELSE UNCHANGED member
  /\ UNCHANGED <<leader, stray, pipe, heard, spoken, aborted, result>>

OnExit == leader \in Ends /\ Settle(FALSE)
OnError == leader = "none" /\ ~closure.pid /\ Settle(TRUE)

Resolve(drained) ==
  /\ closure' = [closure EXCEPT !.phase = "resolved", !.drained = drained]
  /\ timers' = {}
  /\ pipe' = << >>          \* destroy(): what was not read is lost
  /\ result' = [resolved |-> TRUE, spawnError |-> closure.spawnError,
                exit |-> IF closure.spawnError THEN "none" ELSE leader,
                timedOut |-> closure.timedOut, cancelled |-> closure.cancelled,
                graceful |-> closure.graceful /\ ~closure.spawnError,
                forced |-> closure.forced]
  /\ UNCHANGED <<leader, member, stray, heard, spoken, aborted>>

\* Mutant: the end of the writers counts as the end of the streams.
StreamsEndUnread ==
  /\ closure.phase = "settled"
  /\ ~Writers
  /\ Resolve(TRUE)

\* Both streams ended: nobody holds the pipe and everything was read.
StreamsEnd ==
  /\ closure.phase = "settled"
  /\ ~Writers /\ pipe = << >>
  /\ Resolve(TRUE)

DrainFires ==
  /\ closure.phase = "settled"
  /\ "drain" \in timers
  /\ Resolve(FALSE)

-----------------------------------------------------------------------------
Leader == Exits \/ Write
Processes == Leader \/ Fork \/ DescendantExits
Due == GraceFires \/ OnExit \/ OnError \/ StreamsEnd \/ DrainFires
Callbacks == LimitFires \/ Due \/ Read

ProcessNext == SpawnThrows \/ Spawn \/ Abort \/ Processes \/ Callbacks

\* The event loop runs what is due: an armed timer, an exit event, data that
\* arrived. Nothing obliges the processes to do anything.
ProcessFairness == WF_processVars(Callbacks)

ProcessSpec == ProcessInit /\ [][ProcessNext]_processVars /\ ProcessFairness

-----------------------------------------------------------------------------
(***************************************************************************)
(* Properties                                                              *)
(***************************************************************************)

\* The tree must not outlive the run (process.ts, killGroupOnExit): once the
\* promise resolved, neither the leader nor anything in its group is alive.
GroupGone ==
  closure.phase = "resolved" => leader # "running" /\ member # "alive"

\* After settle no timer and no listener is left that could still signal the
\* process id, which the system may have given to another process by then.
NothingLeftArmed ==
  closure.phase \in {"settled", "resolved"} =>
    timers \subseteq {"drain"} /\ ~closure.listening

\* What a run that ended leaves behind: no process of its group, and nothing
\* armed that could still act.
NothingSurvives == GroupGone /\ NothingLeftArmed

\* A run is stopped for one reason. The result never says both timed out and
\* cancelled, and a forced end always had a reason and a grace interval.
OneReason ==
  result # NoResult =>
    /\ ~(result.timedOut /\ result.cancelled)
    /\ result.forced => (result.timedOut \/ result.cancelled) /\ ~result.graceful

\* Output is lost only when the drain window ran out: a promise that resolved
\* because both streams ended delivered every line that was written.
OutputComplete ==
  closure.phase = "resolved" /\ closure.drained => heard = spoken

\* What the caller is told is what happened.
ResultIsTrue == ProcessTypeOK /\ OneReason /\ OutputComplete

\* A run that was started has ended, whatever the process did with its
\* signals.
RunEnded == closure.phase \in {"idle", "resolved"}
=============================================================================
