------------------------------ MODULE MCServices ------------------------------
(* The parts of a served world that share no state in what is checked of    *)
(* them, side by side for TLC: every behavior runs one of them, chosen at   *)
(* the start, and the others keep still. What is checked of one is what a   *)
(* specification of its own would be checked.                               *)
EXTENDS IdempotencyCache, FaultEngine, WorldLineage, CheckpointDirectory,
        ControlQueue, WorkerPool, Listener, BehaviorHost

CONSTANTS
  w1, w2,
  r1, r2, r3,
  c1, c2,
  j1, j2, j3

VARIABLE part

vars == <<part, cacheVars, faultVars, lineageVars, checkpointVars,
          controlQueueVars, poolVars, listenerVars, hostVars>>

\* Creations of a principal live one unit of virtual time, two at most, and are
\* cached when they fail; charges are shared by every principal, one at most.
TwoPolicies ==
  [create |-> [scope |-> "principal", statuses |-> {"2XX"}, failures |-> TRUE,
               ttl |-> 1, max |-> 2],
   charge |-> [scope |-> "global", statuses |-> {"2XX"}, failures |-> FALSE,
               ttl |-> Forever, max |-> 1]]
Ask(operation, principal, key, fingerprint) ==
  [operation |-> operation, principal |-> principal, key |-> key,
   fingerprint |-> fingerprint]
SomeQueries ==
  {Ask("create", "alice", "k", "f"), Ask("create", "alice", "k", "g"),
   Ask("create", "bob", "k", "f"), Ask("charge", "alice", "k", "f"),
   Ask("create", "alice", NoKey, "f")}

\* One rule of each phase and two before the behavior; every third sample of
\* the stream is high.
Rule(id, phase, action, wanted, chance) ==
  [id |-> id, operation |-> "op", phase |-> phase, action |-> action,
   wanted |-> wanted, chance |-> chance]
SomeRules ==
  <<Rule("late", "before_behavior", "timeout", {2}, FALSE),
    Rule("flaky", "before_behavior", "response", {}, TRUE),
    Rule("corrupt", "before_commit", "corrupt_candidate", {1, 2}, FALSE),
    Rule("cut", "after_commit", "disconnect", {1}, TRUE)>>
SomeSamples == [n \in 1..9 |-> n % 3 # 1]

OneFixture == <<"computer">>

\* Two jobs against one schema and one against a schema no worker may be sent.
TwoSchemas == [j \in Jobs |-> IF j = j2 THEN "large" ELSE "small"]

\* An advance of the operator is sent twice, and a reset for two generations.
Control(id, route, expects) == [id |-> id, route |-> route, expects |-> expects]
SomeSends ==
  <<Control("a", "advance", 1), Control("a", "advance", 1),
    Control("r", "reset", 1), Control("r", "reset", 2),
    Control("w", "world", 0)>>

Init ==
  /\ part \in {"cache", "faults", "lineage", "directory", "controls", "listener",
              "host", "pool"}
  /\ CacheInit /\ FaultInit /\ LineageInit /\ CheckpointInit /\ QueueInit
  /\ PoolInit
  /\ ListenerInit /\ HostInit

Next ==
  \/ /\ part = "cache" /\ CacheNext
     /\ UNCHANGED <<part, faultVars, lineageVars, checkpointVars, controlQueueVars,
                    listenerVars, hostVars, poolVars>>
  \/ /\ part = "faults" /\ FaultNext
     /\ UNCHANGED <<part, cacheVars, lineageVars, checkpointVars, controlQueueVars,
                    listenerVars, hostVars, poolVars>>
  \/ /\ part = "lineage" /\ LineageNext
     /\ UNCHANGED <<part, cacheVars, faultVars, checkpointVars, controlQueueVars,
                    listenerVars, hostVars, poolVars>>
  \/ /\ part = "directory" /\ CheckpointNext
     /\ UNCHANGED <<part, cacheVars, faultVars, lineageVars, controlQueueVars,
                    listenerVars, hostVars, poolVars>>
  \/ /\ part = "controls" /\ QueueNext
     /\ UNCHANGED <<part, cacheVars, faultVars, lineageVars, checkpointVars,
                    listenerVars, hostVars, poolVars>>
  \/ /\ part = "listener" /\ ListenerNext
     /\ UNCHANGED <<part, cacheVars, faultVars, lineageVars, checkpointVars,
                    controlQueueVars, hostVars, poolVars>>
  \/ /\ part = "host" /\ HostNext
     /\ UNCHANGED <<part, cacheVars, faultVars, lineageVars, checkpointVars,
                    controlQueueVars, listenerVars, poolVars>>
  \/ /\ part = "pool" /\ PoolNext
     /\ UNCHANGED <<part, cacheVars, faultVars, lineageVars, checkpointVars,
                    controlQueueVars, listenerVars, hostVars>>

\* What each component owes, as its own specification states it.
Owed ==
  \/ /\ part = "controls" /\ QueueSteps
     /\ UNCHANGED <<part, cacheVars, faultVars, lineageVars, checkpointVars,
                    listenerVars, hostVars, poolVars>>
  \/ /\ part = "listener" /\ ListenerOwed
     /\ UNCHANGED <<part, cacheVars, faultVars, lineageVars, checkpointVars,
                    controlQueueVars, hostVars, poolVars>>
  \/ /\ part = "host" /\ HostOwed
     /\ UNCHANGED <<part, cacheVars, faultVars, lineageVars, checkpointVars,
                    controlQueueVars, listenerVars, poolVars>>
  \/ /\ part = "pool" /\ PoolSteps
     /\ UNCHANGED <<part, cacheVars, faultVars, lineageVars, checkpointVars,
                    controlQueueVars, listenerVars, hostVars>>

Spec == Init /\ [][Next]_vars /\ WF_vars(Owed)

\* What was begun ends: each request leaves its event, each call and each close
\* of the behavior host settles, each control of the operator is answered, each
\* job of the schema workers too.
EverythingEnds ==
  []<>(AllRecorded /\ AllSettled /\ ControlsAnswered /\ JobsSettle)
=============================================================================
