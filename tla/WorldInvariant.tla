---------------------------- MODULE WorldInvariant ----------------------------
(* The inductive invariant of World: what the event loop relies on between  *)
(* two awaits, and the bookkeeping that makes AtMostOnce, EventTrail and    *)
(* NoUncommittedEffect hold whatever the failure points and controls are.   *)
EXTENDS WorldAtomic

\* Sequences are allocated in order: no row exists beyond the counter.
RowsBelowCount == \A s \in Sequences : s > count => rows[s].status = "none"

\* While the pipeline works, its request has the open row, still pending.
StagedRow ==
  pipe.pc # "idle" =>
    /\ allocation \in Sequences
    /\ allocation <= count
    /\ pipe.req \in Requests
    /\ rows[allocation].status = "pending"

\* Only the row of an exchange that committed carries a transition.
TransitionsClosed ==
  \A s \in Sequences :
    rows[s].transition # "none" => rows[s].req \in Requests /\ Closed(s)

\* A row belongs to the generation that staged or committed it, never to a
\* later one.
RowGenerations == \A s \in Sequences : rows[s].generation <= generation

\* What validation holds was computed from the snapshot; only a behavior that
\* succeeded has a transition.
CandidateFromSnapshot ==
  pipe.pc # "idle" =>
    /\ pipe.transition # "none" => pipe.pc = "validate" /\ pipe.outcome = "ok"
    /\ \A s \in pipe.next :
         s \in pipe.snapshot \/ (s = allocation /\ pipe.transition = "write")

\* An identity that changed this generation's state is in the cache.
TransitionsCached ==
  \A s \in Sequences :
    /\ rows[s].transition # "none"
    /\ rows[s].generation = generation
    /\ KeyOf[rows[s].req] # NoKey
    => idempotency[KeyOf[rows[s].req]] # None

\* Behavior only runs for an identity that is not in the cache, and it stays
\* out of the cache until this exchange commits.
InFlightUncached ==
  pipe.pc # "idle" /\ KeyOf[pipe.req] # NoKey
    => idempotency[KeyOf[pipe.req]] = None

\* A control that is being run has its id and its payload.
ControlStaged ==
  control.pc # "idle" => control.id \in Controls /\ control.payload \in Payloads

IInv ==
  /\ TypeOK
  /\ RowsBelowCount
  /\ StagedRow
  /\ TransitionsClosed
  /\ RowGenerations
  /\ CandidateFromSnapshot
  /\ TransitionsCached
  /\ InFlightUncached
  /\ ControlStaged
  /\ EventTrail
  /\ NoUncommittedEffect
  /\ AtMostOnce
=============================================================================
