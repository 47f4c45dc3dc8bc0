----------------------------- MODULE AtomicWorld -----------------------------
(***************************************************************************)
(* What one generation of a served world promises its participants         *)
(* (section 17.1 to 17.3): exchanges take effect one at a time, each in a  *)
(* single step that logs it and applies all of its write or none of it; an *)
(* idempotency identity changes the world once; replays and conflicts are  *)
(* answered from an exchange that is already in the log.                   *)
(***************************************************************************)
EXTENDS Naturals

CONSTANTS Requests, NoKey, KeyOf, BodyOf, MaxRequests

VARIABLES
  log,     \* the exchanges that took effect
  domain   \* the sequences whose writes the domain state holds

vars == <<log, domain>>

Sequences == 1 .. MaxRequests
Kinds == {"committed", "replayed", "rejected"}
Logged == [sequence : Sequences, req : Requests, kind : Kinds,
           effect : {"none", "events", "same", "write"}]

Init == log = {} /\ domain = {}

\* Sequences are taken in order; a failed exchange may leave a gap.
Fresh(s) == \A e \in log : e.sequence < s

Append(s, r, kind, effect) ==
  /\ Fresh(s)
  /\ log' = log \cup
            {[sequence |-> s, req |-> r, kind |-> kind, effect |-> effect]}

SameKey(e, r) == KeyOf[r] # NoKey /\ KeyOf[e.req] = KeyOf[r]

\* A served exchange without a transition: a fault or a domain error.
Answer(s, r) == Append(s, r, "committed", "none") /\ UNCHANGED domain

\* A served exchange with a transition, the first of its identity.
Execute(s, r, effect) ==
  /\ \A e \in log : ~(SameKey(e, r) /\ e.effect # "none")
  /\ Append(s, r, "committed", effect)
  /\ domain' = IF effect = "write" THEN domain \cup {s} ELSE domain

\* The identity and the fingerprint of a logged exchange: its answer again.
Replay(s, r) ==
  /\ \E e \in log : /\ SameKey(e, r)
                    /\ BodyOf[e.req] = BodyOf[r]
                    /\ e.kind = "committed"
  /\ Append(s, r, "replayed", "none")
  /\ UNCHANGED domain

\* The identity of a logged exchange with another fingerprint.
Conflict(s, r) ==
  /\ \E e \in log : /\ SameKey(e, r)
                    /\ BodyOf[e.req] # BodyOf[r]
                    /\ e.kind = "committed"
  /\ Append(s, r, "rejected", "none")
  /\ UNCHANGED domain

Next ==
  \E s \in Sequences, r \in Requests :
    \/ Answer(s, r) \/ Replay(s, r) \/ Conflict(s, r)
    \/ \E effect \in {"events", "same", "write"} : Execute(s, r, effect)

Spec == Init /\ [][Next]_vars
=============================================================================
