----------------------------- MODULE WorldAtomic -----------------------------
(* The gateway over the store implements AtomicWorld: the log is read off   *)
(* the request rows that have an event, the domain off the sealed state.    *)
(* The steps between staging and commit() are stuttering.                   *)
EXTENDS World

ExchangeLog ==
  {[sequence |-> s, req |-> rows[s].req, kind |-> rows[s].status,
    effect |-> rows[s].transition] : s \in events}

Atomic == INSTANCE AtomicWorld WITH log <- ExchangeLog, domain <- state

\* Within one generation, and unless a commit fails before its row closed (see
\* ReplayOfCommitted), the pipeline with its awaits, faults, failed exchanges
\* and lost commits is indistinguishable from a world that takes every exchange
\* in one step (sections 17.1 to 17.3 and 48.2).
AtomicSpec == Atomic!Spec
=============================================================================
