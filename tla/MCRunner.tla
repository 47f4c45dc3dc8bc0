------------------------------- MODULE MCRunner -------------------------------
(* The parts of the runner, side by side for TLC: every behavior runs one   *)
(* of them, chosen at the start: a trial with the process of its agent, a   *)
(* process alone under every abort, the lanes of a batch, the exposure of a *)
(* world, or the commands that serve one directory by hand.                 *)
EXTENDS Trial, Batch, Exposure, ServeCommand

CONSTANTS x1, x2, x3

VARIABLE part

\* Two requests for the API and one for a document.
OneDocument == [x \in Exchanges |-> IF x = x3 THEN "doc" ELSE "api"]

vars == <<part, trialVars, batchVars, exposureVars, serveVars>>

\* An agent that completes its turn and one more line that arrives late.
TwoLines == <<"turn.completed", "http.request">>
\* A trial of the batch ends in one of two ways.
TwoOutcomes ==
  {Outcome("completed", "none", "intact", TRUE),
   Outcome("invalid_setup", "pre_control_nonparticipant", "missing", FALSE)}

Init ==
  /\ part \in {"trial", "process", "batch", "exposure", "serve"}
  /\ TrialInit /\ BatchInit /\ ExposureInit /\ ServeInit
  /\ part # "serve" => origin = "contract"

Next ==
  \/ /\ part = "trial" /\ TrialNext
     /\ UNCHANGED <<part, batchVars, exposureVars, serveVars>>
  \/ /\ part = "process" /\ ProcessNext
     /\ UNCHANGED <<part, trialOwn, batchVars, exposureVars, serveVars>>
  \/ /\ part = "batch" /\ BatchNext
     /\ UNCHANGED <<part, trialVars, exposureVars, serveVars>>
  \/ /\ part = "exposure" /\ ExposureNext
     /\ UNCHANGED <<part, trialVars, batchVars, serveVars>>
  \/ /\ part = "serve" /\ ServeNext
     /\ UNCHANGED <<part, trialVars, batchVars, exposureVars>>

\* What each part owes, as its own specification states it.
Owed ==
  \/ /\ part = "trial"
     /\ Runner \/ (at = "running" /\ Due /\ UNCHANGED trialOwn)
     /\ UNCHANGED <<part, batchVars, exposureVars, serveVars>>
  \/ /\ part = "process" /\ Callbacks
     /\ UNCHANGED <<part, trialOwn, batchVars, exposureVars, serveVars>>
  \/ /\ part = "batch" /\ BatchSteps
     /\ UNCHANGED <<part, trialVars, exposureVars, serveVars>>
  \/ /\ part = "exposure" /\ ExposureSteps
     /\ UNCHANGED <<part, trialVars, batchVars, serveVars>>
  \/ /\ part = "serve" /\ ServeSteps
     /\ UNCHANGED <<part, trialVars, batchVars, exposureVars>>

Spec == Init /\ [][Next]_vars /\ WF_vars(Owed)

\* What was begun ends: a started trial, a run of an agent, a batch, a request;
\* a command that serves comes to its listener or to an end.
EverythingEnds ==
  []<>(/\ part = "trial" => at = "start" \/ Ended
       /\ part = "process" => RunEnded
       /\ part = "batch" => BatchFinalized
       /\ ExchangesEnd
       /\ ServersSettle)
=============================================================================
