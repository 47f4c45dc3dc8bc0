----------------------------- MODULE CorpusRun -----------------------------
(***************************************************************************)
(* The corpus engine, packages/corpus/src/engine.ts, over its two targets:  *)
(* the provider adapter of GithubTarget and the local one of                *)
(* apps/cli/src/handlers/corpus.ts, which serves a fresh world per case.    *)
(* Cases run in order; the steps of a case run in order and stop at what    *)
(* leaves nothing to go on with; cleanup steps and the target's own cleanup *)
(* run once a case was prepared. What is asserted of an answer, and whether *)
(* a declared binding is found in it, is left open.                         *)
(***************************************************************************)
EXTENDS GithubTarget

CONSTANT Corpus   \* the cases: [emulatorOnly, main, cleanup], and of the steps
                  \* [id, op, attempts (0: no poll), waits, needs, binds]

Operations == {"create", "read", "update", "unsupported", "operator"}
CaseSteps ==
  [id : STRING, op : Operations, attempts : Nat, waits : Nat, needs : SUBSET STRING,
   binds : BOOLEAN]
CorpusCases ==
  [emulatorOnly : BOOLEAN, main : Seq(CaseSteps), cleanup : Seq(CaseSteps)]

ASSUME CorpusAssumption == Corpus \in Seq(CorpusCases) /\ MaxRequests \in Nat

VARIABLES
  targetId,  \* "github" or "local"
  permitted, \* writes are allowed, and a repository and a token are given
  serves,    \* of the local target: case -> what became of its serve
  position,  \* [index, phase, step]: where the run stands
  bound,     \* the bindings of the case: step -> number
  poll,      \* of the poll being run: [attempt, waited, seen]
  record,    \* the report of the case: [status, steps, provider]
  stopped,
  closing,   \* the captured issues this teardown still has to close
  report     \* the reports of the cases that ended

engineVars == <<targetId, permitted, serves, position, bound, poll, record, stopped,
                closing, report>>
corpusVars == <<githubVars, engineVars>>

NoPoll == [attempt |-> 0, waited |-> 0, seen |-> FALSE]
Fresh == [status |-> "passed", steps |-> << >>, provider |-> FALSE]
Unbound == [id \in {} |-> 0]

CorpusInit ==
  /\ GithubInit
  /\ targetId \in {"github", "local"} /\ permitted \in BOOLEAN
  /\ serves = [k \in DOMAIN Corpus |-> "none"]
  /\ position = [index |-> 1, phase |-> "prepare", step |-> 1]
  /\ bound = Unbound /\ poll = NoPoll /\ record = Fresh /\ stopped = FALSE
  /\ closing = << >> /\ report = << >>

Operators == targetId = "local"
Over == position.index > Len(Corpus)
Case == Corpus[position.index]
StepsOf == IF position.phase = "cleanup" THEN Case.cleanup ELSE Case.main
Running == position.phase \in {"main", "cleanup"} /\ position.step <= Len(StepsOf)
Step == StepsOf[position.step]
At(phase) == ~Over /\ position.phase = phase
Enter(phase) == position' = [position EXCEPT !.phase = phase, !.step = 1]

\* A case is reported, and the next one begins with nothing of it.
EndCase(r) ==
  /\ report' = Append(report, r)
  /\ position' = [index |-> position.index + 1, phase |-> "prepare", step |-> 1]
  /\ bound' = Unbound /\ poll' = NoPoll /\ record' = Fresh /\ stopped' = FALSE

Unrun(status) ==
  [case |-> position.index, status |-> status, behavioral |-> "not_evaluated",
   class |-> "none", steps |-> << >>]

-----------------------------------------------------------------------------
\* A case for emulators only is skipped on a target without operator controls.
SkipCase ==
  /\ At("prepare") /\ Case.emulatorOnly /\ ~Operators
  /\ EndCase(Unrun("skipped"))
  /\ UNCHANGED <<githubVars, targetId, permitted, serves, closing>>

\* The world of a local case, as prepare() left it: a serve that does not come
\* up is stopped, one whose credentials cannot be read is left alone.
Prepared == IF targetId = "github" THEN {"none"} ELSE {"serving"}
Unprepared == IF targetId = "github" THEN {"none"} ELSE {"stopped", "left"}

PrepareFails ==
  /\ At("prepare") /\ ~(Case.emulatorOnly /\ ~Operators)
  /\ targetId = "github" => ~permitted
  /\ \E w \in Unprepared : serves' = [serves EXCEPT ![position.index] = w]
  /\ EndCase(Unrun("error"))
  /\ UNCHANGED <<githubVars, targetId, permitted, closing>>

PrepareCase ==
  /\ At("prepare") /\ ~(Case.emulatorOnly /\ ~Operators)
  /\ targetId = "github" => permitted
  /\ \E w \in Prepared : serves' = [serves EXCEPT ![position.index] = w]
  /\ Enter("main")
  /\ UNCHANGED <<githubVars, targetId, permitted, bound, poll, record, stopped,
                 closing, report>>

\* A main step that errs, or fails for a reason it diagnoses, leaves nothing to
\* go on with; a failed assertion, or a lost answer, does not.
Stops(mark, diagnosed) == mark = "error" \/ (mark = "failed" /\ diagnosed)

\* Mutant: cleanup steps say nothing of their case.
StatusOfMain(mark) ==
  CASE mark = "error" /\ position.phase = "main" -> "error"
    [] mark = "failed" /\ position.phase = "main" /\ record.status = "passed" -> "failed"
    [] OTHER -> record.status

\* What a step makes of the status of its case; a cleanup step that fails
\* leaves it, and none replaces a failure.
StatusAfter(mark) ==
  CASE mark = "error" /\ position.phase = "main" -> "error"
    [] mark = "error" /\ record.status = "passed" -> "error"
    [] mark = "failed" /\ position.phase = "main" /\ record.status = "passed" -> "failed"
    [] OTHER -> record.status

\* runStep() returned: the step is recorded and the next one is up.
Mark(mark, diagnosed, provider) ==
  /\ record' = [status |-> StatusAfter(mark),
                steps |-> Append(record.steps, [step |-> Step.id, op |-> Step.op,
                            phase |-> position.phase, mark |-> mark]),
                provider |-> record.provider \/ provider]
  /\ stopped' = (stopped \/ (position.phase = "main" /\ Stops(mark, diagnosed)))
  /\ position' = [position EXCEPT !.step = @ + 1]
  /\ poll' = NoPoll

\* Cleanup steps are run whether the case stopped or not.
Unstopped == position.phase = "cleanup" \/ ~stopped

Unresolved == ~(Step.needs \subseteq DOMAIN bound)

\* A reference to a binding that was never established ends the case.
MissBinding ==
  /\ Running /\ Unstopped /\ call = NoCall /\ answer = NoAnswer
  /\ Step.op # "operator" /\ Unresolved
  /\ Mark("failed", TRUE, FALSE)
  /\ UNCHANGED <<githubVars, targetId, permitted, serves, bound, closing, report>>

\* The binding a step declares, if its answer holds it, then its assertions. A
\* binding that is missing fails the step; an assertion that throws errs.
Judged(found, holds) ==
  IF holds = "throws" THEN "error"
  ELSE IF (Step.binds /\ ~found) \/ holds = "fails" THEN "failed" ELSE "passed"
Bind(found, n) ==
  bound' = IF Step.binds /\ found
           THEN [id \in DOMAIN bound \cup {Step.id} |->
                   IF id = Step.id THEN n ELSE bound[id]]
           ELSE bound
Verdicts == {"holds", "fails", "throws"}

\* An operator step is one of an emulator-only case, so its target has operator
\* controls: it has an answer, or throws.
OperatorStep ==
  /\ Running /\ Unstopped /\ Step.op = "operator"
  /\ \E found \in BOOLEAN, holds \in Verdicts :
       Mark(Judged(found, holds), FALSE, FALSE) /\ Bind(found, 0)
  /\ UNCHANGED <<githubVars, targetId, permitted, serves, closing, report>>

\* The request a step sends. A poll of what is not a read is refused.
Requested ==
  LET number == IF Step.needs = {} THEN 0
                ELSE bound[CHOOSE id \in Step.needs : TRUE]
  IN  Request(IF Step.attempts > 0 /\ Step.op # "read" THEN "unsupported"
              ELSE Step.op, number)

RequestStep ==
  /\ Running /\ Unstopped /\ Step.op # "operator" /\ ~Unresolved
  /\ answer = NoAnswer /\ Serve(Requested)
  /\ UNCHANGED <<issues, inTransit, requestsSent, captured, ledger, engineVars>>

\* LocalCorpusTarget.request(): the listener of the world answers, the answer
\* is lost, or it cannot be read. The number it gives out is of the world.
LocalServes ==
  /\ targetId = "local" /\ call # NoCall
  /\ \E result \in IF call.op = "unsupported" THEN {"threw"}
                   ELSE {"ok", "refused", "lost", "threw"} :
       Answered(result, 0)
  /\ UNCHANGED <<issues, inTransit, requestsSent, captured, ledger, engineVars>>

TargetServes ==
  \/ targetId = "github" /\ GithubServes /\ UNCHANGED engineVars
  \/ LocalServes

Taken == answer' = NoAnswer
         /\ UNCHANGED <<issues, inTransit, requestsSent, captured, ledger, call,
                        targetId, permitted, serves, closing, report>>

Answers(result) == Running /\ call = NoCall /\ answer.result \in result
IsPoll == Step.attempts > 0

\* A request that threw, or that the provider ended, and, where the step is no
\* poll, one whose answer was lost.
StepEndsWithout ==
  /\ \/ Answers({"threw"}) /\ Mark("error", TRUE, FALSE)
     \/ Answers({"provider_failure"}) /\ Mark("failed", TRUE, TRUE)
     \/ Answers({"lost"}) /\ ~IsPoll /\ Mark("lost", TRUE, FALSE)
  /\ UNCHANGED bound /\ Taken

\* A request that was answered. A number that arrived is a number to bind.
StepAnswered ==
  /\ Answers({"ok", "refused"}) /\ ~IsPoll
  /\ \E found \in BOOLEAN, holds \in Verdicts :
       /\ found => answer.result = "ok"
       /\ Mark(Judged(found, holds), FALSE, FALSE)
       /\ Bind(found, answer.number)
  /\ Taken

\* An attempt of a poll that came to nothing: another one follows, after a wait,
\* while attempts are left and the waits so far are below the deadline. The
\* wait of the local target is a control of its world, which may fail.
MayRepeat == poll.attempt + 1 < Step.attempts /\ poll.waited < Step.waits

PollAgain ==
  /\ Answers({"lost", "ok", "refused"}) /\ IsPoll /\ MayRepeat
  /\ poll' = [attempt |-> poll.attempt + 1, waited |-> poll.waited + 1,
              seen |-> poll.seen \/ answer.result # "lost"]
  /\ UNCHANGED <<position, bound, record, stopped>> /\ Taken

PollThrows ==
  /\ Answers({"lost", "ok", "refused"}) /\ IsPoll
  /\ answer.result # "lost" \/ (Operators /\ MayRepeat)
  /\ Mark("error", TRUE, FALSE) /\ UNCHANGED bound /\ Taken

\* The poll ends with an answer that passed, or exhausted; its bindings are of
\* the last answer it had, if it had one.
PollEnds ==
  /\ Running /\ IsPoll
  /\ \E passed \in BOOLEAN, found \in BOOLEAN :
       /\ IF passed THEN Answers({"ok", "refused"})
          ELSE Answers({"lost", "ok", "refused"}) /\ ~MayRepeat
       /\ found => poll.seen \/ answer.result # "lost"
       /\ Mark(IF passed THEN Judged(found, "holds") ELSE "failed", FALSE, FALSE)
       /\ Bind(found, 0)
  /\ Taken

-----------------------------------------------------------------------------
\* The main steps are over, or what is left of them is not run.
BeginCleanup ==
  /\ At("main") /\ call = NoCall /\ answer = NoAnswer
  /\ stopped \/ position.step > Len(Case.main)
  /\ Enter("cleanup")
  /\ UNCHANGED <<githubVars, targetId, permitted, serves, bound, poll, record,
                 stopped, closing, report>>

BeginTeardown ==
  /\ At("cleanup") /\ call = NoCall /\ answer = NoAnswer
  /\ position.step > Len(Case.cleanup)
  /\ Enter("teardown")
  /\ closing' = IF targetId = "github" THEN captured ELSE << >>
  /\ UNCHANGED <<githubVars, targetId, permitted, serves, bound, poll, record,
                 stopped, report>>

CloseNext ==
  /\ At("teardown") /\ closing # << >>
  /\ CloseCaptured(Head(closing)) /\ closing' = Tail(closing)
  /\ UNCHANGED <<targetId, permitted, serves, position, bound, poll, record, stopped,
                 report>>

\* What the report of a case says besides its status.
Behavioral(status) ==
  CASE status = "passed"
         /\ \E i \in DOMAIN record.steps : record.steps[i].mark # "lost" -> "pass"
    [] status = "failed" -> "fail"
    [] OTHER -> "not_evaluated"
FailureClass(status) ==
  IF status = "passed" THEN "none"
  ELSE IF \/ status = "error"
          \/ \E i \in DOMAIN record.steps : record.steps[i].mark = "error"
       THEN "runtime_error"
  ELSE IF status = "failed" /\ record.provider THEN "provider_failure"
  ELSE "assertion_failure"

\* The target's cleanup() returned or threw. The local one stops its serve.
FinishCase ==
  /\ At("teardown") /\ closing = << >>
  /\ LET status == IF targetId = "github" /\ CleanupFailed THEN "error"
                   ELSE record.status
     IN  EndCase([case |-> position.index, status |-> status,
                  behavioral |-> Behavioral(status), class |-> FailureClass(status),
                  steps |-> record.steps])
  /\ serves' = IF targetId = "local" THEN [serves EXCEPT ![position.index] = "stopped"]
               ELSE serves
  /\ UNCHANGED <<githubVars, targetId, permitted, closing>>

CorpusSteps ==
  \/ SkipCase \/ PrepareFails \/ PrepareCase
  \/ MissBinding \/ OperatorStep \/ RequestStep \/ TargetServes
  \/ StepEndsWithout \/ StepAnswered \/ PollAgain \/ PollThrows \/ PollEnds
  \/ BeginCleanup \/ BeginTeardown \/ CloseNext \/ FinishCase

\* The provider is there for a run against it.
ProviderSteps == targetId = "github" /\ Provider /\ UNCHANGED engineVars

CorpusNext == CorpusSteps \/ ProviderSteps

CorpusSpec == CorpusInit /\ [][CorpusNext]_corpusVars /\ WF_corpusVars(CorpusSteps)

-----------------------------------------------------------------------------
(* What a run must keep true.                                               *)
\* The creates a report tells of that may have made an issue unseen.
Uncertain(steps) ==
  {k \in DOMAIN steps : steps[k].op = "create" /\ steps[k].mark \in {"lost", "error"}}
ToldUncertain == UNION {{i} \X Uncertain(report[i].steps) : i \in DOMAIN report}
Unknown == {n \in DOMAIN issues : issues[n].marked /\ n \notin Captured}

\* The last case that was run ended in an error.
LastRunErred ==
  \E i \in DOMAIN report :
    report[i].status = "error" /\ \A k \in DOMAIN report : k > i => report[k].status = "skipped"

\* A run leaves nothing behind that it does not tell of: it closes no issue but
\* its own, sends nothing without permission and no more than its budget; an
\* issue it knows of that is still open when a case is over makes that case an
\* error, an issue it does not know of is one of a create it reported lost or
\* failed; a served world outlives no case but one whose preparation failed.
CorpusLeavesNothing ==
  /\ \A n \in DOMAIN issues : ~issues[n].marked => issues[n].open
  /\ requestsSent <= IF permitted THEN MaxRequests ELSE 0
  /\ position.phase = "prepare" /\ (\E n \in Captured : issues[n].open) => LastRunErred
  /\ Over => Cardinality(Unknown) + inTransit <= Cardinality(ToldUncertain)
  /\ \A k \in DOMAIN serves :
       /\ serves[k] = "serving" => k = position.index
       /\ serves[k] = "left" => report[k].status = "error"

\* The first m steps of a report are the main steps that ran, in their order;
\* the others are the cleanup steps, every one of them unless nothing was run.
Split(steps, c, m) ==
  /\ m <= Len(c.main)
  /\ \A k \in 1 .. m : steps[k].phase = "main" /\ steps[k].step = c.main[k].id
  /\ steps # << >> => Len(steps) = m + Len(c.cleanup)
  /\ \A k \in m + 1 .. Len(steps) :
       steps[k].phase = "cleanup" /\ steps[k].step = c.cleanup[k - m].id

Erred(steps) == \E k \in DOMAIN steps : steps[k].mark = "error"

\* A report agrees with its steps, of which the first m are main steps.
Agrees(r, c, m) ==
  /\ Split(r.steps, c, m)
  /\ \A k \in 1 .. m : r.steps[k].mark = "error" => k = m
  /\ r.behavioral = "pass" =>
       /\ m = Len(c.main)
       /\ \A k \in 1 .. m : r.steps[k].mark \in {"passed", "lost"}
       /\ ~Erred(r.steps)
  /\ r.status = "failed" => \E k \in 1 .. m : r.steps[k].mark = "failed"
  /\ r.class = "assertion_failure" => ~Erred(r.steps)
  /\ r.class = "provider_failure" => requestsSent = MaxRequests

\* The report of a case agrees with what its steps came to: the main steps were
\* run in order and none after one that erred, every cleanup step was run; a case
\* conforms only when all its main steps were run and passed, or were lost, and
\* nothing erred; it failed only for a main step that did, is a failure of its
\* assertions only when nothing erred, and of the provider only when the budget
\* is spent.
CasesAreTrue ==
  \A i \in DOMAIN report :
    \E m \in 0 .. Len(report[i].steps) : Agrees(report[i], Corpus[i], m)
=============================================================================
