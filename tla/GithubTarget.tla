---------------------------- MODULE GithubTarget ----------------------------
(***************************************************************************)
(* The provider adapter of a corpus run, packages/corpus/src/github.ts, and *)
(* the repository it writes to. Every HTTP request passes one budget; a     *)
(* create whose answer is lost is looked for in a few pages of open issues; *)
(* what the adapter knows it created is closed after every case. The        *)
(* provider is external: it numbers issues in the order they arrive, lists  *)
(* the open ones newest first, and others write to it too.                  *)
(***************************************************************************)
EXTENDS Naturals, Sequences, FiniteSets

CONSTANTS
  MaxRequests,     \* the budget of answered requests
  MaxReadRetries,  \* retries of a read that was rate limited
  MaxPages,        \* pages a lost create is looked for in
  PageSize,        \* issues of a page
  MaxOthers        \* issues other users create (a bound)

VARIABLES
  issues,    \* the repository, by number: marked with the run's marker, open
  inTransit, \* lost creates that the provider may still receive
  requestsSent,
  captured,  \* issue numbers the run recorded as its own, in that order
  ledger,    \* what closing them came to: [number, closed]
  call,      \* the request the adapter is serving
  answer     \* what it came to, once it is served

githubVars == <<issues, inTransit, requestsSent, captured, ledger, call, answer>>

\* A request of the adapter, and how far it is served.
Request(op, number) ==
  [op |-> op, number |-> number, page |-> 1, retries |-> 0, matches |-> {}]
NoCall == Request("none", 0)
NoAnswer == [result |-> "none", number |-> 0]

GithubInit ==
  /\ issues = << >> /\ inTransit = 0 /\ requestsSent = 0
  /\ captured = << >> /\ ledger = << >>
  /\ call = NoCall /\ answer = NoAnswer

Ours == [marked |-> TRUE, open |-> TRUE]
Theirs == [marked |-> FALSE, open |-> TRUE]

\* The open issues the provider lists, newest first, and a page of them.
Newer(n) == {k \in DOMAIN issues : k > n /\ issues[k].open}
Page(p) ==
  {n \in DOMAIN issues :
     /\ issues[n].open
     /\ Cardinality(Newer(n)) \in (p - 1) * PageSize .. p * PageSize - 1}

-----------------------------------------------------------------------------
\* send(): how one request may end. "exhausted" never leaves the process, and a
\* "lost" one ends in a thrown fetch(); a "cut" one was answered and counted,
\* and its body could not be read.
Ends == IF requestsSent >= MaxRequests THEN {"exhausted"}
        ELSE {"lost", "limited", "refused", "cut", "ok"}

Counted(end) ==
  requestsSent' = IF end \in {"exhausted", "lost"} THEN requestsSent
                  ELSE requestsSent + 1

\* What was sent took effect, unless it was refused; the sender of a lost
\* request cannot tell.
TookEffect(end) ==
  CASE end \in {"ok", "cut"} -> {TRUE}
    [] end = "lost" -> BOOLEAN
    [] OTHER -> {FALSE}

Captured == {captured[i] : i \in DOMAIN captured}
Capture(n) ==
  captured' = IF n \in Captured THEN captured ELSE Append(captured, n)

Serve(request) == call = NoCall /\ call' = request /\ answer' = NoAnswer

Answered(result, n) ==
  call' = NoCall /\ answer' = [result |-> result, number |-> n]

Result(end) ==
  CASE end = "exhausted" -> "provider_failure"
    [] end = "cut" -> "threw"
    [] end \in {"refused", "limited"} -> "refused"
    [] OTHER -> end

\* createIssue(): the number is recorded the moment it arrives. A create that
\* was lost is looked for; it may also reach the provider later.
SendCreate ==
  /\ call.op = "create"
  /\ \E end \in Ends : \E done \in TookEffect(end) :
       LET n == IF done THEN Len(issues) + 1 ELSE 0
       IN  /\ Counted(end)
           /\ issues' = IF done THEN Append(issues, Ours) ELSE issues
           /\ IF end = "ok" THEN Capture(n) ELSE UNCHANGED captured
           /\ IF end = "lost"
              THEN /\ call' = Request("reconcile", 0)
                   /\ \E late \in IF done THEN {0} ELSE {0, 1} :
                        inTransit' = inTransit + late
                   /\ UNCHANGED answer
              ELSE Answered(Result(end), n) /\ UNCHANGED inTransit
  /\ UNCHANGED ledger

\* A unique match is the run's own; none or several stay uncertain. An issue
\* that two pages list, as the list shifts, matches twice: [page, number].
CaptureUnique(matches) ==
  IF Cardinality(matches) = 1 THEN \E m \in matches : Capture(m[2])
  ELSE UNCHANGED captured

\* Mutant: every issue of the page matches.
EveryListed(page) == page

\* The marked issues among those of a page.
Marked(page) == {n \in page : issues[n].marked}

\* reconcileUncertainCreate(): page after page of the open issues. Any answer
\* but a page gives up; an unreadable one is thrown out of the create.
SendReconcile ==
  /\ call.op = "reconcile"
  /\ \E end \in Ends :
       /\ Counted(end)
       /\ \/ /\ end = "limited" /\ call.retries < MaxReadRetries
             /\ call' = [call EXCEPT !.retries = @ + 1]
             /\ UNCHANGED <<captured, answer>>
          \/ /\ end \in {"exhausted", "lost", "limited", "refused"}
             /\ Answered("lost", 0) /\ UNCHANGED captured
          \/ end = "cut" /\ Answered("threw", 0) /\ UNCHANGED captured
          \/ /\ end = "ok"
             /\ LET page == Page(call.page)
                    matches == call.matches \cup {call.page} \X Marked(page)
                IN  IF Cardinality(page) = PageSize /\ call.page < MaxPages
                    THEN /\ call' = [call EXCEPT !.page = @ + 1, !.retries = 0,
                                                 !.matches = matches]
                         /\ UNCHANGED <<captured, answer>>
                    ELSE CaptureUnique(matches) /\ Answered("lost", 0)
  /\ UNCHANGED <<issues, inTransit, ledger>>

\* getIssue() and listIssues(): a read that is rate limited is sent again.
SendRead ==
  /\ call.op = "read"
  /\ \E end \in Ends :
       /\ Counted(end)
       /\ \/ /\ end = "limited" /\ call.retries < MaxReadRetries
             /\ call' = [call EXCEPT !.retries = @ + 1] /\ UNCHANGED answer
          \/ Answered(Result(end), 0)
  /\ UNCHANGED <<issues, inTransit, captured, ledger>>

Closing(n, done) ==
  issues' = IF done THEN [issues EXCEPT ![n].open = FALSE] ELSE issues

\* updateIssue() with a state of closed, as corpora use it.
SendUpdate ==
  /\ call.op = "update"
  /\ \E end \in Ends : \E done \in TookEffect(end) :
       /\ Counted(end)
       /\ Closing(call.number, done)
       /\ Answered(Result(end), 0)
  /\ UNCHANGED <<inTransit, captured, ledger>>

\* serve() and the operations refuse some requests before they send anything: a
\* poll that is not a read, another repository, an unknown operation.
Refuse ==
  /\ call.op = "unsupported"
  /\ Answered("threw", 0)
  /\ UNCHANGED <<issues, inTransit, requestsSent, captured, ledger>>

GithubServes == SendCreate \/ SendReconcile \/ SendRead \/ SendUpdate \/ Refuse

-----------------------------------------------------------------------------
\* closeCaptured(): one close of the loop, whose own failure is one more entry.
CloseCaptured(n) ==
  /\ \E end \in Ends : \E done \in TookEffect(end) :
       /\ Counted(end)
       /\ Closing(n, done)
       /\ ledger' = Append(ledger, [number |-> n, closed |-> end = "ok"])
  /\ UNCHANGED <<inTransit, captured, call, answer>>

\* The failures cleanup() throws for: every entry the run ever made.
CleanupFailed == \E i \in DOMAIN ledger : ~ledger[i].closed

-----------------------------------------------------------------------------
(* The provider.                                                            *)
LateCreate ==
  /\ inTransit > 0
  /\ inTransit' = inTransit - 1
  /\ issues' = Append(issues, Ours)
  /\ UNCHANGED <<requestsSent, captured, ledger, call, answer>>

OthersCreate ==
  /\ Cardinality({n \in DOMAIN issues : ~issues[n].marked}) < MaxOthers
  /\ issues' = Append(issues, Theirs)
  /\ UNCHANGED <<inTransit, requestsSent, captured, ledger, call, answer>>

Provider == LateCreate \/ OthersCreate
=============================================================================
