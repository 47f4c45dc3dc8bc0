----------------------------- MODULE BehaviorHost -----------------------------
(***************************************************************************)
(* The behavior module process and its host                                *)
(* (packages/behavior-runtime/src/host.ts and child.ts): calls correlated  *)
(* by id over two pipes, a timer per call, a child that serves its input   *)
(* one message at a time, and a process that may stop at any point.        *)
(***************************************************************************)
EXTENDS Naturals, Sequences

CONSTANTS
  Calls,     \* describe, initialize, handle and project calls
  Create,    \* the call start() makes
  Close,     \* the call close() makes
  None

VARIABLES
  host,       \* the host object: "new", "starting", "open", "closing",
              \* "closed", or "abandoned" by a failed start
  nextId,     \* the id of the last message
  pending,    \* this.pending, as [id, call]
  outcome,    \* what the promise of each call settled to
  stdin,      \* messages the child has not taken, [id, call]
  stdout,     \* lines the host has not read, [id, of, kind, fits]
  child,      \* the process: "none", "idle", "busy", "exited"
  current,    \* the message the child is serving
  served,     \* the ids the child took, in order
  exitSeen    \* the 'exit' handler ran

hostVars == <<host, nextId, pending, outcome, stdin, stdout, child, current,
          served, exitSeen>>

AllCalls == Calls \cup {Create, Close}
ReplyKinds == {"ok", "http", "internal"}
Unsent == [kind |-> "unsent", of |-> None]
Awaited == [kind |-> "waiting", of |-> None]
NoMessage == [id |-> 0, call |-> None]

HostInit ==
  /\ host = "new"
  /\ nextId = 0
  /\ pending = {}
  /\ outcome = [c \in AllCalls |-> Unsent]
  /\ stdin = <<>>
  /\ stdout = <<>>
  /\ child = "none"
  /\ current = NoMessage
  /\ served = <<>>
  /\ exitSeen = FALSE

-----------------------------------------------------------------------------
(* The host.                                                               *)

\* takeId()
TakeId == nextId + 1

\* call(): the promise waits under its id and the line is written; a line
\* written to a process that has exited goes nowhere.
Send(c) ==
  /\ outcome[c] = Unsent
  /\ nextId' = TakeId
  /\ pending' = pending \cup {[id |-> TakeId, call |-> c]}
  /\ outcome' = [outcome EXCEPT ![c] = Awaited]
  /\ stdin' = IF child = "exited" THEN stdin
              ELSE Append(stdin, [id |-> TakeId, call |-> c])

\* start(): spawn and the create call, in one turn.
Start ==
  /\ host = "new"
  /\ host' = "starting"
  /\ Send(Create)
  /\ child' = "idle"
  /\ UNCHANGED <<stdout, current, served, exitSeen>>

\* start() returns or throws; its callers do not close a host that threw.
Started ==
  /\ host = "starting"
  /\ outcome[Create] # Awaited
  /\ host' = IF outcome[Create].kind = "ok" THEN "open" ELSE "abandoned"
  /\ UNCHANGED <<nextId, pending, outcome, stdin, stdout, child, current,
                 served, exitSeen>>

\* Calls overlap: a reset initializes while a request is handled, and a call
\* may still be made while close() waits for its answer.
Call(c) ==
  /\ host \in {"open", "closing"}
  /\ Send(c)
  /\ UNCHANGED <<host, stdout, child, current, served, exitSeen>>

\* Without a child the promise rejects at once.
Refused(c) ==
  /\ host \in {"new", "closed"}
  /\ outcome[c] = Unsent
  /\ outcome' = [outcome EXCEPT ![c].kind = "refused"]
  /\ UNCHANGED <<host, nextId, pending, stdin, stdout, child, current, served,
                 exitSeen>>

\* receive(): the line answers the call waiting under its id; a line that is
\* over the bound, or whose call is no longer pending, is dropped.
Receive ==
  /\ stdout # <<>>
  /\ stdout' = Tail(stdout)
  /\ LET line == Head(stdout)
         waiting == {p \in pending : p.id = line.id} IN
     IF line.fits /\ waiting # {}
     THEN /\ pending' = pending \ waiting
          /\ outcome' = [c \in AllCalls |->
                IF \E p \in waiting : p.call = c
                THEN [kind |-> line.kind, of |-> line.of] ELSE outcome[c]]
     ELSE UNCHANGED <<pending, outcome>>
  /\ UNCHANGED <<host, nextId, stdin, child, current, served, exitSeen>>

\* Mutant: the timer rejects and leaves the call in this.pending.
TimeoutKeepsPending(c) ==
  /\ outcome[c] = Awaited
  /\ outcome' = [outcome EXCEPT ![c].kind = "timeout"]
  /\ UNCHANGED <<host, nextId, pending, stdin, stdout, child, current, served,
                 exitSeen>>

\* The timer of a call: the message stays with the child.
Timeout(c) ==
  /\ outcome[c] = Awaited
  /\ pending' = {p \in pending : p.call # c}
  /\ outcome' = [outcome EXCEPT ![c].kind = "timeout"]
  /\ UNCHANGED <<host, nextId, stdin, stdout, child, current, served, exitSeen>>

\* The 'exit' event: every pending call fails. The pipe may still hold lines.
ExitHandler ==
  /\ child = "exited"
  /\ ~exitSeen
  /\ exitSeen' = TRUE
  /\ pending' = {}
  /\ outcome' = [c \in AllCalls |->
       IF \E p \in pending : p.call = c
       THEN [kind |-> "exited", of |-> None] ELSE outcome[c]]
  /\ UNCHANGED <<host, nextId, stdin, stdout, child, current, served>>

\* close() asks the child first.
BeginClose ==
  /\ host = "open"
  /\ host' = "closing"
  /\ Send(Close)
  /\ UNCHANGED <<stdout, child, current, served, exitSeen>>

\* Whatever the call settled to, the process is killed.
EndClose ==
  /\ host = "closing"
  /\ outcome[Close] # Awaited
  /\ host' = "closed"
  /\ child' = "exited"
  /\ stdin' = <<>>
  /\ current' = NoMessage
  /\ UNCHANGED <<nextId, pending, outcome, stdout, served, exitSeen>>

-----------------------------------------------------------------------------
(* The child.                                                              *)

\* current.then(() => serve(message))
Take ==
  /\ child = "idle"
  /\ stdin # <<>>
  /\ child' = "busy"
  /\ current' = Head(stdin)
  /\ served' = Append(served, Head(stdin).id)
  /\ stdin' = Tail(stdin)
  /\ UNCHANGED <<host, nextId, pending, outcome, stdout, exitSeen>>

\* A line over the bound is refused under id -1, which no call waits for.
Unreadable ==
  /\ child \in {"idle", "busy"}
  /\ stdin # <<>>
  /\ stdin' = Tail(stdin)
  /\ UNCHANGED <<host, nextId, pending, outcome, stdout, child, current, served,
                 exitSeen>>

\* serve() writes its reply; a close message that succeeds ends the process.
Reply ==
  /\ child = "busy"
  /\ \E kind \in ReplyKinds, fits \in BOOLEAN :
       /\ stdout' = Append(stdout, [id |-> current.id, of |-> current.call,
                                    kind |-> kind, fits |-> fits])
       /\ IF current.call = Close /\ kind = "ok"
          THEN child' = "exited" /\ stdin' = <<>>
          ELSE child' = "idle" /\ stdin' = stdin
  /\ current' = NoMessage
  /\ UNCHANGED <<host, nextId, pending, outcome, served, exitSeen>>

\* The process stops: a crash, a signal, an exit in the module's code.
Exit ==
  /\ child \in {"idle", "busy"}
  /\ child' = "exited"
  /\ stdin' = <<>>
  /\ current' = NoMessage
  /\ UNCHANGED <<host, nextId, pending, outcome, stdout, served, exitSeen>>

-----------------------------------------------------------------------------
Timers == \E c \in AllCalls : Timeout(c)

HostNext ==
  \/ Start \/ Started \/ BeginClose \/ EndClose \/ Receive \/ ExitHandler
  \/ \E c \in Calls : Call(c) \/ Refused(c)
  \/ Timers
  \/ Take \/ Unreadable \/ Reply \/ Exit

\* Timers fire and the host goes on after an await; the child owes nothing,
\* so a call may hang for ever. No step is ever undone, so fairness to the
\* disjunction is fairness to each.
HostOwed == Timers \/ Started \/ EndClose

HostSpec == HostInit /\ [][HostNext]_hostVars /\ WF_hostVars(HostOwed)

-----------------------------------------------------------------------------
(* Properties.                                                             *)

Message == [id : Nat, call : AllCalls]
Line == [id : Nat, of : AllCalls, kind : ReplyKinds, fits : BOOLEAN]
Outcome == [kind : ReplyKinds \cup {"unsent", "waiting", "timeout", "exited",
                                 "refused"},
            of : AllCalls \cup {None}]

HostType ==
  /\ host \in {"new", "starting", "open", "closing", "closed", "abandoned"}
  /\ nextId \in Nat
  /\ pending \subseteq Message
  /\ outcome \in [AllCalls -> Outcome]
  /\ stdin \in Seq(Message)
  /\ stdout \in Seq(Line)
  /\ child \in {"none", "idle", "busy", "exited"}
  /\ current \in Message \cup {NoMessage}
  /\ served \in Seq(Nat)
  /\ exitSeen \in BOOLEAN

\* A call never gets the answer to another one: replies that come after their
\* call timed out, or were dropped by the line bound, do not shift the ones
\* behind them (section 16.5).
OwnReply ==
  \A c \in AllCalls : outcome[c].kind \in ReplyKinds => outcome[c].of = c

\* The map holds exactly the calls that can still be answered: a timeout, a
\* reply and an exit each release the entry, in whatever order they race.
PendingIsWaiting ==
  {p.call : p \in pending} = {c \in AllCalls : outcome[c] = Awaited}

\* The child serves calls in the order the host made them, whatever timed out
\* in between (section 16.3: serially per run in ingress order).
ServedInOrder ==
  \A i, j \in DOMAIN served : i < j => served[i] < served[j]

\* Replies, pending entries and serial service stay consistent together.
Correlated == HostType /\ OwnReply /\ PendingIsWaiting /\ ServedInOrder

\* No call waits, although the child may hang, exit or answer too late, and a
\* host that closed has ended its process (section 16.5: modules MUST be
\* terminated with the run), also when it hung in a call.
AllSettled ==
  /\ \A c \in AllCalls : outcome[c] # Awaited
  /\ host \in {"closing", "closed"} => child = "exited"
=============================================================================
