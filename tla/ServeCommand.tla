----------------------------- MODULE ServeCommand -----------------------------
(* The commands that serve one control directory by hand: oal serve, fresh   *)
(* or resumed, and oal world fork, after apps/cli/src/handlers/serve.ts and  *)
(* world.ts. A server is one process. What it leaves in the directory -      *)
(* stores, markers, credentials, trace and exported evidence - outlives it,  *)
(* and the next process has nothing else to go by. An action is a stretch    *)
(* between two awaits.                                                       *)
EXTENDS Naturals, Sequences, FiniteSets

CONSTANTS
  MaxServers,     \* bound: commands in all; their processes are 1 .. MaxServers
  MaxLive,        \* bound: processes at one time
  MaxServed       \* bound: requests that are admitted in all

ASSUME ServeAssumption == {MaxServers, MaxLive, MaxServed} \subseteq Nat

\* What a process may be told to serve; "changed" is the contract after an edit.
Sources == {"contract", "changed", "scenario", "fork"}

Servers == 1 .. MaxServers
\* What the pid marker holds if no process id: it is absent, or empty since it was
\* opened and is not written yet. Neither names a process to a resume.
NoServer == 0

VARIABLES
  origin,         \* the source of the fresh commands
  serverAt,       \* where a process stands
  command,        \* what it was told: source, and whether it resumes
  serverStream,   \* its event stream: next, written, open and completed sequences
  dir,            \* the control directory, see Empty
  serverTrace,    \* sequences in trace.jsonl, line by line
  servedWorld,    \* exchanges committed in world.sqlite; how many an export held
  raced           \* history: a resume began while another command was at work

serveVars == <<origin, serverAt, command, serverStream, dir, serverTrace, servedWorld,
               raced>>

Empty == [made |-> FALSE, identity |-> "none", world |-> FALSE,
          runId |-> "absent", pid |-> NoServer, finalized |-> FALSE,
          credentials |-> FALSE]     \* runId is also "torn" or "whole"
Closed == [next |-> 1, written |-> 1, open |-> {}, completed |-> {}]

CommandEnded == {"failed", "done"}
Live(s) == serverAt[s] \notin {"start"} \cup CommandEnded

\* A process serves a world if it has an environment.
HasWorld(s) == command[s].source \in {"scenario", "fork"}
\* The port is open from the listener's start to handle.close().
Listening(s) ==
  serverAt[s] \in {"drop_credentials", "credentials", "run_id", "run_id_text", "pid",
                    "pid_text", "ready", "export", "finalize", "remove_pid",
                    "remove_credentials", "close"}
\* The process works on stores it opened.
Serves(s) ==
  serverAt[s] \in {"streams", "listen", "release"} \/ Listening(s)

Goes(s, to) == serverAt' = [serverAt EXCEPT ![s] = to]
ServerExits(s) == Goes(s, "failed") /\ serverStream' = [serverStream EXCEPT ![s] = Closed]

ServeInit ==
  /\ origin \in {"contract", "scenario", "fork"}
  /\ serverAt = [s \in Servers |-> "start"]
  /\ command = [s \in Servers |-> [source |-> "contract", resume |-> FALSE]]
  /\ serverStream = [s \in Servers |-> Closed]
  /\ dir = Empty /\ serverTrace = <<>>
  /\ servedWorld = [committed |-> 0, exported |-> {}]
  /\ raced = FALSE

-----------------------------------------------------------------------------
(* Preflight. *)

\* A fresh serve or fork refuses a directory that is there; a resume needs a
\* readable run record.
Begin(s) ==
  /\ serverAt[s] = "start" /\ \A t \in 1 .. s - 1 : serverAt[t] # "start"
  /\ Cardinality({t \in Servers : Live(t)}) < MaxLive
  /\ \E source \in Sources, resume \in BOOLEAN :
       /\ IF resume THEN source # "fork" ELSE source = origin
       /\ command' = [command EXCEPT ![s] = [source |-> source, resume |-> resume]]
       /\ Goes(s, IF resume
                  THEN IF dir.runId = "whole" THEN "check_finalized" ELSE "failed"
                  ELSE IF dir.made THEN "failed" ELSE "make")
       /\ raced' = (raced \/ (resume /\ \E t \in Servers \ {s} : Live(t)))
  /\ UNCHANGED <<origin, serverStream, dir, serverTrace, servedWorld>>

CheckFinalized(s) ==
  /\ serverAt[s] = "check_finalized"
  /\ Goes(s, IF dir.finalized THEN "failed" ELSE "check_pid")
  /\ UNCHANGED <<origin, command, serverStream, dir, serverTrace, servedWorld, raced>>

\* The process of the pid marker must be gone. Its number may have gone to a
\* process of somebody else, which refuses the resume too.
CheckPid(s) ==
  /\ serverAt[s] = "check_pid"
  /\ \/ /\ dir.pid \in Servers
        /\ Goes(s, "failed")
     \/ /\ dir.pid \in Servers => ~Live(dir.pid)
        /\ Goes(s, "make")
  /\ UNCHANGED <<origin, command, serverStream, dir, serverTrace, servedWorld, raced>>

-----------------------------------------------------------------------------
(* startServe and startForkServe. *)

MakeDirectories(s) ==
  /\ serverAt[s] = "make"
  /\ dir' = [dir EXCEPT !.made = TRUE]
  /\ Goes(s, IF command[s].source = "fork" THEN "environment" ELSE "store")
  /\ UNCHANGED <<origin, command, serverStream, serverTrace, servedWorld, raced>>

\* Mutant: the identity of the last command replaces the one that is recorded.
StoreReplaced(s) ==
  /\ serverAt[s] = "store"
  /\ dir' = [dir EXCEPT !.identity = command[s].source]
  /\ Goes(s, "streams")
  /\ UNCHANGED <<origin, command, serverStream, serverTrace, servedWorld, raced>>

\* The run identity: recorded once by a fresh serve, verified by a resume.
OpenStore(s) ==
  /\ serverAt[s] = "store"
  /\ IF command[s].resume
     THEN /\ IF dir.identity = command[s].source THEN Goes(s, "streams")
             ELSE Goes(s, "failed")
          /\ UNCHANGED dir
     ELSE IF dir.identity = "none"
     THEN /\ dir' = [dir EXCEPT !.identity = command[s].source]
          /\ Goes(s, "streams")
     ELSE Goes(s, "failed") /\ UNCHANGED dir
  /\ UNCHANGED <<origin, command, serverStream, serverTrace, servedWorld, raced>>

\* The event streams go on behind the lines that are there.
OpenStreams(s) ==
  /\ serverAt[s] = "streams"
  /\ serverStream' = [serverStream EXCEPT ![s].next = Len(serverTrace) + 1,
                              ![s].written = Len(serverTrace) + 1]
  /\ Goes(s, IF command[s].source = "scenario" THEN "environment" ELSE "listen")
  /\ UNCHANGED <<origin, command, dir, serverTrace, servedWorld, raced>>

\* openEnvironment and openRestoredEnvironment initialize a world store; one that
\* is initialized they refuse, to a resume as well.
OpenEnvironment(s) ==
  /\ serverAt[s] = "environment"
  /\ IF dir.world THEN ServerExits(s) /\ UNCHANGED dir
     ELSE Goes(s, "listen") /\ dir' = [dir EXCEPT !.world = TRUE] /\ UNCHANGED serverStream
  /\ UNCHANGED <<origin, command, serverTrace, servedWorld, raced>>

\* The exposure listens; requests come from here on.
Listen(s) ==
  /\ serverAt[s] = "listen"
  /\ Goes(s, IF command[s].resume THEN "drop_credentials" ELSE "credentials")
  /\ UNCHANGED <<origin, command, serverStream, dir, serverTrace, servedWorld, raced>>

DropCredentials(s) ==
  /\ serverAt[s] = "drop_credentials"
  /\ dir' = [dir EXCEPT !.credentials = FALSE]
  /\ Goes(s, "credentials")
  /\ UNCHANGED <<origin, command, serverStream, serverTrace, servedWorld, raced>>

\* writePrivateFile(): the file must not be there.
WriteCredentials(s) ==
  /\ serverAt[s] = "credentials"
  /\ IF dir.credentials THEN ServerExits(s) /\ UNCHANGED dir
     ELSE /\ dir' = [dir EXCEPT !.credentials = TRUE]
          /\ Goes(s, "run_id") /\ UNCHANGED serverStream
  /\ UNCHANGED <<origin, command, serverTrace, servedWorld, raced>>

\* writeMarker(): the file is emptied when it is opened and then written, for
\* the run record and then for the process id.
WriteMarkers(s) ==
  /\ \/ /\ serverAt[s] = "run_id" /\ Goes(s, "run_id_text")
        /\ dir' = [dir EXCEPT !.runId = "torn"]
     \/ /\ serverAt[s] = "run_id_text" /\ Goes(s, "pid")
        /\ dir' = [dir EXCEPT !.runId = "whole"]
     \/ /\ serverAt[s] = "pid" /\ Goes(s, "pid_text")
        /\ dir' = [dir EXCEPT !.pid = NoServer]
     \/ /\ serverAt[s] = "pid_text" /\ Goes(s, "ready")
        /\ dir' = [dir EXCEPT !.pid = s]
  /\ UNCHANGED <<origin, command, serverStream, serverTrace, servedWorld, raced>>

-----------------------------------------------------------------------------
(* Requests, while the port is open. *)

Admitted == Len(serverTrace) + Cardinality(UNION {{<<s, q>> :
              q \in serverStream[s].open \cup serverStream[s].completed} : s \in Servers})

Reserve(s) ==
  /\ Listening(s) /\ Admitted < MaxServed
  /\ serverStream' = [serverStream EXCEPT ![s].open = @ \cup {serverStream[s].next},
                              ![s].next = @ + 1]
  /\ UNCHANGED <<origin, serverAt, command, dir, serverTrace, servedWorld, raced>>

\* The sequences that may be appended once q completed, in order.
Contiguous(s, q) ==
  LET completed == serverStream[s].completed \cup {q}
  IN  {p \in completed : serverStream[s].written .. p \subseteq completed}

\* An exchange commits, if there is a world, and leaves its record
\* behind all earlier ones.
Answer(s, q) ==
  /\ q \in serverStream[s].open
  /\ LET lines == Contiguous(s, q)
     IN  /\ serverStream' = [serverStream EXCEPT
              ![s].open = @ \ {q},
              ![s].completed = (@ \cup {q}) \ lines,
              ![s].written = @ + Cardinality(lines)]
         /\ serverTrace' = serverTrace \o [i \in 1 .. Cardinality(lines) |->
                                 serverStream[s].written + i - 1]
  /\ servedWorld' = IF HasWorld(s)
              THEN [servedWorld EXCEPT !.committed = @ + 1] ELSE servedWorld
  /\ UNCHANGED <<origin, serverAt, command, dir, raced>>

-----------------------------------------------------------------------------
(* The end of a serve, by the first signal. *)

Interrupted(s) ==
  /\ serverAt[s] = "ready"
  /\ Goes(s, IF HasWorld(s) THEN "export" ELSE "finalize")
  /\ UNCHANGED <<origin, command, serverStream, dir, serverTrace, servedWorld, raced>>

\* exportScenarioEvidence(): the final state and the events, with the listener
\* open.
Export(s) ==
  /\ serverAt[s] = "export"
  /\ servedWorld' = [servedWorld EXCEPT !.exported = {servedWorld.committed}]
  /\ Goes(s, "finalize")
  /\ UNCHANGED <<origin, command, serverStream, dir, serverTrace, raced>>

\* finalizeServeControl(): the marker, then the process id goes. A fork keeps
\* its credentials.
Finalize(s) ==
  /\ serverAt[s] = "finalize"
  /\ dir' = [dir EXCEPT !.finalized = TRUE]
  /\ Goes(s, "remove_pid")
  /\ UNCHANGED <<origin, command, serverStream, serverTrace, servedWorld, raced>>

RemovePid(s) ==
  /\ serverAt[s] = "remove_pid"
  /\ dir' = [dir EXCEPT !.pid = NoServer]
  /\ Goes(s, IF command[s].source = "fork" THEN "close" ELSE "remove_credentials")
  /\ UNCHANGED <<origin, command, serverStream, serverTrace, servedWorld, raced>>

RemoveCredentials(s) ==
  /\ serverAt[s] = "remove_credentials"
  /\ dir' = [dir EXCEPT !.credentials = FALSE]
  /\ Goes(s, "close")
  /\ UNCHANGED <<origin, command, serverStream, serverTrace, servedWorld, raced>>

\* The exposure, the control socket, the environment and the store close; the
\* exchanges that were dispatched run on until the process is gone.
CloseListener(s) ==
  /\ serverAt[s] = "close" /\ Goes(s, "release")
  /\ UNCHANGED <<origin, command, serverStream, dir, serverTrace, servedWorld, raced>>
Release(s) ==
  /\ serverAt[s] = "release" /\ Goes(s, "done")
  /\ serverStream' = [serverStream EXCEPT ![s] = Closed]
  /\ UNCHANGED <<origin, command, dir, serverTrace, servedWorld, raced>>

\* The process dies: killed, by the second signal, at the end of the budget of
\* the first one, or with an error that any of its steps threw.
Dies(s) ==
  /\ Live(s)
  /\ ServerExits(s)
  /\ UNCHANGED <<origin, command, dir, serverTrace, servedWorld, raced>>

-----------------------------------------------------------------------------
ServeSteps ==
  \E s \in Servers :
    \/ CheckFinalized(s) \/ CheckPid(s) \/ MakeDirectories(s) \/ OpenStore(s)
    \/ OpenStreams(s) \/ OpenEnvironment(s) \/ Listen(s) \/ DropCredentials(s)
    \/ WriteCredentials(s) \/ WriteMarkers(s) \/ Export(s) \/ Finalize(s)
    \/ RemovePid(s) \/ RemoveCredentials(s) \/ CloseListener(s)
    \/ Release(s)

ServeNext ==
  \/ ServeSteps
  \/ \E s \in Servers :
       \/ Begin(s) \/ Reserve(s) \/ Interrupted(s) \/ Dies(s)
       \/ \E q \in serverStream[s].open : Answer(s, q)

ServeSpec == ServeInit /\ [][ServeNext]_serveVars /\ WF_serveVars(ServeSteps)

-----------------------------------------------------------------------------
\* A directory has one identity and one world, and what is behind its FINALIZED
\* marker was exported before. Two fresh commands never serve it both, whatever
\* they found when they looked. As long as no resume begins beside another
\* command, crashes and resumes in any number go on with one numbering of the
\* trace; a serve that is ready is named by the marker; and a serve that ended
\* by itself left nothing to resume and, unless it was a fork, no credentials
\* (serve.ts startServe, finalizeServeControl, serveCommand).
ServeIsAccountable ==
  /\ \A s \in Servers : Serves(s) /\ command[s].source # "fork" =>
       dir.identity = command[s].source
  /\ \A s, t \in Servers :
       Serves(s) /\ Serves(t) /\ ~command[s].resume /\ ~command[t].resume => s = t
  /\ dir.finalized /\ dir.world => servedWorld.exported # {}
  /\ ~raced =>
       /\ serverTrace = [i \in 1 .. Len(serverTrace) |-> i]
       /\ \A s \in Servers :
            /\ serverAt[s] = "ready" => dir.pid = s /\ dir.runId = "whole"
            /\ serverAt[s] = "done" =>
                 /\ dir.finalized /\ dir.pid = NoServer
                 /\ dir.credentials => command[s].source = "fork"
                 /\ ~\E t \in Servers : Serves(t)

\* SPEC.md 23.4: a finalized run is immutable. It is not: the port is open until
\* after the marker, and a resume that looked before it serves behind it.
FinalizedIsImmutable ==
  [][dir.finalized => UNCHANGED <<serverTrace, servedWorld>>]_serveVars

\* SPEC.md AC-030, AC-098: a run that matches and is not finalized resumes. A
\* world does not, its store is initialized already.
MatchingResumes ==
  \A s \in Servers : command[s].resume /\ serverAt[s] = "environment" => ~dir.world

\* Every command comes to an end or to a listening server.
ServersSettle ==
  \A s \in Servers : serverAt[s] \in {"start", "ready"} \cup CommandEnded
=============================================================================
