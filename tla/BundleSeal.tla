------------------------------ MODULE BundleSeal ------------------------------
(***************************************************************************)
(* How the evidence of a batch is sealed, and read back: the manifests and *)
(* completion pointers of packages/evidence/src/artifacts.ts as trials     *)
(* (packages/runner/src/trial.ts) and their batch (run.ts) write them,     *)
(* over streams that are appended to meanwhile, and the commands that      *)
(* verify a bundle and then use it (apps/cli/src/handlers: run-tree.ts,    *)
(* report.ts, evaluate.ts, study-analyze.ts). A file is the number of its  *)
(* lines, a digest is what was digested.                                   *)
(***************************************************************************)
EXTENDS Naturals, FiniteSets

CONSTANTS
  Trials,      \* trials of the batch, which are 1 .. Trials
  MaxLines,    \* bound: lines of a stream when its agent ends
  NoFile

Runs == 1 .. Trials
Batch == 0
Scopes == Runs \cup {Batch}

\* A trial appends its stage facts and session events to one stream and the
\* exchanges of its world to another.
Streams == {"stages", "trace"}
\* What lies in the directory of a run and in that of the batch. Manifest and
\* pointer of a scope are no payload of it.
Files(s) ==
  {s} \X (IF s = Batch THEN {"ledger", "cohort"} ELSE Streams \cup {"started", "derived"})
Payload == UNION {Files(s) : s \in Scopes}
Seals(r) == {r} \X {"manifest", "completed"}
ChildSeals == UNION {Seals(r) : r \in Runs}

All == Payload \cup ChildSeals

\* A manifest records what each file was, NoFile what it does not record; that
\* of the batch holds what its runs were sealed with as well. None of it is the
\* file that is not there.
Pointers(manifests) == [whole : BOOLEAN, of : manifests \cup {NoFile}]
RunManifests == [All -> Nat \cup {NoFile}]
Manifests == [All -> Nat \cup {NoFile} \cup RunManifests \cup Pointers(RunManifests)]

ASSUME SealAssumption ==
  /\ Trials \in Nat
  /\ NoFile \notin Nat \cup Manifests \cup Pointers(Manifests)

VARIABLES
  stage,      \* of each scope: where its process is
  lines,      \* of each payload file: its lines, 0 if it was only opened, or NoFile
  queued,     \* appends that were offered and did not land yet
  manifest,   \* of each scope: what its manifest records of each file, or NoFile
  pointer,    \* of each scope: [whole, of], or NoFile
  draft,      \* of each scope: the manifest in the making, directories to read and entries
  hanging,    \* history: runs whose exposure was closed over an open exchange
  reader      \* the command that uses a bundle, see Idle

sealVars == <<stage, lines, queued, manifest, pointer, draft, hanging, reader>>

Ended == {"sealed", "threw", "dead"}
NoEntries == [id \in All |-> NoFile]
Nothing == [id \in {} |-> NoFile]
Idle == [kind |-> "none", at |-> "idle", scope |-> Batch, todo |-> {}, ok |-> TRUE,
         loaded |-> Nothing, sealed |-> FALSE]

NoDraft == [todo |-> {}, entries |-> NoEntries]

Content(id) ==
  CASE id[2] = "manifest" -> manifest[id[1]]
    [] id[2] = "completed" -> pointer[id[1]]
    [] OTHER -> lines[id]
Exists(id) == Content(id) # NoFile
Whole(s) == pointer[s] # NoFile /\ pointer[s].whole

SealInit ==
  /\ stage = [s \in Scopes |-> IF s = Batch THEN "running" ELSE "waiting"]
  /\ lines = [id \in Payload |-> NoFile]
  /\ queued = [id \in Payload |-> 0]
  /\ manifest = [s \in Scopes |-> NoFile]
  /\ pointer = [s \in Scopes |-> NoFile]
  /\ draft = [s \in Scopes |-> NoDraft]
  /\ hanging = {}
  /\ reader = Idle

Goes(s, from, to) == stage[s] = from /\ stage' = [stage EXCEPT ![s] = to]
More(id) == IF lines[id] = NoFile THEN 1 ELSE lines[id] + 1
Offered(id) == queued' = [queued EXCEPT ![id] = @ + 1]
Ledger == <<Batch, "ledger">>

------------------------------------------------------------------------------
\* A lane takes the next trial: initTrial(), and the launched event. There are as
\* many lanes as trials.
LaunchTrial(r) ==
  /\ stage[Batch] = "running" /\ \A q \in 1 .. r - 1 : stage[q] # "waiting"
  /\ Goes(r, "waiting", "setup") /\ Offered(Ledger)
  /\ UNCHANGED <<lines, manifest, pointer, draft, hanging, reader>>

\* setupTrial() awaits what it records, creates an empty trace, and writes
\* run.started.json last.
SetupEnds(r) ==
  /\ Goes(r, "setup", "running")
  /\ lines' = [lines EXCEPT ![<<r, "stages">>] = 1, ![<<r, "trace">>] = 0,
                            ![<<r, "started">>] = 1]
  /\ UNCHANGED <<queued, manifest, pointer, draft, hanging, reader>>

\* A setup that fails before, between or behind these goes straight to its
\* manifest (finalizeSetupFailure).
SetupFails(r) ==
  /\ Goes(r, "setup", "concluded")
  /\ \E left \in {<<NoFile, NoFile>>, <<1, NoFile>>, <<1, 0>>} :
       lines' = [lines EXCEPT ![<<r, "stages">>] = left[1], ![<<r, "trace">>] = left[2]]
  /\ UNCHANGED <<queued, manifest, pointer, draft, hanging, reader>>

\* While a trial runs its callbacks offer stage facts, session events and
\* exchanges; nobody waits for what was offered before the next is.
Offer(r, stream) ==
  LET id == <<r, stream>>
  IN  /\ stage[r] = "running" /\ Offered(id)
      /\ queued[id] + lines[id] < MaxLines
      /\ UNCHANGED <<stage, lines, manifest, pointer, draft, hanging, reader>>

\* An append lands, also behind the end of the trial that offered it.
Land(id) ==
  /\ queued[id] > 0
  /\ queued' = [queued EXCEPT ![id] = @ - 1]
  /\ lines' = [lines EXCEPT ![id] = More(id)]
  /\ UNCHANGED <<stage, manifest, pointer, draft, hanging, reader>>

\* The agent is gone; close() destroys the sockets and does not wait for the
\* exchanges that are still being answered.
CloseExposure(r) ==
  /\ Goes(r, "running", "closed")
  /\ hanging' = IF queued[<<r, "trace">>] > 0 THEN hanging \cup {r} ELSE hanging
  /\ UNCHANGED <<lines, queued, manifest, pointer, draft, reader>>

\* Mutant: nobody waits for the stage facts either.
Unflushed(r) == r \in Runs

\* Stages and session events are flushed, exchanges are not.
Flushed(r) == queued[<<r, "stages">>] = 0

\* The last stage fact is awaited.
Conclude(r) ==
  /\ Flushed(r) /\ Goes(r, "closed", "concluded")
  /\ lines' = [lines EXCEPT ![<<r, "stages">>] = More(<<r, "stages">>)]
  /\ UNCHANGED <<queued, manifest, pointer, draft, hanging, reader>>

\* Whatever throws in a trial leaves what it wrote.
Throws(r) ==
  /\ stage[r] \notin {"waiting"} \cup Ended
  /\ stage' = [stage EXCEPT ![r] = "threw"]
  /\ draft' = [draft EXCEPT ![r] = NoDraft]
  /\ UNCHANGED <<lines, queued, manifest, pointer, hanging, reader>>

\* The lanes are joined; trials that threw or were not started are recorded.
Join ==
  /\ \A r \in Runs : stage[r] \in {"waiting", "sealed", "threw"}
  /\ Goes(Batch, "running", "closed")
  /\ queued' = [queued EXCEPT ![Ledger] = @ + Cardinality({r \in Runs : stage[r] # "sealed"})]
  /\ UNCHANGED <<lines, manifest, pointer, draft, hanging, reader>>

\* The ledger is flushed and the cohort of the launched trials written.
ConcludeBatch ==
  /\ queued[Ledger] = 0
  /\ Goes(Batch, "closed", "concluded")
  /\ lines' = [lines EXCEPT ![<<Batch, "cohort">>] =
                 IF \E r \in Runs : stage[r] # "waiting" THEN 1 ELSE NoFile]
  /\ UNCHANGED <<queued, manifest, pointer, draft, hanging, reader>>

------------------------------------------------------------------------------
\* collectEntries() walks the directories of a scope. At its root the manifest and
\* pointer are left out, below they are files. The files of one directory are
\* read in one step: each is read once, and nothing here compares two of them.
\* Directories are read in the order the file system lists them in.
Directories(s) ==
  IF s # Batch THEN {s} ELSE {Batch} \cup {r \in Runs : stage[r] # "waiting"}
Within(s, d) == IF s = Batch /\ d # Batch THEN Files(d) \cup Seals(d) ELSE Files(d)
Record(ids, f) == [id \in All |-> IF id \in ids THEN Content(id) ELSE f[id]]

BeginManifest(s) ==
  /\ Goes(s, "concluded", "collecting")
  /\ draft' = [draft EXCEPT ![s] = [todo |-> Directories(s), entries |-> NoEntries]]
  /\ UNCHANGED <<lines, queued, manifest, pointer, hanging, reader>>

ReadDirectory(s) ==
  /\ stage[s] = "collecting"
  /\ \E d \in draft[s].todo :
       draft' = [draft EXCEPT ![s] =
         [todo |-> @.todo \ {d}, entries |-> Record(Within(s, d), @.entries)]]
  /\ UNCHANGED <<stage, lines, queued, manifest, pointer, hanging, reader>>

\* atomicWrite() of the manifest: nobody sees a part of it.
WriteManifest(s) ==
  /\ draft[s].todo = {}
  /\ Goes(s, "collecting", "anchoring")
  /\ manifest' = [manifest EXCEPT ![s] = draft[s].entries]
  /\ draft' = [draft EXCEPT ![s] = NoDraft]
  /\ UNCHANGED <<lines, queued, pointer, hanging, reader>>

\* writeOnce() of the pointer: it is opened, then written.
OpenPointer(s) ==
  /\ Goes(s, "anchoring", "pointing")
  /\ pointer' = [pointer EXCEPT ![s] = [whole |-> FALSE, of |-> NoFile]]
  /\ UNCHANGED <<lines, queued, manifest, draft, hanging, reader>>

WritePointer(s) ==
  /\ Goes(s, "pointing", "sealed")
  /\ pointer' = [pointer EXCEPT ![s] = [whole |-> TRUE, of |-> manifest[s]]]
  /\ IF s = Batch THEN UNCHANGED queued ELSE Offered(Ledger)
  /\ UNCHANGED <<lines, manifest, draft, hanging, reader>>

Seal(s) ==
  BeginManifest(s) \/ ReadDirectory(s) \/ WriteManifest(s) \/ OpenPointer(s) \/ WritePointer(s)

\* The process of the batch ends, before or behind its seal.
Dies ==
  /\ stage' = [s \in Scopes |-> IF stage[s] \in Ended \cup {"waiting"} THEN stage[s]
                            ELSE "dead"]
  /\ queued' = [id \in Payload |-> 0]
  /\ draft' = [s \in Scopes |-> NoDraft]
  /\ stage[Batch] # "dead"
  /\ UNCHANGED <<lines, manifest, pointer, hanging, reader>>

------------------------------------------------------------------------------
\* oal report loads a run or batch, then verifies it from its pointer; oal evaluate
\* loads a run, verifies it by its manifest alone and adds an evaluation;
\* oal study analyze verifies a batch by its manifest, anchors that at the
\* pointer, and loads it then.
Loadable(s) == s # Batch => Exists(<<s, "started">>)
RunsOf(s) == {r \in (IF s = Batch THEN Runs ELSE {s}) : Loadable(r)}
Traces(s) == [id \in RunsOf(s) \X {"trace"} |-> lines[id]]

Anchored(s) == Whole(s) /\ pointer[s].of = manifest[s]

Begin(kind, s) ==
  /\ reader = Idle /\ Loadable(s)
  /\ reader' = [Idle EXCEPT !.kind = kind, !.at = "begun", !.scope = s, !.sealed = Whole(s),
                            !.loaded = IF kind = "analyze" THEN Nothing ELSE Traces(s)]
  /\ UNCHANGED <<stage, lines, queued, manifest, pointer, draft, hanging>>

OpenManifest ==
  /\ reader.at = "begun"
  /\ LET s == reader.scope
     IN  reader' = [reader EXCEPT !.at = "verifying",
           !.ok = IF reader.kind = "report" THEN Anchored(s) ELSE manifest[s] # NoFile,
           !.todo = IF manifest[s] = NoFile THEN {} ELSE Directories(s)]
  /\ UNCHANGED <<stage, lines, queued, manifest, pointer, draft, hanging>>

\* verify() reads each file that the manifest records and looks for no other.
CheckDirectory ==
  /\ reader.at = "verifying"
  /\ \E d \in reader.todo :
       LET recorded == manifest[reader.scope]
           ids == {id \in Within(reader.scope, d) : recorded[id] # NoFile}
       IN  reader' = [reader EXCEPT !.todo = @ \ {d},
                        !.ok = @ /\ \A id \in ids : Content(id) = recorded[id]]
  /\ UNCHANGED <<stage, lines, queued, manifest, pointer, draft, hanging>>

\* What was verified is used; a derived evaluation is created exclusively.
Verified ==
  /\ reader.at = "verifying" /\ reader.todo = {}
  /\ LET ok == reader.ok /\ (reader.kind = "analyze" => Anchored(reader.scope))
         derives == ok /\ reader.kind = "evaluate" /\ ~Exists(<<reader.scope, "derived">>)
     IN  /\ reader' = [reader EXCEPT !.ok = ok, !.at = IF derives THEN "deriving" ELSE "done",
                         !.loaded = IF reader.kind = "analyze" /\ ok
                                    THEN Traces(reader.scope) ELSE @]
         /\ lines' = IF derives THEN [lines EXCEPT ![<<reader.scope, "derived">>] = 0]
                     ELSE lines
  /\ UNCHANGED <<stage, queued, manifest, pointer, draft, hanging>>

WriteDerived ==
  /\ reader.at = "deriving"
  /\ reader' = [reader EXCEPT !.at = "done"]
  /\ lines' = [lines EXCEPT ![<<reader.scope, "derived">>] = 1]
  /\ UNCHANGED <<stage, queued, manifest, pointer, draft, hanging>>

Reads ==
  \/ \E s \in Scopes : Begin("report", s)
  \/ \E r \in Runs : Begin("evaluate", r)
  \/ Begin("analyze", Batch)
  \/ OpenManifest \/ CheckDirectory \/ Verified \/ WriteDerived

SealNext ==
  \/ \E r \in Runs : LaunchTrial(r) \/ SetupEnds(r) \/ SetupFails(r) \/ CloseExposure(r)
                     \/ Conclude(r) \/ Throws(r)
                     \/ \E stream \in Streams : Offer(r, stream)
  \/ \E id \in Payload : Land(id)
  \/ Join \/ ConcludeBatch
  \/ \E s \in Scopes : Seal(s)
  \/ Dies \/ Reads

SealSpec == SealInit /\ [][SealNext]_sealVars

------------------------------------------------------------------------------
\* What may change or appear behind a seal: the exchanges of a trial that was closed
\* over them, all streams of one that threw, and evaluations added later.
Late(id) ==
  \/ id[2] = "derived"
  \/ id[2] = "trace" /\ id[1] \in hanging
  \/ id[2] \in Streams /\ stage[id[1]] = "threw"

Parts(s) ==
  IF s # Batch THEN Files(s) ELSE Payload \cup ChildSeals

\* A pointer that is whole names the manifest beside it, and that records all of its
\* scope as it is; a sealed batch holds no trial that was neither sealed nor
\* given up.
SealsHold ==
  /\ \A s \in Scopes : Whole(s) =>
       /\ manifest[s] # NoFile /\ pointer[s].of = manifest[s]
       /\ \A id \in Parts(s) :
            Late(id) \/ manifest[s][id] = Content(id)
  /\ Whole(Batch) => \A r \in Runs : stage[r] \in {"waiting", "sealed", "threw"}

\* A command accepts a bundle only if it is sealed, but for oal evaluate, which is
\* content with a manifest; it refuses a sealed one only for what came late; and
\* what it used of a sealed one is what the seal recorded, but for the same.
ReadersTell ==
  reader.at = "done" =>
    LET s == reader.scope
    IN  /\ reader.ok => (IF reader.kind = "evaluate" THEN manifest[s] # NoFile ELSE Whole(s))
        /\ reader.sealed /\ ~reader.ok =>
             \E id \in Parts(s) : Late(id) /\ manifest[s][id] # NoFile
        /\ reader.ok /\ (reader.sealed \/ reader.kind = "analyze") =>
             \A id \in DOMAIN reader.loaded :
               Late(id) \/ reader.loaded[id] = manifest[s][id]

\* What a batch says of its evidence, and what its readers make of it (run.ts
\* runBatch, trial.ts runTrial, artifacts.ts writeManifest and verify).
EvidenceIsSealed == SealsHold /\ ReadersTell

\* evaluate.ts: "verify the artifact hashes before touching any evaluation". What
\* is graded was loaded before, of a run that may not have ended.
GradedIsVerified ==
  reader.at = "done" /\ reader.ok =>
    \A id \in DOMAIN reader.loaded :
      manifest[reader.scope][id] \in {NoFile, reader.loaded[id]}

\* SPEC.md 24.4: a valid parent digest with an invalid descendant is invalid evidence.
ParentImpliesChild ==
  LET Holds(s) == \A id \in All : manifest[s][id] \in {NoFile, Content(id)}
  IN  Whole(Batch) /\ Holds(Batch) => \A r \in Runs : Whole(r) => Holds(r)

\* SPEC.md 24.3: a manifest is written after all evidence payloads in its scope.
PayloadsPrecede ==
  \A s \in Scopes : manifest[s] # NoFile =>
    \A id \in Parts(s) : Exists(id) /\ id[2] # "derived" => manifest[s][id] = Content(id)
=============================================================================
