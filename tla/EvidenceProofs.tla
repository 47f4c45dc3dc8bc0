---------------------------- MODULE EvidenceProofs ----------------------------
(* Machine-checked proofs about the evidence of a batch: what a seal says of *)
(* the files behind it, and what the commands that read a bundle make of it, *)
(* for every number of trials and every order of late appends, failures and  *)
(* deaths of the process. And about the evidence a corpus run gives: what    *)
(* its report says of its steps, and of what it left at the provider, for    *)
(* every corpus and every way requests end.                                  *)
EXTENDS BundleSeal, CorpusRun, FiniteSetTheorems, TLAPS

(***************************************************************************)
(* The inductive invariant. Which stage each scope is in, what may still be *)
(* appended, and what the manifests made and being made record.             *)
(***************************************************************************)
Frozen == {"concluded", "collecting", "anchoring", "pointing", "sealed"}
Recorded == {"anchoring", "pointing", "sealed"}
Early == {"waiting", "setup", "running", "closed", "concluded", "collecting"}
RunStages == {"waiting", "setup", "running", "closed", "threw", "dead"} \cup Frozen
BatchStages == {"running", "closed", "dead"} \cup Frozen
Lines == Nat \cup {NoFile}
ManifestsOf(s) == IF s = Batch THEN Manifests ELSE RunManifests

SealType ==
  /\ stage \in [Scopes -> RunStages]
  /\ lines \in [Payload -> Lines]
  /\ queued \in [Payload -> Nat]
  /\ manifest \in [Scopes -> Manifests \cup {NoFile}]
  /\ pointer \in [Scopes -> Pointers(Manifests) \cup {NoFile}]
  /\ draft \in [Scopes -> [todo : SUBSET Scopes, entries : Manifests]]
  /\ hanging \subseteq Runs

\* A batch that joined its lanes has none that is still at a trial.
StageFits ==
  /\ stage[Batch] \in BatchStages
  /\ stage[Batch] # "running" => \A r \in Runs : stage[r] \in {"waiting"} \cup Ended
  /\ stage[Batch] \in {"closed"} \cup Frozen => \A r \in Runs : stage[r] # "dead"
  /\ \A r \in hanging : stage[r] \notin {"waiting", "setup", "running"}

\* What is queued comes late, or comes before the scope was concluded.
MayLand(id) ==
  \/ id = Ledger /\ stage[Batch] \in {"running", "closed"}
  \/ /\ id[1] \in Runs
     /\ \/ id[2] = "stages" /\ stage[id[1]] \in {"running", "closed", "threw"}
        \/ /\ id[2] = "trace"
           /\ stage[id[1]] \in {"running", "threw"} \/ id[1] \in hanging

FilesFit(s) ==
  /\ \A id \in Files(s) : queued[id] > 0 => MayLand(id)
  /\ stage[s] = "waiting" => \A id \in Files(s) : lines[id] = NoFile

\* A manifest is there once it was written, a pointer is whole once it is sealed.
ManifestFits(s) ==
  /\ manifest[s] \in ManifestsOf(s) \cup {NoFile}
  /\ pointer[s] \in Pointers(ManifestsOf(s)) \cup {NoFile}
  /\ stage[s] \in Early => manifest[s] = NoFile /\ pointer[s] = NoFile
  /\ stage[s] \in Recorded => manifest[s] # NoFile
  /\ IF stage[s] = "sealed" THEN pointer[s] = [whole |-> TRUE, of |-> manifest[s]]
     ELSE ~Whole(s)

\* What a manifest records of a file is what the file is.
Tells(f, id) == Late(id) \/ f[id] = Content(id)

DraftFits(s) ==
  stage[s] = "collecting" =>
    /\ draft[s].todo \subseteq Directories(s)
    /\ draft[s].entries \in ManifestsOf(s)
    /\ \A id \in Parts(s) : id[1] \notin draft[s].todo => Tells(draft[s].entries, id)

SealFits(s) ==
  stage[s] \in Recorded => \A id \in Parts(s) : Tells(manifest[s], id)

ScopeFits(s) == FilesFit(s) /\ ManifestFits(s) /\ DraftFits(s) /\ SealFits(s)

\* What a command knows of the bundle it was begun on.
Loads(s) == \A id \in DOMAIN reader.loaded : Late(id) \/ reader.loaded[id] = manifest[s][id]

ReaderFits ==
  LET s == reader.scope
  IN  /\ DOMAIN reader = {"kind", "at", "scope", "todo", "ok", "loaded", "sealed"}
      /\ s \in Scopes /\ reader.ok \in BOOLEAN /\ reader.sealed \in BOOLEAN
      /\ reader.at \in {"idle", "begun", "verifying", "deriving", "done"}
      /\ reader.at # "idle" => reader.kind \in {"report", "evaluate", "analyze"}
      /\ reader.at = "deriving" => reader.kind = "evaluate" /\ reader.ok
      /\ DOMAIN reader.loaded \subseteq All
      /\ reader.todo \subseteq IF s = Batch THEN Scopes ELSE {s}
      /\ reader.at \in {"idle", "begun"} => reader.ok
      /\ reader.sealed => Whole(s)
      /\ reader.at \in {"verifying", "deriving", "done"} /\ reader.ok =>
           /\ reader.kind = "evaluate" => manifest[s] # NoFile
           /\ reader.kind = "report" => Whole(s)
           /\ reader.kind = "analyze" /\ reader.at = "done" => Whole(s) /\ Loads(s)
      /\ reader.sealed /\ ~reader.ok =>
           \E id \in Parts(s) : Late(id) /\ manifest[s][id] # NoFile
      /\ reader.sealed /\ reader.kind # "analyze" => Loads(s)

SealInv ==
  SealType /\ StageFits /\ (\A s \in Scopes : ScopeFits(s)) /\ ReaderFits

-----------------------------------------------------------------------------
(* Files and scopes.                                                        *)
LEMMA ScopesAre ==
  /\ Batch \notin Runs /\ Batch \in Scopes /\ Runs \subseteq Scopes
  /\ \A s \in Scopes : s # Batch => s \in Runs
  BY SealAssumption DEF Batch, Runs, Scopes

LEMMA FilesAre ==
  /\ \A s \in Scopes : \A id \in Files(s) :
       /\ id \in Payload /\ id \in All /\ id[1] = s /\ Content(id) = lines[id]
       /\ s \in Runs => id \in {<<s, "stages">>, <<s, "trace">>, <<s, "started">>,
                                <<s, "derived">>} /\ id # Ledger
       /\ s = Batch => id \in {Ledger, <<Batch, "cohort">>}
  /\ \A id \in Payload : id[1] \in Scopes /\ id \in Files(id[1])
  /\ \A r \in Runs : <<r, "stages">> \in Files(r) /\ <<r, "trace">> \in Files(r)
                     /\ <<r, "started">> \in Files(r) /\ <<r, "derived">> \in Files(r)
  /\ Ledger \in Files(Batch) /\ <<Batch, "cohort">> \in Files(Batch)
<1>1. \A s \in Scopes : \A id \in Files(s) :
        id[1] = s /\ id[2] \in {"ledger", "cohort", "stages", "trace", "started", "derived"}
  BY DEF Files, Streams
<1>2. \A s \in Scopes : \A id \in Files(s) : id \in Payload /\ id \in All
  BY DEF Payload, All
<1>3. \A s \in Scopes : \A id \in Files(s) : Content(id) = lines[id]
  BY <1>1 DEF Content
<1>4. \A s \in Scopes : \A id \in Files(s) :
       /\ s \in Runs => id \in {<<s, "stages">>, <<s, "trace">>, <<s, "started">>,
                                <<s, "derived">>} /\ id # Ledger
       /\ s = Batch => id \in {Ledger, <<Batch, "cohort">>}
  BY ScopesAre DEF Files, Streams, Ledger
<1>5. \A id \in Payload : id[1] \in Scopes /\ id \in Files(id[1])
  BY <1>1 DEF Payload
<1>6. \A r \in Runs : <<r, "stages">> \in Files(r) /\ <<r, "trace">> \in Files(r)
                     /\ <<r, "started">> \in Files(r) /\ <<r, "derived">> \in Files(r)
  BY ScopesAre DEF Files, Streams
<1>7. Ledger \in Files(Batch) /\ <<Batch, "cohort">> \in Files(Batch)
  BY DEF Files, Ledger
<1> QED
  BY <1>1, <1>2, <1>3, <1>4, <1>5, <1>6, <1>7

\* The seals of a run are its manifest and its pointer.
LEMMA SealsAre ==
  ASSUME NEW r \in Runs, NEW id \in Seals(r)
  PROVE  /\ id \in All /\ id[1] = r
         /\ \/ id[2] = "manifest" /\ Content(id) = manifest[r]
            \/ id[2] = "completed" /\ Content(id) = pointer[r]
         /\ ~Late(id) \/ id[2] = "derived" \/ id[2] \in Streams
  BY DEF Seals, ChildSeals, All, Content, Late

\* What a scope is made of: the files of its directories, and of the batch the
\* seals of its runs as well.
LEMMA PartsAre ==
  /\ \A r \in Runs : Parts(r) = Files(r)
  /\ \A id \in Parts(Batch) :
       /\ id \in All /\ id[1] \in Scopes
       /\ id \in Files(id[1]) \/ (id[1] \in Runs /\ id \in Seals(id[1]))
  /\ \A s \in Scopes, d \in Scopes : d = s \/ s = Batch =>
       /\ Within(s, d) \subseteq Parts(s)
       /\ \A id \in Parts(s) : id[1] = d => id \in Within(s, d)
<1>1. \A r \in Runs : Parts(r) = Files(r)
  BY ScopesAre DEF Parts
<1>2. \A id \in ChildSeals : id[1] \in Runs /\ id \in Seals(id[1])
  BY DEF ChildSeals, Seals
<1>3. \A id \in Parts(Batch) :
       /\ id \in All /\ id[1] \in Scopes
       /\ id \in Files(id[1]) \/ (id[1] \in Runs /\ id \in Seals(id[1]))
  BY <1>2, FilesAre, ScopesAre DEF Parts, All
<1>4. \A s \in Scopes, d \in Scopes : d = s \/ s = Batch => Within(s, d) \subseteq Parts(s)
  BY <1>1, FilesAre, ScopesAre DEF Within, Parts, ChildSeals
<1>5. \A s \in Scopes, d \in Scopes : d = s \/ s = Batch =>
        \A id \in Parts(s) : id[1] = d => id \in Within(s, d)
  BY <1>1, <1>3, FilesAre, ScopesAre DEF Within
<1> QED
  BY <1>1, <1>3, <1>4, <1>5

LEMMA ManifestsAre ==
  /\ NoEntries \in RunManifests /\ RunManifests \subseteq Manifests
  /\ \A s : ManifestsOf(s) \subseteq Manifests /\ NoEntries \in ManifestsOf(s)
  /\ \A s : Pointers(ManifestsOf(s)) \subseteq Pointers(Manifests)
<1>1. NoEntries \in RunManifests
  BY DEF NoEntries, RunManifests
<1>2. RunManifests \subseteq Manifests
  BY DEF RunManifests, Manifests
<1>3. \A s : ManifestsOf(s) \subseteq Manifests /\ NoEntries \in ManifestsOf(s)
  BY <1>1, <1>2 DEF ManifestsOf
<1>4. \A s : Pointers(ManifestsOf(s)) \subseteq Pointers(Manifests)
  <2> SUFFICES ASSUME NEW s PROVE Pointers(ManifestsOf(s)) \subseteq Pointers(Manifests)
    OBVIOUS
  <2>1. ManifestsOf(s) \subseteq Manifests
    BY <1>3
  <2> HIDE DEF ManifestsOf
  <2> QED
    BY <2>1 DEF Pointers
<1> QED
  BY <1>1, <1>2, <1>3, <1>4

\* Whole means sealed.
LEMMA WholeIsSealed ==
  ASSUME SealType, NEW s \in Scopes, ManifestFits(s)
  PROVE  Whole(s) <=> stage[s] = "sealed"
<1>1. CASE stage[s] = "sealed"
  <2>1. pointer[s] = [whole |-> TRUE, of |-> manifest[s]]
    BY <1>1 DEF ManifestFits
  <2>2. pointer[s] \in Pointers(Manifests)
    BY <2>1 DEF SealType, Pointers
  <2>3. pointer[s].whole = TRUE
    BY <2>1
  <2>4. pointer[s] # NoFile
    BY <2>2, SealAssumption
  <2> QED
    BY <1>1, <2>3, <2>4, Zenon DEF Whole
<1>2. CASE stage[s] # "sealed"
  BY <1>2 DEF ManifestFits
<1> QED
  BY <1>1, <1>2

-----------------------------------------------------------------------------
(* What a step leaves as it was.                                            *)
Calm == \A id \in All : Late(id) => Late(id)'
Steady(s) == \A id \in Parts(s) : Late(id)' \/ Content(id)' = Content(id)

LEMMA LateStays ==
  ASSUME \A r \in Scopes : stage[r] = "threw" => stage'[r] = "threw", hanging \subseteq hanging'
  PROVE  Calm
<1>1. \A id \in All : id[1] \in Scopes
  BY FilesAre, SealsAre, ScopesAre DEF All, ChildSeals
<1> QED
  BY <1>1 DEF Calm, Late

LEMMA PartsInAll == \A s \in Scopes : Parts(s) \subseteq All
  BY PartsAre, FilesAre, ScopesAre

\* A scope nothing happened to.
LEMMA ScopeStays ==
  ASSUME SealInv, NEW s \in Scopes, Calm, stage[s] \in Frozen => Steady(s), FilesFit(s)',
         stage'[s] = stage[s], manifest'[s] = manifest[s], pointer'[s] = pointer[s],
         draft'[s] = draft[s], stage[s] = "collecting" => Directories(s)' = Directories(s)
  PROVE  ScopeFits(s)'
<1>1. ScopeFits(s)
  BY DEF SealInv
<1>2. stage[s] \in Frozen =>
        \A f, id : id \in Parts(s) /\ Tells(f, id) => Tells(f, id)'
  BY PartsInAll DEF Calm, Steady, Tells
<1>3. ManifestFits(s)'
  BY <1>1 DEF ScopeFits, ManifestFits, Whole
<1>4. DraftFits(s)'
  BY <1>1, <1>2 DEF ScopeFits, DraftFits, Frozen
<1>5. SealFits(s)'
  BY <1>1, <1>2 DEF ScopeFits, SealFits, Frozen, Recorded
<1> QED
  BY <1>3, <1>4, <1>5 DEF ScopeFits

\* A reader that rests while manifests and seals only come to be.
LEMMA ReaderStays ==
  ASSUME SealInv, Calm, reader' = reader,
         \A s \in Scopes : /\ manifest[s] # NoFile => manifest'[s] = manifest[s]
                           /\ Whole(s) => Whole(s)'
  PROVE  ReaderFits'
<1>1. PICK s : s = reader.scope
  OBVIOUS
<1>2. s \in Scopes /\ ScopeFits(s) /\ SealType
  BY <1>1 DEF SealInv, ReaderFits
<1>3. Whole(s) => manifest[s] # NoFile
  BY <1>2, WholeIsSealed DEF ScopeFits, ManifestFits, Recorded
<1>4. manifest[s] # NoFile => (Loads(s) => Loads(s)')
  BY <1>1, <1>2 DEF Loads, Calm, SealInv, ReaderFits
<1>5. manifest[s] # NoFile => \A id \in Parts(s) :
        Late(id) /\ manifest[s][id] # NoFile => Late(id)' /\ manifest'[s][id] # NoFile
  BY <1>2, PartsInAll DEF Calm
<1>6. /\ manifest[s] # NoFile => manifest'[s] # NoFile
      /\ Whole(s) => Whole(s)'
  BY <1>2
<1> QED
  BY <1>1, <1>2, <1>3, <1>4, <1>5, <1>6 DEF SealInv, ReaderFits

\* A step of one run while the batch runs: what it changes of others is the
\* queue of the batch's ledger.
OnlyRun(r) ==
  /\ stage[Batch] = "running" /\ reader' = reader
  /\ \A s \in Scopes \ {r} :
       /\ stage'[s] = stage[s] /\ manifest'[s] = manifest[s]
       /\ pointer'[s] = pointer[s] /\ draft'[s] = draft[s]
       /\ \A id \in Files(s) :
            lines'[id] = lines[id] /\ (queued'[id] = queued[id] \/ id = Ledger)
  /\ hanging \subseteq hanging' /\ hanging' \subseteq hanging \cup {r}
  /\ stage[r] \notin {"threw", "sealed"}
  /\ manifest[r] # NoFile => manifest'[r] = manifest[r]
  /\ r \in hanging' => stage'[r] \notin {"waiting", "setup", "running"}

LEMMA RunKeeps ==
  ASSUME SealInv, NEW r \in Runs, OnlyRun(r), SealType', ScopeFits(r)'
  PROVE  SealInv'
<1>1. SealType /\ StageFits /\ r \in Scopes /\ r # Batch /\ \A s \in Scopes : ScopeFits(s)
  BY ScopesAre DEF SealInv
<1>2. stage'[Batch] = "running" /\ stage[Batch] = "running"
  BY <1>1, ScopesAre DEF OnlyRun
<1>3. StageFits'
  BY <1>1, <1>2, ScopesAre DEF StageFits, OnlyRun, BatchStages, Frozen, SealType
<1>4. Calm
  BY <1>1, LateStays DEF OnlyRun
<1>5. ASSUME NEW s \in Scopes, s # r PROVE ScopeFits(s)'
  <2>1. /\ stage'[s] = stage[s] /\ manifest'[s] = manifest[s]
        /\ pointer'[s] = pointer[s] /\ draft'[s] = draft[s]
        /\ \A id \in Files(s) :
            lines'[id] = lines[id] /\ (queued'[id] = queued[id] \/ id = Ledger)
    BY <1>5 DEF OnlyRun
  <2>2. \A id \in Files(s) : MayLand(id) => MayLand(id)'
    BY <1>2, <2>1, FilesAre DEF MayLand, OnlyRun
  <2>3. \A id \in Files(s) : id = Ledger => MayLand(id)'
    BY <1>2 DEF MayLand
  <2>4. FilesFit(s)'
    BY <1>1, <2>1, <2>2, <2>3 DEF ScopeFits, FilesFit
  <2>5. CASE s = Batch
    <3>1. ManifestFits(s)'
      BY <1>1, <2>1 DEF ScopeFits, ManifestFits, Whole
    <3>2. stage'[s] = "running"
      BY <1>2, <2>5
    <3> QED
      BY <2>4, <3>1, <3>2 DEF ScopeFits, DraftFits, SealFits, Recorded
  <2>6. CASE s \in Runs
    <3>1. Steady(s)
      <4> SUFFICES ASSUME NEW id \in Parts(s) PROVE Content(id)' = Content(id)
        BY DEF Steady
      <4>1. id \in Files(s)
        BY <2>6, PartsAre
      <4>2. lines'[id] = lines[id] /\ Content(id) = lines[id]
        BY <2>1, <4>1, FilesAre
      <4>3. Content(id)' = lines'[id]
        BY <4>1, <2>6, ScopesAre DEF Files, Streams, Content
      <4> QED
        BY <4>2, <4>3
    <3>2. Directories(s)' = Directories(s)
      BY <2>6, ScopesAre DEF Directories
    <3> QED
      BY <1>4, <2>1, <2>4, <3>1, <3>2, ScopeStays
  <2> QED
    BY <2>5, <2>6, ScopesAre
<1>6. \A s \in Scopes : Whole(s) => Whole(s)'
  <2> SUFFICES ASSUME NEW s \in Scopes, Whole(s) PROVE Whole(s)'
    OBVIOUS
  <2>1. s # r
    BY <1>1, WholeIsSealed DEF ScopeFits, OnlyRun
  <2> QED
    BY <2>1 DEF OnlyRun, Whole
<1>7. ReaderFits'
  BY <1>1, <1>4, <1>6, ReaderStays DEF OnlyRun
<1> QED
  BY <1>3, <1>5, <1>7 DEF SealInv

-----------------------------------------------------------------------------
(* The steps of a trial.                                                    *)
LEMMA BatchRuns ==
  ASSUME SealInv, NEW r \in Runs, stage[r] \notin {"waiting"} \cup Ended
  PROVE  stage[Batch] = "running"
  BY DEF SealInv, StageFits

\* A scope before its manifest.
LEMMA EarlyMoves ==
  ASSUME SealInv, NEW s \in Scopes, stage[s] \in Early, stage'[s] \in Early \ {"collecting"},
         manifest'[s] = manifest[s], pointer'[s] = pointer[s], FilesFit(s)'
  PROVE  ScopeFits(s)'
<1>1. ScopeFits(s)
  BY ScopesAre DEF SealInv
<1>2. ManifestFits(s)'
  BY <1>1 DEF ScopeFits, ManifestFits, Early, Recorded, Whole
<1>3. DraftFits(s)' /\ SealFits(s)'
  BY DEF DraftFits, SealFits, Early, Recorded
<1> QED
  BY <1>2, <1>3 DEF ScopeFits

LEMMA LaunchKeeps ==
  ASSUME SealInv, NEW r \in Runs, LaunchTrial(r)
  PROVE  SealInv'
<1>1. SealType /\ StageFits /\ r \in Scopes /\ r # Batch /\ ScopeFits(r)
  BY ScopesAre DEF SealInv
<1>2. /\ stage[r] = "waiting" /\ stage' = [stage EXCEPT ![r] = "setup"]
      /\ queued' = [queued EXCEPT ![Ledger] = @ + 1]
      /\ UNCHANGED <<lines, manifest, pointer, draft, hanging, reader>>
      /\ stage[Batch] = "running"
  BY DEF LaunchTrial, Goes, Offered
<1>3. SealType'
  BY <1>1, <1>2, FilesAre, ScopesAre DEF SealType, RunStages
<1>4. r \notin hanging
  BY <1>1, <1>2 DEF StageFits
<1>5. OnlyRun(r)
  BY <1>1, <1>2, <1>4, FilesAre DEF OnlyRun, SealType
<1>6. stage'[r] = "setup"
  BY <1>1, <1>2 DEF SealType
<1>7. FilesFit(r)'
  BY <1>1, <1>2, <1>4, <1>6, FilesAre, ScopesAre DEF ScopeFits, FilesFit, MayLand, SealType
<1>8. ScopeFits(r)'
  BY <1>1, <1>2, <1>6, <1>7, EarlyMoves DEF Early
<1> QED
  BY <1>3, <1>5, <1>8, RunKeeps

\* Files of other scopes are other files.
LEMMA OthersFiles ==
  ASSUME NEW s \in Scopes, NEW r \in Scopes \ {s}, NEW id \in Files(s), NEW name
  PROVE  id # <<r, name>>
  BY FilesAre

LEMMA SetupEndsKeeps ==
  ASSUME SealInv, NEW r \in Runs, SetupEnds(r)
  PROVE  SealInv'
<1>1. SealType /\ StageFits /\ r \in Scopes /\ r # Batch /\ ScopeFits(r)
  BY ScopesAre DEF SealInv
<1>2. /\ stage[r] = "setup" /\ stage' = [stage EXCEPT ![r] = "running"]
      /\ lines' = [lines EXCEPT ![<<r, "stages">>] = 1, ![<<r, "trace">>] = 0,
                                ![<<r, "started">>] = 1]
      /\ UNCHANGED <<queued, manifest, pointer, draft, hanging, reader>>
  BY DEF SetupEnds, Goes
<1>3. SealType'
  BY <1>1, <1>2 DEF SealType, RunStages, Lines
<1>4. r \notin hanging /\ stage[Batch] = "running"
  BY <1>1, <1>2, BatchRuns DEF StageFits, Ended
<1>5. \A s \in Scopes \ {r} : \A id \in Files(s) : lines'[id] = lines[id]
  BY <1>1, <1>2, OthersFiles, FilesAre DEF SealType
<1>6. OnlyRun(r)
  BY <1>1, <1>2, <1>4, <1>5 DEF OnlyRun, SealType
<1>7. stage'[r] = "running"
  BY <1>1, <1>2 DEF SealType
<1>8. FilesFit(r)'
  BY <1>1, <1>2, <1>4, <1>7, FilesAre, ScopesAre DEF ScopeFits, FilesFit, MayLand, SealType
<1>9. ScopeFits(r)'
  BY <1>1, <1>2, <1>7, <1>8, EarlyMoves DEF Early
<1> QED
  BY <1>3, <1>6, <1>9, RunKeeps

LEMMA SetupFailsKeeps ==
  ASSUME SealInv, NEW r \in Runs, SetupFails(r)
  PROVE  SealInv'
<1>1. SealType /\ StageFits /\ r \in Scopes /\ r # Batch /\ ScopeFits(r)
  BY ScopesAre DEF SealInv
<1>2. PICK stages \in {1, NoFile}, trace \in {0, NoFile} :
        /\ stage[r] = "setup" /\ stage' = [stage EXCEPT ![r] = "concluded"]
        /\ lines' = [lines EXCEPT ![<<r, "stages">>] = stages, ![<<r, "trace">>] = trace]
        /\ UNCHANGED <<queued, manifest, pointer, draft, hanging, reader>>
  <2>1. PICK left \in {<<NoFile, NoFile>>, <<1, NoFile>>, <<1, 0>>} :
          lines' = [lines EXCEPT ![<<r, "stages">>] = left[1], ![<<r, "trace">>] = left[2]]
    BY DEF SetupFails
  <2>2. left[1] \in {1, NoFile} /\ left[2] \in {0, NoFile}
    OBVIOUS
  <2> QED
    BY <2>1, <2>2 DEF SetupFails, Goes
<1>3. SealType'
  <2>1. stages \in Lines /\ trace \in Lines
    BY DEF Lines
  <2> HIDE DEF Lines
  <2>2. lines' \in [Payload -> Lines]
    BY <1>1, <1>2, <2>1 DEF SealType
  <2> QED
    BY <1>1, <1>2, <2>2 DEF SealType, RunStages, Frozen
<1>4. r \notin hanging /\ stage[Batch] = "running"
  BY <1>1, <1>2, BatchRuns DEF StageFits, Ended
<1>5. \A s \in Scopes \ {r} : \A id \in Files(s) : lines'[id] = lines[id]
  BY <1>1, <1>2, OthersFiles, FilesAre DEF SealType
<1>6. OnlyRun(r)
  BY <1>1, <1>2, <1>4, <1>5 DEF OnlyRun, SealType
<1>7. stage'[r] = "concluded"
  BY <1>1, <1>2 DEF SealType
<1>8. FilesFit(r)'
  BY <1>1, <1>2, <1>4, <1>7, FilesAre, ScopesAre DEF ScopeFits, FilesFit, MayLand, SealType
<1>9. ScopeFits(r)'
  BY <1>1, <1>2, <1>7, <1>8, EarlyMoves DEF Early
<1> QED
  BY <1>3, <1>6, <1>9, RunKeeps

LEMMA OfferKeeps ==
  ASSUME SealInv, NEW r \in Runs, NEW stream \in Streams, Offer(r, stream)
  PROVE  SealInv'
<1>1. SealType /\ StageFits /\ r \in Scopes /\ r # Batch /\ ScopeFits(r)
  BY ScopesAre DEF SealInv
<1>2. /\ stage[r] = "running" /\ stage' = stage
      /\ queued' = [queued EXCEPT ![<<r, stream>>] = @ + 1]
      /\ UNCHANGED <<lines, manifest, pointer, draft, hanging, reader>>
  BY DEF Offer, Offered
<1>3. SealType'
  <2>1. <<r, stream>> \in Payload
    BY FilesAre, ScopesAre DEF Streams
  <2> QED
    BY <1>1, <1>2, <2>1 DEF SealType
<1>4. r \notin hanging /\ stage[Batch] = "running"
  BY <1>1, <1>2, BatchRuns DEF StageFits, Ended
<1>5. \A s \in Scopes \ {r} : \A id \in Files(s) : queued'[id] = queued[id]
  BY <1>1, <1>2, OthersFiles, FilesAre DEF SealType
<1>6. OnlyRun(r)
  BY <1>1, <1>2, <1>4, <1>5 DEF OnlyRun, SealType
<1>7. FilesFit(r)'
  BY <1>1, <1>2, <1>4, FilesAre, ScopesAre DEF ScopeFits, FilesFit, MayLand, SealType, Streams
<1>8. ScopeFits(r)'
  BY <1>1, <1>2, <1>7, EarlyMoves DEF Early
<1> QED
  BY <1>3, <1>6, <1>8, RunKeeps

\* A close leaves exchanges behind, of a run that is known to have some.
LEMMA CloseKeeps ==
  ASSUME SealInv, NEW r \in Runs, CloseExposure(r)
  PROVE  SealInv'
<1>1. SealType /\ StageFits /\ r \in Scopes /\ r # Batch /\ ScopeFits(r)
  BY ScopesAre DEF SealInv
<1>2. /\ stage[r] = "running" /\ stage' = [stage EXCEPT ![r] = "closed"]
      /\ hanging' = IF queued[<<r, "trace">>] > 0 THEN hanging \cup {r} ELSE hanging
      /\ UNCHANGED <<lines, queued, manifest, pointer, draft, reader>>
  BY DEF CloseExposure, Goes
<1>3. SealType'
  BY <1>1, <1>2 DEF SealType, RunStages
<1>4. r \notin hanging /\ stage[Batch] = "running"
  BY <1>1, <1>2, BatchRuns DEF StageFits, Ended
<1>5. stage'[r] = "closed"
  BY <1>1, <1>2 DEF SealType
<1>6. OnlyRun(r)
  BY <1>1, <1>2, <1>4, <1>5 DEF OnlyRun, SealType
<1>7. FilesFit(r)'
  <2>1. ASSUME NEW id \in Files(r), queued'[id] > 0 PROVE MayLand(id)'
    <3>1. id # Ledger /\ id[1] = r /\ MayLand(id) /\ queued[id] > 0
      BY <1>1, <1>2, <2>1, FilesAre DEF ScopeFits, FilesFit
    <3>2. id[2] = "trace" => id = <<r, "trace">>
      BY <3>1, FilesAre, ScopesAre
    <3> QED
      BY <1>2, <1>5, <3>1, <3>2 DEF MayLand
  <2> QED
    BY <1>5, <2>1 DEF FilesFit
<1>8. ScopeFits(r)'
  BY <1>1, <1>2, <1>5, <1>7, EarlyMoves DEF Early
<1> QED
  BY <1>3, <1>6, <1>8, RunKeeps

LEMMA ConcludeKeeps ==
  ASSUME SealInv, NEW r \in Runs, Conclude(r)
  PROVE  SealInv'
<1>1. SealType /\ StageFits /\ r \in Scopes /\ r # Batch /\ ScopeFits(r)
  BY ScopesAre DEF SealInv
<1>2. /\ stage[r] = "closed" /\ stage' = [stage EXCEPT ![r] = "concluded"]
      /\ queued[<<r, "stages">>] = 0
      /\ lines' = [lines EXCEPT ![<<r, "stages">>] = More(<<r, "stages">>)]
      /\ UNCHANGED <<queued, manifest, pointer, draft, hanging, reader>>
  BY DEF Conclude, Goes, Flushed
<1>3. SealType'
  <2>1. <<r, "stages">> \in Payload
    BY <1>1, FilesAre
  <2>2. More(<<r, "stages">>) \in Lines
    BY <1>1, <2>1 DEF More, SealType, Lines
  <2> QED
    BY <1>1, <1>2, <2>2 DEF SealType, RunStages, Frozen
<1>4. stage[Batch] = "running"
  BY <1>1, <1>2, BatchRuns DEF Ended
<1>5. \A s \in Scopes \ {r} : \A id \in Files(s) : lines'[id] = lines[id]
  BY <1>1, <1>2, OthersFiles, FilesAre DEF SealType
<1>6. stage'[r] = "concluded"
  BY <1>1, <1>2 DEF SealType
<1>7. OnlyRun(r)
  BY <1>1, <1>2, <1>4, <1>5, <1>6 DEF OnlyRun, SealType
<1>8. FilesFit(r)'
  <2>1. ASSUME NEW id \in Files(r), queued'[id] > 0 PROVE MayLand(id)'
    <3>1. id # Ledger /\ id[1] = r /\ MayLand(id) /\ queued[id] > 0
      BY <1>1, <1>2, <2>1, FilesAre DEF ScopeFits, FilesFit
    <3>2. id[2] = "stages" => id = <<r, "stages">>
      BY <3>1, FilesAre, ScopesAre
    <3> QED
      BY <1>2, <3>1, <3>2 DEF MayLand
  <2> QED
    BY <1>6, <2>1 DEF FilesFit
<1>9. ScopeFits(r)'
  BY <1>1, <1>2, <1>6, <1>8, EarlyMoves DEF Early
<1> QED
  BY <1>3, <1>7, <1>9, RunKeeps

\* A trial that throws leaves a manifest or none, and no pointer that is whole.
LEMMA ThrowsKeeps ==
  ASSUME SealInv, NEW r \in Runs, Throws(r)
  PROVE  SealInv'
<1>1. SealType /\ StageFits /\ r \in Scopes /\ r # Batch /\ ScopeFits(r)
  BY ScopesAre DEF SealInv
<1>2. /\ stage[r] \notin {"waiting"} \cup Ended /\ stage' = [stage EXCEPT ![r] = "threw"]
      /\ draft' = [draft EXCEPT ![r] = NoDraft]
      /\ UNCHANGED <<lines, queued, manifest, pointer, hanging, reader>>
  BY DEF Throws
<1>3. SealType'
  BY <1>1, <1>2, ManifestsAre DEF SealType, RunStages, NoDraft
<1>4. stage[Batch] = "running"
  BY <1>1, <1>2, BatchRuns
<1>5. stage'[r] = "threw"
  BY <1>1, <1>2 DEF SealType
<1>6. OnlyRun(r)
  BY <1>1, <1>2, <1>4, <1>5 DEF OnlyRun, SealType, Ended
<1>7. FilesFit(r)'
  BY <1>1, <1>2, <1>5, FilesAre, ScopesAre DEF ScopeFits, FilesFit, MayLand, SealType
<1>8. ManifestFits(r)'
  BY <1>1, <1>2, <1>5 DEF ScopeFits, ManifestFits, Early, Recorded, Whole, Ended
<1>9. DraftFits(r)' /\ SealFits(r)'
  BY <1>5 DEF DraftFits, SealFits, Recorded
<1> QED
  BY <1>3, <1>6, <1>7, <1>8, <1>9, RunKeeps DEF ScopeFits

-----------------------------------------------------------------------------
(* The steps of a seal, of a run or of the batch.                           *)

\* What a directory holds can be recorded.
LEMMA RecordIsManifest ==
  ASSUME SealInv, NEW s \in Scopes, NEW d \in Scopes, d = s \/ s = Batch,
         NEW f \in ManifestsOf(s)
  PROVE  Record(Within(s, d), f) \in ManifestsOf(s)
<1> DEFINE g == Record(Within(s, d), f)
<1>1. SealType /\ ScopeFits(d)
  BY DEF SealInv
<1>2. \A id \in Files(d) : Content(id) \in Lines
  BY <1>1, FilesAre DEF SealType
<1>3. g = [id \in All |-> g[id]]
  BY DEF Record
<1>4. CASE s # Batch
  <2>1. f \in [All -> Lines] /\ Within(s, d) = Files(d)
    BY <1>4 DEF ManifestsOf, RunManifests, Lines, Within
  <2> HIDE DEF Lines
  <2>2. \A id \in All : g[id] \in Lines
    BY <1>2, <2>1 DEF Record
  <2> HIDE DEF g
  <2>3. g \in [All -> Lines]
    BY <1>3, <2>2
  <2> QED
    BY <1>4, <2>3 DEF ManifestsOf, RunManifests, Lines, g
<1>5. CASE s = Batch
  <2> DEFINE Records == Nat \cup {NoFile} \cup RunManifests \cup Pointers(RunManifests)
  <2>1. f \in [All -> Records]
    BY <1>5 DEF ManifestsOf, Manifests
  <2>2. \A id \in Within(s, d) : Content(id) \in Records
    <3>1. \A id \in Files(d) : Content(id) \in Records
      BY <1>2 DEF Lines
    <3>2. ASSUME d \in Runs, NEW id \in Seals(d) PROVE Content(id) \in Records
      <4>1. d # Batch
        BY <3>2, ScopesAre
      <4>2. manifest[d] \in RunManifests \cup {NoFile}
        BY <1>1, <4>1 DEF ScopeFits, ManifestFits, ManifestsOf
      <4>3. pointer[d] \in Pointers(RunManifests) \cup {NoFile}
        BY <1>1, <4>1 DEF ScopeFits, ManifestFits, ManifestsOf
      <4> QED
        BY <3>2, <4>2, <4>3, SealsAre
    <3> QED
      BY <3>1, <3>2, ScopesAre DEF Within
  <2> HIDE DEF Records
  <2>3. \A id \in All : g[id] \in Records
    BY <2>1, <2>2 DEF Record
  <2> HIDE DEF g
  <2>4. g \in [All -> Records]
    BY <1>3, <2>3
  <2> QED
    BY <1>5, <2>4 DEF ManifestsOf, Manifests, Records, g
<1> QED
  BY <1>4, <1>5

LEMMA SealMoves ==
  ASSUME SealInv, NEW s \in Scopes, Seal(s)
  PROVE  /\ stage[s] \in Frozen \ {"sealed"} /\ stage'[s] \in Frozen
         /\ \A q \in Scopes \ {s} :
              /\ stage'[q] = stage[q] /\ manifest'[q] = manifest[q]
              /\ pointer'[q] = pointer[q] /\ draft'[q] = draft[q]
         /\ UNCHANGED <<lines, hanging, reader>>
         /\ \A id \in Payload : queued'[id] = queued[id] \/ (id = Ledger /\ s # Batch)
         /\ manifest[s] # NoFile => manifest'[s] = manifest[s]
         /\ SealType'
<1>1. SealType /\ ScopeFits(s)
  BY DEF SealInv
<1>2. stage[s] \in Early => manifest[s] = NoFile
  BY <1>1 DEF ScopeFits, ManifestFits
<1>3. CASE BeginManifest(s)
  <2>1. Directories(s) \subseteq Scopes
    BY ScopesAre DEF Directories
  <2>2. [todo |-> Directories(s), entries |-> NoEntries] \in
          [todo : SUBSET Scopes, entries : Manifests]
    BY <2>1, ManifestsAre
  <2>3. SealType'
    BY <1>1, <1>3, <2>2 DEF BeginManifest, Goes, SealType, RunStages, Frozen
  <2> QED
    BY <1>1, <1>3, <2>3 DEF BeginManifest, Goes, SealType, Frozen
<1>4. CASE ReadDirectory(s)
  <2>1. PICK d \in draft[s].todo :
          draft' = [draft EXCEPT ![s] =
            [todo |-> @.todo \ {d}, entries |-> Record(Within(s, d), @.entries)]]
    BY <1>4 DEF ReadDirectory
  <2>2. /\ stage[s] = "collecting" /\ d \in Scopes /\ (d = s \/ s = Batch)
        /\ draft[s].entries \in ManifestsOf(s) /\ draft[s].todo \subseteq Scopes
    BY <1>1, <1>4, ScopesAre DEF ReadDirectory, ScopeFits, DraftFits, Directories
  <2>3. Record(Within(s, d), draft[s].entries) \in Manifests
    BY <2>2, RecordIsManifest, ManifestsAre
  <2>4. [todo |-> draft[s].todo \ {d}, entries |-> Record(Within(s, d), draft[s].entries)]
          \in [todo : SUBSET Scopes, entries : Manifests]
    BY <2>2, <2>3
  <2>5. SealType'
    BY <1>1, <1>4, <2>1, <2>4 DEF ReadDirectory, SealType
  <2> QED
    BY <1>1, <1>4, <2>1, <2>2, <2>5 DEF ReadDirectory, SealType, Frozen
<1>5. CASE WriteManifest(s)
  <2>1. draft[s].entries \in Manifests /\ NoDraft \in [todo : SUBSET Scopes, entries : Manifests]
    BY <1>1, ManifestsAre DEF SealType, NoDraft
  <2>2. SealType'
    BY <1>1, <1>5, <2>1 DEF WriteManifest, Goes, SealType, RunStages, Frozen
  <2> QED
    BY <1>1, <1>2, <1>5, <2>2 DEF WriteManifest, Goes, SealType, Frozen, Early
<1>6. CASE OpenPointer(s)
  <2>1. [whole |-> FALSE, of |-> NoFile] \in Pointers(Manifests)
    BY DEF Pointers
  <2>2. SealType'
    BY <1>1, <1>6, <2>1 DEF OpenPointer, Goes, SealType, RunStages, Frozen
  <2> QED
    BY <1>1, <1>6, <2>2 DEF OpenPointer, Goes, SealType, Frozen
<1>7. CASE WritePointer(s)
  <2>1. [whole |-> TRUE, of |-> manifest[s]] \in Pointers(Manifests)
    BY <1>1 DEF Pointers, SealType
  <2>2. queued' \in [Payload -> Nat]
        /\ \A id \in Payload : queued'[id] = queued[id] \/ (id = Ledger /\ s # Batch)
    BY <1>1, <1>7, FilesAre, ScopesAre DEF WritePointer, Offered, SealType
  <2>3. SealType'
    BY <1>1, <1>7, <2>1, <2>2 DEF WritePointer, Goes, SealType, RunStages, Frozen
  <2> QED
    BY <1>1, <1>7, <2>2, <2>3 DEF WritePointer, Goes, SealType, Frozen
<1> QED
  BY <1>3, <1>4, <1>5, <1>6, <1>7 DEF Seal

\* Nothing of the scope changes under its seal, but what comes late.
LEMMA SealSteady ==
  ASSUME SealInv, NEW s \in Scopes, Seal(s)
  PROVE  /\ \A id \in Parts(s) : Content(id)' = Content(id)
         /\ \A id \in All : Late(id)' <=> Late(id)
         /\ Directories(s)' = Directories(s)
         /\ FilesFit(s)'
<1>1. SealType /\ ScopeFits(s)
  BY DEF SealInv
<1>2. /\ stage[s] \in Frozen \ {"sealed"} /\ stage'[s] \in Frozen
      /\ \A q \in Scopes \ {s} :
              /\ stage'[q] = stage[q] /\ manifest'[q] = manifest[q]
              /\ pointer'[q] = pointer[q]
      /\ UNCHANGED <<lines, hanging>>
      /\ \A id \in Payload : queued'[id] = queued[id] \/ (id = Ledger /\ s # Batch)
  BY SealMoves
<1>3. ASSUME NEW id \in Parts(s) PROVE Content(id)' = Content(id)
  <2>1. CASE id \in Files(s) \/ id \in Payload
    <3>1. Content(id) = lines[id] /\ id[2] \notin {"manifest", "completed"}
      BY <2>1, FilesAre DEF Files, Streams
    <3> QED
      BY <1>2, <3>1 DEF Content
  <2>2. CASE s = Batch /\ id \in ChildSeals
    <3>1. id[1] \in Runs /\ id \in Seals(id[1])
      BY <2>2 DEF ChildSeals, Seals
    <3>2. id[1] \in Scopes \ {s}
      BY <2>2, <3>1, ScopesAre
    <3>3. manifest'[id[1]] = manifest[id[1]] /\ pointer'[id[1]] = pointer[id[1]]
      BY <1>2, <3>2
    <3>4. id[2] \in {"manifest", "completed"}
      BY <2>2 DEF ChildSeals, Seals
    <3> QED
      BY <3>3, <3>4 DEF Content
  <2> QED
    BY <2>1, <2>2 DEF Parts
<1>4. \A id \in All : id[1] \in Scopes
  BY FilesAre, SealsAre, ScopesAre DEF All, ChildSeals
<1>5. \A q \in Scopes : stage'[q] = "threw" <=> stage[q] = "threw"
  BY <1>2 DEF Frozen
<1>6. \A id \in All : Late(id)' <=> Late(id)
  BY <1>2, <1>4, <1>5 DEF Late
<1>7. Directories(s)' = Directories(s)
  BY <1>2, ScopesAre DEF Directories
<1>8. FilesFit(s)'
  <2>1. ASSUME NEW id \in Files(s), queued'[id] > 0 PROVE MayLand(id)'
    <3>1. queued[id] > 0
      BY <1>2, <2>1, FilesAre, ScopesAre
    <3>2. MayLand(id) /\ id[1] = s
      BY <1>1, <2>1, <3>1, FilesAre DEF ScopeFits, FilesFit
    <3>3. id # Ledger
      BY <1>2, <3>2 DEF MayLand, Frozen, Ledger
    <3> QED
      BY <1>2, <3>2, <3>3 DEF MayLand, Frozen
  <2> QED
    BY <1>2, <2>1 DEF FilesFit, Frozen
<1> QED
  BY <1>3, <1>6, <1>7, <1>8

LEMMA SealScope ==
  ASSUME SealInv, NEW s \in Scopes, Seal(s)
  PROVE  ScopeFits(s)'
<1>1. SealType /\ SealType' /\ ScopeFits(s)
  BY SealMoves DEF SealInv
<1>2. /\ \A id \in Parts(s) : id \in All /\ Content(id)' = Content(id)
      /\ Directories(s)' = Directories(s)
      /\ FilesFit(s)'
  BY SealSteady, PartsInAll
<1>3. \A f, id : id \in Parts(s) /\ Tells(f, id) => Tells(f, id)'
  BY <1>2, SealSteady DEF Tells
<1>4. CASE BeginManifest(s)
  <2>1. /\ stage[s] = "concluded" /\ stage'[s] = "collecting"
        /\ draft'[s] = [todo |-> Directories(s), entries |-> NoEntries]
        /\ manifest' = manifest /\ pointer' = pointer
    BY <1>1, <1>4 DEF BeginManifest, Goes, SealType
  <2>2. ManifestFits(s)'
    BY <1>1, <2>1 DEF ScopeFits, ManifestFits, Early, Recorded, Whole
  <2>3. ASSUME NEW id \in Parts(s), id[1] \notin Directories(s)
        PROVE  NoEntries[id] = Content(id)
    <3>1. s = Batch
      BY <2>3, PartsAre, FilesAre, ScopesAre DEF Directories
    <3>2. id[1] \in Runs /\ stage[id[1]] = "waiting"
      BY <2>3, <3>1, PartsAre, ScopesAre DEF Directories
    <3>3. ScopeFits(id[1])
      BY <3>2, ScopesAre DEF SealInv
    <3>4. id \in Files(id[1]) => Content(id) = NoFile
      BY <3>2, <3>3, FilesAre, ScopesAre DEF ScopeFits, FilesFit
    <3>5. manifest[id[1]] = NoFile /\ pointer[id[1]] = NoFile
      BY <3>2, <3>3 DEF ScopeFits, ManifestFits, Early
    <3>6. id \in Seals(id[1]) => Content(id) = NoFile
      BY <3>2, <3>5, SealsAre
    <3>7. Content(id) = NoFile
      BY <2>3, <3>1, <3>4, <3>6, PartsAre
    <3> QED
      BY <1>2, <3>7 DEF NoEntries
  <2>4. DraftFits(s)'
    <3>1. NoEntries \in ManifestsOf(s)
      BY ManifestsAre
    <3>2. \A id \in Parts(s) : id[1] \notin Directories(s) => Tells(NoEntries, id)'
      BY <1>3, <2>3 DEF Tells
    <3> QED
      BY <1>2, <2>1, <3>1, <3>2 DEF DraftFits
  <2>5. SealFits(s)'
    BY <2>1 DEF SealFits, Recorded
  <2> QED
    BY <1>2, <2>2, <2>4, <2>5 DEF ScopeFits
<1>5. CASE ReadDirectory(s)
  <2>1. PICK d \in draft[s].todo :
          draft' = [draft EXCEPT ![s] =
            [todo |-> @.todo \ {d}, entries |-> Record(Within(s, d), @.entries)]]
    BY <1>5 DEF ReadDirectory
  <2>2. /\ stage[s] = "collecting" /\ stage'[s] = "collecting"
        /\ manifest' = manifest /\ pointer' = pointer
    BY <1>5 DEF ReadDirectory
  <2>3. DraftFits(s)
    BY <1>1 DEF ScopeFits
  <2>4. /\ d \in Scopes /\ (d = s \/ s = Batch)
        /\ draft[s].entries \in ManifestsOf(s) /\ draft[s].todo \subseteq Directories(s)
    BY <1>1, <2>1, <2>2, <2>3, ScopesAre DEF DraftFits, Directories
  <2>5. PICK f : f = draft[s].entries
    OBVIOUS
  <2>6. PICK g : g = Record(Within(s, d), f)
    OBVIOUS
  <2>7. draft'[s].todo = draft[s].todo \ {d} /\ draft'[s].entries = g
    BY <1>1, <2>1, <2>5, <2>6 DEF SealType
  <2>8. g \in ManifestsOf(s)
    BY <2>4, <2>5, <2>6, RecordIsManifest
  <2>9. ASSUME NEW id \in Parts(s), id[1] \notin draft[s].todo \ {d} PROVE Tells(g, id)
    <3>1. CASE id \in Within(s, d)
      BY <1>2, <2>6, <3>1 DEF Record, Tells
    <3>2. CASE id \notin Within(s, d)
      <4>1. id[1] # d
        BY <2>4, <3>2, PartsAre
      <4>2. Tells(f, id)
        BY <2>2, <2>3, <2>5, <2>9, <4>1 DEF DraftFits
      <4>3. g[id] = f[id]
        BY <1>2, <2>6, <3>2 DEF Record
      <4> QED
        BY <4>2, <4>3 DEF Tells
    <3> QED
      BY <3>1, <3>2
  <2>10. DraftFits(s)'
    <3>1. \A id \in Parts(s) : id[1] \notin draft[s].todo \ {d} => Tells(g, id)'
      BY <1>3, <2>9
    <3> QED
      BY <1>2, <2>4, <2>7, <2>8, <3>1 DEF DraftFits
  <2>11. ManifestFits(s)' /\ SealFits(s)'
    BY <1>1, <2>2 DEF ScopeFits, ManifestFits, SealFits, Recorded, Whole
  <2> QED
    BY <1>2, <2>10, <2>11 DEF ScopeFits
<1>6. CASE WriteManifest(s)
  <2>1. PICK f : f = draft[s].entries
    OBVIOUS
  <2>2. /\ stage[s] = "collecting" /\ stage'[s] = "anchoring" /\ draft[s].todo = {}
        /\ manifest'[s] = f /\ pointer' = pointer
    BY <1>1, <1>6, <2>1 DEF WriteManifest, Goes, SealType
  <2>3. f \in ManifestsOf(s) /\ \A id \in Parts(s) : Tells(f, id)
    BY <1>1, <2>1, <2>2 DEF ScopeFits, DraftFits
  <2>4. f # NoFile
    BY <2>3, SealAssumption, ManifestsAre
  <2>5. ManifestFits(s)'
    BY <1>1, <2>2, <2>3, <2>4 DEF ScopeFits, ManifestFits, Early, Recorded, Whole
  <2>6. SealFits(s)'
    BY <1>3, <2>2, <2>3 DEF SealFits
  <2> QED
    BY <1>2, <2>2, <2>5, <2>6 DEF ScopeFits, DraftFits
<1>7. CASE OpenPointer(s)
  <2>1. /\ stage[s] = "anchoring" /\ stage'[s] = "pointing" /\ manifest' = manifest
        /\ pointer'[s] = [whole |-> FALSE, of |-> NoFile]
    BY <1>1, <1>7 DEF OpenPointer, Goes, SealType
  <2>2. [whole |-> FALSE, of |-> NoFile] \in Pointers(ManifestsOf(s))
    BY DEF Pointers
  <2>3. pointer'[s].whole = FALSE
    BY <2>1
  <2>4. ~Whole(s)'
    BY <2>3, Zenon DEF Whole
  <2>5. ManifestFits(s)'
    BY <1>1, <2>1, <2>2, <2>4 DEF ScopeFits, ManifestFits, Early, Recorded
  <2>6. SealFits(s)'
    BY <1>1, <1>3, <2>1 DEF ScopeFits, SealFits, Recorded
  <2> QED
    BY <1>2, <2>1, <2>5, <2>6 DEF ScopeFits, DraftFits
<1>8. CASE WritePointer(s)
  <2>1. /\ stage[s] = "pointing" /\ stage'[s] = "sealed" /\ manifest' = manifest
        /\ pointer'[s] = [whole |-> TRUE, of |-> manifest[s]]
    BY <1>1, <1>8 DEF WritePointer, Goes, SealType
  <2>2. manifest[s] # NoFile /\ manifest[s] \in ManifestsOf(s)
    BY <1>1, <2>1 DEF ScopeFits, ManifestFits, Recorded
  <2>3. [whole |-> TRUE, of |-> manifest[s]] \in Pointers(ManifestsOf(s))
    BY <2>2 DEF Pointers
  <2>4. ManifestFits(s)'
    BY <2>1, <2>2, <2>3 DEF ManifestFits, Early, Recorded
  <2>5. SealFits(s)'
    BY <1>1, <1>3, <2>1 DEF ScopeFits, SealFits, Recorded
  <2> QED
    BY <1>2, <2>1, <2>4, <2>5 DEF ScopeFits, DraftFits
<1> QED
  BY <1>4, <1>5, <1>6, <1>7, <1>8 DEF Seal

LEMMA SealRunKeeps ==
  ASSUME SealInv, NEW r \in Runs, Seal(r)
  PROVE  SealInv'
<1>1. r \in Scopes /\ r # Batch
  BY ScopesAre
<1>2. stage[Batch] = "running"
  BY <1>1, SealMoves, BatchRuns DEF Frozen, Ended
<1>3. \A s \in Scopes \ {r} : \A id \in Files(s) :
        queued'[id] = queued[id] \/ id = Ledger
  BY <1>1, SealMoves, FilesAre
<1>4. OnlyRun(r)
  BY <1>1, <1>2, <1>3, SealMoves DEF OnlyRun, Frozen
<1> QED
  BY <1>1, <1>4, SealMoves, SealScope, RunKeeps

-----------------------------------------------------------------------------
(* The steps of the batch, of late appends, and of its end.                 *)

\* A step of the batch itself, which no run takes part in.
OnlyBatch ==
  /\ reader' = reader /\ hanging' = hanging
  /\ \A r \in Runs :
       /\ stage'[r] = stage[r] /\ manifest'[r] = manifest[r]
       /\ pointer'[r] = pointer[r] /\ draft'[r] = draft[r]
       /\ \A id \in Files(r) : lines'[id] = lines[id] /\ queued'[id] = queued[id]
  /\ stage[Batch] # "sealed"
  /\ manifest[Batch] # NoFile => manifest'[Batch] = manifest[Batch]

LEMMA BatchKeeps ==
  ASSUME SealInv, OnlyBatch, SealType', StageFits', ScopeFits(Batch)'
  PROVE  SealInv'
<1>1. SealType /\ StageFits /\ \A s \in Scopes : ScopeFits(s)
  BY DEF SealInv
<1>2. \A s \in Scopes : stage[s] = "threw" => stage'[s] = "threw"
  BY <1>1, ScopesAre DEF OnlyBatch, StageFits, BatchStages, Frozen
<1>3. Calm
  BY <1>2, LateStays DEF OnlyBatch
<1>4. ASSUME NEW r \in Runs PROVE ScopeFits(r)'
  <2>1. r \in Scopes /\ r # Batch
    BY ScopesAre
  <2>2. FilesFit(r)'
    BY <1>1, <2>1, FilesAre DEF ScopeFits, FilesFit, MayLand, OnlyBatch
  <2>3. Steady(r)
    <3> SUFFICES ASSUME NEW id \in Parts(r) PROVE Content(id)' = Content(id)
      BY DEF Steady
    <3>1. id \in Files(r)
      BY PartsAre
    <3>2. Content(id) = lines[id] /\ id[2] \notin {"manifest", "completed"}
      BY <2>1, <3>1, FilesAre DEF Files, Streams
    <3> QED
      BY <3>1, <3>2 DEF Content, OnlyBatch
  <2>4. Directories(r)' = Directories(r)
    BY <2>1 DEF Directories
  <2> QED
    BY <1>3, <2>1, <2>2, <2>3, <2>4, ScopeStays DEF OnlyBatch
<1>5. \A s \in Scopes : Whole(s) => Whole(s)'
  <2> SUFFICES ASSUME NEW s \in Scopes, Whole(s) PROVE Whole(s)'
    OBVIOUS
  <2>1. s # Batch
    BY <1>1, WholeIsSealed DEF ScopeFits, OnlyBatch
  <2> QED
    BY <2>1, ScopesAre DEF OnlyBatch, Whole
<1>6. ReaderFits'
  <2>1. \A s \in Scopes : manifest[s] # NoFile => manifest'[s] = manifest[s]
    BY ScopesAre DEF OnlyBatch
  <2> QED
    BY <1>3, <1>5, <2>1, ReaderStays DEF OnlyBatch
<1> QED
  BY <1>4, <1>6, ScopesAre DEF SealInv

LEMMA SealBatchKeeps ==
  ASSUME SealInv, Seal(Batch)
  PROVE  SealInv'
<1>1. Batch \in Scopes /\ \A r \in Runs : r \in Scopes \ {Batch}
  BY ScopesAre
<1>2. OnlyBatch
  BY <1>1, SealMoves, FilesAre DEF OnlyBatch
<1>3. StageFits'
  <2>1. StageFits /\ SealType
    BY DEF SealInv
  <2>2. stage[Batch] \in Frozen /\ stage'[Batch] \in Frozen /\ hanging' = hanging
    BY <1>1, SealMoves
  <2>3. \A r \in Runs : stage'[r] = stage[r]
    BY <1>1, SealMoves
  <2>4. stage[Batch] # "running" /\ stage'[Batch] \in BatchStages
    BY <2>2 DEF Frozen, BatchStages
  <2> HIDE DEF Frozen, BatchStages
  <2> QED
    BY <2>1, <2>2, <2>3, <2>4 DEF StageFits, SealType
<1> QED
  BY <1>1, <1>2, <1>3, SealMoves, SealScope, BatchKeeps

LEMMA JoinKeeps ==
  ASSUME SealInv, Join
  PROVE  SealInv'
<1>1. SealType /\ StageFits /\ Batch \in Scopes /\ ScopeFits(Batch)
  BY ScopesAre DEF SealInv
<1>2. PICK n : n = Cardinality({r \in Runs : stage[r] # "sealed"})
  OBVIOUS
<1>3. n \in Nat
  <2>1. IsFiniteSet(Runs)
    BY FS_Interval, SealAssumption DEF Runs
  <2>2. IsFiniteSet({r \in Runs : stage[r] # "sealed"})
    BY <2>1, FS_Subset
  <2> QED
    BY <1>2, <2>2, FS_CardinalityType
<1>4. /\ stage[Batch] = "running" /\ stage' = [stage EXCEPT ![Batch] = "closed"]
      /\ queued' = [queued EXCEPT ![Ledger] = @ + n]
      /\ \A r \in Runs : stage[r] \in {"waiting", "sealed", "threw"}
      /\ UNCHANGED <<lines, manifest, pointer, draft, hanging, reader>>
  BY <1>2 DEF Join, Goes
<1>5. SealType'
  BY <1>1, <1>3, <1>4, FilesAre DEF SealType, RunStages
<1>6. stage'[Batch] = "closed" /\ \A r \in Runs : stage'[r] = stage[r]
  BY <1>1, <1>4, ScopesAre DEF SealType
<1>7. OnlyBatch
  BY <1>1, <1>4, <1>6, FilesAre, ScopesAre DEF OnlyBatch, SealType
<1>8. StageFits'
  BY <1>1, <1>4, <1>6 DEF StageFits, BatchStages, Ended
<1>9. FilesFit(Batch)'
  BY <1>1, <1>4, <1>6, FilesAre, ScopesAre DEF ScopeFits, FilesFit, MayLand, SealType
<1>10. ScopeFits(Batch)'
  BY <1>1, <1>4, <1>6, <1>9, EarlyMoves DEF Early
<1> QED
  BY <1>5, <1>7, <1>8, <1>10, BatchKeeps

LEMMA ConcludeBatchKeeps ==
  ASSUME SealInv, ConcludeBatch
  PROVE  SealInv'
<1>1. SealType /\ StageFits /\ Batch \in Scopes /\ ScopeFits(Batch)
  BY ScopesAre DEF SealInv
<1>2. PICK n \in {1, NoFile} :
        /\ stage[Batch] = "closed" /\ stage' = [stage EXCEPT ![Batch] = "concluded"]
        /\ queued[Ledger] = 0
        /\ lines' = [lines EXCEPT ![<<Batch, "cohort">>] = n]
        /\ UNCHANGED <<queued, manifest, pointer, draft, hanging, reader>>
  BY DEF ConcludeBatch, Goes
<1>3. SealType'
  <2>1. n \in Lines
    BY DEF Lines
  <2> HIDE DEF Lines
  <2> QED
    BY <1>1, <1>2, <2>1 DEF SealType, RunStages, Frozen
<1>4. stage'[Batch] = "concluded" /\ \A r \in Runs : stage'[r] = stage[r]
  BY <1>1, <1>2, ScopesAre DEF SealType
<1>5. \A r \in Runs : \A id \in Files(r) : lines'[id] = lines[id]
  BY <1>1, <1>2, OthersFiles, FilesAre, ScopesAre DEF SealType
<1>6. OnlyBatch
  BY <1>1, <1>2, <1>4, <1>5 DEF OnlyBatch
<1>7. StageFits'
  BY <1>1, <1>2, <1>4 DEF StageFits, BatchStages, Frozen
<1>8. FilesFit(Batch)'
  BY <1>1, <1>2, <1>4, FilesAre, ScopesAre DEF ScopeFits, FilesFit, MayLand
<1>9. ScopeFits(Batch)'
  BY <1>1, <1>2, <1>4, <1>8, EarlyMoves DEF Early
<1> QED
  BY <1>3, <1>6, <1>7, <1>9, BatchKeeps

\* What lands in a scope that was concluded comes late.
LEMMA LandsLate ==
  ASSUME SealInv, NEW s \in Scopes, stage[s] \in Frozen, NEW id \in Parts(s), MayLand(id)
  PROVE  Late(id)
<1>1. CASE s = Batch
  <2>1. id[1] \in Runs
    BY <1>1 DEF MayLand, Frozen
  <2>2. stage[id[1]] \in {"waiting"} \cup Ended
    BY <1>1, <2>1 DEF SealInv, StageFits, Frozen
  <2>3. id # Ledger
    BY <2>1, ScopesAre DEF Ledger
  <2> QED
    BY <2>2, <2>3 DEF MayLand, Late, Streams, Ended
<1>2. CASE s \in Runs
  <2>1. id[1] = s /\ id # Ledger
    BY <1>2, PartsAre, FilesAre
  <2> QED
    BY <2>1 DEF MayLand, Late, Frozen
<1> QED
  BY <1>1, <1>2, ScopesAre

LEMMA LandKeeps ==
  ASSUME SealInv, NEW id \in Payload, Land(id)
  PROVE  SealInv'
<1>1. SealType /\ StageFits /\ \A s \in Scopes : ScopeFits(s)
  BY DEF SealInv
<1>2. /\ queued[id] > 0 /\ queued' = [queued EXCEPT ![id] = @ - 1]
      /\ lines' = [lines EXCEPT ![id] = More(id)]
      /\ UNCHANGED <<stage, manifest, pointer, draft, hanging, reader>>
  BY DEF Land
<1>3. MayLand(id)
  BY <1>1, <1>2, FilesAre DEF ScopeFits, FilesFit
<1>4. SealType'
  <2>1. More(id) \in Lines /\ queued[id] - 1 \in Nat
    BY <1>1, <1>2 DEF More, SealType, Lines
  <2> HIDE DEF Lines
  <2> QED
    BY <1>1, <1>2, <2>1 DEF SealType
<1>5. StageFits'
  BY <1>1, <1>2 DEF StageFits
<1>6. Calm
  BY <1>2, LateStays
<1>7. ASSUME NEW s \in Scopes PROVE ScopeFits(s)'
  <2>1. ASSUME NEW f \in Files(s), queued'[f] > 0 PROVE MayLand(f)'
    <3>1. queued[f] > 0
      BY <1>1, <1>2, <2>1, FilesAre DEF SealType
    <3>2. MayLand(f)
      BY <1>1, <2>1, <3>1 DEF ScopeFits, FilesFit
    <3> QED
      BY <1>2, <3>2 DEF MayLand
  <2>2. ASSUME stage'[s] = "waiting", NEW f \in Files(s) PROVE lines'[f] = NoFile
    <3>1. stage[s] = "waiting" /\ lines[f] = NoFile /\ f[1] = s /\ f \in Payload
      BY <1>1, <1>2, <2>2, FilesAre DEF ScopeFits, FilesFit
    <3>2. f # id
      BY <1>1, <1>3, <3>1, ScopesAre DEF MayLand, StageFits, Ledger, BatchStages, Frozen
    <3> QED
      BY <1>1, <1>2, <3>1, <3>2 DEF SealType
  <2>3. FilesFit(s)'
    BY <2>1, <2>2 DEF FilesFit
  <2>4. ASSUME stage[s] \in Frozen PROVE Steady(s)
    <3> SUFFICES ASSUME NEW f \in Parts(s), ~Late(f) PROVE Content(f)' = Content(f)
      BY <1>6, PartsInAll DEF Steady, Calm
    <3>1. f # id
      BY <1>3, <2>4, LandsLate
    <3>2. lines'[f] = lines[f]
      BY <1>2, <3>1
    <3> QED
      BY <1>2, <3>2 DEF Content
  <2>5. Directories(s)' = Directories(s)
    BY <1>2 DEF Directories
  <2> QED
    BY <1>2, <1>6, <2>3, <2>4, <2>5, ScopeStays
<1>8. ReaderFits'
  BY <1>2, <1>6, ReaderStays DEF Whole
<1> QED
  BY <1>4, <1>5, <1>7, <1>8 DEF SealInv

\* A process that dies leaves what was written, and half a pointer at most.
LEMMA DiesKeeps ==
  ASSUME SealInv, Dies
  PROVE  SealInv'
<1>1. SealType /\ StageFits /\ \A s \in Scopes : ScopeFits(s)
  BY DEF SealInv
<1>2. /\ stage' = [s \in Scopes |-> IF stage[s] \in Ended \cup {"waiting"} THEN stage[s]
                                    ELSE "dead"]
      /\ queued' = [id \in Payload |-> 0]
      /\ draft' = [s \in Scopes |-> NoDraft]
      /\ UNCHANGED <<lines, manifest, pointer, hanging, reader>>
  BY DEF Dies
<1>3. \A s \in Scopes : stage'[s] = IF stage[s] \in Ended \cup {"waiting"} THEN stage[s]
                                    ELSE "dead"
  BY <1>2
<1>4. SealType'
  <2>1. NoDraft \in [todo : SUBSET Scopes, entries : Manifests]
    BY ManifestsAre DEF NoDraft
  <2>2. stage' \in [Scopes -> RunStages]
    BY <1>1, <1>2 DEF SealType, RunStages
  <2> QED
    BY <1>1, <1>2, <2>1, <2>2 DEF SealType
<1>5. StageFits'
  <2>1. stage[Batch] \in BatchStages
    BY <1>1 DEF StageFits
  <2>2. stage'[Batch] \in {"sealed", "dead"}
        /\ (stage'[Batch] = "sealed" => stage[Batch] = "sealed")
    BY <1>3, <2>1, ScopesAre DEF BatchStages, Frozen, Ended
  <2>3. \A r \in Runs : stage'[r] \in {"waiting"} \cup Ended
    BY <1>3, ScopesAre DEF Ended
  <2>4. stage[Batch] = "sealed" => \A r \in Runs : stage'[r] # "dead"
    BY <1>1, <1>3, ScopesAre DEF StageFits, Frozen
  <2>5. \A r \in hanging' : stage'[r] \notin {"waiting", "setup", "running"}
    BY <1>1, <1>2, <1>3, ScopesAre DEF StageFits, SealType, Ended
  <2> QED
    BY <2>2, <2>3, <2>4, <2>5 DEF StageFits, BatchStages, Frozen
<1>6. Calm
  BY <1>2, <1>3, LateStays DEF Ended
<1>7. ASSUME NEW s \in Scopes PROVE ScopeFits(s)'
  <2>1. stage'[s] \in Ended \cup {"waiting"}
        /\ (stage'[s] # "dead" => stage[s] = stage'[s])
        /\ (stage'[s] = "dead" => stage[s] # "sealed")
    BY <1>3 DEF Ended
  <2>2. FilesFit(s)'
    BY <1>1, <1>2, <2>1, FilesAre DEF ScopeFits, FilesFit
  <2>3. ManifestFits(s)'
    BY <1>1, <1>2, <2>1 DEF ScopeFits, ManifestFits, Whole, Early, Recorded, Ended
  <2>4. SealFits(s)'
    <3>1. \A id : Content(id)' = Content(id)
      BY <1>2 DEF Content
    <3> QED
      BY <1>1, <1>2, <1>6, <2>1, <3>1, PartsInAll
      DEF ScopeFits, SealFits, Recorded, Ended, Tells, Calm
  <2> QED
    BY <2>1, <2>2, <2>3, <2>4 DEF ScopeFits, DraftFits, Ended
<1>8. ReaderFits'
  BY <1>2, <1>6, ReaderStays DEF Whole
<1> QED
  BY <1>4, <1>5, <1>7, <1>8 DEF SealInv

-----------------------------------------------------------------------------
(* The steps of a command that reads a bundle.                              *)

\* What a command reads and writes leaves the scopes as they were: an evaluation
\* is added to a run that has its manifest, and comes late.
LEMMA ReadsKeep ==
  ASSUME SealInv, UNCHANGED <<stage, queued, manifest, pointer, draft, hanging>>,
         NEW run \in Scopes, NEW n \in Nat,
         \/ lines' = lines
         \/ lines' = [lines EXCEPT ![<<run, "derived">>] = n] /\ manifest[run] # NoFile
  PROVE  /\ SealType' /\ StageFits' /\ \A s \in Scopes : ScopeFits(s)'
         /\ \A id : Late(id)' <=> Late(id)
<1>1. SealType /\ StageFits /\ \A s \in Scopes : ScopeFits(s)
  BY DEF SealInv
<1>2. \A id : Late(id)' <=> Late(id)
  BY DEF Late
<1>3. SealType'
  <2>1. n \in Lines
    BY DEF Lines
  <2> HIDE DEF Lines
  <2> QED
    BY <1>1, <2>1 DEF SealType
<1>4. StageFits'
  BY <1>1 DEF StageFits
<1>5. Calm
  BY <1>2 DEF Calm
<1>6. \A id \in Payload :
        lines'[id] = lines[id] \/ (id = <<run, "derived">> /\ manifest[run] # NoFile)
  BY <1>1 DEF SealType
<1>7. ASSUME NEW s \in Scopes PROVE ScopeFits(s)'
  <2>1. FilesFit(s)
    BY <1>1 DEF ScopeFits
  <2>2. \A id \in Files(s) : queued'[id] > 0 => MayLand(id)'
    BY <2>1 DEF FilesFit, MayLand
  <2>3. ASSUME stage'[s] = "waiting", NEW id \in Files(s) PROVE lines'[id] = NoFile
    <3>1. manifest[s] = NoFile /\ lines[id] = NoFile /\ id[1] = s
      BY <1>1, <2>1, <2>3, FilesAre DEF ScopeFits, ManifestFits, Early, FilesFit
    <3> QED
      BY <1>6, <2>3, <3>1, FilesAre
  <2>4. FilesFit(s)'
    BY <2>2, <2>3 DEF FilesFit
  <2>5. Steady(s)
    <3> SUFFICES ASSUME NEW id \in Parts(s), id[2] # "derived" PROVE Content(id)' = Content(id)
      BY DEF Steady, Late
    <3>1. id \in Payload \/ id \in ChildSeals
      BY PartsInAll DEF All
    <3>2. id \in ChildSeals => id[2] \in {"manifest", "completed"}
      BY DEF ChildSeals, Seals
    <3>3. id \in Payload => lines'[id] = lines[id]
      BY <1>6
    <3> QED
      BY <3>1, <3>2, <3>3 DEF Content
  <2>6. Directories(s)' = Directories(s)
    BY DEF Directories
  <2> QED
    BY <1>5, <2>4, <2>5, <2>6, ScopeStays
<1> QED
  BY <1>2, <1>3, <1>4, <1>7

\* What is loaded of a scope that is sealed is what its manifest records.
LEMMA SealedLoads ==
  ASSUME SealInv, NEW s \in Scopes, Whole(s)
  PROVE  /\ stage[s] = "sealed" /\ manifest[s] # NoFile /\ Anchored(s)
         /\ \A id \in DOMAIN Traces(s) : Late(id) \/ Traces(s)[id] = manifest[s][id]
<1>1. SealType /\ ScopeFits(s)
  BY DEF SealInv
<1>2. stage[s] = "sealed"
  BY <1>1, WholeIsSealed DEF ScopeFits
<1>3. manifest[s] # NoFile /\ pointer[s] = [whole |-> TRUE, of |-> manifest[s]]
  BY <1>1, <1>2 DEF ScopeFits, ManifestFits, Recorded
<1>4. ASSUME NEW id \in DOMAIN Traces(s) PROVE Late(id) \/ Traces(s)[id] = manifest[s][id]
  <2>1. PICK r \in RunsOf(s) : id = <<r, "trace">>
    BY DEF Traces
  <2>2. r = s \/ s = Batch
    BY <2>1 DEF RunsOf
  <2>3. r \in Runs
    BY <2>1, ScopesAre DEF RunsOf
  <2>4. id \in Files(r)
    BY <2>1, <2>3, FilesAre
  <2>5. id \in Parts(s) /\ Content(id) = lines[id]
    <3>1. id \in Payload /\ Content(id) = lines[id]
      BY <2>3, <2>4, FilesAre, ScopesAre
    <3>2. s = Batch => id \in Parts(s)
      BY <3>1 DEF Parts
    <3>3. r = s => id \in Parts(s)
      BY <2>3, <2>4, PartsAre
    <3> QED
      BY <2>2, <3>1, <3>2, <3>3
  <2>6. Tells(manifest[s], id)
    BY <1>1, <1>2, <2>5 DEF ScopeFits, SealFits, Recorded
  <2>7. Traces(s)[id] = lines[id]
    BY <1>4 DEF Traces
  <2> QED
    BY <2>5, <2>6, <2>7 DEF Tells
<1> QED
  BY <1>2, <1>3, <1>4 DEF Anchored

LEMMA TracesInAll == \A s \in Scopes : DOMAIN Traces(s) \subseteq All
<1> SUFFICES ASSUME NEW s \in Scopes, NEW id \in DOMAIN Traces(s) PROVE id \in All
  OBVIOUS
<1>1. PICK r \in Runs : id = <<r, "trace">>
  BY ScopesAre DEF Traces, RunsOf
<1> QED
  BY <1>1, FilesAre, ScopesAre

LEMMA BeginKeeps ==
  ASSUME SealInv, NEW kind \in {"report", "evaluate", "analyze"}, NEW s \in Scopes,
         Begin(kind, s)
  PROVE  SealInv'
<1>1. PICK loaded : loaded = IF kind = "analyze" THEN Nothing ELSE Traces(s)
  OBVIOUS
<1>2. PICK sealed : sealed = Whole(s)
  OBVIOUS
<1>3. /\ reader' = [kind |-> kind, at |-> "begun", scope |-> s, todo |-> {}, ok |-> TRUE,
                    loaded |-> loaded, sealed |-> sealed]
      /\ UNCHANGED <<stage, lines, queued, manifest, pointer, draft, hanging>>
  BY <1>1, <1>2 DEF Begin, Idle
<1>4. SealType' /\ StageFits' /\ (\A q \in Scopes : ScopeFits(q)') /\ (\A id : Late(id)' <=> Late(id))
  BY <1>3, ReadsKeep
<1>5. sealed \in BOOLEAN
  BY <1>2 DEF Whole, SealInv, SealType, Pointers
<1>6. DOMAIN loaded \subseteq All
  BY <1>1, TracesInAll DEF Nothing
<1>7. Whole(s)' <=> Whole(s)
  BY <1>3 DEF Whole
<1>8. Whole(s) /\ kind # "analyze" => \A id \in DOMAIN loaded : Late(id)' \/ loaded[id] = manifest'[s][id]
  BY <1>1, <1>3, <1>4, SealedLoads
<1>9. /\ reader'.kind = kind /\ reader'.at = "begun" /\ reader'.scope = s
      /\ reader'.todo = {} /\ reader'.loaded = loaded
      /\ DOMAIN reader' = {"kind", "at", "scope", "todo", "ok", "loaded", "sealed"}
  BY <1>3
<1>10. reader'.ok = TRUE /\ reader'.sealed = sealed
  BY <1>3
<1>11. ReaderFits'
  BY <1>2, <1>5, <1>6, <1>7, <1>8, <1>9, <1>10 DEF ReaderFits, Loads
<1> QED
  BY <1>4, <1>11 DEF SealInv

LEMMA OpenManifestKeeps ==
  ASSUME SealInv, OpenManifest
  PROVE  SealInv'
<1>1. PICK s \in Scopes : s = reader.scope
  BY DEF SealInv, ReaderFits
<1>2. PICK ok : ok = IF reader.kind = "report" THEN Anchored(s) ELSE manifest[s] # NoFile
  OBVIOUS
<1>3. PICK todo : todo = IF manifest[s] = NoFile THEN {} ELSE Directories(s)
  OBVIOUS
<1>4. /\ reader.at = "begun"
      /\ reader' = [reader EXCEPT !.at = "verifying", !.ok = ok, !.todo = todo]
      /\ UNCHANGED <<stage, lines, queued, manifest, pointer, draft, hanging>>
  BY <1>1, <1>2, <1>3 DEF OpenManifest
<1>5. SealType' /\ StageFits' /\ (\A q \in Scopes : ScopeFits(q)') /\ (\A id : Late(id)' <=> Late(id))
  BY <1>4, ReadsKeep
<1>6. ReaderFits /\ SealType
  BY DEF SealInv
<1>7. Whole(s) \in BOOLEAN /\ ok \in BOOLEAN
  BY <1>2, <1>6 DEF Anchored, Whole, SealType, Pointers
<1>8. todo \subseteq IF s = Batch THEN Scopes ELSE {s}
  BY <1>3, ScopesAre DEF Directories
<1>9. (Whole(s)' <=> Whole(s)) /\ (Loads(s) => Loads(s)')
  BY <1>4, <1>5, <1>6 DEF Whole, Loads, ReaderFits
<1>10. /\ reader'.kind = reader.kind /\ reader'.at = "verifying" /\ reader'.scope = s
       /\ reader'.todo = todo /\ reader'.loaded = reader.loaded /\ DOMAIN reader' = DOMAIN reader
  BY <1>1, <1>4, <1>6 DEF ReaderFits
<1>11. reader'.ok = ok /\ reader'.sealed = reader.sealed
  BY <1>4, <1>6 DEF ReaderFits
<1>12. Whole(s) => ok = TRUE
  BY <1>2, <1>7, SealedLoads
<1>13. /\ ok = TRUE /\ reader.kind = "evaluate" => manifest[s] # NoFile
       /\ ok = TRUE /\ reader.kind = "report" => Whole(s)
  BY <1>2 DEF Anchored
<1>14. ReaderFits'
  BY <1>1, <1>4, <1>6, <1>7, <1>8, <1>9, <1>10, <1>11, <1>12, <1>13 DEF ReaderFits
<1> QED
  BY <1>5, <1>14 DEF SealInv

LEMMA CheckDirectoryKeeps ==
  ASSUME SealInv, CheckDirectory
  PROVE  SealInv'
<1>1. PICK s \in Scopes : s = reader.scope
  BY DEF SealInv, ReaderFits
<1>2. PICK d \in reader.todo :
        reader' = [reader EXCEPT !.todo = @ \ {d},
          !.ok = @ /\ \A id \in {i \in Within(s, d) : manifest[s][i] # NoFile} :
                        Content(id) = manifest[s][id]]
  BY <1>1 DEF CheckDirectory
<1>3. PICK ok \in BOOLEAN :
        ok = (\A id \in {i \in Within(s, d) : manifest[s][i] # NoFile} :
                Content(id) = manifest[s][id])
  OBVIOUS
<1>4. /\ reader.at = "verifying"
      /\ reader' = [reader EXCEPT !.todo = @ \ {d}, !.ok = @ /\ ok]
      /\ UNCHANGED <<stage, lines, queued, manifest, pointer, draft, hanging>>
  BY <1>2, <1>3, Zenon DEF CheckDirectory
<1>5. SealType' /\ StageFits' /\ (\A q \in Scopes : ScopeFits(q)') /\ (\A id : Late(id)' <=> Late(id))
  BY <1>4, ReadsKeep
<1>6. ReaderFits /\ SealType /\ ScopeFits(s)
  BY DEF SealInv
<1>7. (Whole(s)' <=> Whole(s)) /\ (Loads(s) => Loads(s)')
  BY <1>4, <1>5, <1>6 DEF Whole, Loads, ReaderFits
<1>8. /\ reader'.kind = reader.kind /\ reader'.at = "verifying" /\ reader'.scope = s
      /\ reader'.todo = reader.todo \ {d} /\ reader'.loaded = reader.loaded
      /\ DOMAIN reader' = DOMAIN reader
  BY <1>1, <1>4, <1>6 DEF ReaderFits
<1>9. reader'.sealed = reader.sealed /\ reader'.ok = (reader.ok /\ ok)
  BY <1>4, <1>6 DEF ReaderFits
<1>10. Whole(s) /\ ~ok => \E id \in Parts(s) : Late(id) /\ manifest[s][id] # NoFile
  <2> SUFFICES ASSUME Whole(s), ~ok
               PROVE  \E id \in Parts(s) : Late(id) /\ manifest[s][id] # NoFile
    OBVIOUS
  <2>1. PICK id \in Within(s, d) : manifest[s][id] # NoFile /\ Content(id) # manifest[s][id]
    BY <1>3
  <2>2. d \in Scopes /\ (d = s \/ s = Batch)
    BY <1>1, <1>2, <1>6, ScopesAre DEF ReaderFits
  <2>3. id \in Parts(s)
    BY <2>1, <2>2, PartsAre
  <2>4. Tells(manifest[s], id)
    BY <1>6, <2>3, SealedLoads DEF ScopeFits, SealFits, Recorded
  <2> QED
    BY <2>1, <2>3, <2>4 DEF Tells
<1>11. ReaderFits'
  <2>1. reader'.ok \in BOOLEAN /\ reader'.sealed \in BOOLEAN
    BY <1>3, <1>6, <1>9 DEF ReaderFits
  <2>2. reader'.sealed /\ ~reader'.ok =>
          \E id \in Parts(s) : Late(id)' /\ manifest'[s][id] # NoFile
    <3>1. reader.sealed /\ ~reader.ok =>
            \E id \in Parts(s) : Late(id) /\ manifest[s][id] # NoFile
      BY <1>1, <1>6 DEF ReaderFits
    <3>2. reader.sealed => Whole(s)
      BY <1>1, <1>6 DEF ReaderFits
    <3> QED
      BY <1>4, <1>5, <1>9, <1>10, <3>1, <3>2
  <2>3. Parts(s)' = Parts(s)
    BY DEF Parts
  <2>4. reader'.ok => /\ reader'.kind = "evaluate" => manifest'[s] # NoFile
                      /\ reader'.kind = "report" => Whole(s)'
    BY <1>1, <1>4, <1>6, <1>7, <1>8, <1>9 DEF ReaderFits
  <2> QED
    BY <1>1, <1>4, <1>6, <1>7, <1>8, <1>9, <2>1, <2>2, <2>3, <2>4 DEF ReaderFits
<1> QED
  BY <1>5, <1>11 DEF SealInv

LEMMA VerifiedKeeps ==
  ASSUME SealInv, Verified
  PROVE  SealInv'
<1>1. PICK s \in Scopes : s = reader.scope
  BY DEF SealInv, ReaderFits
<1>2. PICK ok \in BOOLEAN : ok = (reader.ok /\ (reader.kind = "analyze" => Anchored(s)))
  OBVIOUS
<1>3. PICK derives \in BOOLEAN :
        derives = (ok /\ reader.kind = "evaluate" /\ ~Exists(<<s, "derived">>))
  OBVIOUS
<1>4. PICK at \in {"deriving", "done"} : at = IF derives THEN "deriving" ELSE "done"
  OBVIOUS
<1>5. PICK loaded : loaded = IF reader.kind = "analyze" /\ ok THEN Traces(s) ELSE reader.loaded
  OBVIOUS
<1>6. /\ reader.at = "verifying"
      /\ reader' = [reader EXCEPT !.ok = ok, !.at = at, !.loaded = loaded]
      /\ lines' = IF derives THEN [lines EXCEPT ![<<s, "derived">>] = 0] ELSE lines
      /\ UNCHANGED <<stage, queued, manifest, pointer, draft, hanging>>
  BY <1>1, <1>2, <1>3, <1>4, <1>5 DEF Verified
<1>7. ReaderFits /\ SealType
  BY DEF SealInv
<1>8. derives => ok /\ reader.kind = "evaluate" /\ manifest[s] # NoFile
  BY <1>1, <1>2, <1>3, <1>6, <1>7 DEF ReaderFits
<1>9. SealType' /\ StageFits' /\ (\A q \in Scopes : ScopeFits(q)') /\ (\A id : Late(id)' <=> Late(id))
  BY <1>6, <1>8, ReadsKeep
<1>10. /\ reader'.kind = reader.kind /\ reader'.at = at /\ reader'.scope = s
       /\ reader'.todo = reader.todo /\ reader'.loaded = loaded
       /\ DOMAIN reader' = DOMAIN reader
  BY <1>1, <1>6, <1>7 DEF ReaderFits
<1>11. reader'.sealed = reader.sealed /\ reader'.ok = ok
  BY <1>6, <1>7 DEF ReaderFits
<1>12. Whole(s)' <=> Whole(s)
  BY <1>6 DEF Whole
<1>13. Whole(s) => \A id \in DOMAIN Traces(s) : Late(id)' \/ Traces(s)[id] = manifest'[s][id]
  BY <1>6, <1>9, SealedLoads
<1>14. /\ reader.kind = "analyze" /\ ok => Whole(s)
       /\ reader.sealed => Whole(s)
       /\ Whole(s) => (ok <=> reader.ok)
  BY <1>1, <1>2, <1>7, SealedLoads DEF ReaderFits, Anchored
<1>15. DOMAIN loaded \subseteq All
  BY <1>1, <1>5, <1>7, TracesInAll DEF ReaderFits
<1>16. (reader.kind = "analyze" /\ ok) \/ (reader.kind # "analyze" /\ reader.sealed) =>
         \A id \in DOMAIN loaded : Late(id)' \/ loaded[id] = manifest'[s][id]
  BY <1>1, <1>5, <1>6, <1>7, <1>9, <1>13, <1>14 DEF ReaderFits, Loads
<1>17. ReaderFits'
  <2>1. reader'.sealed /\ ~reader'.ok =>
          \E id \in Parts(s) : Late(id)' /\ manifest'[s][id] # NoFile
    BY <1>1, <1>6, <1>7, <1>9, <1>11, <1>14 DEF ReaderFits
  <2>2. Parts(s)' = Parts(s)
    BY DEF Parts
  <2>3. ok => /\ reader.kind = "evaluate" => manifest'[s] # NoFile
              /\ reader.kind = "report" => Whole(s)'
    BY <1>1, <1>2, <1>6, <1>7, <1>12 DEF ReaderFits
  <2>4. /\ at = "deriving" => reader.kind = "evaluate" /\ ok
        /\ at \in {"deriving", "done"}
    BY <1>4, <1>8
  <2>5. /\ reader.kind \in {"report", "evaluate", "analyze"} /\ s \in Scopes
        /\ reader.todo \subseteq IF s = Batch THEN Scopes ELSE {s}
        /\ ok \in BOOLEAN /\ reader.sealed \in BOOLEAN
        /\ DOMAIN reader = {"kind", "at", "scope", "todo", "ok", "loaded", "sealed"}
    BY <1>1, <1>6, <1>7 DEF ReaderFits
  <2> QED
    BY <1>10, <1>11, <1>12, <1>14, <1>15, <1>16, <2>1, <2>2, <2>3, <2>4, <2>5
    DEF ReaderFits, Loads
<1> QED
  BY <1>9, <1>17 DEF SealInv

LEMMA WriteDerivedKeeps ==
  ASSUME SealInv, WriteDerived
  PROVE  SealInv'
<1>1. PICK s \in Scopes : s = reader.scope
  BY DEF SealInv, ReaderFits
<1>2. /\ reader.at = "deriving" /\ reader' = [reader EXCEPT !.at = "done"]
      /\ lines' = [lines EXCEPT ![<<s, "derived">>] = 1]
      /\ UNCHANGED <<stage, queued, manifest, pointer, draft, hanging>>
  BY <1>1 DEF WriteDerived
<1>3. ReaderFits /\ SealType
  BY DEF SealInv
<1>4. manifest[s] # NoFile /\ reader.kind = "evaluate" /\ reader.ok
  BY <1>1, <1>2, <1>3 DEF ReaderFits
<1>5. SealType' /\ StageFits' /\ (\A q \in Scopes : ScopeFits(q)') /\ (\A id : Late(id)' <=> Late(id))
  BY <1>2, <1>4, ReadsKeep
<1>6. (Whole(s)' <=> Whole(s)) /\ (Loads(s) => Loads(s)')
  BY <1>2, <1>3, <1>5 DEF Whole, Loads, ReaderFits
<1>7. /\ reader'.kind = reader.kind /\ reader'.at = "done" /\ reader'.scope = s
      /\ reader'.todo = reader.todo /\ reader'.loaded = reader.loaded
      /\ DOMAIN reader' = DOMAIN reader
  BY <1>1, <1>2, <1>3 DEF ReaderFits
<1>8. reader'.sealed = reader.sealed /\ reader'.ok = reader.ok
  BY <1>2, <1>3 DEF ReaderFits
<1>9. ReaderFits'
  BY <1>1, <1>2, <1>3, <1>4, <1>6, <1>7, <1>8 DEF ReaderFits
<1> QED
  BY <1>5, <1>9 DEF SealInv

-----------------------------------------------------------------------------
(* The theorem.                                                             *)
LEMMA SealStarts == SealInit => SealInv
<1> SUFFICES ASSUME SealInit PROVE SealInv
  OBVIOUS
<1>1. SealType
  <2>1. NoDraft \in [todo : SUBSET Scopes, entries : Manifests]
    BY ManifestsAre DEF NoDraft
  <2> QED
    BY <2>1 DEF SealInit, SealType, RunStages, Lines
<1>2. \A s \in Scopes : stage[s] = IF s = Batch THEN "running" ELSE "waiting"
  BY DEF SealInit
<1>3. StageFits
  BY <1>2, ScopesAre DEF SealInit, StageFits, BatchStages, Frozen
<1>4. ASSUME NEW s \in Scopes PROVE ScopeFits(s)
  <2>1. FilesFit(s)
    BY FilesAre DEF SealInit, FilesFit
  <2>2. ManifestFits(s)
    BY <1>2 DEF SealInit, ManifestFits, Recorded, Whole
  <2> QED
    BY <1>2, <2>1, <2>2 DEF ScopeFits, DraftFits, SealFits, Recorded
<1>5. ReaderFits
  BY ScopesAre DEF SealInit, Idle, Nothing, ReaderFits
<1> QED
  BY <1>1, <1>3, <1>4, <1>5 DEF SealInv

LEMMA SealSteps == SealInv /\ [SealNext]_sealVars => SealInv'
<1> SUFFICES ASSUME SealInv, [SealNext]_sealVars PROVE SealInv'
  OBVIOUS
<1>1. ASSUME NEW r \in Runs,
             \/ LaunchTrial(r) \/ SetupEnds(r) \/ SetupFails(r) \/ CloseExposure(r)
             \/ Conclude(r) \/ Throws(r) \/ \E stream \in Streams : Offer(r, stream)
      PROVE  SealInv'
  BY <1>1, LaunchKeeps, SetupEndsKeeps, SetupFailsKeeps, CloseKeeps, ConcludeKeeps,
     ThrowsKeeps, OfferKeeps
<1>2. ASSUME NEW s \in Scopes, Seal(s) PROVE SealInv'
  BY <1>2, SealRunKeeps, SealBatchKeeps, ScopesAre
<1>3. CASE Reads
  <2>1. ASSUME NEW s \in Scopes, NEW kind \in {"report", "evaluate", "analyze"}, Begin(kind, s)
        PROVE  SealInv'
    BY <2>1, BeginKeeps
  <2> QED
    BY <1>3, <2>1, OpenManifestKeeps, CheckDirectoryKeeps, VerifiedKeeps,
       WriteDerivedKeeps, ScopesAre DEF Reads
<1>4. CASE UNCHANGED sealVars
  <2>1. Batch \in Scopes /\ reader' = reader /\ lines' = lines
    BY <1>4, ScopesAre DEF sealVars
  <2>2. SealType' /\ StageFits' /\ (\A s \in Scopes : ScopeFits(s)')
        /\ (\A id : Late(id)' <=> Late(id))
    BY <1>4, <2>1, ReadsKeep DEF sealVars
  <2>3. ReaderFits'
    BY <1>4, <2>2, ReaderStays DEF sealVars, Calm, Whole
  <2> QED
    BY <2>2, <2>3 DEF SealInv
<1> QED
  BY <1>1, <1>2, <1>3, <1>4, LandKeeps, JoinKeeps, ConcludeBatchKeeps, DiesKeeps
  DEF SealNext

LEMMA SealProves == SealInv => EvidenceIsSealed
<1> SUFFICES ASSUME SealInv PROVE EvidenceIsSealed
  OBVIOUS
<1>1. SealType /\ StageFits /\ ReaderFits /\ \A s \in Scopes : ScopeFits(s)
  BY DEF SealInv
<1>2. ASSUME NEW s \in Scopes, Whole(s)
      PROVE  /\ manifest[s] # NoFile /\ pointer[s].of = manifest[s]
             /\ \A id \in Parts(s) : Late(id) \/ manifest[s][id] = Content(id)
  BY <1>1, <1>2, SealedLoads DEF Anchored, ScopeFits, SealFits, Recorded, Tells
<1>3. Whole(Batch) => \A r \in Runs : stage[r] \in {"waiting", "sealed", "threw"}
  BY <1>1, SealedLoads, ScopesAre DEF StageFits, Frozen, Ended
<1>4. ReadersTell
  <2>1. PICK s \in Scopes : s = reader.scope
    BY <1>1 DEF ReaderFits
  <2> QED
    BY <1>1, <2>1 DEF ReaderFits, ReadersTell, Loads
<1> QED
  BY <1>2, <1>3, <1>4 DEF EvidenceIsSealed, SealsHold

\* A pointer that is whole names the manifest beside it, and that records all of its
\* scope as it is but for what comes late; a sealed batch holds no trial that was
\* neither sealed nor given up; and a command that reads a bundle accepts it, refuses
\* it and uses it as the seal says, whatever is appended, fails or dies meanwhile
\* (run.ts runBatch, trial.ts runTrial, artifacts.ts writeManifest and verify).
THEOREM SealsAreTrue == SealSpec => []EvidenceIsSealed
<1>1. SealSpec => []SealInv
  BY SealStarts, SealSteps, PTL DEF SealSpec
<1> QED
  BY <1>1, SealProves, PTL

-----------------------------------------------------------------------------
(***************************************************************************)
(* The run of a corpus. The inductive invariant: what may be under way in   *)
(* which phase, which numbers are of issues of the run, what the ledger has *)
(* of those it knows of, and how the report being written stands to the     *)
(* steps that ran.                                                          *)
(***************************************************************************)
StepMarks == {"passed", "failed", "error", "lost"}
StepReports ==
  [step : STRING, op : Operations, phase : {"main", "cleanup"}, mark : StepMarks]
RecordStatuses == {"passed", "failed", "error"}
Records == [status : RecordStatuses, steps : Seq(StepReports), provider : BOOLEAN]
CaseReports ==
  [case : Nat, status : RecordStatuses \cup {"skipped"},
   behavioral : {"pass", "fail", "not_evaluated"},
   class : {"none", "runtime_error", "provider_failure", "assertion_failure"},
   steps : Seq(StepReports)]
CaseCalls ==
  [op : {"none", "create", "reconcile", "read", "update", "unsupported"},
   number : Nat, page : Nat, retries : Nat, matches : SUBSET (Nat \X Nat)]
CaseAnswers ==
  [result : {"none", "ok", "refused", "lost", "threw", "provider_failure"},
   number : Nat]
CaseIssues == [marked : BOOLEAN, open : BOOLEAN]
Closes == [number : Nat, closed : BOOLEAN]
CaseServes == {"none", "serving", "stopped", "left"}
CasePhases == {"prepare", "main", "cleanup", "teardown"}

GithubType ==
  /\ issues \in Seq(CaseIssues)
  /\ inTransit \in Nat
  /\ requestsSent \in Nat
  /\ captured \in Seq(Nat)
  /\ ledger \in Seq(Closes)
  /\ call \in CaseCalls
  /\ answer \in CaseAnswers

EngineType ==
  /\ targetId \in {"github", "local"}
  /\ permitted \in BOOLEAN
  /\ serves \in [DOMAIN Corpus -> CaseServes]
  /\ position \in [index : Nat \ {0}, phase : CasePhases, step : Nat \ {0}]
  /\ record \in Records
  /\ stopped \in BOOLEAN
  /\ closing \in Seq(Nat)
  /\ report \in Seq(CaseReports)

\* A request is under way, or was answered, for a step of the case only.
Engaged == call # NoCall \/ answer # NoAnswer
MayEngage ==
  Running /\ Step.op # "operator" /\ (position.phase = "main" => ~stopped)

PhaseFits ==
  /\ position.index <= Len(Corpus) + 1
  /\ Len(report) = position.index - 1
  /\ Over => position.phase = "prepare"
  /\ position.phase = "prepare" => record = Fresh /\ ~stopped /\ DOMAIN bound = {}
  /\ closing # << >> => position.phase = "teardown"
  /\ Engaged => MayEngage

\* Which request a step sends, and what that may come to.
CallFits ==
  /\ call = NoCall \/ answer = NoAnswer
  /\ call.op = "none" => call = NoCall
  /\ answer.result = "none" => answer = NoAnswer
  /\ call.op \in {"create", "reconcile"} => Step.op = "create"
  /\ Engaged /\ IsPoll /\ Step.op # "read" =>
       call.op \in {"none", "unsupported"} /\ answer.result \in {"none", "threw"}

\* What only a permitted run against the provider has.
TargetFits ==
  /\ targetId = "local" =>
       /\ issues = << >> /\ inTransit = 0 /\ requestsSent = 0
       /\ captured = << >> /\ ledger = << >>
       /\ answer.result # "provider_failure"
  /\ targetId = "github" /\ position.phase # "prepare" => permitted
  /\ ~permitted => requestsSent = 0

\* The issues of the run, and where their numbers are.
Mine == {n \in DOMAIN issues : issues[n].marked}
ZeroOr(S) == S \cup {0}
Listed(s) == {s[i] : i \in DOMAIN s}
Ledgered == {ledger[i].number : i \in DOMAIN ledger}

OwnFits ==
  /\ \A n \in DOMAIN issues : ~issues[n].marked => issues[n].open
  /\ call.number \in ZeroOr(Mine)
  /\ answer.number \in ZeroOr(Mine)
  /\ \A id \in DOMAIN bound : bound[id] \in ZeroOr(Mine)
  /\ \A m \in call.matches : m[2] \in Mine
  /\ Captured \subseteq Mine
  /\ Listed(closing) \subseteq Mine
  /\ Ledgered \subseteq Mine

BudgetFits ==
  /\ requestsSent <= MaxRequests
  /\ answer.result = "provider_failure" => requestsSent = MaxRequests
  /\ record.provider => requestsSent = MaxRequests

\* What was closed stays closed; a teardown has closed what is in the ledger,
\* or its case is an error.
ClosedFits ==
  /\ \A i \in DOMAIN ledger : ledger[i].closed => ~issues[ledger[i].number].open
  /\ position.phase = "teardown" => Captured \subseteq Listed(closing) \cup Ledgered
  /\ position.phase = "prepare" /\ (\E n \in Captured : issues[n].open) => LastRunErred

\* A create that may have made an issue unseen, and is not yet reported.
Unsettled ==
  \/ call.op = "reconcile"
  \/ answer.result \in {"lost", "threw"} /\ Step.op = "create"
Told == ToldUncertain \cup {position.index} \X Uncertain(record.steps)

Owed == IF Unsettled THEN 1 ELSE 0

CountFits ==
  /\ IsFiniteSet(Told)
  /\ Cardinality(Unknown) + inTransit <= Cardinality(Told) + Owed

ServesFit ==
  \A k \in DOMAIN serves :
    /\ targetId = "github" => serves[k] = "none"
    /\ serves[k] = "serving" => k = position.index /\ position.phase # "prepare"
    /\ serves[k] = "left" => k < position.index /\ report[k].status = "error"

\* The first m steps reported are the main steps that ran.
RanFits(steps, m) ==
  /\ m <= Len(Case.main)
  /\ \A k \in 1 .. m : steps[k].phase = "main" /\ steps[k].step = Case.main[k].id
  /\ \A k \in m + 1 .. Len(steps) :
       steps[k].phase = "cleanup" /\ steps[k].step = Case.cleanup[k - m].id
CountedFits(steps, m) ==
  /\ position.phase = "main" => Len(steps) = m /\ position.step = m + 1
  /\ position.phase = "cleanup" => Len(steps) = m + position.step - 1
                                   /\ position.step <= Len(Case.cleanup) + 1
  /\ position.phase = "teardown" => Len(steps) = m + Len(Case.cleanup)
StopFits(steps, m) ==
  /\ position.phase = "main" \/ m = Len(Case.main) \/ stopped
  /\ stopped => m > 0 /\ steps[m].mark \in {"error", "failed"}
  /\ \A k \in 1 .. m : steps[k].mark = "error" => k = m /\ stopped
StatusFits(steps, m) ==
  /\ record.status = "passed" =>
       /\ \A k \in 1 .. m : steps[k].mark \in {"passed", "lost"}
       /\ \A k \in 1 .. Len(steps) : steps[k].mark # "error"
  /\ record.status = "failed" => \E k \in 1 .. m : steps[k].mark = "failed"

StepsFit(steps, m) ==
  RanFits(steps, m) /\ CountedFits(steps, m) /\ StopFits(steps, m) /\ StatusFits(steps, m)
RecordFits ==
  position.phase # "prepare" =>
    \E m \in 0 .. Len(record.steps) : StepsFit(record.steps, m)

CorpusInv ==
  /\ GithubType /\ EngineType
  /\ PhaseFits /\ CallFits /\ TargetFits /\ OwnFits /\ BudgetFits /\ ClosedFits
  /\ CountFits /\ ServesFit /\ RecordFits /\ CasesAreTrue

LEMMA Appended ==
  ASSUME NEW S, NEW s \in Seq(S), NEW e \in S
  PROVE  /\ Append(s, e) \in Seq(S)
         /\ Len(Append(s, e)) = Len(s) + 1
         /\ Len(s) \in Nat
         /\ DOMAIN s = 1 .. Len(s)
         /\ DOMAIN Append(s, e) = DOMAIN s \cup {Len(s) + 1}
         /\ Len(s) + 1 \notin DOMAIN s
         /\ \A i \in DOMAIN s : Append(s, e)[i] = s[i]
         /\ Append(s, e)[Len(s) + 1] = e
OBVIOUS

LEMMA TailFacts ==
  ASSUME NEW S, NEW s \in Seq(S), s # << >>
  PROVE  /\ Tail(s) \in Seq(S) /\ Head(s) \in S
         /\ Listed(s) = {Head(s)} \cup Listed(Tail(s))
<1>1. /\ Len(s) \in Nat /\ Len(s) > 0 /\ DOMAIN s = 1 .. Len(s)
      /\ Tail(s) \in Seq(S) /\ DOMAIN Tail(s) = 1 .. Len(s) - 1
      /\ \A i \in 1 .. Len(s) - 1 : Tail(s)[i] = s[i + 1]
      /\ Head(s) = s[1] /\ s[1] \in S
  OBVIOUS
<1>2. ASSUME NEW x \in Listed(s) PROVE x = Head(s) \/ x \in Listed(Tail(s))
  <2>1. PICK i \in 1 .. Len(s) : x = s[i] BY <1>1, <1>2 DEF Listed
  <2>2. CASE i = 1 BY <2>1, <2>2, <1>1
  <2>3. CASE i # 1
    <3>1. i - 1 \in 1 .. Len(s) - 1 /\ Tail(s)[i - 1] = s[i]
      BY <2>1, <2>3, <1>1
    <3> QED BY <3>1, <2>1, <1>1 DEF Listed
  <2> QED BY <2>2, <2>3
<1>3. ASSUME NEW x \in Listed(Tail(s)) PROVE x \in Listed(s)
  <2>1. PICK i \in 1 .. Len(s) - 1 : x = Tail(s)[i] BY <1>1, <1>3 DEF Listed
  <2>2. i + 1 \in 1 .. Len(s) /\ s[i + 1] = x BY <2>1, <1>1
  <2> QED BY <2>2, <1>1 DEF Listed
<1>4. Head(s) \in Listed(s) BY <1>1 DEF Listed
<1> QED BY <1>1, <1>2, <1>3, <1>4

LEMMA CaseTyped ==
  ASSUME EngineType, ~Over
  PROVE  /\ position.index \in DOMAIN Corpus /\ Case \in CorpusCases
         /\ Case.main \in Seq(CaseSteps) /\ Case.cleanup \in Seq(CaseSteps)
<1>1. position.index \in DOMAIN Corpus
  BY CorpusAssumption DEF EngineType, Over
<1>2. Case \in CorpusCases BY <1>1, CorpusAssumption DEF Case
<1> QED BY <1>1, <1>2 DEF CorpusCases

LEMMA StepTyped ==
  ASSUME EngineType, ~Over, Running
  PROVE  Step \in CaseSteps
<1>1. Case.main \in Seq(CaseSteps) /\ Case.cleanup \in Seq(CaseSteps)
  BY CaseTyped
<1>2. StepsOf \in Seq(CaseSteps) BY <1>1 DEF StepsOf
<1>3. position.step \in DOMAIN StepsOf BY <1>2 DEF Running, EngineType
<1> QED BY <1>2, <1>3 DEF Step

(***************************************************************************)
(* The repository only grows: no issue changes hands, none is reopened.     *)
(***************************************************************************)
Grows ==
  /\ issues' \in Seq(CaseIssues)
  /\ DOMAIN issues \subseteq DOMAIN issues'
  /\ \A n \in DOMAIN issues :
       /\ issues'[n].marked = issues[n].marked
       /\ ~issues[n].open => ~issues'[n].open

LEMMA MineGrows == ASSUME Grows PROVE Mine \subseteq Mine'
BY DEF Grows, Mine

LEMMA AppendGrows ==
  ASSUME GithubType, NEW issue \in CaseIssues, issues' = Append(issues, issue)
  PROVE  Grows
<1>1. issues \in Seq(CaseIssues) BY DEF GithubType
<1> QED BY <1>1, Appended DEF Grows

LEMMA SameGrows == ASSUME GithubType, issues' = issues PROVE Grows
BY DEF Grows, GithubType

\* Closing an issue, or none.
LEMMA ClosingGrows ==
  ASSUME GithubType, NEW n \in Nat, NEW done \in BOOLEAN, Closing(n, done)
  PROVE  /\ Grows /\ DOMAIN issues' = DOMAIN issues /\ Mine' = Mine
         /\ \A k \in DOMAIN issues : k # n => issues'[k] = issues[k]
         /\ done /\ n \in DOMAIN issues => ~issues'[n].open
<1>1. issues \in Seq(CaseIssues) BY DEF GithubType
<1>2. CASE done
  <2>1. issues' = [issues EXCEPT ![n].open = FALSE] BY <1>2 DEF Closing
  <2>2. \A k \in DOMAIN issues : issues[k] \in CaseIssues BY <1>1
  <2>3. DOMAIN issues' = DOMAIN issues BY <2>1
  <2>4. \A k \in DOMAIN issues : k # n => issues'[k] = issues[k] BY <2>1
  <2>5. n \in DOMAIN issues => issues'[n] = [issues[n] EXCEPT !.open = FALSE]
    BY <2>1
  <2>6. n \in DOMAIN issues =>
          /\ issues'[n] \in CaseIssues /\ ~issues'[n].open
          /\ issues'[n].marked = issues[n].marked
    BY <2>5, <2>2 DEF CaseIssues
  <2>7. issues' \in Seq(CaseIssues)
    <3>1. DOMAIN issues = 1 .. Len(issues) /\ Len(issues) \in Nat BY <1>1
    <3>2. issues' \in [1 .. Len(issues) -> CaseIssues]
      BY <3>1, <2>1, <2>2, <2>3, <2>4, <2>6
    <3> QED BY <3>1, <3>2
  <2>8. \A k \in DOMAIN issues :
          /\ issues'[k].marked = issues[k].marked
          /\ ~issues[k].open => ~issues'[k].open
    BY <2>4, <2>6
  <2> QED BY <2>3, <2>4, <2>6, <2>7, <2>8 DEF Grows, Mine
<1>3. CASE ~done
  <2>1. issues' = issues BY <1>3 DEF Closing
  <2> QED BY <2>1, <1>3, SameGrows DEF Mine
<1> QED BY <1>2, <1>3

(***************************************************************************)
(* Counting the issues the run does not know of.                            *)
(***************************************************************************)
LEMMA UnknownFinite ==
  ASSUME issues \in Seq(CaseIssues)
  PROVE  IsFiniteSet(Unknown) /\ Cardinality(Unknown) \in Nat
<1>1. DOMAIN issues = 1 .. Len(issues) /\ Len(issues) \in Nat OBVIOUS
<1>2. IsFiniteSet(1 .. Len(issues)) BY <1>1, FS_Interval
<1>3. Unknown \subseteq 1 .. Len(issues) BY <1>1 DEF Unknown
<1>4. IsFiniteSet(Unknown) BY <1>2, <1>3, FS_Subset
<1> QED BY <1>4, FS_CardinalityType

LEMMA UnknownAppended ==
  ASSUME GithubType, OwnFits, NEW issue \in CaseIssues,
         issues' = Append(issues, issue), captured' = captured
  PROVE  /\ Cardinality(Unknown') \in Nat
         /\ Cardinality(Unknown') <= Cardinality(Unknown) + 1
         /\ ~issue.marked => Unknown' = Unknown
<1>1. issues \in Seq(CaseIssues) BY DEF GithubType
<1> DEFINE n == Len(issues) + 1
<1>2. /\ DOMAIN issues' = DOMAIN issues \cup {n} /\ n \notin DOMAIN issues
      /\ \A k \in DOMAIN issues : issues'[k] = issues[k]
      /\ issues'[n] = issue
  BY <1>1, Appended
<1> HIDE DEF n
<1>3. Captured' = Captured BY DEF Captured
<1>4. n \notin Captured BY <1>2 DEF OwnFits, Mine
<1>5. CASE ~issue.marked
  <2>1. Unknown' = Unknown BY <1>2, <1>3, <1>5 DEF Unknown
  <2> QED BY <2>1, <1>1, UnknownFinite
<1>6. CASE issue.marked
  <2>1. Unknown' = Unknown \cup {n} BY <1>2, <1>3, <1>4, <1>6 DEF Unknown
  <2>2. n \notin Unknown BY <1>2 DEF Unknown
  <2>3. Cardinality(Unknown \cup {n}) = Cardinality(Unknown) + 1
    BY <2>2, <1>1, UnknownFinite, FS_AddElement
  <2> QED BY <2>1, <2>3, <1>6, <1>1, UnknownFinite
<1> QED BY <1>5, <1>6

LEMMA UnknownCaptured ==
  ASSUME GithubType, OwnFits, NEW issue \in CaseIssues,
         issues' = Append(issues, issue), Captured' = Captured \cup {Len(issues) + 1}
  PROVE  Unknown' = Unknown
<1>1. issues \in Seq(CaseIssues) BY DEF GithubType
<1> DEFINE n == Len(issues) + 1
<1>2. /\ DOMAIN issues' = DOMAIN issues \cup {n} /\ n \notin DOMAIN issues
      /\ \A k \in DOMAIN issues : issues'[k] = issues[k]
  BY <1>1, Appended
<1> HIDE DEF n
<1>3. Captured' = Captured \cup {n} BY DEF n
<1> QED BY <1>2, <1>3 DEF Unknown

\* An issue that is captured is no longer unknown, and none becomes so.
LEMMA UnknownShrinks ==
  ASSUME GithubType, Mine' \subseteq Mine, Captured \subseteq Captured'
  PROVE  Cardinality(Unknown') \in Nat /\ Cardinality(Unknown') <= Cardinality(Unknown)
<1>1. Unknown = Mine \ Captured BY DEF Unknown, Mine
<1>2. Unknown' = Mine' \ Captured' BY DEF Unknown, Mine
<1>3. Unknown' \subseteq Unknown BY <1>1, <1>2
<1>4. IsFiniteSet(Unknown) BY UnknownFinite DEF GithubType
<1> QED BY <1>3, <1>4, FS_Subset, FS_CardinalityType

LEMMA CaptureFits ==
  ASSUME GithubType, NEW n \in Nat, Capture(n)
  PROVE  /\ captured' \in Seq(Nat) /\ Captured' = Captured \cup {n}
<1>1. captured \in Seq(Nat) BY DEF GithubType
<1>2. CASE n \in Captured BY <1>1, <1>2 DEF Capture, Captured
<1>3. CASE n \notin Captured
  <2>1. captured' = Append(captured, n) BY <1>3 DEF Capture
  <2> QED BY <2>1, <1>1, Appended DEF Captured
<1> QED BY <1>2, <1>3

(***************************************************************************)
(* The requests of the provider adapter.                                    *)
(***************************************************************************)
LEMMA EngineSame ==
  ASSUME UNCHANGED engineVars
  PROVE  /\ Step' = Step /\ Running' = Running /\ IsPoll' = IsPoll /\ Over' = Over
         /\ Case' = Case /\ Told' = Told
<1> USE DEF engineVars
<1>1. Case' = Case BY DEF Case
<1>2. StepsOf' = StepsOf BY <1>1 DEF StepsOf
<1>3. Step' = Step BY <1>2 DEF Step
<1>4. Running' = Running BY <1>2 DEF Running
<1>5. IsPoll' = IsPoll BY <1>3 DEF IsPoll
<1>6. Over' = Over BY DEF Over
<1>7. Told' = Told BY DEF Told, ToldUncertain, Uncertain
<1> QED BY <1>1, <1>3, <1>4, <1>5, <1>6, <1>7

LEMMA CasesStay ==
  ASSUME CasesAreTrue, UNCHANGED report, GithubType, GithubType', BudgetFits,
         requestsSent <= requestsSent', requestsSent' <= MaxRequests
  PROVE  CasesAreTrue'
<1>1. requestsSent = MaxRequests => requestsSent' = MaxRequests
  BY CorpusAssumption DEF GithubType
<1>2. ASSUME NEW i \in DOMAIN report, NEW m \in 0 .. Len(report[i].steps),
             Agrees(report[i], Corpus[i], m)
      PROVE  Agrees(report[i], Corpus[i], m)'
  BY <1>1, <1>2 DEF Agrees
<1> QED BY <1>2 DEF CasesAreTrue

LEMMA Sent ==
  ASSUME CorpusInv, UNCHANGED engineVars, Grows, GithubType',
         ledger' = ledger,
         Engaged' => Engaged \/ MayEngage,
         captured' = captured \/ Engaged,
         CallFits', CountFits',
         \A n \in DOMAIN issues' : ~issues'[n].marked => issues'[n].open,
         call'.number \in ZeroOr(Mine'), answer'.number \in ZeroOr(Mine'),
         \A m \in call'.matches : m[2] \in Mine',
         Captured' \subseteq Mine',
         requestsSent <= requestsSent', requestsSent' <= MaxRequests,
         answer'.result = "provider_failure" => requestsSent' = MaxRequests,
         permitted \/ requestsSent' = requestsSent,
         targetId = "local" =>
           /\ UNCHANGED <<issues, inTransit, requestsSent, captured>>
           /\ answer'.result # "provider_failure"
  PROVE  CorpusInv'
<1> USE DEF engineVars
<1>0. /\ GithubType /\ EngineType /\ PhaseFits /\ CallFits /\ TargetFits /\ OwnFits
      /\ BudgetFits /\ ClosedFits /\ CountFits /\ ServesFit /\ RecordFits /\ CasesAreTrue
  BY DEF CorpusInv
<1>1. /\ Step' = Step /\ Running' = Running /\ Over' = Over /\ Case' = Case
  BY EngineSame
<1>2. EngineType' BY <1>0 DEF EngineType
<1>3. PhaseFits' BY <1>0, <1>1 DEF PhaseFits, MayEngage
<1>4. TargetFits' BY <1>0 DEF TargetFits
<1>5. OwnFits'
  <2>1. Mine \subseteq Mine' BY MineGrows
  <2>2. \A id \in DOMAIN bound' : bound'[id] \in ZeroOr(Mine')
    BY <1>0, <2>1 DEF OwnFits, ZeroOr
  <2>3. Listed(closing') \subseteq Mine' BY <1>0, <2>1 DEF OwnFits, Listed
  <2>4. Ledgered' \subseteq Mine' BY <1>0, <2>1 DEF OwnFits, Ledgered
  <2> QED BY <2>2, <2>3, <2>4 DEF OwnFits
<1>6. requestsSent = MaxRequests => requestsSent' = MaxRequests
  BY CorpusAssumption DEF GithubType
<1>7. BudgetFits' BY <1>0, <1>6 DEF BudgetFits
<1>8. ClosedFits'
  <2>1. \A i \in DOMAIN ledger' : ledger'[i].closed => ~issues'[ledger'[i].number].open
    <3>1. \A i \in DOMAIN ledger : ledger[i].number \in DOMAIN issues
      BY <1>0 DEF OwnFits, Ledgered, Mine
    <3> QED BY <1>0, <3>1 DEF ClosedFits, Grows
  <2>2. position.phase \in {"prepare", "teardown"} => captured' = captured
    BY <1>0 DEF PhaseFits, MayEngage, Running
  <2>3. position.phase = "teardown" => Captured' \subseteq Listed(closing') \cup Ledgered'
    BY <2>2, <1>0 DEF ClosedFits, Captured, Ledgered, Listed
  <2>4. LastRunErred' = LastRunErred BY DEF LastRunErred
  <2>5. ASSUME position.phase = "prepare", NEW n \in Captured', issues'[n].open
        PROVE  LastRunErred
    <3>1. n \in Captured BY <2>2, <2>5 DEF Captured
    <3>2. n \in DOMAIN issues BY <3>1, <1>0 DEF OwnFits, Mine
    <3>3. issues[n].open
      <4>1. issues[n] \in CaseIssues BY <3>2, <1>0 DEF GithubType
      <4>2. issues[n].open \in BOOLEAN BY <4>1 DEF CaseIssues
      <4> QED BY <3>2, <2>5, <4>2 DEF Grows
    <3> QED BY <3>1, <3>3, <2>5, <1>0 DEF ClosedFits
  <2> QED BY <2>1, <2>3, <2>4, <2>5 DEF ClosedFits
<1>9. ServesFit' BY <1>0 DEF ServesFit
<1>10. RecordFits'
  BY <1>0, <1>1 DEF RecordFits, StepsFit, RanFits, CountedFits, StopFits, StatusFits
<1>11. CasesAreTrue' BY <1>0, CasesStay
<1> QED
  BY <1>2, <1>3, <1>4, <1>5, <1>7, <1>8, <1>9, <1>10, <1>11 DEF CorpusInv

LEMMA Tallied ==
  ASSUME GithubType, BudgetFits, NEW end \in Ends, Counted(end)
  PROVE  /\ requestsSent' \in Nat
         /\ requestsSent <= requestsSent' /\ requestsSent' <= MaxRequests
         /\ end = "exhausted" => requestsSent' = MaxRequests
         /\ end \in {"exhausted", "lost", "limited", "refused", "cut", "ok"}
         /\ \A done \in TookEffect(end) :
              /\ done \in BOOLEAN
              /\ end = "ok" => done
              /\ end \in {"exhausted", "limited", "refused"} => ~done
         /\ end # "lost" => Result(end) \in {"ok", "refused", "threw", "provider_failure"}
         /\ Result(end) = "provider_failure" => end = "exhausted"
         /\ Result(end) = "threw" => end = "cut"
<1>1. end \in {"exhausted", "lost", "limited", "refused", "cut", "ok"} BY DEF Ends
<1>2. /\ requestsSent' \in Nat
      /\ requestsSent <= requestsSent' /\ requestsSent' <= MaxRequests
      /\ end = "exhausted" => requestsSent' = MaxRequests
  <2>1. requestsSent \in Nat /\ MaxRequests \in Nat /\ requestsSent <= MaxRequests
    BY CorpusAssumption DEF GithubType, BudgetFits
  <2>2. CASE requestsSent >= MaxRequests
    <3>1. end = "exhausted" BY <2>2 DEF Ends
    <3>2. requestsSent' = requestsSent BY <3>1 DEF Counted
    <3> QED BY <3>2, <2>1, <2>2
  <2>3. CASE ~(requestsSent >= MaxRequests)
    <3>1. end # "exhausted" BY <2>3 DEF Ends
    <3>2. requestsSent' = requestsSent \/ requestsSent' = requestsSent + 1
      BY DEF Counted
    <3> QED BY <3>1, <3>2, <2>1, <2>3
  <2> QED BY <2>2, <2>3
<1>3. ASSUME NEW done \in TookEffect(end)
      PROVE  /\ done \in BOOLEAN
             /\ end = "ok" => done
             /\ end \in {"exhausted", "limited", "refused"} => ~done
  <2>1. CASE end \in {"ok", "cut"}
    <3>1. TookEffect(end) = {TRUE} BY <2>1 DEF TookEffect
    <3>2. done = TRUE BY <3>1, <1>3
    <3> QED BY <3>2, <2>1
  <2>2. CASE end = "lost"
    <3>1. TookEffect(end) = BOOLEAN BY <2>2 DEF TookEffect
    <3> QED BY <3>1, <1>3, <2>2
  <2>3. CASE end \notin {"ok", "cut", "lost"}
    <3>1. TookEffect(end) = {FALSE} BY <2>3 DEF TookEffect
    <3>2. done = FALSE BY <3>1, <1>3
    <3> QED BY <3>2, <2>3
  <2> QED BY <2>1, <2>2, <2>3
<1>4. /\ end # "lost" => Result(end) \in {"ok", "refused", "threw", "provider_failure"}
      /\ Result(end) = "provider_failure" => end = "exhausted"
      /\ Result(end) = "threw" => end = "cut"
  BY <1>1 DEF Result
<1> QED BY <1>1, <1>2, <1>3, <1>4

LEMMA SendCreateFits ==
  ASSUME CorpusInv, UNCHANGED engineVars, targetId = "github", SendCreate
  PROVE  CorpusInv'
<1>0. /\ GithubType /\ EngineType /\ PhaseFits /\ CallFits /\ TargetFits /\ OwnFits
      /\ BudgetFits /\ ClosedFits /\ CountFits
  BY DEF CorpusInv
<1> DEFINE new == Len(issues) + 1
           Sends(end, done) ==
             /\ Counted(end)
             /\ issues' = IF done THEN Append(issues, Ours) ELSE issues
             /\ IF end = "ok" THEN Capture(IF done THEN new ELSE 0)
                ELSE captured' = captured
             /\ IF end = "lost"
                THEN /\ call' = Request("reconcile", 0)
                     /\ \E late \in IF done THEN {0} ELSE {0, 1} :
                          inTransit' = inTransit + late
                     /\ answer' = answer
                ELSE /\ Answered(Result(end), IF done THEN new ELSE 0)
                     /\ inTransit' = inTransit
<1>a. PICK end \in Ends : \E done \in TookEffect(end) : Sends(end, done)
  BY DEF SendCreate
<1>b. PICK done \in TookEffect(end) : Sends(end, done) BY <1>a
<1>1. Sends(end, done) BY <1>b
<1>2. /\ call.op = "create" /\ ledger' = ledger BY DEF SendCreate
<1>3. /\ requestsSent' \in Nat
      /\ requestsSent <= requestsSent' /\ requestsSent' <= MaxRequests
      /\ end = "exhausted" => requestsSent' = MaxRequests
      /\ end \in {"exhausted", "lost", "limited", "refused", "cut", "ok"}
      /\ done \in BOOLEAN
      /\ end = "ok" => done
      /\ end \in {"exhausted", "limited", "refused"} => ~done
      /\ end # "lost" => Result(end) \in {"ok", "refused", "threw", "provider_failure"}
      /\ Result(end) = "provider_failure" => end = "exhausted"
      /\ Result(end) = "threw" => end = "cut"
  <2>1. Counted(end) BY <1>1
  <2> HIDE DEF Sends
  <2> QED BY <1>0, <2>1, <1>b, Tallied
<1>4. /\ call # NoCall /\ Engaged /\ answer = NoAnswer /\ Running /\ Step.op = "create"
      /\ ~(IsPoll /\ Step.op # "read") /\ ~Unsettled /\ permitted
  <2>1. call # NoCall BY <1>2 DEF NoCall, Request
  <2>2. Engaged /\ answer = NoAnswer /\ Running /\ Step.op = "create"
    BY <2>1, <1>2, <1>0 DEF Engaged, CallFits, PhaseFits, MayEngage
  <2>3. ~(IsPoll /\ Step.op # "read") BY <2>2, <1>2, <1>0 DEF CallFits
  <2>4. ~Unsettled BY <2>2, <1>2 DEF Unsettled, NoAnswer
  <2>5. permitted BY <2>2, <1>0 DEF TargetFits, Running
  <2> QED BY <2>1, <2>2, <2>3, <2>4, <2>5
<1>5. Ours \in CaseIssues /\ Ours.marked BY DEF Ours, CaseIssues
<1>6. issues \in Seq(CaseIssues) /\ new \in Nat /\ new # 0 BY <1>0 DEF GithubType
<1>7. Grows
  <2>1. CASE done BY <2>1, <1>1, <1>5, <1>0, AppendGrows
  <2>2. CASE ~done BY <2>2, <1>1, <1>0, SameGrows
  <2> QED BY <2>1, <2>2, <1>3
<1>8. done => /\ new \in Mine' /\ Mine' = Mine \cup {new}
              /\ DOMAIN issues' = DOMAIN issues \cup {new}
              /\ \A k \in DOMAIN issues : issues'[k] = issues[k]
  <2>1. ASSUME done PROVE issues' = Append(issues, Ours) BY <2>1, <1>1
  <2>2. ASSUME done
        PROVE /\ DOMAIN issues' = DOMAIN issues \cup {new}
              /\ \A k \in DOMAIN issues : issues'[k] = issues[k]
              /\ issues'[new] = Ours
    BY <2>1, <2>2, <1>5, <1>6, Appended
  <2>3. new \notin DOMAIN issues BY <1>6
  <2> QED BY <2>2, <2>3, <1>5 DEF Mine
<1>9. ~done => issues' = issues /\ Mine' = Mine BY <1>1 DEF Mine
<1> HIDE DEF new
<1>10. /\ captured' \in Seq(Nat) /\ Captured \subseteq Captured'
       /\ Captured' \subseteq Mine'
       /\ end = "ok" => Captured' = Captured \cup {new}
       /\ end # "ok" => captured' = captured /\ Captured' = Captured
  <2>1. CASE end = "ok"
    <3>1. Capture(new) BY <2>1, <1>1, <1>3
    <3>2. captured' \in Seq(Nat) /\ Captured' = Captured \cup {new}
      BY <3>1, <1>0, <1>6, CaptureFits
    <3> QED BY <3>2, <2>1, <1>3, <1>8, <1>7, MineGrows, <1>0 DEF OwnFits
  <2>2. CASE end # "ok"
    <3>1. captured' = captured BY <2>2, <1>1
    <3>2. captured \in Seq(Nat) BY <1>0 DEF GithubType
    <3> QED BY <3>1, <3>2, <2>2, <1>7, MineGrows, <1>0 DEF OwnFits, Captured
  <2> QED BY <2>1, <2>2
<1>11. /\ call' \in CaseCalls /\ answer' \in CaseAnswers /\ inTransit' \in Nat
       /\ call'.number = 0 /\ call'.matches = {}
       /\ call' = NoCall \/ (call' = Request("reconcile", 0) /\ answer' = NoAnswer)
       /\ call'.op \in {"none", "reconcile"}
       /\ call'.op = "none" => call' = NoCall
       /\ answer'.result = "none" => answer' = NoAnswer
       /\ answer'.number = 0 \/ (done /\ answer'.number = new)
       /\ answer'.result \in {"provider_failure"} => end = "exhausted"
       /\ end = "lost" => call'.op = "reconcile"
       /\ end = "cut" => answer'.result = "threw"
  <2>0. Request("reconcile", 0) \in CaseCalls /\ NoCall \in CaseCalls
    BY DEF Request, NoCall, CaseCalls
  <2>1. CASE end = "lost"
    <3>1. call' = Request("reconcile", 0) /\ answer' = NoAnswer /\ inTransit' \in Nat
      BY <2>1, <1>1, <1>4, <1>0, <1>3 DEF GithubType
    <3>2. answer' \in CaseAnswers BY <3>1 DEF NoAnswer, CaseAnswers
    <3> QED BY <3>1, <3>2, <2>0, <2>1 DEF Request, NoAnswer
  <2>2. CASE end # "lost"
    <3>1. /\ call' = NoCall /\ inTransit' = inTransit
          /\ answer' = [result |-> Result(end), number |-> IF done THEN new ELSE 0]
      BY <2>2, <1>1 DEF Answered, new
    <3>2. answer' \in CaseAnswers /\ answer'.result = Result(end)
      BY <3>1, <2>2, <1>3, <1>6 DEF CaseAnswers
    <3>3. end = "cut" => Result(end) = "threw" BY DEF Result
    <3> QED BY <3>1, <3>2, <3>3, <2>0, <2>2, <1>3, <1>0 DEF NoCall, Request, GithubType
  <2> QED BY <2>1, <2>2
<1>12. GithubType'
  BY <1>0, <1>2, <1>3, <1>7, <1>10, <1>11 DEF GithubType, Grows
<1>13. /\ Step' = Step /\ IsPoll' = IsPoll /\ Told' = Told BY EngineSame
<1>14. CallFits' BY <1>11, <1>13, <1>4 DEF CallFits, NoCall, Request
<1>15. CountFits'
  <2>1. /\ Cardinality(Unknown) \in Nat /\ inTransit \in Nat
        /\ Cardinality(Unknown) + inTransit <= Cardinality(Told)
        /\ Cardinality(Told) \in Nat /\ IsFiniteSet(Told)
    <3>1. Owed = 0 BY <1>4 DEF Owed
    <3>2. IsFiniteSet(Told) BY <1>0 DEF CountFits
    <3> QED BY <3>1, <3>2, <1>0, <1>6, UnknownFinite, FS_CardinalityType
         DEF CountFits, GithubType
  <2>2. Owed' \in {0, 1} BY DEF Owed
  <2>3. CASE end = "ok"
    <3>1. issues' = Append(issues, Ours) /\ Captured' = Captured \cup {Len(issues) + 1}
      BY <2>3, <1>1, <1>3, <1>10 DEF new
    <3>2. Unknown' = Unknown BY <3>1, <1>0, <1>5, UnknownCaptured
    <3>3. inTransit' = inTransit BY <2>3, <1>1
    <3> QED BY <2>1, <2>2, <3>2, <3>3, <1>13 DEF CountFits
  <2>4. CASE end # "ok" /\ done
    <3>1. issues' = Append(issues, Ours) /\ captured' = captured
      BY <2>4, <1>1, <1>10
    <3>2. Cardinality(Unknown') \in Nat /\ Cardinality(Unknown') <= Cardinality(Unknown) + 1
      BY <3>1, <1>0, <1>5, UnknownAppended
    <3>3. inTransit' = inTransit BY <2>4, <1>1, <1>0 DEF GithubType
    <3>4. end \in {"lost", "cut"} BY <2>4, <1>3
    <3>5. Unsettled' BY <3>4, <1>11, <1>13, <1>4 DEF Unsettled
    <3>6. Owed' = 1 BY <3>5 DEF Owed
    <3> QED BY <2>1, <3>2, <3>3, <3>6, <1>13 DEF CountFits
  <2>5. CASE end # "ok" /\ ~done
    <3>1. Unknown' = Unknown BY <2>5, <1>9, <1>10 DEF Unknown
    <3>2. CASE end = "lost"
      <4>1. inTransit' \in Nat /\ inTransit' <= inTransit + 1
        BY <3>2, <2>5, <1>1, <2>1
      <4>2. Unsettled' BY <3>2, <1>11 DEF Unsettled
      <4>3. Owed' = 1 BY <4>2 DEF Owed
      <4> QED BY <2>1, <3>1, <4>1, <4>3, <1>13 DEF CountFits
    <3>3. CASE end # "lost"
      <4>1. inTransit' = inTransit BY <3>3, <1>1
      <4> QED BY <2>1, <2>2, <3>1, <4>1, <1>13 DEF CountFits
    <3> QED BY <3>2, <3>3
  <2> QED BY <2>3, <2>4, <2>5
<1>16. \A n \in DOMAIN issues' : ~issues'[n].marked => issues'[n].open
  BY <1>0, <1>8, <1>9 DEF OwnFits, Mine
<1>17. call'.number \in ZeroOr(Mine') /\ answer'.number \in ZeroOr(Mine')
  BY <1>11, <1>8 DEF ZeroOr
<1> QED
  BY Sent, <1>2, <1>3, <1>4, <1>7, <1>10, <1>11, <1>12, <1>14, <1>15, <1>16, <1>17

LEMMA OwedIs ==
  ASSUME CountFits, GithubType
  PROVE  /\ Cardinality(Unknown) \in Nat /\ inTransit \in Nat
         /\ Cardinality(Told) \in Nat /\ IsFiniteSet(Told)
         /\ Cardinality(Unknown) + inTransit <= Cardinality(Told) + Owed
         /\ Owed \in {0, 1} /\ (Owed = 1 <=> Unsettled)
<1>1. IsFiniteSet(Told) BY DEF CountFits
<1>2. Owed \in {0, 1} /\ (Owed = 1 <=> Unsettled) BY DEF Owed
<1> QED BY <1>1, <1>2, UnknownFinite, FS_CardinalityType DEF CountFits, GithubType

LEMMA SendReconcileFits ==
  ASSUME CorpusInv, UNCHANGED engineVars, targetId = "github", SendReconcile
  PROVE  CorpusInv'
<1>0. /\ GithubType /\ EngineType /\ PhaseFits /\ CallFits /\ TargetFits /\ OwnFits
      /\ BudgetFits /\ ClosedFits /\ CountFits
  BY DEF CorpusInv
<1> DEFINE page == Page(call.page)
           found == call.matches \cup {call.page} \X Marked(page)
           Sends(end) ==
             /\ Counted(end)
             /\ \/ /\ end = "limited" /\ call.retries < MaxReadRetries
                   /\ call' = [call EXCEPT !.retries = @ + 1]
                   /\ UNCHANGED <<captured, answer>>
                \/ /\ end \in {"exhausted", "lost", "limited", "refused"}
                   /\ Answered("lost", 0) /\ UNCHANGED captured
                \/ end = "cut" /\ Answered("threw", 0) /\ UNCHANGED captured
                \/ /\ end = "ok"
                   /\ call' = [call EXCEPT !.page = @ + 1, !.retries = 0,
                                           !.matches = found]
                   /\ UNCHANGED <<captured, answer>>
                \/ /\ end = "ok"
                   /\ CaptureUnique(found) /\ Answered("lost", 0)
<1>b. PICK end \in Ends : Sends(end)
  BY DEF SendReconcile
<1>2. /\ call.op = "reconcile" /\ UNCHANGED <<issues, inTransit, ledger>>
  BY DEF SendReconcile
<1>3. /\ requestsSent' \in Nat
      /\ requestsSent <= requestsSent' /\ requestsSent' <= MaxRequests
  <2>1. Counted(end) BY <1>b
  <2> HIDE DEF Sends
  <2> QED BY <1>0, <2>1, <1>b, Tallied
<1>4. /\ call # NoCall /\ Engaged /\ answer = NoAnswer /\ Running /\ Step.op = "create"
      /\ ~(IsPoll /\ Step.op # "read") /\ Unsettled /\ permitted
  <2>1. call # NoCall BY <1>2 DEF NoCall, Request
  <2>2. Engaged /\ answer = NoAnswer /\ Running /\ Step.op = "create"
    BY <2>1, <1>2, <1>0 DEF Engaged, CallFits, PhaseFits, MayEngage
  <2>3. ~(IsPoll /\ Step.op # "read") BY <2>2, <1>2, <1>0 DEF CallFits
  <2>5. permitted BY <2>2, <1>0 DEF TargetFits, Running
  <2> QED BY <2>1, <2>2, <2>3, <2>5, <1>2 DEF Unsettled
<1>5. Grows /\ Mine' = Mine BY <1>0, <1>2, SameGrows DEF Mine
<1>6. /\ call \in CaseCalls /\ issues \in Seq(CaseIssues) /\ DOMAIN issues \subseteq Nat
      /\ captured \in Seq(Nat)
  BY <1>0 DEF GithubType
<1>7. Marked(page) \subseteq Mine BY DEF Marked, Page, Mine
<1>8. found \in SUBSET (Nat \X Nat) /\ \A m \in found : m[2] \in Mine
  <2>1. call.matches \in SUBSET (Nat \X Nat) /\ call.page \in Nat
    BY <1>6 DEF CaseCalls
  <2>2. Mine \subseteq Nat BY <1>6 DEF Mine
  <2>3. \A m \in call.matches : m[2] \in Mine BY <1>0 DEF OwnFits
  <2> HIDE DEF page
  <2>4. {call.page} \X Marked(page) \subseteq Nat \X Nat BY <2>1, <2>2, <1>7
  <2>5. \A m \in {call.page} \X Marked(page) : m[2] \in Mine BY <1>7
  <2> QED BY <2>1, <2>3, <2>4, <2>5
<1> HIDE DEF page, found
<1>9. /\ captured' \in Seq(Nat) /\ Captured \subseteq Captured' /\ Captured' \subseteq Mine
  <2>0. Captured \subseteq Mine BY <1>0 DEF OwnFits
  <2>1. CASE captured' = captured BY <2>1, <2>0, <1>6 DEF Captured
  <2>2. CASE CaptureUnique(found) /\ captured' # captured
    <3>1. PICK m \in found : Capture(m[2]) BY <2>2 DEF CaptureUnique
    <3>2. m[2] \in Nat /\ m[2] \in Mine BY <1>8, <3>1
    <3>3. captured' \in Seq(Nat) /\ Captured' = Captured \cup {m[2]}
      BY <3>1, <3>2, <1>0, CaptureFits
    <3> QED BY <3>2, <3>3, <2>0
  <2> QED BY <2>1, <2>2, <1>b
<1>10. /\ call' \in CaseCalls /\ answer' \in CaseAnswers
       /\ call'.op \in {"none", "reconcile"}
       /\ call'.op = "none" => call' = NoCall
       /\ call' = NoCall \/ answer' = NoAnswer
       /\ answer'.result \in {"none", "lost", "threw"}
       /\ answer'.result = "none" => answer' = NoAnswer
       /\ call'.op = "reconcile" \/ answer'.result \in {"lost", "threw"}
       /\ call'.number = call.number \/ call'.number = 0
       /\ answer'.number = 0
       /\ \A m \in call'.matches : m[2] \in Mine
  <2>1. NoCall \in CaseCalls /\ NoCall.op = "none" /\ NoCall.number = 0 /\ NoCall.matches = {}
    BY DEF NoCall, Request, CaseCalls
  <2>2. /\ NoAnswer \in CaseAnswers /\ NoAnswer.result = "none" /\ NoAnswer.number = 0
    BY DEF NoAnswer, CaseAnswers
  <2>3. \A m \in call.matches : m[2] \in Mine BY <1>0 DEF OwnFits
  <2>4. CASE call' = NoCall /\ answer' \in {[result |-> "lost", number |-> 0],
                                           [result |-> "threw", number |-> 0]}
    <3>1. answer' \in CaseAnswers /\ answer'.number = 0 /\ answer'.result \in {"lost", "threw"}
      BY <2>4 DEF CaseAnswers
    <3> QED BY <3>1, <2>1, <2>4
  <2>5. CASE call' = [call EXCEPT !.retries = @ + 1] /\ answer' = answer
    <3>0. call.retries \in Nat BY <1>6 DEF CaseCalls
    <3>1. /\ call' \in CaseCalls /\ call'.op = call.op /\ call'.number = call.number
          /\ call'.matches = call.matches
      <4>1. call.retries + 1 \in Nat BY <3>0
      <4>2. call' = [call EXCEPT !.retries = call.retries + 1] BY <2>5
      <4> DEFINE r == call.retries + 1
      <4> HIDE DEF r
      <4>3. r \in Nat /\ call' = [call EXCEPT !.retries = r] BY <4>1, <4>2 DEF r
      <4> QED BY <4>3, <1>6 DEF CaseCalls
    <3> QED BY <3>1, <2>2, <2>3, <2>5, <1>2, <1>4
  <2>6. CASE /\ call' = [call EXCEPT !.page = @ + 1, !.retries = 0, !.matches = found]
             /\ answer' = answer
    <3>1. /\ call' \in CaseCalls /\ call'.op = call.op /\ call'.number = call.number
          /\ call'.matches = found
      <4>1. call.page + 1 \in Nat BY <1>6 DEF CaseCalls
      <4>2. call' = [call EXCEPT !.page = call.page + 1, !.retries = 0, !.matches = found]
        BY <2>6
      <4> DEFINE p == call.page + 1
      <4> HIDE DEF p
      <4>3. p \in Nat /\ call' = [call EXCEPT !.page = p, !.retries = 0, !.matches = found]
        BY <4>1, <4>2 DEF p
      <4>4. found \in SUBSET (Nat \X Nat) BY <1>8
      <4> QED BY <4>3, <4>4, <1>6 DEF CaseCalls
    <3> QED BY <3>1, <2>2, <2>6, <1>2, <1>4, <1>8
  <2>7. Sends(end) BY <1>b
  <2> QED BY <2>4, <2>5, <2>6, <2>7 DEF Answered
<1> HIDE DEF Sends
<1>11. GithubType' BY <1>0, <1>2, <1>3, <1>9, <1>10 DEF GithubType
<1>12. /\ Step' = Step /\ IsPoll' = IsPoll /\ Told' = Told BY EngineSame
<1>13. CallFits' BY <1>10, <1>12, <1>4 DEF CallFits
<1>14. CountFits'
  <2>1. Unsettled' BY <1>10, <1>12, <1>4 DEF Unsettled
  <2>2. Owed = 1 /\ Owed' = 1 BY <2>1, <1>4 DEF Owed
  <2>3. Cardinality(Unknown') \in Nat /\ Cardinality(Unknown') <= Cardinality(Unknown)
    BY <1>0, <1>5, <1>9, UnknownShrinks
  <2>4. inTransit' = inTransit BY <1>2
  <2> QED BY <2>2, <2>3, <2>4, <1>0, <1>12, OwedIs DEF CountFits
<1>15. \A n \in DOMAIN issues' : ~issues'[n].marked => issues'[n].open
  BY <1>0, <1>2 DEF OwnFits
<1>16. call'.number \in ZeroOr(Mine') /\ answer'.number \in ZeroOr(Mine')
  BY <1>10, <1>5, <1>0 DEF ZeroOr, OwnFits
<1>17. answer'.result # "provider_failure" BY <1>10
<1> QED
  BY Sent, <1>2, <1>3, <1>4, <1>5, <1>9, <1>10, <1>11, <1>13, <1>14, <1>15, <1>16, <1>17

LEMMA Refills ==
  ASSUME NEW result \in {"ok", "refused", "threw", "provider_failure", "lost"},
         NEW n \in Nat, Answered(result, n)
  PROVE  /\ call' = NoCall /\ call' \in CaseCalls /\ answer' \in CaseAnswers
         /\ call'.op = "none" /\ call'.number = 0 /\ call'.matches = {}
         /\ answer'.result = result /\ answer'.number = n /\ answer' # NoAnswer
<1>1. call' = NoCall /\ answer' = [result |-> result, number |-> n] BY DEF Answered
<1>2. answer' \in CaseAnswers /\ answer'.result = result /\ answer'.number = n
  BY <1>1 DEF CaseAnswers
<1>3. answer' # NoAnswer BY <1>2 DEF NoAnswer
<1>4. /\ NoCall \in CaseCalls /\ NoCall.op = "none" /\ NoCall.number = 0
      /\ NoCall.matches = {}
  BY DEF NoCall, Request, CaseCalls
<1> QED BY <1>1, <1>2, <1>3, <1>4

\* A request that captures nothing and creates nothing.
LEMMA Plain ==
  ASSUME CorpusInv, UNCHANGED engineVars, targetId = "github",
         call.op \in {"read", "update", "unsupported"},
         call' \in CaseCalls, answer' \in CaseAnswers, CallFits',
         call'.number \in {0, call.number}, answer'.number = 0,
         call'.matches \subseteq call.matches,
         requestsSent' \in Nat, requestsSent <= requestsSent', requestsSent' <= MaxRequests,
         answer'.result = "provider_failure" => requestsSent' = MaxRequests,
         NEW done \in BOOLEAN, Closing(call.number, done),
         UNCHANGED <<inTransit, captured, ledger>>
  PROVE  CorpusInv'
<1>0. /\ GithubType /\ EngineType /\ PhaseFits /\ CallFits /\ TargetFits /\ OwnFits
      /\ BudgetFits /\ ClosedFits /\ CountFits
  BY DEF CorpusInv
<1>1. call \in CaseCalls /\ call.number \in Nat BY <1>0 DEF GithubType, CaseCalls
<1>2. /\ Grows /\ DOMAIN issues' = DOMAIN issues /\ Mine' = Mine
      /\ \A k \in DOMAIN issues : k # call.number => issues'[k] = issues[k]
  BY <1>0, <1>1, ClosingGrows
<1>3. Engaged /\ permitted /\ ~Unsettled
  <2>1. call # NoCall BY DEF NoCall, Request
  <2>2. Engaged /\ answer = NoAnswer /\ Running BY <2>1, <1>0 DEF Engaged, CallFits, PhaseFits, MayEngage
  <2>3. permitted BY <2>2, <1>0 DEF TargetFits, Running
  <2>4. ~Unsettled BY <2>2 DEF Unsettled, NoAnswer
  <2> QED BY <2>2, <2>3, <2>4
<1>4. GithubType' BY <1>0, <1>2 DEF GithubType, Grows
<1>5. Told' = Told BY EngineSame
<1>6. CountFits'
  <2>1. Cardinality(Unknown') \in Nat /\ Cardinality(Unknown') <= Cardinality(Unknown)
    <3>1. Captured' = Captured BY DEF Captured
    <3> QED BY <3>1, <1>2, <1>0, UnknownShrinks
  <2>2. Owed = 0 /\ Owed' \in {0, 1} BY <1>3 DEF Owed
  <2> QED BY <2>1, <2>2, <1>0, <1>5, OwedIs DEF CountFits
<1>7. \A n \in DOMAIN issues' : ~issues'[n].marked => issues'[n].open
  <2>1. call.number \in ZeroOr(Mine) BY <1>0 DEF OwnFits
  <2>2. ASSUME NEW n \in DOMAIN issues', ~issues'[n].marked PROVE issues'[n].open
    <3>1. n \in DOMAIN issues /\ n \notin Mine' BY <2>2, <1>2 DEF Mine
    <3>2. n # 0 BY <3>1, <1>0 DEF GithubType
    <3>3. n # call.number BY <3>1, <3>2, <2>1, <1>2 DEF ZeroOr
    <3>4. issues'[n] = issues[n] BY <3>1, <3>3, <1>2
    <3> QED BY <3>1, <3>4, <2>2, <1>0 DEF OwnFits
  <2> QED BY <2>2
<1>8. call'.number \in ZeroOr(Mine') /\ answer'.number \in ZeroOr(Mine')
  BY <1>0, <1>2 DEF ZeroOr, OwnFits
<1>9. \A m \in call'.matches : m[2] \in Mine' BY <1>0, <1>2 DEF OwnFits
<1>10. Captured' \subseteq Mine' BY <1>0, <1>2 DEF OwnFits, Captured
<1> QED
  BY Sent, <1>2, <1>3, <1>4, <1>6, <1>7, <1>8, <1>9, <1>10

LEMMA PlainAnswer ==
  ASSUME CorpusInv, UNCHANGED engineVars, targetId = "github",
         call.op \in {"read", "update", "unsupported"},
         NEW result \in {"ok", "refused", "threw", "provider_failure", "lost"},
         Answered(result, 0),
         call.op = "unsupported" => result = "threw",
         requestsSent' \in Nat, requestsSent <= requestsSent', requestsSent' <= MaxRequests,
         result = "provider_failure" => requestsSent' = MaxRequests,
         NEW done \in BOOLEAN, Closing(call.number, done),
         UNCHANGED <<inTransit, captured, ledger>>
  PROVE  CorpusInv'
<1>1. /\ call' = NoCall /\ call' \in CaseCalls /\ answer' \in CaseAnswers
      /\ call'.op = "none" /\ call'.number = 0 /\ call'.matches = {}
      /\ answer'.result = result /\ answer'.number = 0 /\ answer' # NoAnswer
  BY Refills
<1>2. /\ Step' = Step /\ IsPoll' = IsPoll BY EngineSame
<1>3. Engaged
  <2>1. call # NoCall BY DEF NoCall, Request
  <2> QED BY <2>1 DEF Engaged
<1>4. IsPoll /\ Step.op # "read" => result = "threw"
  BY <1>3 DEF CallFits, CorpusInv
<1>5. CallFits' BY <1>1, <1>2, <1>4 DEF CallFits
<1> QED BY <1>1, <1>5, Plain

LEMMA SendReadFits ==
  ASSUME CorpusInv, UNCHANGED engineVars, targetId = "github", SendRead
  PROVE  CorpusInv'
<1>0. GithubType /\ BudgetFits /\ CallFits BY DEF CorpusInv
<1>1. PICK end \in Ends :
        /\ Counted(end)
        /\ \/ call' = [call EXCEPT !.retries = @ + 1] /\ UNCHANGED answer
           \/ Answered(Result(end), 0)
  BY DEF SendRead
<1>2. /\ call.op = "read" /\ UNCHANGED <<issues, inTransit, captured, ledger>>
  BY DEF SendRead
<1>3. /\ requestsSent' \in Nat
      /\ requestsSent <= requestsSent' /\ requestsSent' <= MaxRequests
      /\ end = "exhausted" => requestsSent' = MaxRequests
      /\ end \in {"exhausted", "lost", "limited", "refused", "cut", "ok"}
      /\ end # "lost" => Result(end) \in {"ok", "refused", "threw", "provider_failure"}
      /\ Result(end) = "provider_failure" => end = "exhausted"
  BY <1>0, <1>1, Tallied
<1>4. Closing(call.number, FALSE) BY <1>2 DEF Closing
<1>5. CASE Answered(Result(end), 0)
  <2>1. end = "lost" => Result(end) = "lost" BY DEF Result
  <2>2. Result(end) \in {"ok", "refused", "threw", "provider_failure", "lost"}
    BY <2>1, <1>3
  <2>3. Result(end) = "provider_failure" => requestsSent' = MaxRequests BY <1>3
  <2> QED BY <1>2, <1>3, <1>4, <1>5, <2>2, <2>3, PlainAnswer
<1>6. CASE call' = [call EXCEPT !.retries = @ + 1] /\ UNCHANGED answer
  <2>1. call \in CaseCalls BY <1>0 DEF GithubType
  <2>2. call.retries + 1 \in Nat BY <2>1 DEF CaseCalls
  <2> DEFINE r == call.retries + 1
  <2> HIDE DEF r
  <2>3. r \in Nat /\ call' = [call EXCEPT !.retries = r] BY <1>6, <2>2 DEF r
  <2>4. /\ call' \in CaseCalls /\ call'.op = call.op /\ call'.number = call.number
        /\ call'.matches = call.matches
    BY <2>1, <2>3 DEF CaseCalls
  <2>5. answer = NoAnswer /\ NoAnswer \in CaseAnswers /\ NoAnswer.number = 0
        /\ NoAnswer.result = "none"
    BY <1>2, <1>0 DEF CallFits, NoCall, Request, NoAnswer, CaseAnswers
  <2>6. Engaged /\ Engaged'
    BY <1>2, <2>4 DEF Engaged, NoCall, Request
  <2>7. /\ Step' = Step /\ IsPoll' = IsPoll BY EngineSame
  <2>8. CallFits' BY <1>0, <1>2, <1>6, <2>4, <2>5, <2>6, <2>7 DEF CallFits
  <2> QED BY <1>2, <1>3, <1>4, <1>6, <2>4, <2>5, <2>8, Plain
<1> QED BY <1>1, <1>5, <1>6

LEMMA SendUpdateFits ==
  ASSUME CorpusInv, UNCHANGED engineVars, targetId = "github", SendUpdate
  PROVE  CorpusInv'
<1>0. GithubType /\ BudgetFits /\ CallFits BY DEF CorpusInv
<1>1. PICK end \in Ends : \E done \in TookEffect(end) :
        /\ Counted(end)
        /\ Closing(call.number, done)
        /\ Answered(Result(end), 0)
  BY DEF SendUpdate
<1>b. PICK done \in TookEffect(end) : Closing(call.number, done) BY <1>1
<1>2. /\ call.op = "update" /\ UNCHANGED <<inTransit, captured, ledger>>
  BY DEF SendUpdate
<1>3. /\ requestsSent' \in Nat
      /\ requestsSent <= requestsSent' /\ requestsSent' <= MaxRequests
      /\ end = "exhausted" => requestsSent' = MaxRequests
      /\ end \in {"exhausted", "lost", "limited", "refused", "cut", "ok"}
      /\ end # "lost" => Result(end) \in {"ok", "refused", "threw", "provider_failure"}
      /\ Result(end) = "provider_failure" => end = "exhausted"
      /\ done \in BOOLEAN
  BY <1>0, <1>1, <1>b, Tallied
<1>4. end = "lost" => Result(end) = "lost" BY DEF Result
<1>5. Result(end) \in {"ok", "refused", "threw", "provider_failure", "lost"}
  BY <1>4, <1>3
<1>6. Result(end) = "provider_failure" => requestsSent' = MaxRequests BY <1>3
<1>7. Answered(Result(end), 0) BY <1>1
<1> QED BY <1>2, <1>3, <1>5, <1>6, <1>7, <1>b, PlainAnswer

LEMMA RefuseFits ==
  ASSUME CorpusInv, UNCHANGED engineVars, targetId = "github", Refuse
  PROVE  CorpusInv'
<1>1. /\ call.op = "unsupported" /\ Answered("threw", 0)
      /\ UNCHANGED <<issues, inTransit, requestsSent, captured, ledger>>
  BY DEF Refuse
<1>2. requestsSent \in Nat /\ requestsSent <= MaxRequests
  BY DEF CorpusInv, GithubType, BudgetFits
<1>3. Closing(call.number, FALSE) BY <1>1 DEF Closing
<1>4. /\ requestsSent' \in Nat /\ requestsSent <= requestsSent'
      /\ requestsSent' <= MaxRequests
  BY <1>1, <1>2
<1>5. call.op \in {"read", "update", "unsupported"} BY <1>1
<1> QED BY <1>1, <1>3, <1>4, <1>5, PlainAnswer

LEMMA ProviderFits ==
  ASSUME CorpusInv, UNCHANGED engineVars, targetId = "github", Provider
  PROVE  CorpusInv'
<1>0. /\ GithubType /\ EngineType /\ PhaseFits /\ CallFits /\ TargetFits /\ OwnFits
      /\ BudgetFits /\ ClosedFits /\ CountFits
  BY DEF CorpusInv
<1>1. PICK issue \in {Ours, Theirs} :
        /\ issues' = Append(issues, issue)
        /\ UNCHANGED <<requestsSent, captured, ledger, call, answer>>
        /\ \/ issue = Ours /\ inTransit > 0 /\ inTransit' = inTransit - 1
           \/ issue = Theirs /\ inTransit' = inTransit
  BY DEF Provider, LateCreate, OthersCreate
<1>2. issue \in CaseIssues /\ issue.open /\ (issue = Theirs => ~issue.marked)
  <2>1. CASE issue = Ours BY <2>1 DEF Ours, Theirs, CaseIssues
  <2>2. CASE issue = Theirs BY <2>2 DEF Ours, Theirs, CaseIssues
  <2> QED BY <2>1, <2>2
<1>3. Grows BY <1>0, <1>1, <1>2, AppendGrows
<1>4. Mine \subseteq Mine' BY <1>3, MineGrows
<1>5. GithubType' BY <1>0, <1>1, <1>3 DEF GithubType, Grows
<1>6. /\ Step' = Step /\ IsPoll' = IsPoll /\ Told' = Told BY EngineSame
<1>7. CallFits' /\ (Engaged' => Engaged) BY <1>0, <1>1, <1>6 DEF CallFits, Engaged
<1>8. CountFits'
  <2>1. /\ Cardinality(Unknown') \in Nat /\ Cardinality(Unknown') <= Cardinality(Unknown) + 1
        /\ ~issue.marked => Unknown' = Unknown
    BY <1>0, <1>1, <1>2, UnknownAppended
  <2>2. Unsettled' = Unsettled BY <1>1, <1>6 DEF Unsettled
  <2>3. Owed' = Owed BY <2>2 DEF Owed
  <2>4. CASE issue = Ours BY <2>1, <2>3, <2>4, <1>0, <1>1, <1>2, <1>6, OwedIs DEF CountFits, Ours, Theirs
  <2>5. CASE issue = Theirs
    <3>1. Unknown' = Unknown BY <2>1, <2>5, <1>2
    <3>2. inTransit' = inTransit BY <1>1, <2>5 DEF Ours, Theirs
    <3> QED BY <3>1, <3>2, <2>3, <1>0, <1>6, OwedIs DEF CountFits
  <2> QED BY <2>4, <2>5, <1>1
<1>9. \A n \in DOMAIN issues' : ~issues'[n].marked => issues'[n].open
  <2>1. issues \in Seq(CaseIssues) BY <1>0 DEF GithubType
  <2>2. /\ DOMAIN issues' = DOMAIN issues \cup {Len(issues) + 1}
        /\ \A k \in DOMAIN issues : issues'[k] = issues[k]
        /\ issues'[Len(issues) + 1] = issue
    BY <2>1, <1>1, <1>2, Appended
  <2> QED BY <2>2, <1>0, <1>2 DEF OwnFits
<1>10. call'.number \in ZeroOr(Mine') /\ answer'.number \in ZeroOr(Mine')
  BY <1>0, <1>1, <1>4 DEF ZeroOr, OwnFits
<1>11. \A m \in call'.matches : m[2] \in Mine' BY <1>0, <1>1, <1>4 DEF OwnFits
<1>12. Captured' \subseteq Mine' BY <1>0, <1>1, <1>4 DEF OwnFits, Captured
<1>13. requestsSent \in Nat /\ requestsSent <= MaxRequests
  BY <1>0 DEF GithubType, BudgetFits
<1>14. answer'.result = "provider_failure" => requestsSent' = MaxRequests
  BY <1>0, <1>1 DEF BudgetFits
<1> QED
  BY Sent, <1>1, <1>3, <1>5, <1>7, <1>8, <1>9, <1>10, <1>11, <1>12, <1>13, <1>14

LEMMA RequestStepFits ==
  ASSUME CorpusInv, RequestStep
  PROVE  CorpusInv'
<1>0. /\ GithubType /\ EngineType /\ PhaseFits /\ CallFits /\ TargetFits /\ OwnFits
      /\ BudgetFits /\ ClosedFits /\ CountFits
  BY DEF CorpusInv
<1>1. /\ Running /\ Unstopped /\ Step.op # "operator" /\ ~Unresolved
      /\ answer = NoAnswer /\ call = NoCall /\ call' = Requested /\ answer' = NoAnswer
      /\ UNCHANGED <<issues, inTransit, requestsSent, captured, ledger>>
      /\ UNCHANGED engineVars
  BY DEF RequestStep, Serve
<1>2. MayEngage BY <1>1, <1>0 DEF MayEngage, Unstopped, EngineType
<1>3. ~Over BY <1>1, <1>0 DEF PhaseFits, Running
<1>4. Step \in CaseSteps BY <1>0, <1>1, <1>3, StepTyped
<1> DEFINE number == IF Step.needs = {} THEN 0
                     ELSE bound[CHOOSE id \in Step.needs : TRUE]
           op == IF Step.attempts > 0 /\ Step.op # "read" THEN "unsupported"
                 ELSE Step.op
<1>5. call' = [op |-> op, number |-> number, page |-> 1, retries |-> 0, matches |-> {}]
  BY <1>1 DEF Requested, Request
<1>6. number \in ZeroOr(Mine)
  <2>1. CASE Step.needs = {} BY <2>1 DEF ZeroOr
  <2>2. CASE Step.needs # {}
    <3>1. (CHOOSE id \in Step.needs : TRUE) \in Step.needs BY <2>2
    <3>2. Step.needs \subseteq DOMAIN bound BY <1>1 DEF Unresolved
    <3> QED BY <3>1, <3>2, <2>2, <1>0 DEF OwnFits
  <2> QED BY <2>1, <2>2
<1>7. number \in Nat
  <2>1. DOMAIN issues \subseteq Nat BY <1>0 DEF GithubType
  <2> HIDE DEF number
  <2> QED BY <2>1, <1>6 DEF ZeroOr, Mine
<1>8. /\ op \in {"create", "read", "update", "unsupported"}
      /\ op = "create" => Step.op = "create"
      /\ IsPoll /\ Step.op # "read" => op = "unsupported"
  BY <1>1, <1>4 DEF CaseSteps, Operations, IsPoll
<1> HIDE DEF number, op
<1>9. /\ call' \in CaseCalls /\ call'.op = op /\ call'.number = number
      /\ call'.matches = {}
  BY <1>5, <1>7, <1>8 DEF CaseCalls
<1>10. /\ NoAnswer \in CaseAnswers /\ NoAnswer.result = "none" /\ NoAnswer.number = 0
  BY DEF NoAnswer, CaseAnswers
<1>11. /\ Step' = Step /\ IsPoll' = IsPoll /\ Told' = Told BY <1>1, EngineSame
<1>12. CallFits' BY <1>1, <1>8, <1>9, <1>10, <1>11 DEF CallFits
<1>13. Grows /\ Mine' = Mine BY <1>0, <1>1, SameGrows DEF Mine
<1>14. GithubType' BY <1>0, <1>1, <1>9, <1>10 DEF GithubType
<1>15. CountFits'
  <2>1. ~Unsettled BY <1>1, <1>10 DEF Unsettled, NoCall, Request
  <2>2. ~Unsettled' BY <1>1, <1>8, <1>9, <1>10 DEF Unsettled
  <2>3. Owed' = Owed BY <2>1, <2>2 DEF Owed
  <2>4. Unknown' = Unknown BY <1>1 DEF Unknown, Captured
  <2> QED BY <2>3, <2>4, <1>0, <1>1, <1>11 DEF CountFits
<1>16. \A n \in DOMAIN issues' : ~issues'[n].marked => issues'[n].open
  BY <1>0, <1>1 DEF OwnFits
<1>17. call'.number \in ZeroOr(Mine') /\ answer'.number \in ZeroOr(Mine')
  BY <1>1, <1>6, <1>9, <1>10, <1>13 DEF ZeroOr
<1>18. Captured' \subseteq Mine' BY <1>0, <1>1, <1>13 DEF OwnFits, Captured
<1>19. requestsSent \in Nat /\ requestsSent <= MaxRequests
  BY <1>0 DEF GithubType, BudgetFits
<1>20. answer'.result # "provider_failure" BY <1>1, <1>10
<1>21. \A m \in call'.matches : m[2] \in Mine' BY <1>9
<1> QED
  BY Sent, <1>1, <1>2, <1>12, <1>13, <1>14, <1>15, <1>16, <1>17, <1>18, <1>19, <1>20, <1>21

LEMMA LocalServesFits ==
  ASSUME CorpusInv, LocalServes
  PROVE  CorpusInv'
<1>0. /\ GithubType /\ EngineType /\ PhaseFits /\ CallFits /\ TargetFits /\ OwnFits
      /\ BudgetFits /\ ClosedFits /\ CountFits
  BY DEF CorpusInv
<1>1. PICK result \in {"ok", "refused", "lost", "threw"} :
        /\ Answered(result, 0)
        /\ call.op = "unsupported" => result = "threw"
  BY DEF LocalServes
<1>2. /\ targetId = "local" /\ call # NoCall
      /\ UNCHANGED <<issues, inTransit, requestsSent, captured, ledger>>
      /\ UNCHANGED engineVars
  BY DEF LocalServes
<1>3. /\ call' = NoCall /\ call' \in CaseCalls /\ answer' \in CaseAnswers
      /\ call'.op = "none" /\ call'.number = 0 /\ call'.matches = {}
      /\ answer'.result = result /\ answer'.number = 0 /\ answer' # NoAnswer
  BY <1>1, Refills
<1>4. /\ Step' = Step /\ IsPoll' = IsPoll /\ Told' = Told BY <1>2, EngineSame
<1>5. Engaged BY <1>2 DEF Engaged
<1>6. IsPoll /\ Step.op # "read" => result = "threw"
  BY <1>0, <1>1, <1>2, <1>5 DEF CallFits
<1>7. CallFits' BY <1>1, <1>3, <1>4, <1>6 DEF CallFits
<1>8. Grows /\ Mine' = Mine BY <1>0, <1>2, SameGrows DEF Mine
<1>9. GithubType' BY <1>0, <1>2, <1>3 DEF GithubType
<1>10. CountFits'
  <2>1. issues = << >> /\ inTransit = 0 BY <1>0, <1>2 DEF TargetFits
  <2>2. DOMAIN issues = {} BY <2>1
  <2>3. Unknown' = {} BY <2>2, <1>2 DEF Unknown
  <2>4. Cardinality(Unknown') = 0 BY <2>3, FS_EmptySet
  <2>5. Owed' \in {0, 1} BY DEF Owed
  <2> QED BY <2>1, <2>4, <2>5, <1>0, <1>2, <1>4, OwedIs DEF CountFits
<1>11. \A n \in DOMAIN issues' : ~issues'[n].marked => issues'[n].open
  BY <1>0, <1>2 DEF OwnFits
<1>12. call'.number \in ZeroOr(Mine') /\ answer'.number \in ZeroOr(Mine')
  BY <1>3 DEF ZeroOr
<1>13. Captured' \subseteq Mine' BY <1>0, <1>2, <1>8 DEF OwnFits, Captured
<1>14. requestsSent \in Nat /\ requestsSent <= MaxRequests
  BY <1>0 DEF GithubType, BudgetFits
<1>15. answer'.result # "provider_failure" BY <1>1, <1>3
<1>16. \A m \in call'.matches : m[2] \in Mine' BY <1>3
<1> QED
  BY Sent, <1>2, <1>5, <1>7, <1>8, <1>9, <1>10, <1>11, <1>12, <1>13, <1>14, <1>15, <1>16

(***************************************************************************)
(* A step that ended.                                                       *)
(***************************************************************************)
\* The step that was run joins the report of its case.
Noted(mark) ==
  [step |-> Step.id, op |-> Step.op, phase |-> position.phase, mark |-> mark]

LEMMA StatusKnown ==
  ASSUME EngineType, NEW mark \in StepMarks
  PROVE  /\ StatusAfter(mark) \in RecordStatuses
         /\ position.phase = "main" =>
              /\ StatusAfter(mark) = "passed" =>
                   record.status = "passed" /\ mark \in {"passed", "lost"}
              /\ StatusAfter(mark) = "failed" => record.status = "failed" \/ mark = "failed"
         /\ position.phase = "cleanup" =>
              /\ StatusAfter(mark) = "passed" => record.status = "passed" /\ mark # "error"
              /\ StatusAfter(mark) = "failed" => record.status = "failed"
<1>1. record.status \in {"passed", "failed", "error"}
  BY DEF EngineType, Records, RecordStatuses
<1>2. mark \in {"passed", "failed", "error", "lost"} BY DEF StepMarks
<1> HIDE DEF StepMarks
<1>3. CASE position.phase = "main"
  BY <1>1, <1>2, <1>3 DEF StatusAfter, RecordStatuses
<1>4. CASE position.phase # "main"
  BY <1>1, <1>2, <1>4 DEF StatusAfter, RecordStatuses
<1> QED BY <1>3, <1>4

LEMMA MarkMoves ==
  ASSUME CorpusInv, Running, NEW mark \in StepMarks,
         NEW diagnosed \in BOOLEAN, NEW provider \in BOOLEAN,
         Mark(mark, diagnosed, provider)
  PROVE  /\ Step \in CaseSteps /\ Noted(mark) \in StepReports /\ ~Over
         /\ position.phase \in {"main", "cleanup"}
         /\ record' \in Records
         /\ record'.steps = Append(record.steps, Noted(mark))
         /\ record'.status = StatusAfter(mark)
         /\ record'.provider = (record.provider \/ provider)
         /\ stopped' \in BOOLEAN
         /\ stopped' = (stopped \/ (position.phase = "main" /\ Stops(mark, diagnosed)))
         /\ position' \in [index : Nat \ {0}, phase : CasePhases, step : Nat \ {0}]
         /\ position'.index = position.index /\ position'.phase = position.phase
         /\ position'.step = position.step + 1
<1>0. EngineType /\ PhaseFits BY DEF CorpusInv
<1>1. position.phase \in {"main", "cleanup"} /\ ~Over
  BY <1>0 DEF Running, PhaseFits
<1>2. Step \in CaseSteps BY <1>0, <1>1, StepTyped
<1>3. Noted(mark) \in StepReports BY <1>1, <1>2 DEF Noted, StepReports, CaseSteps
<1>4. record \in Records /\ stopped \in BOOLEAN BY <1>0 DEF EngineType
<1>5. record.steps \in Seq(StepReports) /\ record.provider \in BOOLEAN
  BY <1>4 DEF Records
<1> HIDE DEF StepReports
<1>6. Append(record.steps, Noted(mark)) \in Seq(StepReports) BY <1>3, <1>5, Appended
<1>7. StatusAfter(mark) \in RecordStatuses BY <1>0, StatusKnown
<1>8. record' = [status |-> StatusAfter(mark),
                 steps |-> Append(record.steps, Noted(mark)),
                 provider |-> record.provider \/ provider]
  BY DEF Mark, Noted
<1>9. record' \in Records BY <1>5, <1>6, <1>7, <1>8 DEF Records
<1>10. stopped' = (stopped \/ (position.phase = "main" /\ Stops(mark, diagnosed)))
  BY DEF Mark
<1>11. position' = [position EXCEPT !.step = position.step + 1] BY DEF Mark
<1>12. /\ position \in [index : Nat \ {0}, phase : CasePhases, step : Nat \ {0}]
       /\ position.step + 1 \in Nat \ {0}
  BY <1>0 DEF EngineType
<1> DEFINE next == position.step + 1
<1> HIDE DEF next
<1>13. position' = [position EXCEPT !.step = next] /\ next \in Nat \ {0}
  BY <1>11, <1>12 DEF next
<1>14. /\ position' \in [index : Nat \ {0}, phase : CasePhases, step : Nat \ {0}]
       /\ position'.index = position.index /\ position'.phase = position.phase
       /\ position'.step = next
  BY <1>12, <1>13
<1>15. stopped' \in BOOLEAN BY <1>4, <1>10
<1> QED
  BY <1>1, <1>2, <1>3, <1>8, <1>9, <1>10, <1>14, <1>15 DEF next

LEMMA MarkRecord ==
  ASSUME CorpusInv, Running, NEW mark \in StepMarks,
         NEW diagnosed \in BOOLEAN, NEW provider \in BOOLEAN,
         Mark(mark, diagnosed, provider),
         position.phase = "main" => ~stopped
  PROVE  RecordFits'
<1>0. EngineType /\ PhaseFits /\ RecordFits BY DEF CorpusInv
<1> DEFINE steps == record.steps
           after == record'.steps
           e == Noted(mark)
<1>1. /\ Step \in CaseSteps /\ e \in StepReports /\ ~Over
      /\ position.phase \in {"main", "cleanup"}
      /\ after = Append(steps, e)
      /\ record'.status = StatusAfter(mark)
      /\ stopped' = (stopped \/ (position.phase = "main" /\ Stops(mark, diagnosed)))
      /\ position'.index = position.index /\ position'.phase = position.phase
      /\ position'.step = position.step + 1
  BY MarkMoves
<1>2. PICK m \in 0 .. Len(steps) : StepsFit(steps, m) BY <1>0, <1>1 DEF RecordFits
<1>3. steps \in Seq(StepReports) BY <1>0 DEF EngineType, Records
<1> HIDE DEF StepReports
<1>4. /\ Len(after) = Len(steps) + 1 /\ Len(steps) \in Nat
      /\ \A i \in 1 .. Len(steps) : after[i] = steps[i]
      /\ after[Len(steps) + 1] = e
  BY <1>1, <1>3, Appended
<1>5. e.mark = mark /\ e.phase = position.phase /\ e.step = Step.id BY DEF Noted
<1>6. Case' = Case BY <1>1 DEF Case
<1>7. /\ Len(Case.main) \in Nat /\ Len(Case.cleanup) \in Nat /\ position.step \in Nat
  BY <1>0, <1>1, CaseTyped DEF EngineType
<1>8. m \in Nat /\ m <= Len(steps) BY <1>2, <1>4
<1>9. /\ StatusAfter(mark) \in RecordStatuses
      /\ position.phase = "main" =>
           /\ StatusAfter(mark) = "passed" =>
                record.status = "passed" /\ mark \in {"passed", "lost"}
           /\ StatusAfter(mark) = "failed" => record.status = "failed" \/ mark = "failed"
      /\ position.phase = "cleanup" =>
           /\ StatusAfter(mark) = "passed" => record.status = "passed" /\ mark # "error"
           /\ StatusAfter(mark) = "failed" => record.status = "failed"
  BY <1>0, StatusKnown
<1> HIDE DEF e, after, steps
<1>10. CASE position.phase = "main"
  <2>1. m = Len(steps) /\ position.step = m + 1
    BY <1>2, <1>10 DEF StepsFit, CountedFits
  <2>2. m + 1 <= Len(Case.main) /\ Step = Case.main[m + 1]
    BY <1>10, <2>1 DEF Running, StepsOf, Step
  <2>3. \A k \in 1 .. m + 1 : k \in 1 .. m \/ k = m + 1 BY <1>8
  <2>4. \A k \in 1 .. m : after[k] = steps[k] BY <1>4, <2>1
  <2>5. after[m + 1] = e BY <1>4, <2>1
  <2>6. /\ \A k \in 1 .. m + 1 : after[k].phase = "main" /\ after[k].step = Case.main[k].id
    <3>1. \A k \in 1 .. m : steps[k].phase = "main" /\ steps[k].step = Case.main[k].id
      BY <1>2 DEF StepsFit, RanFits
    <3>2. e.phase = "main" /\ e.step = Case.main[m + 1].id BY <1>5, <1>10, <2>2
    <3> QED BY <3>1, <3>2, <2>3, <2>4, <2>5
  <2>7. \A k \in (m + 1) + 1 .. Len(after) : FALSE BY <1>4, <1>8, <2>1
  <2>8. RanFits(record.steps, m + 1)' BY <2>2, <2>6, <2>7, <1>6 DEF RanFits, after
  <2>9. CountedFits(record.steps, m + 1)'
    <3>1. Len(after) = m + 1 /\ position'.step = (m + 1) + 1 BY <1>1, <1>4, <2>1
    <3> QED BY <3>1, <1>1, <1>10 DEF CountedFits, after
  <2>10. \A k \in 1 .. m : steps[k].mark # "error"
    <3>1. ~stopped BY <1>10
    <3> QED BY <3>1, <1>2 DEF StepsFit, StopFits
  <2>11. stopped' <=> Stops(mark, diagnosed) BY <1>1, <1>10
  <2>12. StopFits(record.steps, m + 1)'
    <3>1. stopped' => m + 1 > 0 /\ after[m + 1].mark \in {"error", "failed"}
      BY <2>5, <2>11, <1>5, <1>8 DEF Stops
    <3>2. ASSUME NEW k \in 1 .. m + 1, after[k].mark = "error"
          PROVE  k = m + 1 /\ stopped'
      <4>1. k = m + 1 BY <2>3, <2>4, <2>10, <3>2
      <4>2. mark = "error" BY <4>1, <2>5, <3>2, <1>5
      <4> QED BY <4>1, <4>2, <2>11 DEF Stops
    <3> QED BY <3>1, <3>2, <1>1, <1>10 DEF StopFits, after
  <2>13. StatusFits(record.steps, m + 1)'
    <3>1. ASSUME record'.status = "passed", NEW k \in 1 .. m + 1
          PROVE  after[k].mark \in {"passed", "lost"}
      <4>1. record.status = "passed" /\ mark \in {"passed", "lost"}
        BY <3>1, <1>1, <1>9, <1>10
      <4>2. k \in 1 .. m => steps[k].mark \in {"passed", "lost"}
        BY <4>1, <1>2 DEF StepsFit, StatusFits
      <4> QED BY <4>1, <4>2, <2>3, <2>4, <2>5, <1>5
    <3>2. Len(after) = m + 1 BY <1>4, <2>1
    <3>3. ASSUME record'.status = "failed"
          PROVE  \E k \in 1 .. m + 1 : after[k].mark = "failed"
      <4>1. CASE mark = "failed"
        <5>1. m + 1 \in 1 .. m + 1 BY <1>8
        <5> QED BY <5>1, <4>1, <2>5, <1>5
      <4>2. CASE record.status = "failed"
        <5>1. PICK k \in 1 .. m : steps[k].mark = "failed"
          BY <4>2, <1>2 DEF StepsFit, StatusFits
        <5>2. k \in 1 .. m + 1 BY <5>1, <1>8
        <5> QED BY <5>1, <5>2, <2>4
      <4> QED BY <3>3, <4>1, <4>2, <1>1, <1>9, <1>10
    <3> QED BY <3>1, <3>2, <3>3 DEF StatusFits, after
  <2>14. m + 1 \in 0 .. Len(after) BY <1>4, <1>8, <2>1
  <2>15. StepsFit(record.steps, m + 1)' BY <2>8, <2>9, <2>12, <2>13 DEF StepsFit
  <2> QED BY <2>14, <2>15 DEF RecordFits, after
<1>11. CASE position.phase = "cleanup"
  <2>1. Len(steps) = m + position.step - 1 /\ position.step <= Len(Case.cleanup) + 1
    BY <1>2, <1>11 DEF StepsFit, CountedFits
  <2>2. position.step <= Len(Case.cleanup) /\ Step = Case.cleanup[position.step]
    BY <1>11 DEF Running, StepsOf, Step
  <2>3. \A k \in 1 .. Len(steps) + 1 : k \in 1 .. Len(steps) \/ k = Len(steps) + 1
    BY <1>4
  <2>4. \A k \in 1 .. m : k \in 1 .. Len(steps) /\ after[k] = steps[k] BY <1>4, <1>8
  <2>5. Len(steps) + 1 - m = position.step BY <2>1, <1>4, <1>7, <1>8
  <2>6. \A k \in m + 1 .. Len(steps) + 1 :
          after[k].phase = "cleanup" /\ after[k].step = Case.cleanup[k - m].id
    <3>1. \A k \in m + 1 .. Len(steps) :
            steps[k].phase = "cleanup" /\ steps[k].step = Case.cleanup[k - m].id
      BY <1>2 DEF StepsFit, RanFits
    <3>2. e.phase = "cleanup" /\ e.step = Case.cleanup[Len(steps) + 1 - m].id
      BY <1>5, <1>11, <2>2, <2>5
    <3>3. \A k \in m + 1 .. Len(steps) + 1 :
            (k \in m + 1 .. Len(steps) /\ k \in 1 .. Len(steps)) \/ k = Len(steps) + 1
      BY <1>4, <1>8
    <3> QED BY <3>1, <3>2, <3>3, <1>4
  <2>7. RanFits(record.steps, m)'
    <3>1. /\ m <= Len(Case.main)
          /\ \A k \in 1 .. m : steps[k].phase = "main" /\ steps[k].step = Case.main[k].id
      BY <1>2 DEF StepsFit, RanFits
    <3> QED BY <3>1, <2>4, <2>6, <1>4, <1>6 DEF RanFits, after
  <2>8. CountedFits(record.steps, m)'
    <3>1. Len(after) = m + position'.step - 1 /\ position'.step <= Len(Case.cleanup) + 1
      <4> DEFINE s == position.step
                 l == Len(steps)
      <4>1. /\ s \in Nat /\ l \in Nat /\ m \in Nat /\ l = m + s - 1
            /\ Len(after) = l + 1 /\ position'.step = s + 1
        BY <1>1, <1>4, <1>7, <1>8, <2>1
      <4>2. position'.step <= Len(Case.cleanup) + 1
        BY <1>1, <1>7, <2>2
      <4> HIDE DEF s, l
      <4>3. Len(after) = m + (s + 1) - 1 BY <4>1
      <4> QED BY <4>1, <4>2, <4>3
    <3> QED BY <3>1, <1>1, <1>6, <1>11 DEF CountedFits, after
  <2>9. StopFits(record.steps, m)'
    <3>1. stopped' = stopped BY <1>1, <1>11, <1>0 DEF EngineType
    <3>2. /\ m = Len(Case.main) \/ stopped
          /\ stopped => m > 0 /\ steps[m].mark \in {"error", "failed"}
          /\ \A k \in 1 .. m : steps[k].mark = "error" => k = m /\ stopped
      BY <1>2, <1>11 DEF StepsFit, StopFits
    <3>3. m > 0 => m \in 1 .. m BY <1>8
    <3> QED BY <3>1, <3>2, <3>3, <2>4, <1>6 DEF StopFits, after
  <2>10. StatusFits(record.steps, m)'
    <3>1. ASSUME record'.status = "passed"
          PROVE  /\ \A k \in 1 .. m : after[k].mark \in {"passed", "lost"}
                 /\ \A k \in 1 .. Len(steps) + 1 : after[k].mark # "error"
      <4>1. record.status = "passed" /\ mark # "error" BY <3>1, <1>1, <1>9, <1>11
      <4>2. /\ \A k \in 1 .. m : steps[k].mark \in {"passed", "lost"}
            /\ \A k \in 1 .. Len(steps) : steps[k].mark # "error"
        BY <4>1, <1>2 DEF StepsFit, StatusFits
      <4> QED BY <4>1, <4>2, <2>3, <2>4, <1>4, <1>5
    <3>2. ASSUME record'.status = "failed"
          PROVE  \E k \in 1 .. m : after[k].mark = "failed"
      <4>1. record.status = "failed" BY <3>2, <1>1, <1>9, <1>11
      <4>2. PICK k \in 1 .. m : steps[k].mark = "failed"
        BY <4>1, <1>2 DEF StepsFit, StatusFits
      <4> QED BY <4>2, <2>4
    <3> QED BY <3>1, <3>2, <1>4 DEF StatusFits, after
  <2>11. m \in 0 .. Len(after) BY <1>4, <1>8
  <2>12. StepsFit(record.steps, m)' BY <2>7, <2>8, <2>9, <2>10 DEF StepsFit
  <2> QED BY <2>11, <2>12 DEF RecordFits, after
<1> QED BY <1>1, <1>10, <1>11

LEMMA MarkCount ==
  ASSUME CorpusInv, Running, NEW mark \in StepMarks,
         NEW diagnosed \in BOOLEAN, NEW provider \in BOOLEAN,
         Mark(mark, diagnosed, provider),
         call = NoCall, answer' = NoAnswer,
         Unsettled => mark \in {"lost", "error"},
         UNCHANGED <<issues, inTransit, captured, call, report>>
  PROVE  CountFits'
<1>0. GithubType /\ EngineType /\ PhaseFits /\ CountFits BY DEF CorpusInv
<1> DEFINE n == Len(record.steps) + 1
           tells == Step.op = "create" /\ mark \in {"lost", "error"}
<1>1. /\ Noted(mark) \in StepReports
      /\ record'.steps = Append(record.steps, Noted(mark))
      /\ position'.index = position.index
  BY MarkMoves
<1>2. record.steps \in Seq(StepReports) BY <1>0 DEF EngineType, Records
<1>3. /\ DOMAIN record'.steps = DOMAIN record.steps \cup {n}
      /\ n \notin DOMAIN record.steps
      /\ \A k \in DOMAIN record.steps : record'.steps[k] = record.steps[k]
      /\ record'.steps[n] = Noted(mark)
  <2> HIDE DEF StepReports
  <2> QED BY <1>1, <1>2, Appended
<1> HIDE DEF n
<1>4. Noted(mark).op = Step.op /\ Noted(mark).mark = mark BY DEF Noted
<1>5. Uncertain(record.steps)'
        = Uncertain(record.steps) \cup (IF tells THEN {n} ELSE {})
  BY <1>3, <1>4 DEF Uncertain
<1>6. ToldUncertain' = ToldUncertain BY DEF ToldUncertain, Uncertain
<1>7. CASE tells
  <2>1. Told' = Told \cup {<<position.index, n>>}
    BY <1>1, <1>5, <1>6, <1>7 DEF Told
  <2>2. <<position.index, n>> \notin Told
    <3>1. n \notin Uncertain(record.steps) BY <1>3 DEF Uncertain
    <3>2. position.index \notin DOMAIN report
      BY <1>0 DEF PhaseFits, EngineType
    <3> QED BY <3>1, <3>2 DEF Told, ToldUncertain
  <2>3. IsFiniteSet(Told') /\ Cardinality(Told') = Cardinality(Told) + 1
    BY <2>1, <2>2, <1>0, FS_AddElement DEF CountFits
  <2>4. Unknown' = Unknown BY DEF Unknown, Captured
  <2>5. Owed' \in {0, 1} BY DEF Owed
  <2> QED BY <2>3, <2>4, <2>5, <1>0, OwedIs DEF CountFits
<1>8. CASE ~tells
  <2>1. Told' = Told BY <1>1, <1>5, <1>6, <1>8 DEF Told
  <2>2. ~Unsettled BY <1>8 DEF Unsettled, NoCall, Request
  <2>3. Owed = 0 /\ Owed' \in {0, 1} BY <2>2 DEF Owed
  <2>4. Unknown' = Unknown BY DEF Unknown, Captured
  <2> QED BY <2>1, <2>3, <2>4, <1>0, OwedIs DEF CountFits
<1> QED BY <1>7, <1>8

LEMMA MarkFits ==
  ASSUME CorpusInv, Running, NEW mark \in StepMarks,
         NEW diagnosed \in BOOLEAN, NEW provider \in BOOLEAN,
         Mark(mark, diagnosed, provider),
         position.phase = "main" => ~stopped,
         call = NoCall, answer' = NoAnswer,
         provider => requestsSent = MaxRequests,
         Unsettled => mark \in {"lost", "error"},
         \A id \in DOMAIN bound' : bound'[id] \in ZeroOr(Mine),
         UNCHANGED <<issues, inTransit, requestsSent, captured, ledger, call,
                     targetId, permitted, serves, closing, report>>
  PROVE  CorpusInv'
<1>0. /\ GithubType /\ EngineType /\ PhaseFits /\ CallFits /\ TargetFits /\ OwnFits
      /\ BudgetFits /\ ClosedFits /\ CountFits /\ ServesFit /\ RecordFits /\ CasesAreTrue
  BY DEF CorpusInv
<1>1. /\ ~Over
      /\ position.phase \in {"main", "cleanup"}
      /\ record' \in Records
      /\ record'.provider = (record.provider \/ provider)
      /\ stopped' \in BOOLEAN
      /\ position' \in [index : Nat \ {0}, phase : CasePhases, step : Nat \ {0}]
      /\ position'.index = position.index /\ position'.phase = position.phase
  BY MarkMoves
<1>2. NoAnswer \in CaseAnswers /\ NoAnswer.result = "none" /\ NoAnswer.number = 0
  BY DEF NoAnswer, CaseAnswers
<1>3. GithubType' BY <1>0, <1>2 DEF GithubType
<1>4. EngineType' BY <1>0, <1>1 DEF EngineType
<1>5. PhaseFits' BY <1>0, <1>1 DEF PhaseFits, Over, Engaged
<1>6. CallFits' BY <1>0, <1>2 DEF CallFits, Engaged, NoCall, Request
<1>7. TargetFits' BY <1>0, <1>1, <1>2 DEF TargetFits
<1>8. OwnFits'
  <2>1. Mine' = Mine BY DEF Mine
  <2> QED BY <2>1, <1>0, <1>2 DEF OwnFits, ZeroOr, Captured, Listed, Ledgered
<1>9. BudgetFits' BY <1>0, <1>1, <1>2 DEF BudgetFits
<1>10. ClosedFits' BY <1>0, <1>1 DEF ClosedFits
<1>11. CountFits' BY MarkCount
<1>12. ServesFit' BY <1>0, <1>1 DEF ServesFit
<1>13. RecordFits' BY MarkRecord
<1>14. CasesAreTrue' BY <1>0 DEF CasesAreTrue, Agrees
<1> QED
  BY <1>3, <1>4, <1>5, <1>6, <1>7, <1>8, <1>9, <1>10, <1>11, <1>12, <1>13, <1>14
     DEF CorpusInv

LEMMA BindOwn ==
  ASSUME OwnFits, NEW found \in BOOLEAN, NEW n \in ZeroOr(Mine), Bind(found, n)
  PROVE  \A id \in DOMAIN bound' : bound'[id] \in ZeroOr(Mine)
BY DEF Bind, OwnFits

LEMMA JudgedMarks ==
  ASSUME NEW found, NEW holds \in Verdicts PROVE Judged(found, holds) \in StepMarks
BY DEF Judged, StepMarks, Verdicts

LEMMA MissBindingFits == ASSUME CorpusInv, MissBinding PROVE CorpusInv'
<1>1. /\ Running /\ Unstopped /\ call = NoCall /\ answer = NoAnswer
      /\ Mark("failed", TRUE, FALSE) /\ UNCHANGED <<githubVars, bound>>
      /\ UNCHANGED <<targetId, permitted, serves, closing, report>>
  BY DEF MissBinding
<1>2. "failed" \in StepMarks BY DEF StepMarks
<1>3. position.phase = "main" => ~stopped BY <1>1 DEF Unstopped
<1>4. ~Unsettled BY <1>1 DEF Unsettled, NoCall, Request, NoAnswer
<1>5. \A id \in DOMAIN bound' : bound'[id] \in ZeroOr(Mine)
  BY <1>1 DEF CorpusInv, OwnFits
<1>6. /\ answer' = NoAnswer
      /\ UNCHANGED <<issues, inTransit, requestsSent, captured, ledger, call>>
  BY <1>1 DEF githubVars
<1> QED BY <1>1, <1>2, <1>3, <1>4, <1>5, <1>6, MarkFits

LEMMA OperatorStepFits == ASSUME CorpusInv, OperatorStep PROVE CorpusInv'
<1>1. PICK found \in BOOLEAN, holds \in Verdicts :
        Mark(Judged(found, holds), FALSE, FALSE) /\ Bind(found, 0)
  BY DEF OperatorStep
<1>2. /\ Running /\ Unstopped /\ Step.op = "operator"
      /\ UNCHANGED githubVars
      /\ UNCHANGED <<targetId, permitted, serves, closing, report>>
  BY DEF OperatorStep
<1>3. call = NoCall /\ answer = NoAnswer
  BY <1>2 DEF CorpusInv, PhaseFits, MayEngage, Engaged
<1>4. position.phase = "main" => ~stopped BY <1>2 DEF Unstopped
<1>5. ~Unsettled BY <1>3 DEF Unsettled, NoCall, Request, NoAnswer
<1>6. \A id \in DOMAIN bound' : bound'[id] \in ZeroOr(Mine)
  <2>1. 0 \in ZeroOr(Mine) BY DEF ZeroOr
  <2> QED BY <1>1, <2>1, BindOwn DEF CorpusInv
<1>7. /\ answer' = NoAnswer
      /\ UNCHANGED <<issues, inTransit, requestsSent, captured, ledger, call>>
  BY <1>2, <1>3 DEF githubVars
<1>8. Judged(found, holds) \in StepMarks BY JudgedMarks
<1> QED BY <1>1, <1>2, <1>3, <1>4, <1>5, <1>6, <1>7, <1>8, MarkFits

\* A step whose answer is taken was not stopped before.
LEMMA AnswersMean ==
  ASSUME CorpusInv, NEW S, Answers(S), "none" \notin S
  PROVE  /\ Running /\ call = NoCall /\ Engaged /\ MayEngage
         /\ position.phase = "main" => ~stopped
         /\ answer.result \in S
         /\ Unsettled <=> answer.result \in {"lost", "threw"} /\ Step.op = "create"
         /\ IsPoll /\ Step.op # "read" => answer.result = "threw"
<1>1. Running /\ call = NoCall /\ answer.result \in S BY DEF Answers
<1>2. answer # NoAnswer BY <1>1 DEF NoAnswer
<1>3. Engaged /\ MayEngage BY <1>2 DEF Engaged, CorpusInv, PhaseFits
<1>4. position.phase = "main" => ~stopped BY <1>3 DEF MayEngage
<1>5. Unsettled <=> answer.result \in {"lost", "threw"} /\ Step.op = "create"
  BY <1>1 DEF Unsettled, NoCall, Request
<1>6. IsPoll /\ Step.op # "read" => answer.result = "threw"
  BY <1>1, <1>3 DEF CorpusInv, CallFits
<1> QED BY <1>1, <1>3, <1>4, <1>5, <1>6

LEMMA StepEndsFits == ASSUME CorpusInv, StepEndsWithout PROVE CorpusInv'
<1>1. /\ UNCHANGED bound /\ answer' = NoAnswer
      /\ UNCHANGED <<issues, inTransit, requestsSent, captured, ledger, call,
                     targetId, permitted, serves, closing, report>>
  BY DEF StepEndsWithout, Taken
<1>2. \A id \in DOMAIN bound' : bound'[id] \in ZeroOr(Mine)
  BY <1>1 DEF CorpusInv, OwnFits
<1>3. {"failed", "error", "lost"} \subseteq StepMarks BY DEF StepMarks
<1>4. CASE Answers({"threw"}) /\ Mark("error", TRUE, FALSE)
  BY <1>1, <1>2, <1>3, <1>4, AnswersMean, MarkFits
<1>5. CASE Answers({"lost"}) /\ Mark("lost", TRUE, FALSE)
  BY <1>1, <1>2, <1>3, <1>5, AnswersMean, MarkFits
<1>6. CASE Answers({"provider_failure"}) /\ Mark("failed", TRUE, TRUE)
  <2>1. /\ Running /\ call = NoCall /\ (position.phase = "main" => ~stopped)
        /\ answer.result \in {"provider_failure"} /\ ~Unsettled
    BY <1>6, AnswersMean
  <2>2. requestsSent = MaxRequests BY <2>1 DEF CorpusInv, BudgetFits
  <2> QED BY <1>1, <1>2, <1>3, <1>6, <2>1, <2>2, MarkFits
<1> QED BY <1>4, <1>5, <1>6 DEF StepEndsWithout

LEMMA StepAnsweredFits == ASSUME CorpusInv, StepAnswered PROVE CorpusInv'
<1>1. PICK found \in BOOLEAN, holds \in Verdicts :
        Mark(Judged(found, holds), FALSE, FALSE) /\ Bind(found, answer.number)
  BY DEF StepAnswered
<1>2. /\ Answers({"ok", "refused"}) /\ answer' = NoAnswer
      /\ UNCHANGED <<issues, inTransit, requestsSent, captured, ledger, call,
                     targetId, permitted, serves, closing, report>>
  BY DEF StepAnswered, Taken
<1>3. /\ Running /\ call = NoCall /\ (position.phase = "main" => ~stopped) /\ ~Unsettled
  BY <1>2, AnswersMean
<1>4. \A id \in DOMAIN bound' : bound'[id] \in ZeroOr(Mine)
  <2>1. OwnFits /\ answer.number \in ZeroOr(Mine) BY DEF CorpusInv, OwnFits
  <2> QED BY <1>1, <2>1, BindOwn
<1>5. Judged(found, holds) \in StepMarks BY JudgedMarks
<1> QED BY <1>1, <1>2, <1>3, <1>4, <1>5, MarkFits

LEMMA PollThrowsFits == ASSUME CorpusInv, PollThrows PROVE CorpusInv'
<1>1. /\ Answers({"lost", "ok", "refused"}) /\ Mark("error", TRUE, FALSE)
      /\ UNCHANGED bound /\ answer' = NoAnswer
      /\ UNCHANGED <<issues, inTransit, requestsSent, captured, ledger, call,
                     targetId, permitted, serves, closing, report>>
  BY DEF PollThrows, Taken
<1>2. \A id \in DOMAIN bound' : bound'[id] \in ZeroOr(Mine)
  BY <1>1 DEF CorpusInv, OwnFits
<1>3. "error" \in StepMarks BY DEF StepMarks
<1> QED BY <1>1, <1>2, <1>3, AnswersMean, MarkFits

LEMMA PollEndsFits == ASSUME CorpusInv, PollEnds PROVE CorpusInv'
<1>1. PICK passed \in BOOLEAN, found \in BOOLEAN :
        /\ IF passed THEN Answers({"ok", "refused"})
           ELSE Answers({"lost", "ok", "refused"})
        /\ Mark(IF passed THEN Judged(found, "holds") ELSE "failed", FALSE, FALSE)
        /\ Bind(found, 0)
  BY DEF PollEnds
<1>2. /\ IsPoll /\ answer' = NoAnswer
      /\ UNCHANGED <<issues, inTransit, requestsSent, captured, ledger, call,
                     targetId, permitted, serves, closing, report>>
  BY DEF PollEnds, Taken
<1>3. Answers({"lost", "ok", "refused"}) BY <1>1 DEF Answers
<1>4. /\ Running /\ call = NoCall /\ (position.phase = "main" => ~stopped) /\ ~Unsettled
  BY <1>2, <1>3, AnswersMean
<1>5. \A id \in DOMAIN bound' : bound'[id] \in ZeroOr(Mine)
  <2>1. OwnFits /\ 0 \in ZeroOr(Mine) BY DEF CorpusInv, ZeroOr
  <2> QED BY <1>1, <2>1, BindOwn
<1> DEFINE mark == IF passed THEN Judged(found, "holds") ELSE "failed"
<1>6. mark \in StepMarks
  <2>1. "holds" \in Verdicts /\ "failed" \in StepMarks BY DEF Verdicts, StepMarks
  <2> QED BY <2>1, JudgedMarks
<1>7. Mark(mark, FALSE, FALSE) BY <1>1
<1> HIDE DEF mark
<1> QED BY <1>2, <1>4, <1>5, <1>6, <1>7, MarkFits

LEMMA PollAgainFits == ASSUME CorpusInv, PollAgain PROVE CorpusInv'
<1>0. /\ GithubType /\ EngineType /\ PhaseFits /\ CallFits /\ TargetFits /\ OwnFits
      /\ BudgetFits /\ ClosedFits /\ CountFits /\ ServesFit /\ RecordFits /\ CasesAreTrue
  BY DEF CorpusInv
<1>1. /\ Answers({"lost", "ok", "refused"}) /\ IsPoll /\ answer' = NoAnswer
      /\ UNCHANGED <<issues, inTransit, requestsSent, captured, ledger, call,
                     targetId, permitted, serves, closing, report>>
      /\ UNCHANGED <<position, bound, record, stopped>>
  BY DEF PollAgain, Taken
<1>2. call = NoCall /\ ~Unsettled BY <1>1, AnswersMean
<1>3. NoAnswer \in CaseAnswers /\ NoAnswer.result = "none" /\ NoAnswer.number = 0
  BY DEF NoAnswer, CaseAnswers
<1>4. GithubType' BY <1>0, <1>1, <1>3 DEF GithubType
<1>5. EngineType' BY <1>0, <1>1 DEF EngineType
<1>6. PhaseFits' BY <1>0, <1>1, <1>2 DEF PhaseFits, Over, Engaged
<1>7. CallFits' BY <1>0, <1>1, <1>2, <1>3 DEF CallFits, Engaged, NoCall, Request
<1>8. TargetFits' BY <1>0, <1>1, <1>3 DEF TargetFits
<1>9. OwnFits'
  <2>1. Mine' = Mine BY <1>1 DEF Mine
  <2> QED BY <2>1, <1>0, <1>1, <1>3 DEF OwnFits, ZeroOr, Captured, Listed, Ledgered
<1>10. BudgetFits' BY <1>0, <1>1, <1>3 DEF BudgetFits
<1>11. ClosedFits'
  <2>1. LastRunErred' = LastRunErred BY <1>1 DEF LastRunErred
  <2> QED BY <2>1, <1>0, <1>1 DEF ClosedFits, Captured, Listed, Ledgered
<1>12. CountFits'
  <2>1. Told' = Told BY <1>1 DEF Told, ToldUncertain, Uncertain
  <2>2. Unknown' = Unknown BY <1>1 DEF Unknown, Captured
  <2>3. Owed = 0 /\ Owed' \in {0, 1} BY <1>2 DEF Owed
  <2> QED BY <2>1, <2>2, <2>3, <1>0, <1>1, OwedIs DEF CountFits
<1>13. ServesFit' BY <1>0, <1>1 DEF ServesFit
<1>14. RecordFits'
  <2>1. Case' = Case BY <1>1 DEF Case
  <2> QED BY <2>1, <1>0, <1>1
       DEF RecordFits, StepsFit, RanFits, CountedFits, StopFits, StatusFits
<1>15. CasesAreTrue' BY <1>0, <1>1 DEF CasesAreTrue, Agrees
<1> QED
  BY <1>4, <1>5, <1>6, <1>7, <1>8, <1>9, <1>10, <1>11, <1>12, <1>13, <1>14, <1>15
     DEF CorpusInv

(***************************************************************************)
(* A case that moves on, and one that ends.                                 *)
(***************************************************************************)
\* What a case that moves to another phase keeps.
LEMMA Moves ==
  ASSUME CorpusInv, ~Over, call = NoCall, answer = NoAnswer,
         NEW phase \in {"main", "cleanup", "teardown"}, Enter(phase),
         UNCHANGED <<githubVars, targetId, permitted, bound, record, stopped, report>>,
         targetId = "github" => permitted,
         serves' \in [DOMAIN Corpus -> CaseServes], ServesFit',
         closing' \in Seq(Nat), Listed(closing') \subseteq Mine,
         closing' # << >> => phase = "teardown",
         phase = "teardown" => Captured \subseteq Listed(closing') \cup Ledgered,
         RecordFits'
  PROVE  CorpusInv'
<1>0. /\ GithubType /\ EngineType /\ PhaseFits /\ CallFits /\ TargetFits /\ OwnFits
      /\ BudgetFits /\ ClosedFits /\ CountFits /\ ServesFit /\ RecordFits /\ CasesAreTrue
  BY DEF CorpusInv
<1>1. UNCHANGED <<issues, inTransit, requestsSent, captured, ledger, call, answer>>
  BY DEF githubVars
<1>2. /\ position' \in [index : Nat \ {0}, phase : CasePhases, step : Nat \ {0}]
      /\ position'.index = position.index /\ position'.phase = phase
  <2>1. position' = [position EXCEPT !.phase = phase, !.step = 1] BY DEF Enter
  <2>2. phase \in CasePhases /\ 1 \in Nat \ {0} BY DEF CasePhases
  <2>3. position \in [index : Nat \ {0}, phase : CasePhases, step : Nat \ {0}]
    BY <1>0 DEF EngineType
  <2> QED BY <2>1, <2>2, <2>3
<1>3. /\ NoCall.op = "none" /\ NoAnswer.result = "none"
  BY DEF NoCall, Request, NoAnswer
<1>4. GithubType' BY <1>0, <1>1 DEF GithubType
<1>5. EngineType' BY <1>0, <1>2 DEF EngineType
<1>6. PhaseFits' BY <1>0, <1>1, <1>2 DEF PhaseFits, Over, Engaged
<1>7. CallFits' BY <1>1, <1>3 DEF CallFits, Engaged
<1>8. TargetFits' BY <1>0, <1>1, <1>2 DEF TargetFits
<1>9. OwnFits'
  <2>1. Mine' = Mine BY <1>1 DEF Mine
  <2> QED BY <2>1, <1>0, <1>1 DEF OwnFits, ZeroOr, Captured, Ledgered, Listed
<1>10. BudgetFits' BY <1>0, <1>1 DEF BudgetFits
<1>11. ClosedFits'
  <2>1. Captured' = Captured /\ Ledgered' = Ledgered BY <1>1 DEF Captured, Ledgered
  <2>2. Listed(closing)' = Listed(closing') BY DEF Listed
  <2> QED BY <2>1, <2>2, <1>0, <1>1, <1>2 DEF ClosedFits
<1>12. CountFits'
  <2>1. Told' = Told BY <1>2 DEF Told, ToldUncertain, Uncertain
  <2>2. Unknown' = Unknown BY <1>1 DEF Unknown, Captured
  <2>3. ~Unsettled /\ ~Unsettled' BY <1>1, <1>3 DEF Unsettled
  <2>4. Owed' = Owed BY <2>3 DEF Owed
  <2> QED BY <2>1, <2>2, <2>4, <1>0, <1>1 DEF CountFits
<1>13. CasesAreTrue' BY <1>0, <1>1 DEF CasesAreTrue, Agrees
<1> QED
  BY <1>4, <1>5, <1>6, <1>7, <1>8, <1>9, <1>10, <1>11, <1>12, <1>13 DEF CorpusInv

LEMMA PrepareCaseFits == ASSUME CorpusInv, PrepareCase PROVE CorpusInv'
<1>0. /\ GithubType /\ EngineType /\ PhaseFits /\ OwnFits /\ ServesFit
  BY DEF CorpusInv
<1>1. /\ ~Over /\ position.phase = "prepare" /\ (targetId = "github" => permitted)
      /\ Enter("main")
      /\ UNCHANGED <<githubVars, targetId, permitted, bound, record, stopped, report>>
      /\ closing' = closing
  BY DEF PrepareCase, At
<1>2. PICK w \in Prepared : serves' = [serves EXCEPT ![position.index] = w]
  BY DEF PrepareCase
<1>3. call = NoCall /\ answer = NoAnswer /\ closing = << >> /\ record = Fresh /\ ~stopped
  BY <1>0, <1>1 DEF PhaseFits, MayEngage, Engaged, Running
<1>4. /\ w \in CaseServes /\ w # "left" /\ (targetId = "github" => w = "none")
  BY <1>2 DEF Prepared, CaseServes
<1>5. serves' \in [DOMAIN Corpus -> CaseServes]
  BY <1>0, <1>2, <1>4 DEF EngineType
<1>6. position'.index = position.index /\ position'.phase = "main" /\ position'.step = 1
  BY <1>0, <1>1 DEF Enter, EngineType
<1>7. ServesFit'
  <2>1. DOMAIN serves' = DOMAIN serves BY <1>2
  <2>2. \A k \in DOMAIN serves : serves'[k] = IF k = position.index THEN w ELSE serves[k]
    BY <1>2
  <2> QED BY <2>1, <2>2, <1>0, <1>1, <1>4, <1>6 DEF ServesFit
<1>8. RecordFits'
  <2>1. record' = Fresh /\ ~stopped' /\ record'.steps = << >> /\ record'.status = "passed"
    BY <1>1, <1>3 DEF Fresh
  <2>2. Case' = Case /\ Len(Case.main) \in Nat
    BY <1>0, <1>1, <1>6, CaseTyped DEF Case
  <2>3. StepsFit(record.steps, 0)'
    BY <2>1, <2>2, <1>6 DEF StepsFit, RanFits, CountedFits, StopFits, StatusFits
  <2>4. 0 \in 0 .. Len(record'.steps) BY <2>1
  <2> QED BY <2>3, <2>4 DEF RecordFits
<1>9. closing' \in Seq(Nat) /\ closing' = << >> /\ Listed(closing') \subseteq Mine
  BY <1>0, <1>1, <1>3 DEF EngineType, OwnFits
<1> QED BY <1>1, <1>3, <1>5, <1>7, <1>8, <1>9, Moves

LEMMA BeginCleanupFits == ASSUME CorpusInv, BeginCleanup PROVE CorpusInv'
<1>0. /\ GithubType /\ EngineType /\ PhaseFits /\ OwnFits /\ ServesFit /\ RecordFits
      /\ TargetFits
  BY DEF CorpusInv
<1>1. /\ ~Over /\ position.phase = "main" /\ call = NoCall /\ answer = NoAnswer
      /\ stopped \/ position.step > Len(Case.main)
      /\ Enter("cleanup")
      /\ UNCHANGED <<githubVars, targetId, permitted, bound, record, stopped, report>>
      /\ closing' = closing /\ serves' = serves
  BY DEF BeginCleanup, At
<1>2. closing = << >> /\ (targetId = "github" => permitted)
  BY <1>0, <1>1 DEF PhaseFits, TargetFits
<1>3. position'.index = position.index /\ position'.phase = "cleanup" /\ position'.step = 1
  BY <1>0, <1>1 DEF Enter, EngineType
<1>4. ServesFit' BY <1>0, <1>1, <1>3 DEF ServesFit
<1>5. RecordFits'
  <2>1. PICK m \in 0 .. Len(record.steps) : StepsFit(record.steps, m)
    BY <1>0, <1>1 DEF RecordFits
  <2>2. Case' = Case /\ Len(Case.main) \in Nat /\ Len(Case.cleanup) \in Nat
    BY <1>0, <1>1, <1>3, CaseTyped DEF Case
  <2>3. Len(record.steps) = m /\ position.step = m + 1 /\ m <= Len(Case.main) /\ m \in Nat
    BY <2>1, <1>1 DEF StepsFit, RanFits, CountedFits
  <2>4. m = Len(Case.main) \/ stopped BY <2>2, <2>3, <1>1
  <2>5. RanFits(record.steps, m)'
    BY <2>1, <2>2, <1>1 DEF StepsFit, RanFits
  <2>6. CountedFits(record.steps, m)'
    BY <2>2, <2>3, <1>1, <1>3 DEF CountedFits
  <2>7. StopFits(record.steps, m)'
    BY <2>1, <2>2, <2>4, <1>1 DEF StepsFit, StopFits
  <2>8. StatusFits(record.steps, m)'
    BY <2>1, <1>1 DEF StepsFit, StatusFits
  <2> QED BY <2>5, <2>6, <2>7, <2>8, <1>1 DEF RecordFits, StepsFit
<1>6. closing' \in Seq(Nat) /\ closing' = << >> /\ Listed(closing') \subseteq Mine
  BY <1>0, <1>1, <1>2 DEF EngineType, OwnFits
<1>7. serves' \in [DOMAIN Corpus -> CaseServes] BY <1>0, <1>1 DEF EngineType
<1> QED BY <1>1, <1>2, <1>4, <1>5, <1>6, <1>7, Moves

LEMMA BeginTeardownFits == ASSUME CorpusInv, BeginTeardown PROVE CorpusInv'
<1>0. /\ GithubType /\ EngineType /\ PhaseFits /\ OwnFits /\ ServesFit /\ RecordFits
      /\ TargetFits
  BY DEF CorpusInv
<1>1. /\ ~Over /\ position.phase = "cleanup" /\ call = NoCall /\ answer = NoAnswer
      /\ position.step > Len(Case.cleanup)
      /\ Enter("teardown")
      /\ UNCHANGED <<githubVars, targetId, permitted, bound, record, stopped, report>>
      /\ serves' = serves
      /\ closing' = IF targetId = "github" THEN captured ELSE << >>
  BY DEF BeginTeardown, At
<1>2. targetId = "github" => permitted BY <1>0, <1>1 DEF TargetFits
<1>3. /\ position'.index = position.index /\ position'.phase = "teardown"
      /\ position'.step = 1
  BY <1>0, <1>1 DEF Enter, EngineType
<1>4. ServesFit' BY <1>0, <1>1, <1>3 DEF ServesFit
<1>5. RecordFits'
  <2>1. PICK m \in 0 .. Len(record.steps) : StepsFit(record.steps, m)
    BY <1>0, <1>1 DEF RecordFits
  <2>2. Case' = Case /\ Len(Case.main) \in Nat /\ Len(Case.cleanup) \in Nat
    BY <1>0, <1>1, <1>3, CaseTyped DEF Case
  <2>3. /\ Len(record.steps) = m + position.step - 1
        /\ position.step <= Len(Case.cleanup) + 1 /\ m \in Nat
    BY <2>1, <1>1 DEF StepsFit, CountedFits
  <2>4. position.step = Len(Case.cleanup) + 1 BY <2>2, <2>3, <1>0, <1>1 DEF EngineType
  <2>5. RanFits(record.steps, m)'
    BY <2>1, <2>2, <1>1 DEF StepsFit, RanFits
  <2>6. CountedFits(record.steps, m)'
    <3>1. Len(record.steps) = m + Len(Case.cleanup) BY <2>2, <2>3, <2>4
    <3> QED BY <3>1, <2>2, <1>1, <1>3 DEF CountedFits
  <2>7. StopFits(record.steps, m)'
    BY <2>1, <2>2, <1>1 DEF StepsFit, StopFits
  <2>8. StatusFits(record.steps, m)'
    BY <2>1, <1>1 DEF StepsFit, StatusFits
  <2> QED BY <2>5, <2>6, <2>7, <2>8, <1>1 DEF RecordFits, StepsFit
<1>6. /\ closing' \in Seq(Nat) /\ Listed(closing') \subseteq Mine
      /\ Captured \subseteq Listed(closing')
  <2>1. CASE targetId = "github"
    BY <2>1, <1>0, <1>1 DEF GithubType, OwnFits, Listed, Captured
  <2>2. CASE targetId # "github"
    <3>1. closing' = << >> BY <2>2, <1>1
    <3>2. captured = << >> BY <2>2, <1>0 DEF EngineType, TargetFits
    <3>3. Captured = {} /\ Listed(closing') = {} BY <3>1, <3>2 DEF Captured, Listed
    <3> QED BY <3>1, <3>3
  <2> QED BY <2>1, <2>2
<1>7. serves' \in [DOMAIN Corpus -> CaseServes] BY <1>0, <1>1 DEF EngineType
<1> QED BY <1>1, <1>2, <1>4, <1>5, <1>6, <1>7, Moves

LEMMA CloseNextFits == ASSUME CorpusInv, CloseNext PROVE CorpusInv'
<1>0. /\ GithubType /\ EngineType /\ PhaseFits /\ CallFits /\ TargetFits /\ OwnFits
      /\ BudgetFits /\ ClosedFits /\ CountFits /\ ServesFit /\ RecordFits /\ CasesAreTrue
  BY DEF CorpusInv
<1> DEFINE n == Head(closing)
<1>1. /\ ~Over /\ position.phase = "teardown" /\ closing # << >>
      /\ CloseCaptured(n) /\ closing' = Tail(closing)
      /\ UNCHANGED <<targetId, permitted, serves, position, bound, record, stopped, report>>
  BY DEF CloseNext, At
<1>2. PICK end \in Ends : \E done \in TookEffect(end) :
        /\ Counted(end) /\ Closing(n, done)
        /\ ledger' = Append(ledger, [number |-> n, closed |-> end = "ok"])
  BY <1>1 DEF CloseCaptured
<1>3. UNCHANGED <<inTransit, captured, call, answer>> BY <1>1 DEF CloseCaptured
<1>4. PICK done \in TookEffect(end) : Closing(n, done) BY <1>2
<1>5. /\ requestsSent' \in Nat
      /\ requestsSent <= requestsSent' /\ requestsSent' <= MaxRequests
      /\ done \in BOOLEAN
      /\ end = "ok" => done
  BY <1>0, <1>2, <1>4, Tallied
<1>6. /\ closing' \in Seq(Nat) /\ n \in Nat
      /\ Listed(closing) = {n} \cup Listed(closing')
  BY <1>0, <1>1, TailFacts DEF EngineType
<1>7. n \in Mine BY <1>0, <1>6 DEF OwnFits
<1> HIDE DEF n
<1>8. /\ Grows /\ DOMAIN issues' = DOMAIN issues /\ Mine' = Mine
      /\ \A k \in DOMAIN issues : k # n => issues'[k] = issues[k]
      /\ done /\ n \in DOMAIN issues => ~issues'[n].open
  BY <1>0, <1>4, <1>5, <1>6, ClosingGrows
<1> DEFINE entry == [number |-> n, closed |-> end = "ok"]
<1>9. entry \in Closes /\ entry.number = n /\ entry.closed = (end = "ok")
  BY <1>6 DEF Closes
<1>10. ledger' = Append(ledger, entry) BY <1>2
<1>11. ledger \in Seq(Closes) BY <1>0 DEF GithubType
<1> HIDE DEF entry
<1>12. /\ ledger' \in Seq(Closes)
       /\ DOMAIN ledger' = DOMAIN ledger \cup {Len(ledger) + 1}
       /\ \A i \in DOMAIN ledger : ledger'[i] = ledger[i]
       /\ ledger'[Len(ledger) + 1] = entry
  <2> HIDE DEF Closes
  <2> QED BY <1>9, <1>10, <1>11, Appended
<1>13. Ledgered' = Ledgered \cup {n} BY <1>9, <1>12 DEF Ledgered
<1>14. Captured' = Captured BY <1>3 DEF Captured
<1>15. call = NoCall /\ answer = NoAnswer /\ targetId = "github" /\ permitted
  <2>1. call = NoCall /\ answer = NoAnswer
    BY <1>0, <1>1 DEF PhaseFits, Engaged, MayEngage, Running
  <2>2. targetId = "github"
    <3>1. CASE targetId = "local"
      <4>1. issues = << >> BY <3>1, <1>0 DEF TargetFits
      <4>2. DOMAIN issues = {} BY <4>1
      <4> QED BY <4>2, <1>7 DEF Mine
    <3> QED BY <3>1, <1>0 DEF EngineType
  <2> QED BY <2>1, <2>2, <1>0, <1>1 DEF TargetFits
<1>16. GithubType' BY <1>0, <1>3, <1>5, <1>8, <1>12 DEF GithubType, Grows
<1>17. EngineType' BY <1>0, <1>1, <1>6 DEF EngineType
<1>18. PhaseFits'
  BY <1>0, <1>1, <1>3, <1>15 DEF PhaseFits, Over, Engaged
<1>19. CallFits'
  BY <1>0, <1>3, <1>15 DEF CallFits, Engaged, NoCall, Request, NoAnswer
<1>20. TargetFits' BY <1>0, <1>1, <1>15 DEF TargetFits
<1>21. OwnFits'
  <2>1. \A k \in DOMAIN issues' : ~issues'[k].marked => issues'[k].open
    <3>1. ASSUME NEW k \in DOMAIN issues', ~issues'[k].marked PROVE issues'[k].open
      <4>1. k \in DOMAIN issues /\ k \notin Mine BY <3>1, <1>8 DEF Mine
      <4>2. issues'[k] = issues[k] BY <4>1, <1>7, <1>8
      <4> QED BY <4>1, <4>2, <3>1, <1>0 DEF OwnFits
    <3> QED BY <3>1
  <2>2. Listed(closing') \subseteq Mine /\ Listed(closing)' = Listed(closing')
    BY <1>0, <1>6 DEF OwnFits, Listed
  <2> QED BY <2>1, <2>2, <1>0, <1>1, <1>3, <1>7, <1>8, <1>13, <1>14 DEF OwnFits, ZeroOr
<1>22. BudgetFits'
  <2>1. answer'.result # "provider_failure" BY <1>3, <1>15 DEF NoAnswer
  <2>2. requestsSent \in Nat /\ MaxRequests \in Nat BY <1>0, CorpusAssumption DEF GithubType
  <2>3. record.provider => requestsSent' = MaxRequests
    BY <2>2, <1>0, <1>5 DEF BudgetFits
  <2> QED BY <2>1, <2>3, <1>1, <1>5 DEF BudgetFits
<1>23. ClosedFits'
  <2>1. ASSUME NEW i \in DOMAIN ledger', ledger'[i].closed
        PROVE  ~issues'[ledger'[i].number].open
    <3>1. CASE i \in DOMAIN ledger
      <4>1. ledger'[i] = ledger[i] /\ ledger[i].number \in DOMAIN issues
        BY <3>1, <1>0, <1>12 DEF OwnFits, Ledgered, Mine
      <4> QED BY <4>1, <3>1, <2>1, <1>0, <1>8 DEF ClosedFits, Grows
    <3>2. CASE i = Len(ledger) + 1
      <4>1. end = "ok" /\ ledger'[i].number = n BY <3>2, <2>1, <1>9, <1>12
      <4>2. n \in DOMAIN issues BY <1>7 DEF Mine
      <4> QED BY <4>1, <4>2, <1>5, <1>8
    <3> QED BY <3>1, <3>2, <1>12
  <2>2. Listed(closing)' = Listed(closing') BY DEF Listed
  <2>3. Captured' \subseteq Listed(closing)' \cup Ledgered'
    BY <2>2, <1>0, <1>1, <1>6, <1>13, <1>14 DEF ClosedFits
  <2>4. position'.phase = "teardown" BY <1>1
  <2> QED BY <2>1, <2>3, <2>4 DEF ClosedFits
<1>24. CountFits'
  <2>1. Cardinality(Unknown') \in Nat /\ Cardinality(Unknown') <= Cardinality(Unknown)
    BY <1>0, <1>8, <1>14, UnknownShrinks
  <2>2. Told' = Told BY <1>1 DEF Told, ToldUncertain, Uncertain
  <2>3. ~Unsettled /\ ~Unsettled'
    BY <1>3, <1>15 DEF Unsettled, NoCall, Request, NoAnswer
  <2>4. Owed' = Owed BY <2>3 DEF Owed
  <2> QED BY <2>1, <2>2, <2>4, <1>0, <1>3, OwedIs DEF CountFits
<1>25. ServesFit' BY <1>0, <1>1 DEF ServesFit
<1>26. RecordFits'
  <2>1. Case' = Case BY <1>1 DEF Case
  <2> QED BY <2>1, <1>0, <1>1
       DEF RecordFits, StepsFit, RanFits, CountedFits, StopFits, StatusFits
<1>27. CasesAreTrue' BY <1>0, <1>1, <1>5, <1>16, CasesStay
<1> QED
  BY <1>16, <1>17, <1>18, <1>19, <1>20, <1>21, <1>22, <1>23, <1>24, <1>25, <1>26, <1>27
     DEF CorpusInv

\* What a case that ended told of its creates stays told.
LEMMA ToldStays ==
  ASSUME GithubType, EngineType, PhaseFits, NEW r \in CaseReports, EndCase(r),
         r.steps = record.steps
  PROVE  /\ Told' = Told
         /\ report' \in Seq(CaseReports)
         /\ DOMAIN report' = DOMAIN report \cup {position.index}
         /\ position.index \notin DOMAIN report
         /\ \A i \in DOMAIN report : report'[i] = report[i]
         /\ report'[position.index] = r
         /\ Len(report') = position.index
<1>1. report \in Seq(CaseReports) /\ report' = Append(report, r)
  BY DEF EngineType, EndCase
<1>2. position.index \in Nat \ {0} /\ Len(report) + 1 = position.index
  BY DEF PhaseFits, EngineType
<1> HIDE DEF CaseReports
<1>3. /\ report' \in Seq(CaseReports)
      /\ DOMAIN report' = DOMAIN report \cup {position.index}
      /\ position.index \notin DOMAIN report
      /\ \A i \in DOMAIN report : report'[i] = report[i]
      /\ report'[position.index] = r
      /\ Len(report') = position.index
  BY <1>1, <1>2, Appended
<1>4. Uncertain(record.steps)' = {} /\ Uncertain(<< >>) = {}
  BY DEF EndCase, Fresh, Uncertain
<1>5. Told' = ToldUncertain' BY <1>4 DEF Told
<1>6. \A i \in DOMAIN report : Uncertain(report[i].steps)' = Uncertain(report[i].steps)
  BY <1>3 DEF Uncertain
<1>7. \A t : t \in Told <=>
        \/ \E i \in DOMAIN report : t \in {i} \X Uncertain(report[i].steps)
        \/ t \in {position.index} \X Uncertain(r.steps)
  BY DEF Told, ToldUncertain
<1>8. \A t : t \in ToldUncertain' <=>
        \E i \in DOMAIN report' : t \in {i} \X Uncertain(report'[i].steps)
  BY DEF ToldUncertain, Uncertain
<1>9. \A t : t \in ToldUncertain' <=>
        \/ \E i \in DOMAIN report : t \in {i} \X Uncertain(report[i].steps)
        \/ t \in {position.index} \X Uncertain(r.steps)
  BY <1>3, <1>8
<1> QED BY <1>3, <1>5, <1>7, <1>9

LEMMA EndFits ==
  ASSUME CorpusInv, ~Over, NEW r \in CaseReports, EndCase(r), r.steps = record.steps,
         call = NoCall, answer = NoAnswer,
         UNCHANGED <<githubVars, targetId, permitted, closing>>, closing = << >>,
         \E m \in 0 .. Len(r.steps) : Agrees(r, Case, m),
         (\E n \in Captured : issues[n].open) =>
           r.status = "error" \/ (r.status = "skipped" /\ LastRunErred),
         serves' \in [DOMAIN Corpus -> CaseServes],
         \A k \in DOMAIN serves' :
           /\ targetId = "github" => serves'[k] = "none"
           /\ serves'[k] # "serving"
           /\ serves'[k] = "left" =>
                serves[k] = "left" \/ (k = position.index /\ r.status = "error")
  PROVE  CorpusInv'
<1>0. /\ GithubType /\ EngineType /\ PhaseFits /\ CallFits /\ TargetFits /\ OwnFits
      /\ BudgetFits /\ ClosedFits /\ CountFits /\ ServesFit /\ CasesAreTrue
  BY DEF CorpusInv
<1>1. UNCHANGED <<issues, inTransit, requestsSent, captured, ledger, call, answer>>
  BY DEF githubVars
<1>2. /\ position' = [index |-> position.index + 1, phase |-> "prepare", step |-> 1]
      /\ bound' = Unbound /\ record' = Fresh /\ stopped' = FALSE
  BY DEF EndCase
<1>3. /\ Told' = Told
      /\ report' \in Seq(CaseReports)
      /\ DOMAIN report' = DOMAIN report \cup {position.index}
      /\ position.index \notin DOMAIN report
      /\ \A i \in DOMAIN report : report'[i] = report[i]
      /\ report'[position.index] = r
      /\ Len(report') = position.index
  BY <1>0, ToldStays
<1>4. position.index \in Nat \ {0} /\ position.index <= Len(Corpus) /\ Len(Corpus) \in Nat
  BY <1>0, CorpusAssumption DEF EngineType, Over
<1>5. Fresh \in Records /\ ~Fresh.provider
  BY DEF Fresh, Records, RecordStatuses
<1>6. /\ position' \in [index : Nat \ {0}, phase : CasePhases, step : Nat \ {0}]
      /\ position'.index = position.index + 1 /\ position'.phase = "prepare"
  BY <1>2, <1>4 DEF CasePhases
<1>7. DOMAIN bound' = {} BY <1>2 DEF Unbound
<1>8. /\ NoCall.op = "none" /\ NoAnswer.result = "none"
  BY DEF NoCall, Request, NoAnswer
<1>9. GithubType' BY <1>0, <1>1 DEF GithubType
<1>10. EngineType'
  BY <1>0, <1>2, <1>3, <1>5, <1>6 DEF EngineType
<1>11. PhaseFits'
  BY <1>1, <1>2, <1>3, <1>4, <1>6, <1>7 DEF PhaseFits, Over, Engaged
<1>12. CallFits' BY <1>1, <1>8 DEF CallFits, Engaged
<1>13. TargetFits' BY <1>0, <1>1, <1>6 DEF TargetFits
<1>14. OwnFits'
  <2>1. Mine' = Mine BY <1>1 DEF Mine
  <2> QED BY <2>1, <1>0, <1>1, <1>7 DEF OwnFits, ZeroOr, Captured, Ledgered, Listed
<1>15. BudgetFits' BY <1>0, <1>1, <1>2, <1>5 DEF BudgetFits
<1>16. ClosedFits'
  <2>1. \A i \in DOMAIN ledger' : ledger'[i].closed => ~issues'[ledger'[i].number].open
    BY <1>0, <1>1 DEF ClosedFits
  <2>2. ASSUME NEW n \in Captured', issues'[n].open PROVE LastRunErred'
    <3>1. \E k \in Captured : issues[k].open BY <2>2, <1>1 DEF Captured
    <3>2. \A i \in DOMAIN report : i < position.index
      BY <1>0, <1>4 DEF PhaseFits, EngineType
    <3>3. CASE r.status = "error"
      <4>1. \A k \in DOMAIN report' : ~(k > position.index)
        BY <1>3, <1>4, <3>2, <1>0 DEF EngineType
      <4> QED BY <4>1, <3>3, <1>3 DEF LastRunErred
    <3>4. CASE r.status = "skipped" /\ LastRunErred
      <4>1. PICK i \in DOMAIN report :
              /\ report[i].status = "error"
              /\ \A k \in DOMAIN report : k > i => report[k].status = "skipped"
        BY <3>4 DEF LastRunErred
      <4>2. \A k \in DOMAIN report' : k > i => report'[k].status = "skipped"
        BY <4>1, <3>4, <1>3
      <4> QED BY <4>1, <4>2, <1>3 DEF LastRunErred
    <3> QED BY <3>1, <3>3, <3>4
  <2> QED BY <2>1, <2>2, <1>6 DEF ClosedFits
<1>17. CountFits'
  <2>1. Unknown' = Unknown BY <1>1 DEF Unknown, Captured
  <2>2. ~Unsettled /\ ~Unsettled' BY <1>1, <1>8 DEF Unsettled
  <2>3. Owed' = Owed BY <2>2 DEF Owed
  <2> QED BY <2>1, <2>3, <1>0, <1>1, <1>3 DEF CountFits
<1>18. ServesFit'
  <2>1. DOMAIN serves' = DOMAIN serves BY <1>0 DEF EngineType
  <2>2. ASSUME NEW k \in DOMAIN serves', serves'[k] = "left"
        PROVE  k < position.index + 1 /\ report'[k].status = "error"
    <3>1. CASE serves[k] = "left"
      <4>1. k < position.index /\ report[k].status = "error"
        BY <3>1, <2>1, <1>0 DEF ServesFit
      <4>2. k \in DOMAIN report
        <5>1. k \in 1 .. Len(Corpus) BY <2>1, <1>0, CorpusAssumption DEF EngineType
        <5>2. DOMAIN report = 1 .. position.index - 1
          BY <1>0 DEF PhaseFits, EngineType
        <5> QED BY <4>1, <5>1, <5>2, <1>4
      <4> QED BY <4>1, <4>2, <1>3, <1>4, <2>1, <1>0, CorpusAssumption DEF EngineType
    <3>2. CASE k = position.index /\ r.status = "error" BY <3>2, <1>3, <1>4
    <3> QED BY <3>1, <3>2, <2>2
  <2> QED BY <2>1, <2>2, <1>6 DEF ServesFit
<1>19. RecordFits' BY <1>6 DEF RecordFits
<1>20. CasesAreTrue'
  <2>1. ASSUME NEW i \in DOMAIN report'
        PROVE  \E m \in 0 .. Len(report'[i].steps) : Agrees(report'[i], Corpus[i], m)
    <3>1. CASE i \in DOMAIN report
      BY <3>1, <1>0, <1>3 DEF CasesAreTrue
    <3>2. CASE i = position.index
      BY <3>2, <1>3 DEF Case
    <3> QED BY <3>1, <3>2, <1>3
  <2> QED BY <2>1, <1>1 DEF CasesAreTrue, Agrees
<1> QED
  BY <1>9, <1>10, <1>11, <1>12, <1>13, <1>14, <1>15, <1>16, <1>17, <1>18, <1>19, <1>20
     DEF CorpusInv

LEMMA UnrunFits ==
  ASSUME EngineType, PhaseFits, ~Over, position.phase = "prepare",
         NEW status \in {"error", "skipped"}
  PROVE  /\ Unrun(status) \in CaseReports /\ Unrun(status).status = status
         /\ Unrun(status).steps = record.steps
         /\ \E m \in 0 .. Len(Unrun(status).steps) : Agrees(Unrun(status), Case, m)
<1> DEFINE r == Unrun(status)
<1>1. /\ r.case = position.index /\ r.status = status /\ r.behavioral = "not_evaluated"
      /\ r.class = "none" /\ r.steps = << >>
  BY DEF Unrun
<1>2. record.steps = << >> BY DEF PhaseFits, Fresh
<1>3. position.index \in Nat BY DEF EngineType
<1>4. << >> \in Seq(StepReports) OBVIOUS
<1>5. r \in CaseReports
  BY <1>3, <1>4 DEF Unrun, CaseReports, RecordStatuses
<1>6. Len(Case.main) \in Nat BY CaseTyped
<1> HIDE DEF r
<1>7. Agrees(r, Case, 0) BY <1>1, <1>6 DEF Agrees, Split
<1>8. 0 \in 0 .. Len(r.steps) BY <1>1
<1>9. \E m \in 0 .. Len(r.steps) : Agrees(r, Case, m) BY <1>7, <1>8
<1> QED BY <1>1, <1>2, <1>5, <1>9 DEF r

LEMMA SkipCaseFits == ASSUME CorpusInv, SkipCase PROVE CorpusInv'
<1>0. EngineType /\ PhaseFits /\ ServesFit /\ ClosedFits BY DEF CorpusInv
<1>1. /\ ~Over /\ position.phase = "prepare" /\ EndCase(Unrun("skipped"))
      /\ UNCHANGED <<githubVars, targetId, permitted, closing>> /\ serves' = serves
  BY DEF SkipCase, At
<1>2. call = NoCall /\ answer = NoAnswer /\ closing = << >>
  BY <1>0, <1>1 DEF PhaseFits, MayEngage, Engaged, Running
<1> DEFINE r == Unrun("skipped")
<1>3. /\ r \in CaseReports /\ r.status = "skipped" /\ r.steps = record.steps
      /\ \E m \in 0 .. Len(r.steps) : Agrees(r, Case, m)
  BY <1>0, <1>1, UnrunFits
<1>4. EndCase(r) BY <1>1
<1> HIDE DEF r
<1>5. (\E n \in Captured : issues[n].open) => LastRunErred
  BY <1>0, <1>1 DEF ClosedFits
<1>6. serves' \in [DOMAIN Corpus -> CaseServes] BY <1>0, <1>1 DEF EngineType
<1>7. \A k \in DOMAIN serves' :
        /\ targetId = "github" => serves'[k] = "none"
        /\ serves'[k] # "serving"
        /\ serves'[k] = "left" =>
             serves[k] = "left" \/ (k = position.index /\ r.status = "error")
  BY <1>0, <1>1 DEF ServesFit
<1> QED BY <1>1, <1>2, <1>3, <1>4, <1>5, <1>6, <1>7, EndFits

LEMMA PrepareFailsFits == ASSUME CorpusInv, PrepareFails PROVE CorpusInv'
<1>0. EngineType /\ PhaseFits /\ ServesFit /\ ClosedFits BY DEF CorpusInv
<1>1. /\ ~Over /\ position.phase = "prepare" /\ EndCase(Unrun("error"))
      /\ UNCHANGED <<githubVars, targetId, permitted, closing>>
  BY DEF PrepareFails, At
<1>2. call = NoCall /\ answer = NoAnswer /\ closing = << >>
  BY <1>0, <1>1 DEF PhaseFits, MayEngage, Engaged, Running
<1> DEFINE r == Unrun("error")
<1>3. /\ r \in CaseReports /\ r.status = "error" /\ r.steps = record.steps
      /\ \E m \in 0 .. Len(r.steps) : Agrees(r, Case, m)
  BY <1>0, <1>1, UnrunFits
<1>4. EndCase(r) BY <1>1
<1> HIDE DEF r
<1>5. PICK w \in Unprepared : serves' = [serves EXCEPT ![position.index] = w]
  BY DEF PrepareFails
<1>6. /\ w \in CaseServes /\ w # "serving" /\ (targetId = "github" => w = "none")
  BY <1>5 DEF Unprepared, CaseServes
<1>7. serves' \in [DOMAIN Corpus -> CaseServes]
  BY <1>0, <1>5, <1>6 DEF EngineType
<1>8. \A k \in DOMAIN serves' :
        /\ targetId = "github" => serves'[k] = "none"
        /\ serves'[k] # "serving"
        /\ serves'[k] = "left" =>
             serves[k] = "left" \/ (k = position.index /\ r.status = "error")
  <2>1. DOMAIN serves' = DOMAIN serves BY <1>5
  <2>2. \A k \in DOMAIN serves : serves'[k] = IF k = position.index THEN w ELSE serves[k]
    BY <1>5
  <2> QED BY <2>1, <2>2, <1>0, <1>1, <1>3, <1>6 DEF ServesFit
<1> QED BY <1>1, <1>2, <1>3, <1>4, <1>7, <1>8, EndFits

LEMMA FinishCaseFits == ASSUME CorpusInv, FinishCase PROVE CorpusInv'
<1>0. /\ GithubType /\ EngineType /\ PhaseFits /\ TargetFits /\ OwnFits /\ BudgetFits
      /\ ServesFit /\ ClosedFits /\ RecordFits
  BY DEF CorpusInv
<1> DEFINE status == IF targetId = "github" /\ CleanupFailed THEN "error"
                     ELSE record.status
           r == [case |-> position.index, status |-> status,
                 behavioral |-> Behavioral(status), class |-> FailureClass(status),
                 steps |-> record.steps]
<1>1. /\ ~Over /\ position.phase = "teardown" /\ closing = << >> /\ EndCase(r)
      /\ UNCHANGED <<githubVars, targetId, permitted, closing>>
  BY DEF FinishCase, At
<1>2. serves' = IF targetId = "local" THEN [serves EXCEPT ![position.index] = "stopped"]
                ELSE serves
  BY DEF FinishCase
<1>3. call = NoCall /\ answer = NoAnswer
  BY <1>0, <1>1 DEF PhaseFits, MayEngage, Engaged, Running
<1>4. record \in Records /\ position.index \in Nat \ {0} BY <1>0 DEF EngineType
<1>5. record.steps \in Seq(StepReports) /\ record.status \in RecordStatuses
  BY <1>4 DEF Records
<1>6. status \in RecordStatuses BY <1>5 DEF RecordStatuses
<1>7. status = record.status \/ status = "error" OBVIOUS
<1>8. targetId = "github" /\ CleanupFailed => status = "error" OBVIOUS
<1> HIDE DEF status
<1>9. /\ Behavioral(status) \in {"pass", "fail", "not_evaluated"}
      /\ Behavioral(status) = "pass" => status = "passed"
  BY DEF Behavioral
<1>10. /\ FailureClass(status)
            \in {"none", "runtime_error", "provider_failure", "assertion_failure"}
       /\ FailureClass(status) = "assertion_failure" => ~Erred(record.steps)
       /\ FailureClass(status) = "provider_failure" => record.provider
  BY DEF FailureClass, Erred
<1>11. /\ r \in CaseReports /\ r.status = status /\ r.steps = record.steps
       /\ r.behavioral = Behavioral(status) /\ r.class = FailureClass(status)
  <2>1. status \in RecordStatuses \cup {"skipped"} BY <1>6
  <2> HIDE DEF StepReports, RecordStatuses
  <2> QED BY <2>1, <1>4, <1>5, <1>9, <1>10 DEF CaseReports
<1> HIDE DEF r
<1>12. PICK m \in 0 .. Len(record.steps) : StepsFit(record.steps, m)
  BY <1>0, <1>1 DEF RecordFits
<1>13. /\ Len(record.steps) \in Nat /\ DOMAIN record.steps = 1 .. Len(record.steps)
       /\ m \in Nat /\ m <= Len(record.steps)
  <2>1. Len(record.steps) \in Nat /\ DOMAIN record.steps = 1 .. Len(record.steps)
    BY <1>5
  <2> QED BY <2>1, <1>12
<1>14. Split(record.steps, Case, m)
  BY <1>1, <1>12 DEF Split, StepsFit, RanFits, CountedFits
<1>15. \A k \in 1 .. m : record.steps[k].mark = "error" => k = m
  BY <1>12 DEF StepsFit, StopFits
<1>16. ASSUME status = "passed"
       PROVE  /\ m = Len(Case.main)
              /\ \A k \in 1 .. m : record.steps[k].mark \in {"passed", "lost"}
              /\ ~Erred(record.steps)
  <2>1. record.status = "passed" BY <1>7, <1>16
  <2>2. /\ \A k \in 1 .. m : record.steps[k].mark \in {"passed", "lost"}
        /\ \A k \in 1 .. Len(record.steps) : record.steps[k].mark # "error"
    BY <2>1, <1>12 DEF StepsFit, StatusFits
  <2>3. ~stopped
    <3>1. ASSUME stopped PROVE FALSE
      <4>1. m > 0 /\ record.steps[m].mark \in {"error", "failed"}
        BY <3>1, <1>12 DEF StepsFit, StopFits
      <4>2. m \in 1 .. m BY <4>1, <1>13
      <4> QED BY <4>1, <4>2, <2>2
    <3> QED BY <3>1
  <2>4. m = Len(Case.main) BY <2>3, <1>1, <1>12 DEF StepsFit, StopFits
  <2> QED BY <2>2, <2>4, <1>13 DEF Erred
<1>17. status = "failed" => \E k \in 1 .. m : record.steps[k].mark = "failed"
  BY <1>7, <1>12 DEF StepsFit, StatusFits
<1>18. Agrees(r, Case, m)
  <2>1. record.provider => requestsSent = MaxRequests BY <1>0 DEF BudgetFits
  <2> QED BY <2>1, <1>9, <1>10, <1>11, <1>14, <1>15, <1>16, <1>17 DEF Agrees
<1>19. \E k \in 0 .. Len(r.steps) : Agrees(r, Case, k)
  BY <1>11, <1>12, <1>18
<1>20. (\E n \in Captured : issues[n].open) => r.status = "error"
  <2>1. ASSUME NEW n \in Captured, issues[n].open PROVE status = "error"
    <3>1. targetId = "github"
      <4>1. CASE targetId = "local"
        <5>1. captured = << >> BY <4>1, <1>0 DEF TargetFits
        <5> QED BY <5>1 DEF Captured
      <4> QED BY <4>1, <1>0 DEF EngineType
    <3>2. Listed(closing) = {} BY <1>1 DEF Listed
    <3>3. n \in Ledgered BY <3>2, <1>0, <1>1 DEF ClosedFits
    <3>4. PICK i \in DOMAIN ledger : ledger[i].number = n BY <3>3 DEF Ledgered
    <3>5. ~ledger[i].closed BY <3>4, <2>1, <1>0 DEF ClosedFits
    <3> QED BY <3>1, <3>5, <1>8 DEF CleanupFailed
  <2> QED BY <2>1, <1>11
<1>21. serves' \in [DOMAIN Corpus -> CaseServes]
  BY <1>0, <1>2 DEF EngineType, CaseServes
<1>22. \A k \in DOMAIN serves' :
        /\ targetId = "github" => serves'[k] = "none"
        /\ serves'[k] # "serving"
        /\ serves'[k] = "left" =>
             serves[k] = "left" \/ (k = position.index /\ r.status = "error")
  <2>1. CASE targetId = "local"
    <3>1. DOMAIN serves' = DOMAIN serves BY <1>2, <2>1
    <3>2. \A k \in DOMAIN serves :
            serves'[k] = IF k = position.index THEN "stopped" ELSE serves[k]
      BY <1>2, <2>1
    <3> QED BY <3>1, <3>2, <2>1, <1>0 DEF ServesFit
  <2>2. CASE targetId = "github"
    <3>1. serves' = serves BY <1>2, <2>2
    <3> QED BY <3>1, <2>2, <1>0 DEF ServesFit
  <2> QED BY <2>1, <2>2, <1>0 DEF EngineType
<1> QED BY <1>1, <1>3, <1>11, <1>19, <1>20, <1>21, <1>22, EndFits

LEMMA CorpusInitFits == ASSUME CorpusInit PROVE CorpusInv
<1> USE DEF CorpusInit, GithubInit
<1>1. NoCall \in CaseCalls /\ NoCall.op = "none" /\ NoCall.number = 0 /\ NoCall.matches = {}
  BY DEF NoCall, Request, CaseCalls
<1>2. /\ NoAnswer \in CaseAnswers /\ NoAnswer.result = "none" /\ NoAnswer.number = 0
  BY DEF NoAnswer, CaseAnswers
<1>3. Fresh \in Records /\ ~Fresh.provider /\ Fresh.steps = << >>
  BY DEF Fresh, Records, RecordStatuses
<1>4. GithubType BY <1>1, <1>2 DEF GithubType
<1>5. EngineType
  <2>1. serves \in [DOMAIN Corpus -> CaseServes] BY DEF CaseServes
  <2>2. position \in [index : Nat \ {0}, phase : CasePhases, step : Nat \ {0}]
    BY DEF CasePhases
  <2>3. closing \in Seq(Nat) /\ report \in Seq(CaseReports) OBVIOUS
  <2> QED BY <1>3, <2>1, <2>2, <2>3 DEF EngineType
<1>6. /\ Len(Corpus) \in Nat BY CorpusAssumption
<1>7. PhaseFits BY <1>6 DEF PhaseFits, Over, Engaged, Unbound
<1>8. CallFits BY <1>1, <1>2 DEF CallFits, Engaged
<1>9. TargetFits BY <1>2 DEF TargetFits
<1>10. OwnFits
  BY <1>1, <1>2 DEF OwnFits, ZeroOr, Unbound, Captured, Listed, Ledgered
<1>11. BudgetFits BY <1>2, <1>3, CorpusAssumption DEF BudgetFits
<1>12. ClosedFits BY DEF ClosedFits, Captured
<1>13. CountFits
  <2>1. Told = {}
    <3>1. Uncertain(record.steps) = {} BY <1>3 DEF Uncertain
    <3>2. ToldUncertain = {} BY DEF ToldUncertain
    <3> QED BY <3>1, <3>2 DEF Told
  <2>2. Unknown = {} BY DEF Unknown
  <2>3. Owed \in {0, 1} BY DEF Owed
  <2> QED BY <2>1, <2>2, <2>3, FS_EmptySet DEF CountFits
<1>14. ServesFit BY DEF ServesFit
<1>15. RecordFits BY DEF RecordFits
<1>16. CasesAreTrue BY DEF CasesAreTrue
<1> QED
  BY <1>4, <1>5, <1>7, <1>8, <1>9, <1>10, <1>11, <1>12, <1>13, <1>14, <1>15, <1>16
     DEF CorpusInv

LEMMA CorpusNextFits == ASSUME CorpusInv, CorpusNext PROVE CorpusInv'
<1>1. CASE TargetServes
  <2>1. CASE targetId = "github" /\ GithubServes /\ UNCHANGED engineVars
    BY <2>1, SendCreateFits, SendReconcileFits, SendReadFits, SendUpdateFits, RefuseFits
       DEF GithubServes
  <2> QED BY <1>1, <2>1, LocalServesFits DEF TargetServes
<1>2. CASE ProviderSteps BY <1>2, ProviderFits DEF ProviderSteps
<1>3. CASE SkipCase \/ PrepareFails \/ PrepareCase
  BY <1>3, SkipCaseFits, PrepareFailsFits, PrepareCaseFits
<1>4. CASE MissBinding \/ OperatorStep \/ RequestStep
  BY <1>4, MissBindingFits, OperatorStepFits, RequestStepFits
<1>5. CASE StepEndsWithout \/ StepAnswered \/ PollAgain \/ PollThrows \/ PollEnds
  BY <1>5, StepEndsFits, StepAnsweredFits, PollAgainFits, PollThrowsFits, PollEndsFits
<1>6. CASE BeginCleanup \/ BeginTeardown \/ CloseNext \/ FinishCase
  BY <1>6, BeginCleanupFits, BeginTeardownFits, CloseNextFits, FinishCaseFits
<1> QED
  BY <1>1, <1>2, <1>3, <1>4, <1>5, <1>6 DEF CorpusNext, CorpusSteps

LEMMA CorpusStutters == ASSUME CorpusInv, UNCHANGED corpusVars PROVE CorpusInv'
<1> USE DEF corpusVars, githubVars, engineVars
<1>1. /\ Step' = Step /\ Running' = Running /\ IsPoll' = IsPoll /\ Over' = Over
      /\ Case' = Case /\ Told' = Told
  BY EngineSame
<1>2. /\ GithubType /\ EngineType /\ PhaseFits /\ CallFits /\ TargetFits /\ OwnFits
      /\ BudgetFits /\ ClosedFits /\ CountFits /\ ServesFit /\ RecordFits /\ CasesAreTrue
  BY DEF CorpusInv
<1>3. GithubType' /\ EngineType' BY <1>2 DEF GithubType, EngineType
<1>4. PhaseFits' /\ CallFits' /\ TargetFits' /\ BudgetFits' /\ ServesFit'
  BY <1>1, <1>2 DEF PhaseFits, CallFits, TargetFits, BudgetFits, ServesFit, Engaged, MayEngage
<1>5. Mine' = Mine /\ Captured' = Captured /\ Ledgered' = Ledgered
      /\ Listed(closing)' = Listed(closing) /\ Unknown' = Unknown
      /\ LastRunErred' = LastRunErred /\ Unsettled' = Unsettled
  BY <1>1 DEF Mine, Captured, Ledgered, Listed, Unknown, LastRunErred, Unsettled
<1>6. OwnFits' /\ ClosedFits' BY <1>2, <1>5 DEF OwnFits, ClosedFits, ZeroOr
<1>7. CountFits' BY <1>1, <1>2, <1>5 DEF CountFits, Owed
<1>8. RecordFits'
  BY <1>1, <1>2 DEF RecordFits, StepsFit, RanFits, CountedFits, StopFits, StatusFits
<1>9. CasesAreTrue' BY <1>2 DEF CasesAreTrue, Agrees
<1> QED BY <1>3, <1>4, <1>6, <1>7, <1>8, <1>9 DEF CorpusInv

\* The invariant holds of every run.
LEMMA CorpusInductive == CorpusSpec => []CorpusInv
<1>1. CorpusInit => CorpusInv BY CorpusInitFits
<1>2. CorpusInv /\ [CorpusNext]_corpusVars => CorpusInv'
  BY CorpusNextFits, CorpusStutters
<1> QED BY <1>1, <1>2, PTL DEF CorpusSpec

\* The run of a corpus leaves nothing behind it does not tell of: GithubTarget
\* writes to no issue but the run's own and stays within its permission and its
\* budget, what it knows of is closed or its case is an error, and a create it
\* lost sight of is one a report calls lost or failed. For every corpus, budget
\* and way the provider answers.
THEOREM NothingLeft == CorpusSpec => []CorpusLeavesNothing
<1>1. CorpusInv => CorpusLeavesNothing
  <2> SUFFICES ASSUME CorpusInv PROVE CorpusLeavesNothing
    OBVIOUS
  <2>0. /\ GithubType /\ EngineType /\ PhaseFits /\ CallFits /\ TargetFits /\ OwnFits
        /\ BudgetFits /\ ClosedFits /\ CountFits /\ ServesFit
    BY DEF CorpusInv
  <2>1. \A n \in DOMAIN issues : ~issues[n].marked => issues[n].open
    BY <2>0 DEF OwnFits
  <2>2. requestsSent <= IF permitted THEN MaxRequests ELSE 0
    BY <2>0 DEF BudgetFits, TargetFits
  <2>3. position.phase = "prepare" /\ (\E n \in Captured : issues[n].open) => LastRunErred
    BY <2>0 DEF ClosedFits
  <2>4. Over => Cardinality(Unknown) + inTransit <= Cardinality(ToldUncertain)
    <3> SUFFICES ASSUME Over
                 PROVE  Cardinality(Unknown) + inTransit <= Cardinality(ToldUncertain)
      OBVIOUS
    <3>1. position.phase = "prepare" /\ record = Fresh BY <2>0 DEF PhaseFits
    <3>2. call = NoCall /\ answer = NoAnswer
      BY <2>0, <3>1 DEF PhaseFits, MayEngage, Engaged, Running
    <3>3. ~Unsettled BY <3>2 DEF Unsettled, NoCall, Request, NoAnswer
    <3>4. Told = ToldUncertain
      <4>1. Uncertain(record.steps) = {} BY <3>1 DEF Fresh, Uncertain
      <4> QED BY <4>1 DEF Told
    <3>5. Owed = 0 BY <3>3 DEF Owed
    <3> QED BY <3>4, <3>5, <2>0, OwedIs
  <2>5. \A k \in DOMAIN serves :
          /\ serves[k] = "serving" => k = position.index
          /\ serves[k] = "left" => report[k].status = "error"
    BY <2>0 DEF ServesFit
  <2> QED BY <2>1, <2>2, <2>3, <2>4, <2>5 DEF CorpusLeavesNothing
<1> QED BY <1>1, CorpusInductive, PTL

\* The report of every case, as runCase() builds it, agrees with what its steps
\* came to, however steps, polls, cleanup steps, budget and teardown fail.
THEOREM CasesTrue == CorpusSpec => []CasesAreTrue
<1>1. CorpusInv => CasesAreTrue BY DEF CorpusInv
<1> QED BY <1>1, CorpusInductive, PTL
=============================================================================
