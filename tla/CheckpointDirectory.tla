-------------------------- MODULE CheckpointDirectory --------------------------
(***************************************************************************)
(* Writing a checkpoint directory and reading it back                      *)
(* (packages/environment/src/checkpoint-dir.ts). A write stages beside its *)
(* target in many file system steps and renames; a process may die at any  *)
(* of them, another write to the same target may run, the frozen tree may  *)
(* change while it is copied, and the operator may ask again.              *)
(***************************************************************************)
EXTENDS Naturals, Sequences, FiniteSets

CONSTANTS
  Writers,       \* writes to one target, each of a document of its own
  Absent         \* no such directory

VARIABLES
  step,          \* where a write is
  listed,        \* the stale staging directories a write found to remove
  staging,       \* the staging directory of a write: its files, or Absent
  target,        \* the checkpoint directory
  frozen,        \* the version of the frozen tree of the pack
  digest,        \* the version of the tree a write hashed
  disturbed      \* history: writes whose staging directory another one removed

checkpointVars == <<step, listed, staging, target, frozen, digest, disturbed>>

\* No directory is not one that holds files.
ASSUME AbsentAssumption ==
  \A files \in SUBSET {"key", "payload", "nonce", "manifest", "contract", "blobs", "tree"} :
    Absent \notin [files -> Writers \X (0 .. 2)]

\* The files of a checkpoint in the order they are written. Each is stamped
\* with the write it comes from, the frozen tree with its version.
Order == <<"key", "payload", "nonce", "manifest", "contract", "blobs", "tree">>
Running == {"check", "sweep", "hash", "verify", "rename"} \cup
           {Order[i] : i \in DOMAIN Order}

CheckpointInit ==
  /\ step = [w \in Writers |-> "new"]
  /\ listed = [w \in Writers |-> {}]
  /\ staging = [w \in Writers |-> Absent]
  /\ target = Absent
  /\ frozen = 1
  /\ digest = [w \in Writers |-> 0]
  /\ disturbed = {}

-----------------------------------------------------------------------------
Goes(w, from, to) == step[w] = from /\ step' = [step EXCEPT ![w] = to]

\* The catch clause: the staging directory is removed and the write fails.
Throws(w) ==
  /\ step' = [step EXCEPT ![w] = "failed"]
  /\ staging' = [staging EXCEPT ![w] = Absent]
  /\ UNCHANGED <<listed, target, frozen, digest, disturbed>>

\* writeCheckpointDirectory() is called.
BeginWrite(w) ==
  /\ Goes(w, "new", "check")
  /\ UNCHANGED <<listed, staging, target, frozen, digest, disturbed>>

\* The target must not exist.
CheckTarget(w) ==
  /\ step[w] = "check"
  /\ IF target # Absent
     THEN step' = [step EXCEPT ![w] = "failed"] /\ UNCHANGED listed
     ELSE /\ step' = [step EXCEPT ![w] = "sweep"]
          /\ listed' = [listed EXCEPT ![w] = {v \in Writers : staging[v] # Absent}]
  /\ UNCHANGED <<staging, target, frozen, digest, disturbed>>

\* Every staging directory of the target is taken for a stale one.
Sweep(w) ==
  /\ Goes(w, "sweep", "hash")
  /\ staging' = [v \in Writers |-> IF v \in listed[w] THEN Absent ELSE staging[v]]
  /\ disturbed' = disturbed \cup {v \in listed[w] : step[v] \in Running}
  /\ UNCHANGED <<listed, target, frozen, digest>>

\* frozenTreeDigest() of the source, and its entry file.
Hash(w) ==
  /\ Goes(w, "hash", Order[1])
  /\ digest' = [digest EXCEPT ![w] = frozen]
  /\ UNCHANGED <<listed, staging, target, frozen, disturbed>>

\* The stamp of a file of write w.
Content(w, file) == IF file = "tree" THEN <<w, frozen>> ELSE <<w, digest[w]>>

\* The key, the blobs and the tree are written below a directory that is made
\* when it is missing; the other files need the staging directory.
MakesItsDirectory == {"key", "blobs", "tree"}
Files(w) == IF staging[w] = Absent THEN <<>> ELSE staging[w]

\* One file of the staging directory; the directory may be gone.
WriteFile(w) ==
  \E i \in DOMAIN Order :
    /\ step[w] = Order[i]
    /\ IF staging[w] = Absent /\ Order[i] \notin MakesItsDirectory
       THEN Throws(w)
       ELSE /\ staging' = [staging EXCEPT ![w] =
                 [f \in DOMAIN Files(w) \cup {Order[i]} |->
                    IF f = Order[i] THEN Content(w, f) ELSE Files(w)[f]]]
            /\ step' = [step EXCEPT ![w] =
                          IF i = Len(Order) THEN "verify" ELSE Order[i + 1]]
            /\ UNCHANGED <<listed, target, frozen, digest, disturbed>>

\* Mutant: the copied tree is not hashed again.
VerifyNothing(w) ==
  /\ Goes(w, "verify", "rename")
  /\ UNCHANGED <<listed, staging, target, frozen, digest, disturbed>>

\* The copied tree is hashed again and compared.
Verify(w) ==
  /\ step[w] = "verify"
  /\ IF staging[w] # Absent /\ "tree" \in DOMAIN Files(w)
        /\ Files(w)["tree"][2] = digest[w]
     THEN /\ Goes(w, "verify", "rename")
          /\ UNCHANGED <<listed, staging, target, frozen, digest, disturbed>>
     ELSE Throws(w)

\* rename() of a directory fails when the target exists and is not empty.
Rename(w) ==
  /\ step[w] = "rename"
  /\ IF staging[w] = Absent \/ target # Absent THEN Throws(w)
     ELSE /\ target' = staging[w]
          /\ staging' = [staging EXCEPT ![w] = Absent]
          /\ step' = [step EXCEPT ![w] = "written"]
          /\ UNCHANGED <<listed, frozen, digest, disturbed>>

\* A full disk, a missing blob: any step of the try block may throw, or the
\* process dies there and its staging directory stays.
StepFails(w) ==
  /\ step[w] \in Running
  /\ \/ Throws(w)
     \/ /\ step' = [step EXCEPT ![w] = "died"]
        /\ UNCHANGED <<listed, staging, target, frozen, digest, disturbed>>

\* Someone edits the frozen tree, once here.
EditTree ==
  /\ frozen = 1 /\ frozen' = 2
  /\ UNCHANGED <<step, listed, staging, target, digest, disturbed>>

CheckpointNext ==
  \/ \E w \in Writers :
       \/ BeginWrite(w) \/ CheckTarget(w) \/ Sweep(w) \/ Hash(w)
       \/ WriteFile(w) \/ Verify(w) \/ Rename(w) \/ StepFails(w)
  \/ EditTree

CheckpointSpec == CheckpointInit /\ [][CheckpointNext]_checkpointVars

-----------------------------------------------------------------------------
\* readCheckpointDirectory(): every file is there, the payload opens with the
\* key and the nonce, and the manifest and the payload agree with the rest.
Accepts(directory) ==
  /\ directory # Absent
  /\ DOMAIN directory = {Order[i] : i \in DOMAIN Order}
  /\ \A f \in DOMAIN directory : directory[f] = directory["manifest"]

\* A checkpoint that was reported written is there, whole and of its writer,
\* whatever dies, fails or is edited around it: only a write whose staging
\* directory another one swept away may publish less, and then no reader
\* accepts it. What a reader accepts is one write, with the tree it hashed
\* (checkpoint-dir.ts writeCheckpointDirectory, readCheckpointDirectory).
PublishedIsWhole ==
  /\ \A w \in Writers \ disturbed : step[w] = "written" =>
       /\ Accepts(target)
       /\ target["manifest"] = <<w, digest[w]>>
  /\ Accepts(target) =>
       \E w \in Writers : step[w] = "written" /\ target["tree"] = <<w, digest[w]>>

\* SPEC.md 48.4: partial writes never become valid checkpoints, and a write
\* that returned its manifest left a checkpoint a restore can read.
WrittenIsReadable ==
  \A w \in Writers : step[w] = "written" => Accepts(target)
=============================================================================
