---------------------------- MODULE ServiceProofs ----------------------------
(* Machine-checked proofs about the parts of a served world that keep a     *)
(* state of their own: the checkpoint directory, the operator's control     *)
(* queue, the fault engine, the lineage of forks and the idempotency cache. *)
EXTENDS CheckpointDirectory, ControlQueue, FaultEngine, WorldLineage, IdempotencyCache,
        FiniteSetTheorems, SequenceTheorems, WellFoundedInduction, TLAPS

(***************************************************************************)
(* Checkpoint directories.                                                 *)
(***************************************************************************)
Names == {"key", "payload", "nonce", "manifest", "contract", "blobs", "tree"}
Directories == UNION {[files -> Writers \X (0 .. 2)] : files \in SUBSET Names}
Steps == Running \cup {"new", "written", "failed", "died"}

CheckpointType ==
  /\ step \in [Writers -> Steps]
  /\ listed \in [Writers -> SUBSET Writers]
  /\ staging \in [Writers -> Directories \cup {Absent}]
  /\ target \in Directories \cup {Absent}
  /\ frozen \in {1, 2}
  /\ digest \in [Writers -> 0 .. 2]
  /\ disturbed \in SUBSET Writers

\* A directory holds files of write w only, as w stamps them; the version of
\* the tree is the one that was copied.
OfWrite(directory, w) ==
  \A f \in DOMAIN directory :
    /\ directory[f][1] = w
    /\ f # "tree" => directory[f] = <<w, digest[w]>>

\* The files that come before a place in the order.
Before(i) == {Order[j] : j \in 1 .. i - 1}

\* What a write has staged: nothing before its first file and after its end,
\* files of its own in between, every one so far unless it was disturbed, and
\* the tree it hashed once it verified that.
Staged(w) ==
  /\ step[w] \in {"new", "check", "sweep", "hash", "written", "failed"} =>
       staging[w] = Absent
  /\ staging[w] # Absent => OfWrite(staging[w], w)
  /\ \A i \in 1 .. 7 : step[w] = Order[i] /\ w \notin disturbed =>
       Files(w) \in [Before(i) -> Writers \X (0 .. 2)]
  /\ step[w] \in {"verify", "rename"} /\ w \notin disturbed =>
       staging[w] \in [Names -> Writers \X (0 .. 2)]
  /\ step[w] = "rename" /\ staging[w] # Absent =>
       "tree" \in DOMAIN staging[w] /\ staging[w]["tree"] = <<w, digest[w]>>

\* The target is what the one write that was reported written had staged.
Published(w) ==
  step[w] = "written" =>
    /\ target # Absent /\ OfWrite(target, w)
    /\ "tree" \in DOMAIN target /\ target["tree"] = <<w, digest[w]>>
    /\ w \notin disturbed => DOMAIN target = Names

CheckpointInv ==
  /\ CheckpointType
  /\ \A w \in Writers : Staged(w) /\ Published(w)
  /\ target # Absent => \E w \in Writers : step[w] = "written"

\* The places of the order, and what tells a directory from none.
LEMMA OrderIs ==
  /\ DOMAIN Order = 1 .. 7 /\ Len(Order) = 7
  /\ Order[1] = "key" /\ Order[2] = "payload" /\ Order[3] = "nonce"
  /\ Order[4] = "manifest" /\ Order[5] = "contract" /\ Order[6] = "blobs"
  /\ Order[7] = "tree"
  BY DEF Order

LEMMA RunningIs ==
  Running = {"check", "sweep", "hash", "verify", "rename"} \cup Names
<1>1. {Order[i] : i \in DOMAIN Order} = Names
  <2>1. \A i \in 1 .. 7 : i = 1 \/ i = 2 \/ i = 3 \/ i = 4 \/ i = 5 \/ i = 6 \/ i = 7
    OBVIOUS
  <2>2. \A i \in DOMAIN Order : Order[i] \in Names
    BY OrderIs, <2>1 DEF Names
  <2>3. \A f \in Names : \E i \in DOMAIN Order : f = Order[i]
    BY OrderIs DEF Names
  <2> QED
    BY <2>2, <2>3
<1> QED
  BY <1>1 DEF Running

LEMMA AbsentIsNone ==
  /\ Absent \notin Directories
  /\ \A d \in Directories : DOMAIN d \subseteq Names
       /\ \A f \in DOMAIN d : d[f] \in Writers \X (0 .. 2)
<1>1. \A files \in SUBSET Names : Absent \notin [files -> Writers \X (0 .. 2)]
  BY AbsentAssumption DEF Names
<1>2. ASSUME NEW d \in Directories
      PROVE  /\ d # Absent
             /\ DOMAIN d \subseteq Names
             /\ \A f \in DOMAIN d : d[f] \in Writers \X (0 .. 2)
  <2>1. PICK files \in SUBSET Names : d \in [files -> Writers \X (0 .. 2)]
    BY DEF Directories
  <2> QED
    BY <1>1, <2>1
<1> QED
  BY <1>2

\* The files up to a place, and those up to the next one.
LEMMA NextBefore ==
  ASSUME NEW i \in 1 .. 7
  PROVE  /\ Before(i) \cup {Order[i]} = Before(i + 1)
         /\ Before(8) = Names /\ Before(1) = {}
         /\ Before(i) \in SUBSET Names /\ Order[i] \in Names
         /\ \A j \in 1 .. 7 : Order[i] = Order[j] => i = j
<1>1. \A k \in 1 .. 7 : k = 1 \/ k = 2 \/ k = 3 \/ k = 4 \/ k = 5 \/ k = 6 \/ k = 7
  OBVIOUS
<1>2. \A k \in 1 .. 7 : Order[k] \in Names
  BY <1>1, OrderIs DEF Names
<1>3. \A f \in Names : \E k \in 1 .. 7 : f = Order[k]
  BY OrderIs DEF Names
<1>4. \A j, k \in 1 .. 7 : Order[j] = Order[k] => j = k
  BY <1>1, OrderIs
<1>5. Before(i) \cup {Order[i]} = Before(i + 1)
  <2>1. 1 .. (i + 1) - 1 = (1 .. i - 1) \cup {i}
    OBVIOUS
  <2> QED
    BY <2>1 DEF Before
<1>6. Before(8) = Names
  <2>1. 1 .. 8 - 1 = 1 .. 7
    OBVIOUS
  <2> QED
    BY <2>1, <1>2, <1>3 DEF Before
<1>7. Before(1) = {}
  BY DEF Before
<1>8. Before(i) \in SUBSET Names
  <2>1. 1 .. i - 1 \subseteq 1 .. 7
    OBVIOUS
  <2> QED
    BY <2>1, <1>2 DEF Before
<1> QED
  BY <1>2, <1>4, <1>5, <1>6, <1>7, <1>8

\* A write that a step leaves alone keeps what it has staged and published.
LEMMA LeftAlone ==
  ASSUME NEW v \in Writers, Staged(v), Published(v),
         step'[v] = step[v], staging'[v] = staging[v], digest'[v] = digest[v],
         disturbed \subseteq disturbed',
         step[v] = "written" => target' = target /\ (v \in disturbed' => v \in disturbed)
  PROVE  Staged(v)' /\ Published(v)'
<1>1. Staged(v)'
  BY DEF Staged, Files, OfWrite
<1>2. Published(v)'
  BY DEF Published, OfWrite
<1> QED
  BY <1>1, <1>2

LEMMA CheckpointStarts == CheckpointInit => CheckpointInv
<1> SUFFICES ASSUME CheckpointInit PROVE CheckpointInv
  OBVIOUS
<1>1. CheckpointType
  BY RunningIs DEF CheckpointInit, CheckpointType, Steps
<1>2. ASSUME NEW w \in Writers PROVE Staged(w) /\ Published(w)
  <2>1. step[w] = "new" /\ staging[w] = Absent
    BY DEF CheckpointInit
  <2>2. \A i \in 1 .. 7 : Order[i] # "new"
    BY NextBefore DEF Names
  <2> QED
    BY <2>1, <2>2 DEF Staged, Published
<1> QED
  BY <1>1, <1>2 DEF CheckpointInit, CheckpointInv

\* Each step of a write, or of what happens around it, keeps the invariant.
LEMMA CheckpointStep ==
  ASSUME CheckpointInv, CheckpointNext
  PROVE  CheckpointInv'
<1> USE DEF Goes
<1>1. /\ CheckpointType
      /\ \A v \in Writers : Staged(v) /\ Published(v)
      /\ target # Absent => \E v \in Writers : step[v] = "written"
  BY DEF CheckpointInv
<1>2. \A i \in 1 .. 7 : Order[i] \in Names
  BY NextBefore
<1> DEFINE Changes(w, to) ==
             /\ step' = [step EXCEPT ![w] = to]
             /\ step[w] # "written" /\ to \in Steps \ {"written"}
             /\ target' = target
           Others(w) == \A v \in Writers \ {w} : Staged(v)' /\ Published(v)'
<1>3. ASSUME NEW w \in Writers, NEW to, Changes(w, to)
      PROVE  /\ target' # Absent => \E v \in Writers : step'[v] = "written"
             /\ step' \in [Writers -> Steps] /\ step'[w] = to
             /\ Published(w)'
             /\ \A v \in Writers \ {w} : step'[v] = step[v]
  BY <1>1, <1>3 DEF CheckpointType, Published
<1>4. ASSUME NEW w \in Writers, Throws(w), step[w] # "written"
      PROVE  CheckpointInv'
  <2>1. Changes(w, "failed")
    BY <1>4 DEF Throws, Steps
  <2>2. CheckpointType'
    BY <1>1, <1>3, <1>4, <2>1 DEF Throws, CheckpointType
  <2>3. Others(w)
    BY <1>1, <1>3, <1>4, <2>1, LeftAlone DEF Throws, CheckpointType
  <2>4. Staged(w)'
    BY <1>1, <1>2, <1>4 DEF Throws, Staged, CheckpointType, Names
  <2> QED
    BY <1>3, <2>1, <2>2, <2>3, <2>4 DEF CheckpointInv
<1>5. ASSUME NEW w \in Writers, BeginWrite(w)
      PROVE  CheckpointInv'
  <2>1. Changes(w, "check")
    BY <1>5 DEF BeginWrite, Steps, Running
  <2>2. CheckpointType'
    BY <1>1, <1>3, <1>5, <2>1 DEF BeginWrite, CheckpointType
  <2>3. Others(w)
    BY <1>1, <1>3, <1>5, <2>1, LeftAlone DEF BeginWrite, CheckpointType
  <2>4. Staged(w)'
    BY <1>1, <1>2, <1>5 DEF BeginWrite, Staged, CheckpointType, Names
  <2> QED
    BY <1>3, <2>1, <2>2, <2>3, <2>4 DEF CheckpointInv
<1>6. ASSUME NEW w \in Writers, CheckTarget(w)
      PROVE  CheckpointInv'
  <2>1. PICK to \in {"failed", "sweep"} : step' = [step EXCEPT ![w] = to]
    BY <1>6 DEF CheckTarget
  <2>2. Changes(w, to)
    BY <1>6, <2>1 DEF CheckTarget, Steps, Running
  <2>3. CheckpointType'
    BY <1>1, <1>3, <1>6, <2>2 DEF CheckTarget, CheckpointType
  <2>4. Others(w)
    BY <1>1, <1>3, <1>6, <2>2, LeftAlone DEF CheckTarget, CheckpointType
  <2>5. Staged(w)'
    BY <1>1, <1>2, <1>6, <2>1 DEF CheckTarget, Staged, CheckpointType, Names
  <2> QED
    BY <1>3, <2>2, <2>3, <2>4, <2>5 DEF CheckpointInv
<1>7. ASSUME NEW w \in Writers, Sweep(w)
      PROVE  CheckpointInv'
  <2>1. Changes(w, "hash")
    BY <1>7 DEF Sweep, Steps, Running
  <2>2. CheckpointType'
    BY <1>1, <1>3, <1>7, <2>1 DEF Sweep, CheckpointType
  <2>3. ASSUME NEW v \in Writers, v \notin listed[w], v # w
        PROVE  Staged(v)' /\ Published(v)'
    BY <1>1, <1>3, <1>7, <2>1, <2>3, LeftAlone DEF Sweep, CheckpointType
  <2>4. ASSUME NEW v \in Writers, v \in listed[w] \/ v = w
        PROVE  Staged(v)'
    <3>1. staging'[v] = Absent
      BY <1>1, <1>7, <2>4 DEF Sweep, Staged, CheckpointType
    <3>2. step'[v] \in Running => step[v] \in Running
      BY <1>1, <1>7 DEF Sweep, CheckpointType, Running
    <3>3. step'[v] \in Running /\ v # w => v \in disturbed'
      BY <1>7, <2>4, <3>2 DEF Sweep
    <3>4. step'[w] = "hash" /\ \A i \in 1 .. 7 : Order[i] \in Running /\ Order[i] # "hash"
      BY <1>2, <1>3, <2>1, RunningIs DEF Names
    <3>5. \A i \in 1 .. 7 : step'[v] = Order[i] => v \in disturbed'
      BY <3>3, <3>4
    <3>6. step'[v] \in {"verify", "rename"} => v \in disturbed'
      BY <3>3, <3>4 DEF Running
    <3> QED
      BY <3>1, <3>5, <3>6 DEF Staged
  <2>5. ASSUME NEW v \in Writers
        PROVE  Published(v)'
    <3>1. step'[v] = "written" => step[v] = "written"
      BY <1>1, <1>7 DEF Sweep, CheckpointType
    <3>2. step[v] = "written" /\ v \in disturbed' => v \in disturbed
      BY <1>7, RunningIs DEF Sweep, Names
    <3> QED
      BY <1>1, <1>7, <3>1, <3>2 DEF Sweep, Published, OfWrite
  <2> QED
    BY <1>3, <2>1, <2>2, <2>3, <2>4, <2>5 DEF CheckpointInv
<1>8. ASSUME NEW w \in Writers, Hash(w)
      PROVE  CheckpointInv'
  <2>1. Changes(w, "key")
    BY <1>8, OrderIs, RunningIs DEF Hash, Steps, Names
  <2>2. CheckpointType'
    BY <1>1, <1>3, <1>8, <2>1 DEF Hash, CheckpointType
  <2>3. Others(w)
    BY <1>1, <1>3, <1>8, <2>1, LeftAlone DEF Hash, CheckpointType
  <2>4. staging'[w] = Absent /\ step'[w] = "key"
    BY <1>1, <1>3, <1>8, <2>1 DEF Hash, Staged
  <2>5. Files(w)' \in [Before(1) -> Writers \X (0 .. 2)]
    <3>1. Files(w)' = << >>
      BY <2>4 DEF Files
    <3>2. << >> \in [{} -> Writers \X (0 .. 2)]
      OBVIOUS
    <3> QED
      BY <3>1, <3>2, NextBefore
  <2>6. \A i \in 1 .. 7 : Order[i] = "key" => i = 1
    BY NextBefore, OrderIs
  <2>7. Staged(w)'
    BY <2>4, <2>5, <2>6 DEF Staged
  <2> QED
    BY <1>3, <2>1, <2>2, <2>3, <2>7 DEF CheckpointInv
<1>9. ASSUME NEW w \in Writers, WriteFile(w)
      PROVE  CheckpointInv'
  <2>1. PICK i \in 1 .. 7 :
          /\ step[w] = Order[i]
          /\ IF staging[w] = Absent /\ Order[i] \notin MakesItsDirectory
             THEN Throws(w)
             ELSE /\ staging' = [staging EXCEPT ![w] =
                       [f \in DOMAIN Files(w) \cup {Order[i]} |->
                          IF f = Order[i] THEN Content(w, f) ELSE Files(w)[f]]]
                  /\ step' = [step EXCEPT ![w] =
                                IF i = Len(Order) THEN "verify" ELSE Order[i + 1]]
                  /\ UNCHANGED <<listed, target, frozen, digest, disturbed>>
    BY <1>9, OrderIs DEF WriteFile
  <2>2. step[w] # "written"
    BY <1>2, <2>1 DEF Names
  <2>3. CASE Throws(w)
    BY <1>4, <2>2, <2>3
  <2>4. CASE ~Throws(w)
    <3> DEFINE files == DOMAIN Files(w) \cup {Order[i]}
               new == [f \in files |->
                         IF f = Order[i] THEN Content(w, f) ELSE Files(w)[f]]
               to == IF i = 7 THEN "verify" ELSE Order[i + 1]
    <3>1. /\ staging' = [staging EXCEPT ![w] = new]
          /\ step' = [step EXCEPT ![w] = to]
          /\ UNCHANGED <<listed, target, frozen, digest, disturbed>>
      BY <2>1, <2>4, OrderIs
    <3>2. to = "verify" \/ (i < 7 /\ i + 1 \in 1 .. 7 /\ to = Order[i + 1] /\ to \in Names)
      BY <1>2
    <3>3. Changes(w, to)
      BY <2>2, <3>1, <3>2, RunningIs DEF Steps, Names
    <3>4. /\ DOMAIN Files(w) \subseteq Names
          /\ \A f \in DOMAIN Files(w) : Files(w)[f] \in Writers \X (0 .. 2)
      BY <1>1, AbsentIsNone DEF CheckpointType, Files
    <3>5. \A f : Content(w, f) \in Writers \X (0 .. 2)
      BY <1>1 DEF CheckpointType, Content
    <3>6. new \in [files -> Writers \X (0 .. 2)] /\ files \in SUBSET Names
      BY <3>4, <3>5, <1>2
    <3>7. new \in Directories
      BY <3>6 DEF Directories
    <3>8. new # Absent
      BY <3>7, AbsentIsNone
    <3>9. CheckpointType'
      BY <1>1, <1>3, <3>1, <3>3, <3>7 DEF CheckpointType
    <3>10. Others(w)
      BY <1>1, <1>3, <3>1, <3>3, LeftAlone DEF CheckpointType
    <3>11. staging'[w] = new /\ step'[w] = to
      BY <1>1, <3>1 DEF CheckpointType
    <3>12. OfWrite(new, w)
      <4>1. OfWrite(Files(w), w)
        BY <1>1 DEF Files, Staged, OfWrite
      <4>2. \A f : Content(w, f)[1] = w /\ (f # "tree" => Content(w, f) = <<w, digest[w]>>)
        BY DEF Content
      <4> QED
        BY <4>1, <4>2 DEF OfWrite
    <3>13. w \notin disturbed => new \in [Before(i + 1) -> Writers \X (0 .. 2)]
      <4>1. w \notin disturbed => Files(w) \in [Before(i) -> Writers \X (0 .. 2)]
        BY <1>1, <2>1 DEF Staged
      <4>2. w \notin disturbed => files = Before(i + 1)
        BY <4>1, NextBefore
      <4> QED
        BY <3>6, <4>2
    <3>14. ASSUME NEW j \in 1 .. 7, to = Order[j]
           PROVE  j = i + 1
      <4>1. to # "verify"
        BY <1>2, <3>14 DEF Names
      <4> QED
        BY <3>2, <3>14, <4>1, NextBefore
    <3>15. to = "verify" => Before(i + 1) = Names
      <4>1. to = "verify" => i = 7
        BY <1>2, <3>2 DEF Names
      <4> QED
        BY <4>1, NextBefore
    <3> HIDE DEF new, files
    <3>16. to # "rename" /\ to \notin {"new", "check", "sweep", "hash", "written", "failed"}
      BY <3>2 DEF Names
    <3>17. Files(w)' = new
      BY <3>8, <3>11 DEF Files
    <3>18. Staged(w)'
      BY <3>1, <3>11, <3>12, <3>13, <3>14, <3>15, <3>16, <3>17
      DEF Staged, OfWrite
    <3> QED
      BY <1>3, <3>3, <3>9, <3>10, <3>18 DEF CheckpointInv
  <2> QED
    BY <2>3, <2>4
<1>10. ASSUME NEW w \in Writers, Verify(w)
       PROVE  CheckpointInv'
  <2>1. CASE Throws(w)
    BY <1>4, <1>10, <2>1 DEF Verify
  <2>2. CASE ~Throws(w)
    <3>1. /\ step[w] = "verify" /\ step' = [step EXCEPT ![w] = "rename"]
          /\ staging[w] # Absent /\ "tree" \in DOMAIN staging[w]
          /\ staging[w]["tree"][2] = digest[w]
          /\ UNCHANGED <<listed, staging, target, frozen, digest, disturbed>>
      BY <1>10, <2>2 DEF Verify, Files
    <3>2. Changes(w, "rename")
      BY <3>1 DEF Steps, Running
    <3>3. CheckpointType'
      BY <1>1, <1>3, <3>1, <3>2 DEF CheckpointType
    <3>4. Others(w)
      BY <1>1, <1>3, <3>1, <3>2, LeftAlone DEF CheckpointType
    <3>5. staging[w]["tree"] = <<w, digest[w]>>
      <4>1. staging[w]["tree"] \in Writers \X (0 .. 2)
        BY <1>1, <3>1, AbsentIsNone DEF CheckpointType
      <4>2. staging[w]["tree"][1] = w
        BY <1>1, <3>1 DEF Staged, OfWrite
      <4> QED
        BY <3>1, <4>1, <4>2
    <3>6. step'[w] = "rename"
      BY <1>1, <3>1 DEF CheckpointType
    <3>7. Staged(w)'
      BY <1>1, <1>2, <3>1, <3>5, <3>6 DEF Staged, OfWrite, Names
    <3> QED
      BY <1>3, <3>2, <3>3, <3>4, <3>7 DEF CheckpointInv
  <2> QED
    BY <2>1, <2>2
<1>11. ASSUME NEW w \in Writers, Rename(w)
       PROVE  CheckpointInv'
  <2>1. CASE Throws(w)
    BY <1>4, <1>11, <2>1 DEF Rename
  <2>2. CASE ~Throws(w)
    <3>1. /\ step[w] = "rename" /\ staging[w] # Absent /\ target = Absent
          /\ target' = staging[w]
          /\ staging' = [staging EXCEPT ![w] = Absent]
          /\ step' = [step EXCEPT ![w] = "written"]
          /\ UNCHANGED <<listed, frozen, digest, disturbed>>
      BY <1>11, <2>2 DEF Rename
    <3>2. CheckpointType'
      BY <1>1, <3>1 DEF CheckpointType, Steps
    <3>3. Others(w)
      <4>1. \A v \in Writers : step[v] # "written"
        BY <1>1, <3>1 DEF Published
      <4> QED
        BY <1>1, <3>1, <4>1, LeftAlone DEF CheckpointType
    <3>4. step'[w] = "written" /\ staging'[w] = Absent
      BY <1>1, <3>1 DEF CheckpointType
    <3>5. Staged(w)'
      BY <1>2, <3>4 DEF Staged, Names
    <3>6. Published(w)'
      <4>1. /\ OfWrite(staging[w], w) /\ "tree" \in DOMAIN staging[w]
            /\ staging[w]["tree"] = <<w, digest[w]>>
            /\ w \notin disturbed => DOMAIN staging[w] = Names
        BY <1>1, <3>1 DEF Staged
      <4> QED
        BY <3>1, <4>1 DEF Published, OfWrite
    <3> QED
      BY <3>2, <3>3, <3>4, <3>5, <3>6 DEF CheckpointInv
  <2> QED
    BY <2>1, <2>2
<1>12. ASSUME NEW w \in Writers, StepFails(w)
       PROVE  CheckpointInv'
  <2>1. step[w] \in Running /\ step[w] # "written"
    BY <1>12, RunningIs DEF StepFails, Names
  <2>2. CASE Throws(w)
    BY <1>4, <2>1, <2>2
  <2>3. CASE ~Throws(w)
    <3>1. /\ step' = [step EXCEPT ![w] = "died"]
          /\ UNCHANGED <<listed, staging, target, frozen, digest, disturbed>>
      BY <1>12, <2>3 DEF StepFails
    <3>2. Changes(w, "died")
      BY <2>1, <3>1 DEF Steps
    <3>3. CheckpointType'
      BY <1>1, <1>3, <3>1, <3>2 DEF CheckpointType
    <3>4. Others(w)
      BY <1>1, <1>3, <3>1, <3>2, LeftAlone DEF CheckpointType
    <3>5. step'[w] = "died"
      BY <1>1, <3>1 DEF CheckpointType
    <3>6. Staged(w)'
      BY <1>1, <1>2, <3>1, <3>5 DEF Staged, OfWrite, Names
    <3> QED
      BY <1>3, <3>2, <3>3, <3>4, <3>6 DEF CheckpointInv
  <2> QED
    BY <2>2, <2>3
<1>13. CASE EditTree
  <2>1. CheckpointType'
    BY <1>1, <1>13 DEF EditTree, CheckpointType
  <2>2. \A v \in Writers : Staged(v)' /\ Published(v)'
    BY <1>1, <1>13, LeftAlone DEF EditTree
  <2> QED
    BY <1>1, <1>13, <2>1, <2>2 DEF EditTree, CheckpointInv
<1> QED
  BY <1>5, <1>6, <1>7, <1>8, <1>9, <1>10, <1>11, <1>12, <1>13 DEF CheckpointNext

LEMMA CheckpointStutters ==
  ASSUME CheckpointInv, UNCHANGED checkpointVars
  PROVE  CheckpointInv'
BY DEF CheckpointInv, checkpointVars, CheckpointType, Staged, Published, Files, OfWrite

\* The invariant is what a reader is owed.
LEMMA WholeFromInv == CheckpointInv => PublishedIsWhole
<1> SUFFICES ASSUME CheckpointInv PROVE PublishedIsWhole
  OBVIOUS
<1>1. Names = {Order[i] : i \in DOMAIN Order}
  <2>1. \A i \in 1 .. 7 : Order[i] \in Names
    BY NextBefore
  <2>2. \A f \in Names : \E i \in 1 .. 7 : f = Order[i]
    BY OrderIs DEF Names
  <2> QED
    BY <2>1, <2>2, OrderIs
<1>2. ASSUME NEW w \in Writers \ disturbed, step[w] = "written"
      PROVE  Accepts(target) /\ target["manifest"] = <<w, digest[w]>>
  <2>1. /\ target # Absent /\ OfWrite(target, w) /\ DOMAIN target = Names
        /\ target["tree"] = <<w, digest[w]>>
    BY <1>2 DEF CheckpointInv, Published
  <2>2. \A f \in Names : target[f] = <<w, digest[w]>>
    BY <2>1 DEF OfWrite
  <2> QED
    BY <1>1, <2>1, <2>2 DEF Accepts, Names
<1>3. ASSUME Accepts(target)
      PROVE  \E w \in Writers : step[w] = "written" /\ target["tree"] = <<w, digest[w]>>
  BY <1>3 DEF Accepts, CheckpointInv, Published
<1> QED
  BY <1>2, <1>3 DEF PublishedIsWhole

\* Whatever dies, fails, is swept or is edited, for any number of writes to one
\* target: a write reported written published a whole checkpoint of its own,
\* and what a reader accepts is one write's (checkpoint-dir.ts).
THEOREM CheckpointsAreWhole == CheckpointSpec => []PublishedIsWhole
<1>1. CheckpointInv /\ [CheckpointNext]_checkpointVars => CheckpointInv'
  BY CheckpointStep, CheckpointStutters
<1> QED
  BY CheckpointStarts, <1>1, WholeFromInv, PTL DEF CheckpointSpec
(***************************************************************************)
(* Controls of the operator.                                               *)
(***************************************************************************)
Begun == {"effect", "record", "recordFailure"}
Admitted == Begun \cup {"waiting"}
Places == Admitted \cup {"new", "upload", "answered"}
Held(s) == \E i \in DOMAIN queue : queue[i] = s
Expected == {ControlOf[s].expects : s \in Sends}
ExpectsOf(c) == {ControlOf[s].expects : s \in {t \in Sends : ControlOf[t].id = c}}

QueueType ==
  /\ send \in [Sends -> Places]
  /\ answers \in [Sends -> Nat]
  /\ queue \in Seq(Sends)
  /\ advances \in [Ids -> Nat]
  /\ resets \in [Ids -> SUBSET Expected]
  /\ recordFaults \in [Ids -> Nat]
  /\ DOMAIN recorded \subseteq Ids
  /\ \A c \in DOMAIN recorded : recorded[c].status \in {200, 400}

\* The queue holds each admitted request once, and only its head has begun.
QueueHolds ==
  /\ Len(queue) <= QueueLimit
  /\ \A i, j \in DOMAIN queue : queue[i] = queue[j] => i = j
  /\ \A s \in Sends : send[s] \in Admitted <=> Held(s)
  /\ \A s \in Sends : send[s] \in Begun => queue # << >> /\ Head(queue) = s

\* What a control that has begun found when it looked up its id holds until it
\* is answered: nothing is recorded for it, the generation is the one it
\* expects; and before it is recorded its effect is there.
BegunIsTrue ==
  \A s \in Sends :
    LET c == ControlOf[s]
    IN  /\ send[s] \in Begun => c.id \notin DOMAIN recorded
        /\ send[s] = "effect" /\ c.route \in {"reset", "advance"} => c.expects = gen
        /\ send[s] = "record" =>
             /\ c.route = "advance" => advances[c.id] >= 1
             /\ c.route = "reset" => c.expects \in resets[c.id]

\* An id whose effect is recorded, or is about to be.
Done(c) ==
  \/ c \in DOMAIN recorded
  \/ \E s \in Sends : send[s] = "record" /\ ControlOf[s].id = c

EffectsAreCounted ==
  /\ \A c \in Ids : advances[c] <= recordFaults[c] + IF Done(c) THEN 1 ELSE 0
  /\ \A c \in Ids : resets[c] \subseteq ExpectsOf(c)

RecordsAreTrue ==
  /\ \A c \in DOMAIN recorded : recorded[c].status = 200 =>
       /\ recorded[c].of.route = "advance" => advances[c] >= 1
       /\ recorded[c].of.route = "reset" => recorded[c].of.expects \in resets[c]
  /\ \A s \in Sends : answers[s] = 200 /\ Mutates(s) =>
       ControlOf[s].id \in DOMAIN recorded /\ recorded[ControlOf[s].id].of = ControlOf[s]

ControlInv ==
  /\ QueueType /\ QueueHolds /\ BegunIsTrue /\ EffectsAreCounted
  /\ RecordsAreTrue
LEMMA ControlsStart == QueueInit => ControlInv
<1> SUFFICES ASSUME QueueInit PROVE ControlInv
  OBVIOUS
<1>1. QueueType
  BY DEF QueueInit, QueueType, Places
<1>2. QueueHolds
  BY ControlsAssumption DEF QueueInit, QueueHolds, Held, Admitted, Begun
<1>3. BegunIsTrue /\ EffectsAreCounted /\ RecordsAreTrue
  BY DEF QueueInit, BegunIsTrue, EffectsAreCounted, RecordsAreTrue, Begun
<1> QED
  BY <1>1, <1>2, <1>3 DEF ControlInv

\* The head leaves: the others are held as before, and none of them has begun.
LEMMA HeadLeaves ==
  ASSUME QueueType, QueueHolds, NEW s \in Sends, queue # << >>, Head(queue) = s,
         queue' = Tail(queue), send' = [send EXCEPT ![s] = "answered"]
  PROVE  /\ queue' \in Seq(Sends) /\ QueueHolds'
         /\ \A t \in Sends \ {s} : send[t] \notin Begun
<1>1. /\ queue \in Seq(Sends) /\ Len(queue) \in Nat \ {0} /\ DOMAIN queue = 1 .. Len(queue)
      /\ Head(queue) = queue[1]
  BY DEF QueueType
<1>2. /\ Tail(queue) \in Seq(Sends) /\ Len(Tail(queue)) = Len(queue) - 1
      /\ DOMAIN Tail(queue) = 1 .. Len(queue) - 1
      /\ \A i \in 1 .. Len(queue) - 1 : Tail(queue)[i] = queue[i + 1]
  BY <1>1
<1>3. \A t \in Sends : Held(t)' <=> Held(t) /\ t # s
  <2>1. \A t \in Sends : Held(t)' => Held(t) /\ t # s
    BY <1>1, <1>2 DEF QueueHolds, Held
  <2>2. ASSUME NEW t \in Sends, Held(t), t # s
        PROVE  Held(t)'
    <3>1. PICK i \in 1 .. Len(queue) : queue[i] = t
      BY <1>1, <2>2 DEF Held
    <3>2. i # 1 /\ i - 1 \in 1 .. Len(queue) - 1
      BY <1>1, <2>2, <3>1
    <3>3. Tail(queue)[i - 1] = t
      BY <1>2, <3>1, <3>2
    <3> QED
      BY <1>2, <3>2, <3>3 DEF Held
  <2> QED
    BY <2>1, <2>2
<1>4. \A t \in Sends \ {s} : send[t] \notin Begun
  BY DEF QueueHolds
<1>5. \A i, j \in DOMAIN Tail(queue) : Tail(queue)[i] = Tail(queue)[j] => i = j
  BY <1>1, <1>2 DEF QueueHolds
<1>6. Len(Tail(queue)) <= QueueLimit
  BY <1>1, <1>2, ControlsAssumption DEF QueueHolds
<1>7. send'[s] = "answered" /\ \A t \in Sends \ {s} : send'[t] = send[t]
  BY DEF QueueType
<1>8. \A t \in Sends : send'[t] \in Admitted <=> Held(t)'
  BY <1>3, <1>7 DEF QueueHolds, Admitted, Begun
<1>9. \A t \in Sends : send'[t] \notin Begun
  BY <1>4, <1>7 DEF Begun
<1> QED
  BY <1>2, <1>4, <1>5, <1>6, <1>8, <1>9 DEF QueueHolds

\* A step that has no effect and records nothing, and after which no more
\* controls have begun, keeps what the effects are.
LEMMA NothingMoves ==
  ASSUME QueueType, BegunIsTrue, EffectsAreCounted, RecordsAreTrue, Unmoved,
         \A t \in Sends : send'[t] \in Begun => send'[t] = send[t],
         \A t \in Sends : send[t] = "record" => send'[t] = "record",
         \A t \in Sends : answers'[t] = 200 /\ Mutates(t) =>
           \/ answers[t] = 200
           \/ ControlOf[t].id \in DOMAIN recorded
              /\ recorded[ControlOf[t].id].of = ControlOf[t]
  PROVE  BegunIsTrue' /\ EffectsAreCounted' /\ RecordsAreTrue'
<1> USE DEF Unmoved
<1>1. BegunIsTrue'
  BY DEF BegunIsTrue, Begun
<1>2. EffectsAreCounted'
  <2>1. \A c \in Ids : Done(c) => Done(c)'
    BY DEF Done
  <2>2. \A c \in Ids : advances[c] \in Nat /\ recordFaults[c] \in Nat
    BY DEF QueueType
  <2> QED
    BY <2>1, <2>2 DEF EffectsAreCounted, ExpectsOf
<1>3. RecordsAreTrue'
  BY DEF RecordsAreTrue, Mutates
<1> QED
  BY <1>1, <1>2, <1>3

\* The head goes on in its place.
LEMMA HeadGoesOn ==
  ASSUME QueueType, QueueHolds, NEW s \in Sends, queue # << >>, Head(queue) = s,
         send[s] \in Admitted, NEW to \in Begun,
         queue' = queue, send' = [send EXCEPT ![s] = to]
  PROVE  QueueHolds' /\ \A t \in Sends \ {s} : send[t] \notin Begun
<1>1. \A t \in Sends \ {s} : send[t] \notin Begun /\ send'[t] = send[t]
  BY DEF QueueHolds, QueueType
<1>2. send'[s] = to /\ to \in Admitted
  BY DEF QueueType, Admitted
<1>3. \A t \in Sends : send'[t] \in Admitted <=> Held(t)'
  BY <1>1, <1>2 DEF QueueHolds, Held
<1>4. \A t \in Sends : send'[t] \in Begun => t = s
  BY <1>1
<1> QED
  BY <1>1, <1>3, <1>4 DEF QueueHolds

\* Where a request goes, and what it is answered.
LEMMA Moved ==
  ASSUME QueueType, NEW s \in Sends, NEW to \in Places, send' = [send EXCEPT ![s] = to]
  PROVE  /\ send' \in [Sends -> Places] /\ send'[s] = to
         /\ \A t \in Sends \ {s} : send'[t] = send[t]
  BY DEF QueueType

LEMMA Answered ==
  ASSUME QueueType, NEW s \in Sends, NEW status \in Nat, Answer(s, status)
  PROVE  /\ send' \in [Sends -> Places] /\ send'[s] = "answered"
         /\ answers' \in [Sends -> Nat] /\ answers'[s] = status
         /\ \A t \in Sends \ {s} : send'[t] = send[t] /\ answers'[t] = answers[t]
<1>1. "answered" \in Places
  BY DEF Places
<1>2. answers \in [Sends -> Nat] /\ answers' = [answers EXCEPT ![s] = status]
  BY DEF QueueType, Answer
<1> QED
  BY <1>1, <1>2, Moved DEF Answer

LEMMA ControlStep ==
  ASSUME ControlInv, QueueNext
  PROVE  ControlInv'
<1>0. QueueType /\ QueueHolds /\ BegunIsTrue /\ EffectsAreCounted /\ RecordsAreTrue
  BY DEF ControlInv
<1>1. CASE UNCHANGED <<send, answers, queue>> /\ Unmoved
  <2>1. QueueType' /\ QueueHolds'
    BY <1>0, <1>1 DEF Unmoved, QueueType, QueueHolds, Held
  <2>2. BegunIsTrue' /\ EffectsAreCounted' /\ RecordsAreTrue'
    BY <1>0, <1>1, NothingMoves
  <2> QED
    BY <2>1, <2>2 DEF ControlInv
<1>2. ASSUME NEW s \in Sends, Connect(s) \/ RefuseSend(s)
      PROVE  ControlInv'
  <2>1. /\ send[s] \in {"new", "upload"}
        /\ queue' = queue /\ Unmoved
        /\ answers' = answers \/ answers' = [answers EXCEPT ![s] = 400]
    BY <1>2 DEF Connect, RefuseSend, Answer
  <2>2. /\ send' \in [Sends -> Places] /\ send'[s] \in {"upload", "answered"}
        /\ \A t \in Sends \ {s} : send'[t] = send[t]
    <3>1. PICK to \in {"upload", "answered"} : send' = [send EXCEPT ![s] = to]
      BY <1>2 DEF Connect, RefuseSend, Answer
    <3>2. to \in Places
      BY DEF Places
    <3> QED
      BY <1>0, <3>1, <3>2, Moved
  <2>3. QueueType'
    BY <1>0, <2>1, <2>2 DEF Unmoved, QueueType
  <2>4. \A t \in Sends : /\ send'[t] \in Admitted <=> send[t] \in Admitted
                         /\ send'[t] \in Begun <=> send[t] \in Begun
                         /\ send'[t] \in Begun => send'[t] = send[t]
                         /\ send[t] = "record" => send'[t] = "record"
    BY <2>1, <2>2 DEF Admitted, Begun
  <2>5. QueueHolds'
    BY <1>0, <2>1, <2>4 DEF QueueHolds, Held
  <2>6. \A t \in Sends : answers'[t] = 200 => answers[t] = 200
    BY <1>0, <2>1 DEF QueueType
  <2>7. BegunIsTrue' /\ EffectsAreCounted' /\ RecordsAreTrue'
    BY <1>0, <2>1, <2>4, <2>6, NothingMoves
  <2> QED
    BY <2>3, <2>5, <2>7 DEF ControlInv
<1>3. ASSUME NEW s \in Sends, AdmitControl(s)
      PROVE  ControlInv'
  <2>1. CASE Len(queue) >= QueueLimit
    <3>1. send[s] = "upload" /\ Answer(s, 503) /\ queue' = queue /\ Unmoved
      BY <1>3, <2>1 DEF AdmitControl
    <3>2. /\ send' \in [Sends -> Places] /\ send'[s] = "answered"
          /\ answers' \in [Sends -> Nat] /\ answers'[s] = 503
          /\ \A t \in Sends \ {s} : send'[t] = send[t] /\ answers'[t] = answers[t]
      BY <1>0, <3>1, Answered
    <3>3. QueueType'
      BY <1>0, <3>1, <3>2 DEF Unmoved, QueueType
    <3>4. \A t \in Sends : /\ send'[t] \in Admitted <=> send[t] \in Admitted
                           /\ send'[t] \in Begun <=> send[t] \in Begun
                           /\ send'[t] \in Begun => send'[t] = send[t]
                           /\ send[t] = "record" => send'[t] = "record"
      BY <3>1, <3>2 DEF Admitted, Begun
    <3>5. QueueHolds'
      BY <1>0, <3>1, <3>4 DEF QueueHolds, Held
    <3>6. BegunIsTrue' /\ EffectsAreCounted' /\ RecordsAreTrue'
      BY <1>0, <3>1, <3>2, <3>4, NothingMoves
    <3> QED
      BY <3>3, <3>5, <3>6 DEF ControlInv
  <2>2. CASE ~(Len(queue) >= QueueLimit)
    <3>1. /\ send[s] = "upload" /\ send' = [send EXCEPT ![s] = "waiting"]
          /\ answers' = answers /\ queue' = Append(queue, s) /\ Unmoved
      BY <1>3, <2>2 DEF AdmitControl
    <3>2. /\ send' \in [Sends -> Places] /\ send'[s] = "waiting"
          /\ \A t \in Sends \ {s} : send'[t] = send[t]
      BY <1>0, <3>1, Moved DEF Places, Admitted
    <3>3. QueueType'
      BY <1>0, <3>1, <3>2 DEF Unmoved, QueueType
    <3>4. QueueHolds'
      <4>1. /\ queue \in Seq(Sends) /\ Len(queue) \in Nat /\ DOMAIN queue = 1 .. Len(queue)
            /\ DOMAIN queue' = 1 .. Len(queue) + 1 /\ Len(queue') = Len(queue) + 1
            /\ queue'[Len(queue) + 1] = s
            /\ \A i \in 1 .. Len(queue) : queue'[i] = queue[i]
            /\ queue # << >> => Head(queue') = Head(queue)
            /\ queue' # << >>
        BY <1>0, <3>1 DEF QueueType
      <4>2. ~Held(s)
        BY <1>0, <3>1 DEF QueueHolds, Admitted, Begun
      <4>3. \A t \in Sends : Held(t)' <=> Held(t) \/ t = s
        BY <4>1 DEF Held
      <4>4. \A i, j \in DOMAIN queue' : queue'[i] = queue'[j] => i = j
        BY <1>0, <4>1, <4>2 DEF QueueHolds, Held
      <4>5. Len(queue') <= QueueLimit
        BY <2>2, <4>1, ControlsAssumption
      <4>6. \A t \in Sends : send'[t] \in Admitted <=> Held(t)'
        BY <1>0, <3>2, <4>3 DEF QueueHolds, Admitted
      <4>7. \A t \in Sends : send'[t] \in Begun => queue' # << >> /\ Head(queue') = t
        BY <1>0, <3>2, <4>1 DEF QueueHolds, Begun
      <4> QED
        BY <4>4, <4>5, <4>6, <4>7 DEF QueueHolds
    <3>5. \A t \in Sends : /\ send'[t] \in Begun => send'[t] = send[t]
                           /\ send[t] = "record" => send'[t] = "record"
      BY <3>1, <3>2 DEF Begun
    <3>6. BegunIsTrue' /\ EffectsAreCounted' /\ RecordsAreTrue'
      BY <1>0, <3>1, <3>5, NothingMoves
    <3> QED
      BY <3>3, <3>4, <3>6 DEF ControlInv
  <2> QED
    BY <2>1, <2>2
<1>4. ASSUME NEW s \in Sends, NEW status \in Nat, NEW at \in Admitted \ {"record"},
             AtHead(s, at), Answer(s, status), Dequeue(s), Unmoved,
             status = 200 /\ Mutates(s) =>
               ControlOf[s].id \in DOMAIN recorded
               /\ recorded[ControlOf[s].id].of = ControlOf[s]
      PROVE  ControlInv'
  <2>1. QueueHolds' /\ queue' \in Seq(Sends) /\ \A t \in Sends \ {s} : send[t] \notin Begun
    BY <1>0, <1>4, HeadLeaves DEF AtHead, Answer, Dequeue
  <2>2. /\ send' \in [Sends -> Places] /\ send'[s] = "answered"
        /\ answers' \in [Sends -> Nat] /\ answers'[s] = status
        /\ \A t \in Sends \ {s} : send'[t] = send[t] /\ answers'[t] = answers[t]
    BY <1>0, <1>4, Answered
  <2>3. QueueType'
    BY <1>0, <1>4, <2>1, <2>2 DEF Unmoved, QueueType
  <2>4. \A t \in Sends : /\ send'[t] \in Begun => send'[t] = send[t]
                         /\ send[t] = "record" => send'[t] = "record"
    BY <1>4, <2>2 DEF AtHead, Begun
  <2>5. \A t \in Sends : answers'[t] = 200 /\ Mutates(t) =>
           \/ answers[t] = 200
           \/ ControlOf[t].id \in DOMAIN recorded
              /\ recorded[ControlOf[t].id].of = ControlOf[t]
    BY <1>4, <2>2
  <2>6. BegunIsTrue' /\ EffectsAreCounted' /\ RecordsAreTrue'
    BY <1>0, <1>4, <2>4, <2>5, NothingMoves
  <2> QED
    BY <2>1, <2>3, <2>6 DEF ControlInv
<1>5. ASSUME NEW s \in Sends, AnswerInTurn(s)
      PROVE  ControlInv'
  <2>1. CASE ControlOf[s].route = "world"
    BY <1>4, <1>5, <2>1 DEF AnswerInTurn, Admitted, Mutates
  <2>2. CASE ControlOf[s].route # "world"
    BY <1>4, <1>5, <2>2 DEF AnswerInTurn, Admitted
  <2> QED
    BY <2>1, <2>2
<1>6. ASSUME NEW s \in Sends, LookUp(s)
      PROVE  ControlInv'
  <2> DEFINE c == ControlOf[s]
  <2>1. AtHead(s, "waiting") /\ Mutates(s) /\ Unmoved /\ c.id \in Ids
    BY <1>6 DEF LookUp, Ids
  <2>2. CASE c.id \in DOMAIN recorded
    <3>1. /\ Answer(s, IF recorded[c.id].of = c THEN recorded[c.id].status ELSE 409)
          /\ Dequeue(s)
      BY <1>6, <2>2 DEF LookUp
    <3>2. recorded[c.id].status \in {200, 400}
      BY <1>0, <2>2 DEF QueueType
    <3>3. CASE recorded[c.id].of = c
      BY <1>4, <2>1, <2>2, <3>1, <3>2, <3>3 DEF Admitted
    <3>4. CASE recorded[c.id].of # c
      BY <1>4, <2>1, <3>1, <3>4 DEF Admitted
    <3> QED
      BY <3>3, <3>4
  <2>3. CASE c.id \notin DOMAIN recorded /\ c.route \in {"reset", "advance"} /\ c.expects # gen
    <3>1. Answer(s, 409) /\ Dequeue(s)
      BY <1>6, <2>3 DEF LookUp
    <3> QED
      BY <1>4, <2>1, <3>1 DEF Admitted
  <2>4. CASE c.id \notin DOMAIN recorded /\ ~(c.route \in {"reset", "advance"} /\ c.expects # gen)
    <3>1. send' = [send EXCEPT ![s] = "effect"] /\ UNCHANGED <<answers, queue>>
      BY <1>6, <2>4 DEF LookUp
    <3>2. QueueHolds' /\ \A t \in Sends \ {s} : send[t] \notin Begun
      BY <1>0, <2>1, <3>1, HeadGoesOn DEF AtHead, Admitted, Begun
    <3>3. /\ send' \in [Sends -> Places] /\ send'[s] = "effect"
          /\ \A t \in Sends \ {s} : send'[t] = send[t]
      BY <1>0, <3>1, Moved DEF Places, Admitted, Begun
    <3>4. QueueType'
      BY <1>0, <2>1, <3>1, <3>3 DEF QueueType, Unmoved
    <3>5. send[s] = "waiting"
      BY <2>1 DEF AtHead
    <3>6. BegunIsTrue'
      BY <1>0, <2>1, <2>4, <3>2, <3>3, <3>5 DEF BegunIsTrue, Unmoved
    <3>7. EffectsAreCounted'
      <4>1. \A i \in Ids : Done(i)' <=> Done(i)
        BY <2>1, <3>3, <3>5 DEF Done, Unmoved
      <4> QED
        BY <1>0, <2>1, <4>1 DEF EffectsAreCounted, ExpectsOf, Unmoved
    <3>8. RecordsAreTrue'
      BY <1>0, <2>1, <3>1 DEF RecordsAreTrue, Unmoved, Mutates
    <3> QED
      BY <3>2, <3>4, <3>6, <3>7, <3>8 DEF ControlInv
  <2> QED
    BY <2>2, <2>3, <2>4
<1>7. ASSUME NEW s \in Sends, EffectThrows(s)
      PROVE  ControlInv'
  BY <1>4, <1>7 DEF EffectThrows, Admitted, Begun
<1>8. ASSUME NEW s \in Sends, Effect(s)
      PROVE  ControlInv'
  <2> DEFINE c == ControlOf[s]
  <2>1. PICK at \in {"record", "recordFailure"} :
          /\ send' = [send EXCEPT ![s] = at]
          /\ \/ /\ c.route = "reset" /\ at = "record" /\ gen' = gen + 1
                /\ resets' = [resets EXCEPT ![c.id] = @ \cup {gen}]
                /\ UNCHANGED advances
             \/ /\ c.route \in {"advance", "checkpoint"}
                /\ advances' = [advances EXCEPT ![c.id] =
                     IF c.route = "advance" /\ at = "record" THEN @ + 1 ELSE @]
                /\ UNCHANGED <<gen, resets>>
    BY <1>8 DEF Effect
  <2>2. /\ queue # << >> /\ Head(queue) = s /\ send[s] = "effect"
        /\ UNCHANGED <<answers, queue, recorded, recordFaults>>
        /\ c.id \in Ids
    BY <1>8 DEF Effect, Ids, AtHead
  <2>3. QueueHolds' /\ \A t \in Sends \ {s} : send[t] \notin Begun
    <3>1. send[s] \in Admitted /\ at \in Begun
      BY <2>2 DEF Admitted, Begun
    <3> QED
      BY <1>0, <2>1, <2>2, <3>1, HeadGoesOn
  <2>4. /\ send' \in [Sends -> Places] /\ send'[s] = at
        /\ \A t \in Sends \ {s} : send'[t] = send[t]
    <3>1. at \in Places
      BY DEF Places, Admitted, Begun
    <3> QED
      BY <1>0, <2>1, <3>1, Moved
  <2>5. send[s] = "effect"
    BY <2>2
  <2>6. c.id \notin DOMAIN recorded /\ (c.route = "reset" => c.expects = gen)
    BY <1>0, <2>5 DEF BegunIsTrue, Begun
  <2>7. /\ \A i \in Ids : resets[i] \subseteq resets'[i] /\ advances[i] <= advances'[i]
        /\ \A i \in Ids \ {c.id} : resets'[i] = resets[i] /\ advances'[i] = advances[i]
        /\ c.route = "reset" => gen \in resets'[c.id]
        /\ c.route = "advance" /\ at = "record" => advances'[c.id] = advances[c.id] + 1
        /\ ~(c.route = "advance" /\ at = "record") => advances'[c.id] = advances[c.id]
        /\ resets'[c.id] \subseteq resets[c.id] \cup {c.expects}
    <3>1. /\ advances \in [Ids -> Nat] /\ resets \in [Ids -> SUBSET Expected]
          /\ c.id \in Ids
      BY <1>0, <2>2 DEF QueueType
    <3>2. CASE c.route = "reset"
      <4>1. /\ at = "record" /\ resets' = [resets EXCEPT ![c.id] = @ \cup {gen}]
            /\ advances' = advances /\ c.expects = gen
        BY <2>1, <2>6, <3>2
      <4> QED
        BY <3>1, <3>2, <4>1
    <3>3. CASE c.route # "reset"
      <4>1. /\ advances' = [advances EXCEPT ![c.id] =
                 IF c.route = "advance" /\ at = "record" THEN @ + 1 ELSE @]
            /\ resets' = resets
        BY <2>1, <3>3
      <4> QED
        BY <3>1, <3>3, <4>1
    <3> QED
      BY <3>2, <3>3
  <2>8. QueueType'
    <3>1. resets' \in [Ids -> SUBSET Expected]
      <4>1. resets \in [Ids -> SUBSET Expected] /\ c.expects \in Expected
        BY <1>0 DEF QueueType, Expected
      <4>2. resets' = resets \/ resets' = [resets EXCEPT ![c.id] = @ \cup {c.expects}]
        BY <2>1, <2>6
      <4> QED
        BY <2>2, <4>1, <4>2
    <3>2. advances' \in [Ids -> Nat]
      <4>1. advances \in [Ids -> Nat]
        BY <1>0 DEF QueueType
      <4>2. CASE advances' = advances
        BY <4>1, <4>2
      <4>3. CASE advances' = [advances EXCEPT ![c.id] =
                   IF c.route = "advance" /\ at = "record" THEN @ + 1 ELSE @]
        BY <2>2, <4>1, <4>3
      <4> QED
        BY <2>1, <4>2, <4>3
    <3> QED
      BY <1>0, <2>2, <2>4, <3>1, <3>2 DEF QueueType
  <2>9. BegunIsTrue'
    <3>1. advances[c.id] \in Nat
      BY <1>0, <2>2 DEF QueueType
    <3>2. \A t \in Sends : send'[t] \in Begun \cup {"effect", "record"} => t = s
      BY <2>3, <2>4 DEF Begun
    <3>3. /\ send'[s] # "effect" /\ c.id \notin DOMAIN recorded'
          /\ send'[s] = "record" =>
               /\ c.route = "advance" => advances'[c.id] >= 1
               /\ c.route = "reset" => c.expects \in resets'[c.id]
      BY <2>2, <2>4, <2>6, <2>7, <3>1
    <3> QED
      BY <3>2, <3>3 DEF BegunIsTrue
  <2>10. EffectsAreCounted'
    <3>1. \A i \in Ids : advances[i] \in Nat /\ recordFaults[i] \in Nat
      BY <1>0 DEF QueueType
    <3>2. \A i \in Ids : Done(i) => Done(i)'
      BY <2>2, <2>4, <2>5 DEF Done
    <3>3. ~Done(c.id)
      BY <2>3, <2>5, <2>6 DEF Done, Begun
    <3>4. at = "record" => Done(c.id)'
      BY <2>4 DEF Done
    <3>5. ASSUME NEW i \in Ids
          PROVE  advances'[i] <= recordFaults'[i] + IF Done(i)' THEN 1 ELSE 0
      <4>1. CASE i # c.id
        BY <1>0, <2>2, <2>7, <3>1, <3>2, <4>1 DEF EffectsAreCounted
      <4>2. CASE i = c.id /\ at = "record"
        BY <1>0, <2>2, <2>7, <3>1, <3>3, <3>4, <4>2 DEF EffectsAreCounted
      <4>3. CASE i = c.id /\ at # "record"
        BY <1>0, <2>2, <2>7, <3>1, <3>3, <4>3 DEF EffectsAreCounted
      <4> QED
        BY <4>1, <4>2, <4>3
    <3>6. \A i \in Ids : resets'[i] \subseteq ExpectsOf(i)
      BY <1>0, <2>7 DEF EffectsAreCounted, ExpectsOf
    <3> QED
      BY <3>5, <3>6 DEF EffectsAreCounted, ExpectsOf
  <2>11. RecordsAreTrue'
    <3>1. \A i \in Ids : advances[i] \in Nat /\ advances'[i] \in Nat
      BY <1>0, <2>8 DEF QueueType
    <3>2. DOMAIN recorded \subseteq Ids
      BY <1>0 DEF QueueType
    <3> QED
      BY <1>0, <2>2, <2>7, <3>1, <3>2 DEF RecordsAreTrue, Mutates
  <2> QED
    BY <2>3, <2>8, <2>9, <2>10, <2>11 DEF ControlInv
<1>9. ASSUME NEW s \in Sends, RecordResult(s)
      PROVE  ControlInv'
  <2>0. QueueHolds' /\ queue' \in Seq(Sends) /\ \A t \in Sends \ {s} : send[t] \notin Begun
    <3>1. /\ queue # << >> /\ Head(queue) = s /\ queue' = Tail(queue)
          /\ send' = [send EXCEPT ![s] = "answered"]
      BY <1>9 DEF RecordResult, AtHead, Answer, Dequeue
    <3> QED
      BY <1>0, <3>1, HeadLeaves
  <2> DEFINE c == ControlOf[s]
  <2>1. PICK status \in {200, 400} :
          /\ AtHead(s, IF status = 200 THEN "record" ELSE "recordFailure")
          /\ recorded' = [i \in DOMAIN recorded \cup {c.id} |->
                            IF i = c.id THEN [of |-> c, status |-> status]
                            ELSE recorded[i]]
          /\ Answer(s, status) /\ Dequeue(s)
    BY <1>9 DEF RecordResult
  <2>2. /\ UNCHANGED <<gen, advances, resets, recordFaults>> /\ c.id \in Ids
        /\ status \in Nat /\ Answer(s, status) /\ queue' = Tail(queue)
    <3>1. UNCHANGED <<gen, advances, resets, recordFaults>>
      BY <1>9 DEF RecordResult
    <3>2. Answer(s, status) /\ Dequeue(s)
      BY <2>1, Zenon
    <3> QED
      BY <3>1, <3>2 DEF Ids, Dequeue
  <2>3. /\ queue # << >> /\ Head(queue) = s
        /\ send[s] \in Begun /\ (status = 200 => send[s] = "record")
    <3>1. CASE status = 200
      <4>1. AtHead(s, "record")
        BY <2>1, <3>1, Zenon
      <4> QED
        BY <4>1 DEF AtHead, Begun
    <3>2. CASE status = 400
      <4>1. AtHead(s, "recordFailure")
        <5>1. status # 200
          BY <3>2
        <5> QED
          BY <2>1, <5>1, Zenon
      <4> QED
        BY <3>2, <4>1 DEF AtHead, Begun
    <3> QED
      BY <3>1, <3>2
  <2>4. /\ send' \in [Sends -> Places] /\ send'[s] = "answered"
        /\ answers' \in [Sends -> Nat] /\ answers'[s] = status
        /\ \A t \in Sends \ {s} : send'[t] = send[t] /\ answers'[t] = answers[t]
    BY <1>0, <2>2, Answered
  <2>5. c.id \notin DOMAIN recorded
    BY <1>0, <2>3 DEF BegunIsTrue, Begun
  <2>6. /\ DOMAIN recorded' = DOMAIN recorded \cup {c.id}
        /\ recorded'[c.id].of = c /\ recorded'[c.id].status = status
        /\ \A i \in DOMAIN recorded : recorded'[i] = recorded[i]
    <3>1. recorded' = [i \in DOMAIN recorded \cup {c.id} |->
                         IF i = c.id THEN [of |-> c, status |-> status] ELSE recorded[i]]
      BY <2>1
    <3> QED
      BY <2>5, <3>1
  <2>7. QueueType'
    <3>1. DOMAIN recorded' \subseteq Ids
      BY <1>0, <2>2, <2>6 DEF QueueType
    <3>2. \A i \in DOMAIN recorded' : recorded'[i].status \in {200, 400}
      <4>1. \A i \in DOMAIN recorded : recorded'[i].status \in {200, 400}
        BY <1>0, <2>6 DEF QueueType
      <4>2. recorded'[c.id].status \in {200, 400}
        BY <2>1, <2>6
      <4> QED
        BY <2>6, <4>1, <4>2
    <3>3. /\ advances' \in [Ids -> Nat] /\ resets' \in [Ids -> SUBSET Expected]
          /\ recordFaults' \in [Ids -> Nat]
      BY <1>0, <2>2 DEF QueueType
    <3> QED
      BY <2>0, <2>4, <3>1, <3>2, <3>3 DEF QueueType
  <2>8. BegunIsTrue'
    BY <2>4, <2>0 DEF BegunIsTrue, Begun
  <2>9. EffectsAreCounted'
    <3>1. \A i \in Ids : Done(i) => Done(i)'
      BY <2>4, <2>6 DEF Done
    <3>2. \A i \in Ids : advances[i] \in Nat /\ recordFaults[i] \in Nat
      BY <1>0 DEF QueueType
    <3> QED
      BY <1>0, <2>2, <3>1, <3>2 DEF EffectsAreCounted, ExpectsOf
  <2>10. RecordsAreTrue'
    <3>1. status = 200 =>
            /\ c.route = "advance" => advances[c.id] >= 1
            /\ c.route = "reset" => c.expects \in resets[c.id]
      BY <1>0, <2>3 DEF BegunIsTrue
    <3> QED
      BY <1>0, <2>2, <2>4, <2>6, <3>1 DEF RecordsAreTrue, Mutates
  <2> QED
    BY <2>7, <2>8, <2>9, <2>10, <2>0 DEF ControlInv
<1>10. ASSUME NEW s \in Sends, RecordThrows(s)
       PROVE  ControlInv'
  <2> DEFINE c == ControlOf[s]
  <2>1. /\ queue # << >> /\ Head(queue) = s
        /\ send[s] \in {"record", "recordFailure"}
        /\ recordFaults' = [recordFaults EXCEPT ![c.id] = @ + 1]
        /\ send' = [send EXCEPT ![s] = "answered"]
        /\ answers' = [answers EXCEPT ![s] = 500]
        /\ queue' = Tail(queue)
        /\ UNCHANGED <<gen, advances, resets, recorded>> /\ c.id \in Ids
    BY <1>10 DEF RecordThrows, Ids, AtHead, Answer, Dequeue
  <2>2. QueueHolds' /\ queue' \in Seq(Sends) /\ \A t \in Sends \ {s} : send[t] \notin Begun
    BY <1>0, <2>1, HeadLeaves
  <2>3. /\ send' \in [Sends -> Places] /\ send'[s] = "answered"
        /\ answers' \in [Sends -> Nat] /\ answers'[s] = 500
        /\ \A t \in Sends \ {s} : send'[t] = send[t] /\ answers'[t] = answers[t]
    <3>1. Answer(s, 500)
      BY <2>1 DEF Answer
    <3> QED
      BY <1>0, <3>1, Answered
  <2>4. QueueType'
    BY <1>0, <2>1, <2>2, <2>3 DEF QueueType
  <2>5. BegunIsTrue'
    BY <1>0, <2>1, <2>2, <2>3 DEF BegunIsTrue, Begun
  <2>6. EffectsAreCounted'
    <3>1. /\ \A i \in Ids : advances[i] \in Nat /\ recordFaults[i] \in Nat
          /\ recordFaults'[c.id] = recordFaults[c.id] + 1
          /\ \A i \in Ids \ {c.id} : recordFaults'[i] = recordFaults[i]
      BY <1>0, <2>1 DEF QueueType
    <3>2. \A i \in Ids \ {c.id} : Done(i) => Done(i)'
      BY <2>1, <2>3 DEF Done
    <3> QED
      BY <1>0, <2>1, <3>1, <3>2 DEF EffectsAreCounted, ExpectsOf
  <2>7. RecordsAreTrue'
    BY <1>0, <2>1, <2>3 DEF RecordsAreTrue, Mutates
  <2> QED
    BY <2>2, <2>4, <2>5, <2>6, <2>7 DEF ControlInv
<1> QED
  BY <1>1, <1>2, <1>3, <1>5, <1>6, <1>7, <1>8, <1>9, <1>10
  DEF QueueNext, QueueSteps, CloseSocket, SocketClosed

LEMMA ControlsStutter ==
  ASSUME ControlInv, UNCHANGED controlQueueVars
  PROVE  ControlInv'
<1>1. QueueType' /\ QueueHolds'
  BY DEF ControlInv, controlQueueVars, QueueType, QueueHolds, Held
<1>2. BegunIsTrue' /\ EffectsAreCounted' /\ RecordsAreTrue'
  BY NothingMoves DEF ControlInv, controlQueueVars, Unmoved
<1> QED
  BY <1>1, <1>2 DEF ControlInv

LEMMA OnceFromInv == ControlInv => ControlsTakeEffectOnce
<1> SUFFICES ASSUME ControlInv PROVE ControlsTakeEffectOnce
  OBVIOUS
<1>1. QueueIsBounded
  BY DEF ControlInv, QueueHolds, QueueIsBounded, Held, Admitted, Begun
<1>2. \A c \in Ids : advances[c] <= 1 + recordFaults[c]
  <2>1. \A c \in Ids : advances[c] \in Nat /\ recordFaults[c] \in Nat
    BY DEF ControlInv, QueueType
  <2> QED
    BY <2>1 DEF ControlInv, EffectsAreCounted
<1>3. \A c \in Ids : Cardinality(resets[c]) <= Cardinality(ExpectsOf(c))
  <2>1. ASSUME NEW c \in Ids PROVE IsFiniteSet(ExpectsOf(c))
    <3>1. IsFiniteSet({t \in Sends : ControlOf[t].id = c})
      BY ControlsAssumption, FS_Subset
    <3> DEFINE S == {t \in Sends : ControlOf[t].id = c}
               f == [s \in S |-> ControlOf[s].expects]
    <3>2. f \in Surjection(S, ExpectsOf(c))
      BY DEF Surjection, ExpectsOf
    <3> QED
      BY <3>1, <3>2, FS_Surjection
  <2> QED
    BY <2>1, FS_Subset DEF ControlInv, EffectsAreCounted
<1>4. \A c \in DOMAIN recorded : recorded[c].status = 200 =>
       CASE recorded[c].of.route = "advance" -> advances[c] >= 1
         [] recorded[c].of.route = "reset" -> recorded[c].of.expects \in resets[c]
         [] OTHER -> TRUE
  BY DEF ControlInv, RecordsAreTrue
<1> QED
  BY <1>1, <1>2, <1>3, <1>4
  DEF ControlsTakeEffectOnce, ExpectsOf, ControlInv, RecordsAreTrue

\* For any requests of operators, in any order, with any failures: a reset ends
\* one generation at most, an advance is repeated only behind a record that
\* failed, and an answer of 200 is that of a recorded id (control.ts
\* runControl, handle).
THEOREM ControlsOnce == QueueSpec => []ControlsTakeEffectOnce
<1>1. ControlInv /\ [QueueNext]_controlQueueVars => ControlInv'
  BY ControlStep, ControlsStutter
<1> QED
  BY ControlsStart, <1>1, OnceFromInv, PTL DEF QueueSpec
(***************************************************************************)
(* Faults.                                                                 *)
(***************************************************************************)
Position == [counters : [RuleIds -> Nat], stream : Nat]
Rows == [rule : RuleIds, round : Nat, occurrence : Nat]

FaultType ==
  /\ RulesValid
  /\ memory.counters \in [RuleIds -> Nat] /\ durable.counters \in [RuleIds -> Nat]
  /\ consumed \in Seq(Rows)
  /\ round \in Nat
  /\ resetting \in {NoPosition, Baseline}

\* No row is of a generation to come, nor of one whose reset is under way, and
\* within a generation the stored position, which is behind memory, covers
\* every row; so the occurrence that memory counts next has no row yet.
PositionsCover ==
  /\ \A i \in DOMAIN consumed : consumed[i].round <= round
  /\ \A i \in DOMAIN consumed : consumed[i].round = round =>
       /\ resetting = NoPosition
       /\ consumed[i].occurrence <= durable.counters[consumed[i].rule]
  /\ resetting = NoPosition =>
       \A r \in RuleIds : durable.counters[r] <= memory.counters[r]
  /\ resetting # NoPosition => durable = resetting

RowsAreTold ==
  /\ \A i, j \in DOMAIN consumed : consumed[i] = consumed[j] => i = j
  /\ struck = Told(consumed)

FaultInv == FaultType /\ PositionsCover /\ RowsAreTold

\* A set of numbers has a least one.
LEMMA LeastNumber ==
  ASSUME NEW S \in SUBSET Nat, S # {}
  PROVE  \E m \in S : \A n \in S : m <= n
<1>1. \E m \in S : \A n \in S : <<n, m>> \notin OpToRel(<, Nat)
  BY WFMin, NatLessThanWellFounded, Zenon
<1>2. PICK m \in S : \A n \in S : <<n, m>> \notin OpToRel(<, Nat)
  BY <1>1
<1>3. ASSUME NEW n \in S PROVE m <= n
  <2>1. <<n, m>> \notin OpToRel(<, Nat)
    BY <1>2
  <2>2. ~(n < m)
    BY <2>1 DEF OpToRel
  <2> QED
    BY <2>2
<1> QED
  BY <1>3

\* The rule that ends an evaluation is one of its candidates.
LEMMA FirstIsCandidate ==
  ASSUME NEW cs \in SUBSET DOMAIN Rules, NEW low, FirstMatch(cs, low) # 0
  PROVE  FirstMatch(cs, low) \in cs
<1> DEFINE firing == {i \in cs : Fires(i, low)}
<1>1. firing # {}
  BY DEF FirstMatch
<1>2. firing \in SUBSET Nat
  BY RulesAssumption
<1>3. PICK m \in firing : \A n \in firing : m <= n
  BY <1>1, <1>2, LeastNumber
<1>4. m \in cs /\ Fires(m, low) /\ \A j \in cs : Fires(j, low) => m <= j
  BY <1>3
<1> QED
  BY <1>4 DEF FirstMatch

\* An evaluation counts a rule once at most, and the one that fires once.
LEMMA CountedOnce ==
  ASSUME RulesValid, NEW counted \in SUBSET DOMAIN Rules, NEW r \in RuleIds
  PROVE  LET n == Cardinality({i \in counted : Rules[i].id = r})
         IN  n \in {0, 1} /\ (r \in {Rules[i].id : i \in counted} => n = 1)
<1> DEFINE S == {i \in counted : Rules[i].id = r}
<1>1. CASE S = {}
  BY <1>1, FS_EmptySet
<1>2. CASE S # {}
  <2>1. PICK k \in counted : Rules[k].id = r
    BY <1>2
  <2>2. S = {k}
    BY <2>1 DEF RulesValid
  <2> QED
    BY <2>2, FS_Singleton
<1> QED
  BY <1>1, <1>2

LEMMA FaultsStart == FaultInit => FaultInv
<1> SUFFICES ASSUME FaultInit PROVE FaultInv
  OBVIOUS
<1>1. FaultType
  BY DEF FaultInit, FaultType, Baseline
<1>2. PositionsCover
  BY DEF FaultInit, PositionsCover, Baseline
<1>3. RowsAreTold
  BY DEF FaultInit, RowsAreTold, Told
<1> QED
  BY <1>1, <1>2, <1>3 DEF FaultInv

LEMMA BaselineIsPosition == Baseline # NoPosition /\ Baseline.counters \in [RuleIds -> Nat]
  BY DEF Baseline, NoPosition

\* A row more: what was told and what is stored say so together.
LEMMA ToldOneMore ==
  ASSUME consumed \in Seq(Rows), NEW row \in Rows
  PROVE  /\ consumed \o <<row>> \in Seq(Rows)
         /\ DOMAIN (consumed \o <<row>>) = DOMAIN consumed \cup {Len(consumed) + 1}
         /\ Len(consumed) + 1 \notin DOMAIN consumed
         /\ (consumed \o <<row>>)[Len(consumed) + 1] = row
         /\ \A i \in DOMAIN consumed : (consumed \o <<row>>)[i] = consumed[i]
         /\ Told(consumed \o <<row>>) = Told(consumed) \cup Told(<<row>>)
<1> DEFINE n == Len(consumed) + 1
           longer == consumed \o <<row>>
<1>1. /\ longer \in Seq(Rows)
      /\ DOMAIN longer = DOMAIN consumed \cup {n} /\ n \notin DOMAIN consumed
      /\ longer[n] = row
      /\ \A i \in DOMAIN consumed : longer[i] = consumed[i]
  OBVIOUS
<1>2. DOMAIN <<row>> = {1} /\ <<row>>[1] = row
  OBVIOUS
<1> HIDE DEF longer, n
<1>3. Told(longer) = Told(consumed) \cup Told(<<row>>)
  BY <1>1, <1>2 DEF Told
<1> QED
  BY <1>1, <1>3 DEF longer, n

\* What a phase of an exchange leaves: memory counts its rules, and the store
\* takes the position with the row of the rule that fired, or nothing.
LEMMA Counts ==
  ASSUME FaultInv, NEW counted \in SUBSET DOMAIN Rules, NEW position,
         position.counters = [r \in RuleIds |-> memory.counters[r] +
                                Cardinality({i \in counted : Rules[i].id = r})]
  PROVE  /\ position.counters \in [RuleIds -> Nat]
         /\ \A r \in RuleIds : memory.counters[r] <= position.counters[r]
         /\ \A r \in {Rules[i].id : i \in counted} :
              position.counters[r] = memory.counters[r] + 1
<1> DEFINE n(r) == Cardinality({i \in counted : Rules[i].id = r})
<1>1. /\ RulesValid /\ memory.counters \in [RuleIds -> Nat]
  BY DEF FaultInv, FaultType
<1>2. \A r \in RuleIds : n(r) \in {0, 1} /\ (r \in {Rules[i].id : i \in counted} => n(r) = 1)
  BY <1>1, CountedOnce
<1>3. position.counters = [r \in RuleIds |-> memory.counters[r] + n(r)]
  OBVIOUS
<1>4. {Rules[i].id : i \in counted} \subseteq RuleIds
  BY DEF RuleIds
<1> HIDE DEF n
<1> QED
  BY <1>1, <1>2, <1>3, <1>4

LEMMA FaultEvaluates ==
  ASSUME FaultInv, NEW phase \in Phases, NEW operation \in RuleOperations,
         NEW cs \in SUBSET Declared(phase, operation), Evaluate(phase, cs)
  PROVE  FaultInv'
<1> DEFINE draws == \E i \in DOMAIN Rules : Rules[i].phase = phase /\ Rules[i].chance
           low == draws /\ Sample[memory.stream]
           first == FirstMatch(cs, low)
           counted == Counted(cs, first)
           position == [counters |-> [r \in RuleIds |-> memory.counters[r] +
                                        Cardinality({i \in counted : Rules[i].id = r})],
                        stream |-> IF draws THEN memory.stream + 1 ELSE memory.stream]
           fired == [rule |-> Rules[first].id, round |-> round,
                     occurrence |-> position.counters[Rules[first].id]]
           row == IF first = 0 THEN <<>> ELSE <<fired>>
<1>1. /\ resetting = NoPosition /\ memory' = position
      /\ round' = round /\ resetting' = resetting
      /\ \/ durable' = position /\ consumed' = consumed \o row /\ struck' = struck \cup Told(row)
         \/ UNCHANGED <<durable, consumed, struck>>
  BY DEF Evaluate, Persist
<1>2. cs \in SUBSET DOMAIN Rules /\ counted \in SUBSET DOMAIN Rules
  BY DEF Declared, Counted
<1>3. /\ position.counters \in [RuleIds -> Nat]
      /\ \A r \in RuleIds : memory.counters[r] <= position.counters[r]
      /\ \A r \in {Rules[i].id : i \in counted} : position.counters[r] = memory.counters[r] + 1
  <2>1. position.counters = [r \in RuleIds |-> memory.counters[r] +
                               Cardinality({i \in counted : Rules[i].id = r})]
    OBVIOUS
  <2> HIDE DEF counted, position
  <2> QED
    BY <1>2, <2>1, Counts
<1>4. first # 0 => fired \in Rows /\ fired.occurrence = memory.counters[fired.rule] + 1
  <2> SUFFICES ASSUME first # 0 PROVE fired \in Rows /\ fired.occurrence = memory.counters[fired.rule] + 1
    OBVIOUS
  <2>1. first \in cs
    BY <1>2, FirstIsCandidate
  <2>2. first \in counted
    <3>1. first \in Nat
      BY <1>2, <2>1, RulesAssumption
    <3> QED
      BY <2>1, <3>1 DEF Counted
  <2>3. Rules[first].id \in {Rules[i].id : i \in counted} /\ Rules[first].id \in RuleIds
    BY <1>2, <2>2 DEF RuleIds
  <2>4. round \in Nat /\ memory.counters \in [RuleIds -> Nat]
    BY DEF FaultInv, FaultType
  <2> HIDE DEF first, counted, position
  <2> QED
    BY <1>3, <2>3, <2>4 DEF Rows
<1> HIDE DEF position, first, counted, draws, low, fired
<1>5. /\ RulesValid /\ memory.counters \in [RuleIds -> Nat]
      /\ durable.counters \in [RuleIds -> Nat] /\ consumed \in Seq(Rows) /\ round \in Nat
  BY DEF FaultInv, FaultType
<1>6. \A r \in RuleIds : durable.counters[r] <= memory.counters[r]
  BY <1>1 DEF FaultInv, PositionsCover
<1>7. CASE UNCHANGED <<durable, consumed, struck>>
  <2>1. FaultType'
    BY <1>1, <1>3, <1>7 DEF FaultInv, FaultType, RulesValid
  <2>2. PositionsCover'
    <3>1. \A r \in RuleIds : durable.counters[r] <= position.counters[r]
      BY <1>3, <1>5, <1>6
    <3> QED
      BY <1>1, <1>7, <3>1 DEF FaultInv, PositionsCover
  <2>3. RowsAreTold'
    BY <1>7 DEF FaultInv, RowsAreTold, Told
  <2> QED
    BY <2>1, <2>2, <2>3 DEF FaultInv
<1>8. CASE /\ durable' = position /\ consumed' = consumed \o row
           /\ struck' = struck \cup Told(row) /\ first = 0
  <2>1. consumed' = consumed /\ Told(row) = {}
    BY <1>5, <1>8 DEF Told
  <2>2. struck' = struck
    BY <1>8, <2>1
  <2>3. FaultType'
    BY <1>1, <1>3, <1>8, <2>1 DEF FaultInv, FaultType, RulesValid
  <2>4. PositionsCover'
    <3>1. \A i \in DOMAIN consumed : consumed[i] \in Rows
      BY <1>5
    <3>2. \A i \in DOMAIN consumed : consumed[i].round = round =>
            consumed[i].occurrence <= position.counters[consumed[i].rule]
      <4>1. ASSUME NEW i \in DOMAIN consumed, consumed[i].round = round
            PROVE  consumed[i].occurrence <= position.counters[consumed[i].rule]
        <5>1. consumed[i].rule \in RuleIds /\ consumed[i].occurrence \in Nat
          BY <3>1 DEF Rows
        <5>2. consumed[i].occurrence <= durable.counters[consumed[i].rule]
          BY <4>1 DEF FaultInv, PositionsCover
        <5> QED
          BY <1>3, <1>5, <1>6, <5>1, <5>2
      <4> QED
        BY <4>1
    <3>3. \A r \in RuleIds : position.counters[r] <= position.counters[r]
      BY <1>3
    <3> QED
      BY <1>1, <1>8, <2>1, <3>2, <3>3 DEF FaultInv, PositionsCover
  <2>5. RowsAreTold'
    BY <2>1, <2>2 DEF FaultInv, RowsAreTold, Told
  <2> QED
    BY <2>3, <2>4, <2>5 DEF FaultInv
<1>9. CASE /\ durable' = position /\ consumed' = consumed \o row
           /\ struck' = struck \cup Told(row) /\ first # 0
  <2> DEFINE n == Len(consumed) + 1
  <2>1. /\ row = <<fired>> /\ fired \in Rows /\ fired.round = round
        /\ fired.occurrence = memory.counters[fired.rule] + 1
        /\ fired.occurrence = position.counters[fired.rule]
    BY <1>4, <1>9 DEF fired
  <2>2. /\ consumed' \in Seq(Rows)
        /\ DOMAIN consumed' = DOMAIN consumed \cup {n} /\ n \notin DOMAIN consumed
        /\ consumed'[n] = fired
        /\ \A i \in DOMAIN consumed : consumed'[i] = consumed[i]
        /\ Told(consumed') = Told(consumed) \cup Told(row)
    BY <1>5, <1>9, <2>1, ToldOneMore
  <2>3. \A i \in DOMAIN consumed : consumed[i] \in Rows
    BY <1>5
  <2>4. \A i \in DOMAIN consumed : consumed[i].round = round =>
          consumed[i].occurrence <= memory.counters[consumed[i].rule]
    <3>1. ASSUME NEW i \in DOMAIN consumed, consumed[i].round = round
          PROVE  consumed[i].occurrence <= memory.counters[consumed[i].rule]
      <4>1. consumed[i].rule \in RuleIds /\ consumed[i].occurrence \in Nat
        BY <2>3 DEF Rows
      <4>2. consumed[i].occurrence <= durable.counters[consumed[i].rule]
        BY <3>1 DEF FaultInv, PositionsCover
      <4> QED
        BY <1>5, <1>6, <4>1, <4>2
    <3> QED
      BY <3>1
  <2> HIDE DEF n, row
  <2>5. \A i \in DOMAIN consumed : consumed[i] # fired
    <3>1. ASSUME NEW i \in DOMAIN consumed, consumed[i] = fired PROVE FALSE
      <4>1. fired.rule \in RuleIds /\ fired.occurrence <= memory.counters[fired.rule]
        BY <2>1, <2>4, <3>1 DEF Rows
      <4> QED
        BY <1>5, <2>1, <4>1
    <3> QED
      BY <3>1
  <2>6. FaultType'
    BY <1>1, <1>3, <1>9, <2>2 DEF FaultInv, FaultType, RulesValid
  <2>7. PositionsCover'
    <3>1. \A i \in DOMAIN consumed' : consumed'[i].round <= round
      BY <1>5, <2>1, <2>2 DEF FaultInv, PositionsCover
    <3>2. \A i \in DOMAIN consumed' : consumed'[i].round = round =>
            consumed'[i].occurrence <= position.counters[consumed'[i].rule]
      <4>1. ASSUME NEW i \in DOMAIN consumed, consumed[i].round = round
            PROVE  consumed[i].occurrence <= position.counters[consumed[i].rule]
        <5>1. consumed[i].rule \in RuleIds /\ consumed[i].occurrence \in Nat
          BY <2>3 DEF Rows
        <5> QED
          BY <1>3, <1>5, <2>4, <4>1, <5>1
      <4>2. fired.rule \in RuleIds /\ fired.occurrence \in Nat
        BY <2>1 DEF Rows
      <4> QED
        BY <2>1, <2>2, <4>1, <4>2
    <3>3. \A r \in RuleIds : position.counters[r] <= position.counters[r]
      BY <1>3
    <3> QED
      BY <1>1, <1>9, <3>1, <3>2, <3>3 DEF PositionsCover
  <2>8. RowsAreTold'
    <3>1. \A i, j \in DOMAIN consumed' : consumed'[i] = consumed'[j] => i = j
      BY <2>2, <2>5 DEF FaultInv, RowsAreTold
    <3>2. struck' = Told(consumed')
      BY <1>9, <2>2 DEF FaultInv, RowsAreTold
    <3> QED
      BY <3>1, <3>2 DEF RowsAreTold, Told
  <2> QED
    BY <2>6, <2>7, <2>8 DEF FaultInv
<1> QED
  BY <1>1, <1>7, <1>8, <1>9

LEMMA FaultStep == FaultInv /\ FaultNext => FaultInv'
<1> SUFFICES ASSUME FaultInv, FaultNext PROVE FaultInv'
  OBVIOUS
<1>1. CASE \E phase \in Phases, operation \in RuleOperations :
             \E cs \in SUBSET Declared(phase, operation) : Evaluate(phase, cs)
  BY <1>1, FaultEvaluates
<1>2. ASSUME NEW ok \in BOOLEAN, ResetStore(ok) PROVE FaultInv'
  <2>1. /\ resetting = NoPosition /\ UNCHANGED <<memory, consumed, struck>>
        /\ consumed \in Seq(Rows) /\ round \in Nat
    BY <1>2 DEF ResetStore, FaultInv, FaultType
  <2>2. RowsAreTold'
    BY <2>1 DEF FaultInv, RowsAreTold, Told
  <2>3. CASE ok = TRUE
    <3>1. durable' = Baseline /\ resetting' = Baseline /\ round' = round + 1
      BY <1>2, <2>3 DEF ResetStore
    <3>2. FaultType'
      BY <2>1, <3>1, BaselineIsPosition DEF FaultInv, FaultType, RulesValid
    <3>3. PositionsCover'
      <4>1. \A i \in DOMAIN consumed : consumed[i].round \in Nat /\ consumed[i].round <= round
        <5>1. \A i \in DOMAIN consumed : consumed[i] \in Rows
          BY <2>1
        <5> QED
          BY <5>1 DEF FaultInv, PositionsCover, Rows
      <4>2. \A i \in DOMAIN consumed : consumed[i].round <= round + 1 /\ consumed[i].round # round + 1
        BY <2>1, <4>1
      <4> QED
        BY <2>1, <3>1, <4>2, BaselineIsPosition DEF PositionsCover
    <3> QED
      BY <2>2, <3>2, <3>3 DEF FaultInv
  <2>4. CASE ok = FALSE
    <3>1. durable' = durable /\ resetting' = resetting /\ round' = round
      BY <1>2, <2>1, <2>4 DEF ResetStore
    <3>2. FaultType' /\ PositionsCover'
      BY <2>1, <3>1 DEF FaultInv, FaultType, RulesValid, PositionsCover
    <3> QED
      BY <2>2, <3>2 DEF FaultInv
  <2> QED
    BY <2>3, <2>4
<1>3. CASE PublishReset
  <2>1. /\ resetting = Baseline /\ memory' = resetting /\ resetting' = NoPosition
        /\ durable = resetting /\ UNCHANGED <<durable, consumed, struck, round>>
    BY <1>3 DEF PublishReset, FaultInv, FaultType, PositionsCover
  <2>2. FaultType' /\ RowsAreTold'
    BY <2>1, BaselineIsPosition DEF FaultInv, FaultType, RulesValid, RowsAreTold, Told
  <2>3. PositionsCover'
    <3>1. \A i \in DOMAIN consumed : consumed[i].round <= round /\ consumed[i].round # round
      BY <1>3 DEF PublishReset, FaultInv, PositionsCover
    <3>2. \A r \in RuleIds : durable.counters[r] <= durable.counters[r]
      BY DEF FaultInv, FaultType
    <3> QED
      BY <2>1, <3>1, <3>2 DEF PositionsCover
  <2> QED
    BY <2>2, <2>3 DEF FaultInv
<1>4. CASE RestoreCheckpoint
  <2>1. /\ resetting = NoPosition /\ memory' = memory /\ durable' = memory
        /\ UNCHANGED <<consumed, struck, round, resetting>>
        /\ consumed \in Seq(Rows) /\ memory.counters \in [RuleIds -> Nat]
        /\ durable.counters \in [RuleIds -> Nat]
    BY <1>4 DEF RestoreCheckpoint, FaultInv, FaultType
  <2>2. FaultType' /\ RowsAreTold'
    BY <2>1 DEF FaultInv, FaultType, RulesValid, RowsAreTold, Told
  <2>3. PositionsCover'
    <3>1. ASSUME NEW i \in DOMAIN consumed, consumed[i].round = round
          PROVE  consumed[i].occurrence <= memory.counters[consumed[i].rule]
      <4>1. consumed[i].rule \in RuleIds /\ consumed[i].occurrence \in Nat
        <5>1. consumed[i] \in Rows
          BY <2>1
        <5> QED
          BY <5>1 DEF Rows
      <4>2. consumed[i].occurrence <= durable.counters[consumed[i].rule]
        BY <3>1 DEF FaultInv, PositionsCover
      <4>3. durable.counters[consumed[i].rule] <= memory.counters[consumed[i].rule]
        BY <2>1, <4>1 DEF FaultInv, PositionsCover
      <4> QED
        BY <2>1, <4>1, <4>2, <4>3
    <3>2. \A r \in RuleIds : memory.counters[r] <= memory.counters[r]
      BY <2>1
    <3> QED
      BY <2>1, <3>1, <3>2 DEF FaultInv, PositionsCover
  <2> QED
    BY <2>2, <2>3 DEF FaultInv
<1> QED
  BY <1>1, <1>2, <1>3, <1>4 DEF FaultNext

\* In any generation of a world, with any rules and any store that throws, a
\* declared occurrence strikes once, and what struck is what was stored
\* (faults.ts evaluate, persist, restorePosition).
THEOREM FaultsRecorded == FaultSpec => []FaultsAreRecorded
<1>1. FaultInv /\ UNCHANGED faultVars => FaultInv'
  BY DEF faultVars, FaultInv, FaultType, RulesValid, PositionsCover, RowsAreTold, Told
<1>2. FaultInv /\ [FaultNext]_faultVars => FaultInv'
  BY FaultStep, <1>1
<1>3. FaultInv => FaultsAreRecorded
  BY DEF FaultInv, PositionsCover, RowsAreTold, FaultsAreRecorded
<1> QED
  BY FaultsStart, <1>2, <1>3, PTL DEF FaultSpec

(***************************************************************************)
(* Worlds and forks.                                                       *)
(***************************************************************************)
Positions == [ids : Nat, stream : Nat]
Entries == [fixtures : {Fixtures, << >>}, stream : Nat]
           \cup [op : Operations, at : Nat, drawn : Positions]
Worlds ==
  [name : Nat, domain : Seq(Entries), clock : Nat, services : Positions,
   faults : Nat, cache : SUBSET Operations, generation : Nat,
   fixtures : {Fixtures, << >>}, origin : Nat, inputs : Seq(Inputs)]
Documents == [of : Nat, world : Worlds]

LineageType ==
  /\ worlds \in Seq(Worlds) /\ documents \in Seq(Documents)
  /\ worlds # << >>

\* The first world is the declared one. A checkpoint is of a world there is and
\* of what it was asked by then; a fork is of a checkpoint there is, and of one
\* of a world that came before it.
LineageOrder ==
  /\ worlds[1].name = 1 /\ worlds[1].fixtures = Fixtures
  /\ \A d \in DOMAIN documents :
       /\ documents[d].of \in DOMAIN worlds
       /\ Len(documents[d].world.inputs) <= Len(worlds[documents[d].of].inputs)
  /\ \A i \in DOMAIN worlds : worlds[i].origin # 0 =>
       worlds[i].origin \in DOMAIN documents /\ documents[worlds[i].origin].of < i

\* What is told of a world after one input that is no reset depends on what was
\* told of it before, and on nothing else of it.
ToldAfter(o, input) ==
  Observable(After(World(0, o[1], o[2], o[3], o[4], o[5], Fixtures, 0), input))

\* What is told of a world goes from one observation to the other along inputs.
Leads(from, inputs, to) ==
  \E h :
    /\ h[1] = from /\ h[Len(inputs) + 1] = to
    /\ \A k \in 1 .. Len(inputs) : h[k + 1] = ToldAfter(h[k], inputs[k])

NoReset(inputs) == \A k \in 1 .. Len(inputs) : inputs[k] # "reset"

\* Each world is where its inputs since a checkpoint lead from what was written.
InputsLead ==
  \A d \in DOMAIN documents, i \in DOMAIN worlds :
    Descends(i, d) /\ NoReset(Since(i, d)) =>
      Leads(Observable(documents[d].world), Since(i, d), Observable(worlds[i]))

ResetsReturn ==
  DeclaredTime = 0 /\ worlds[1].inputs # << >>
    /\ worlds[1].inputs[Len(worlds[1].inputs)] = "reset"
  => Observable(worlds[1]) = Observable(Opened)

LineageInv == LineageType /\ LineageOrder /\ InputsLead /\ ResetsReturn

LEMMA LeadsNowhere == ASSUME NEW o PROVE Leads(o, << >>, o)
<1> DEFINE h == [k \in {1} |-> o]
<1>1. h[1] = o /\ h[Len(<< >>) + 1] = o /\ 1 .. Len(<< >>) = {}
  OBVIOUS
<1> HIDE DEF h
<1> QED
  BY <1>1 DEF Leads

LEMMA LeadsOn ==
  ASSUME NEW S, NEW inputs \in Seq(S), NEW x \in S, NEW from, NEW to,
         Leads(from, inputs, to)
  PROVE  Leads(from, Append(inputs, x), ToldAfter(to, x))
<1> DEFINE n == Len(inputs)
           longer == Append(inputs, x)
<1>1. n \in Nat /\ Len(longer) = n + 1 /\ longer[n + 1] = x
      /\ \A k \in 1 .. n : longer[k] = inputs[k]
  OBVIOUS
<1>2. PICK h : /\ h[1] = from /\ h[n + 1] = to
               /\ \A k \in 1 .. n : h[k + 1] = ToldAfter(h[k], inputs[k])
  BY DEF Leads
<1> DEFINE g == [k \in 1 .. n + 2 |-> IF k = n + 2 THEN ToldAfter(to, x) ELSE h[k]]
<1> HIDE DEF n, longer
<1>3. g[n + 2] = ToldAfter(to, x) /\ \A k \in 1 .. n + 1 : g[k] = h[k]
  BY <1>1
<1> HIDE DEF g
<1>4. g[1] = from /\ g[Len(longer) + 1] = ToldAfter(to, x)
  BY <1>1, <1>2, <1>3
<1>5. \A k \in 1 .. Len(longer) : g[k + 1] = ToldAfter(g[k], longer[k])
  <2>1. ASSUME NEW k \in 1 .. n
        PROVE  g[k + 1] = ToldAfter(g[k], longer[k])
    <3>1. k + 1 \in 1 .. n + 1 /\ k \in 1 .. n + 1
      BY <1>1
    <3> QED
      BY <1>1, <1>2, <1>3, <3>1
  <2>2. g[n + 1 + 1] = ToldAfter(g[n + 1], longer[n + 1])
    <3>1. n + 1 + 1 = n + 2 /\ n + 1 \in 1 .. n + 1
      BY <1>1
    <3> QED
      BY <1>1, <1>2, <1>3, <3>1
  <2>3. \A k \in 1 .. Len(longer) : k \in 1 .. n \/ k = n + 1
    BY <1>1
  <2> QED
    BY <2>1, <2>2, <2>3
<1> QED
  BY <1>4, <1>5 DEF Leads, longer

LEMMA LeadsOnce ==
  ASSUME NEW S, NEW inputs \in Seq(S), NEW from, NEW a, NEW b,
         Leads(from, inputs, a), Leads(from, inputs, b)
  PROVE  a = b
<1> DEFINE n == Len(inputs)
<1>1. n \in Nat
  OBVIOUS
<1>2. PICK g : /\ g[1] = from /\ g[n + 1] = a
               /\ \A k \in 1 .. n : g[k + 1] = ToldAfter(g[k], inputs[k])
  BY DEF Leads
<1>3. PICK h : /\ h[1] = from /\ h[n + 1] = b
               /\ \A k \in 1 .. n : h[k + 1] = ToldAfter(h[k], inputs[k])
  BY DEF Leads
<1> HIDE DEF n
<1> DEFINE apart == {k \in 1 .. n + 1 : g[k] # h[k]}
<1>4. CASE apart = {}
  <2>1. n + 1 \in 1 .. n + 1
    BY <1>1
  <2> QED
    BY <1>2, <1>3, <1>4, <2>1
<1>5. CASE apart # {}
  <2>1. apart \in SUBSET Nat
    BY <1>1
  <2>2. PICK m \in apart : \A k \in apart : m <= k
    BY <1>5, <2>1, LeastNumber
  <2>3. m # 1 /\ m \in 1 .. n + 1
    BY <1>2, <1>3, <2>2
  <2>4. m - 1 \in 1 .. n /\ m - 1 \in 1 .. n + 1 /\ m - 1 \notin apart /\ m - 1 + 1 = m
    BY <1>1, <2>2, <2>3
  <2>5. g[m - 1] = h[m - 1]
    BY <2>4
  <2>6. g[m] = h[m]
    BY <1>2, <1>3, <2>4, <2>5
  <2> QED
    BY <2>2, <2>6
<1> QED
  BY <1>4, <1>5

LEMMA WorldFields ==
  ASSUME NEW w \in Worlds
  PROVE  /\ w.name \in Nat /\ w.domain \in Seq(Entries) /\ w.clock \in Nat
         /\ w.services \in Positions /\ w.faults \in Nat
         /\ w.cache \in SUBSET Operations /\ w.generation \in Nat
         /\ w.fixtures \in {Fixtures, << >>} /\ w.origin \in Nat
         /\ w.inputs \in Seq(Inputs)
         /\ DOMAIN w = {"name", "domain", "clock", "services", "faults", "cache",
                        "generation", "fixtures", "origin", "inputs"}
  BY DEF Worlds

\* What an input leaves of a world besides what is told of it.
Keeps(u, w) ==
  /\ u \in Worlds /\ u.inputs = w.inputs /\ u.name = w.name
  /\ u.fixtures = w.fixtures /\ u.origin = w.origin

LEMMA ResetMoves ==
  ASSUME NEW w \in Worlds
  PROVE  /\ Keeps(Reset(w), w)
         /\ Observable(Reset(w)) = <<Initialized(w.name, w.fixtures), 0, Seeded, 0, {}>>
<1> DEFINE domain == Initialized(w.name, w.fixtures)
           g == w.generation + 1
           u == [w EXCEPT !.domain = domain, !.clock = 0, !.services = Seeded,
                          !.faults = 0, !.cache = {}, !.generation = g]
<1>1. domain \in Seq(Entries)
  <2>1. [fixtures |-> w.fixtures, stream |-> w.name] \in Entries
    BY WorldFields DEF Entries
  <2> QED
    BY <2>1 DEF Initialized
<1>2. g \in Nat /\ Seeded \in Positions
  BY WorldFields DEF Seeded, Positions
<1>3. Reset(w) = u
  BY DEF Reset
<1> HIDE DEF domain, g
<1>4. u \in Worlds
  BY <1>1, <1>2 DEF Worlds
<1>5. /\ u.inputs = w.inputs /\ u.name = w.name
      /\ u.fixtures = w.fixtures /\ u.origin = w.origin
      /\ u.domain = domain /\ u.clock = 0 /\ u.services = Seeded /\ u.faults = 0
      /\ u.cache = {}
  BY WorldFields
<1> HIDE DEF u
<1> QED
  BY <1>3, <1>4, <1>5 DEF Keeps, Observable, domain

LEMMA AdvanceMoves ==
  ASSUME NEW w \in Worlds
  PROVE  LET u == [w EXCEPT !.clock = @ + 1]
         IN  /\ Keeps(u, w)
             /\ Observable(u) = <<w.domain, w.clock + 1, w.services, w.faults, w.cache>>
<1> DEFINE c == w.clock + 1
           u == [w EXCEPT !.clock = c]
<1>1. c \in Nat /\ [w EXCEPT !.clock = @ + 1] = u
  BY WorldFields
<1> HIDE DEF c
<1>2. u \in Worlds
  BY <1>1 DEF Worlds
<1>3. /\ u.inputs = w.inputs /\ u.name = w.name
      /\ u.fixtures = w.fixtures /\ u.origin = w.origin
      /\ u.domain = w.domain /\ u.clock = c /\ u.services = w.services
      /\ u.faults = w.faults /\ u.cache = w.cache
  BY WorldFields
<1> HIDE DEF u
<1> QED
  BY <1>1, <1>2, <1>3 DEF Keeps, Observable, c

\* What is told of a world after an exchange.
ToldServed(w, op) ==
  IF Strike(w) THEN <<w.domain, w.clock, w.services, w.faults + 1, w.cache>>
  ELSE IF op \in w.cache
  THEN <<w.domain, w.clock + 1, w.services, w.faults + 1, w.cache>>
  ELSE <<Append(w.domain, [op |-> op, at |-> w.clock, drawn |-> w.services]),
         w.clock + 1,
         [ids |-> w.services.ids + 1, stream |-> w.services.stream + 1],
         w.faults + 1,
         IF op \in Keyed THEN w.cache \cup {op} ELSE w.cache>>

LEMMA ServedMoves ==
  ASSUME NEW w \in Worlds, NEW op \in Operations
  PROVE  Keeps(Served(w, op), w) /\ Observable(Served(w, op)) = ToldServed(w, op)
<1> DEFINE f == w.faults + 1
           c == w.clock + 1
           d == Append(w.domain, [op |-> op, at |-> w.clock, drawn |-> w.services])
           s == [ids |-> w.services.ids + 1, stream |-> w.services.stream + 1]
           h == IF op \in Keyed THEN w.cache \cup {op} ELSE w.cache
<1>1. f \in Nat /\ c \in Nat
  BY WorldFields
<1>2. d \in Seq(Entries)
  <2>1. [op |-> op, at |-> w.clock, drawn |-> w.services] \in Entries
    BY WorldFields DEF Entries
  <2> HIDE DEF Entries
  <2> QED
    BY <2>1, WorldFields
<1>3. s \in Positions /\ h \in SUBSET Operations
  <2>1. w.services \in [ids : Nat, stream : Nat] /\ w.cache \in SUBSET Operations
    BY WorldFields DEF Positions
  <2>2. s \in [ids : Nat, stream : Nat]
    BY <2>1
  <2> QED
    BY <2>1, <2>2 DEF Positions
<1>4. CASE Strike(w)
  <2> DEFINE u == [w EXCEPT !.faults = f]
  <2>1. Served(w, op) = u
    BY <1>4 DEF Served
  <2>2. ToldServed(w, op) = <<w.domain, w.clock, w.services, f, w.cache>>
    BY <1>4 DEF ToldServed
  <2> HIDE DEF f
  <2>3. u \in Worlds
    BY <1>1 DEF Worlds
  <2>4. /\ u.inputs = w.inputs /\ u.name = w.name
        /\ u.fixtures = w.fixtures /\ u.origin = w.origin
        /\ u.domain = w.domain /\ u.clock = w.clock /\ u.services = w.services
        /\ u.faults = f /\ u.cache = w.cache
    BY WorldFields
  <2> HIDE DEF u
  <2> QED
    BY <2>1, <2>2, <2>3, <2>4 DEF Keeps, Observable
<1>5. CASE ~Strike(w) /\ op \in w.cache
  <2> DEFINE u == [w EXCEPT !.faults = f, !.clock = c]
  <2>1. Served(w, op) = u
    BY <1>5 DEF Served
  <2>2. ToldServed(w, op) = <<w.domain, c, w.services, f, w.cache>>
    BY <1>5 DEF ToldServed
  <2> HIDE DEF f, c
  <2>3. u \in Worlds
    BY <1>1 DEF Worlds
  <2>4. /\ u.inputs = w.inputs /\ u.name = w.name
        /\ u.fixtures = w.fixtures /\ u.origin = w.origin
        /\ u.domain = w.domain /\ u.clock = c /\ u.services = w.services
        /\ u.faults = f /\ u.cache = w.cache
    BY WorldFields
  <2> HIDE DEF u
  <2> QED
    BY <2>1, <2>2, <2>3, <2>4 DEF Keeps, Observable
<1>6. CASE ~Strike(w) /\ op \notin w.cache
  <2> DEFINE u == [w EXCEPT !.faults = f, !.clock = c, !.domain = d, !.services = s,
                            !.cache = h]
  <2>1. Served(w, op) = u
    BY <1>6 DEF Served
  <2>2. ToldServed(w, op) = <<d, c, s, f, h>>
    BY <1>6 DEF ToldServed
  <2> HIDE DEF f, c, d, s, h
  <2>3. u \in Worlds
    BY <1>1, <1>2, <1>3 DEF Worlds
  <2>4. /\ u.inputs = w.inputs /\ u.name = w.name
        /\ u.fixtures = w.fixtures /\ u.origin = w.origin
        /\ u.domain = d /\ u.clock = c /\ u.services = s
        /\ u.faults = f /\ u.cache = h
    BY WorldFields
  <2> HIDE DEF u
  <2> QED
    BY <2>1, <2>2, <2>3, <2>4 DEF Keeps, Observable
<1> QED
  BY <1>4, <1>5, <1>6

\* What After does of its own: it notes the input.
Noted(u, input) == [u EXCEPT !.inputs = Append(@, input)]

LEMMA AfterNotes ==
  ASSUME NEW w \in Worlds, NEW u, Keeps(u, w), NEW input \in Inputs,
         NEW v, v = Noted(u, input)
  PROVE  /\ v \in Worlds /\ v.inputs = Append(w.inputs, input)
         /\ v.name = w.name /\ v.fixtures = w.fixtures /\ v.origin = w.origin
         /\ Observable(v) = Observable(u)
<1> DEFINE longer == Append(w.inputs, input)
<1>1. u \in Worlds
  BY DEF Keeps
<1>2. longer \in Seq(Inputs)
  <2>1. w.inputs \in Seq(Inputs)
    BY WorldFields
  <2> QED
    BY <2>1
<1>3. v = [u EXCEPT !.inputs = longer]
  BY DEF Keeps, Noted
<1> HIDE DEF longer
<1>4. v \in Worlds
  BY <1>1, <1>2, <1>3 DEF Worlds
<1>5. /\ v.inputs = longer /\ v.name = u.name
      /\ v.fixtures = u.fixtures /\ v.origin = u.origin
      /\ v.domain = u.domain /\ v.clock = u.clock /\ v.services = u.services
      /\ v.faults = u.faults /\ v.cache = u.cache
  BY <1>1, <1>3, WorldFields
<1> QED
  BY <1>4, <1>5 DEF Keeps, Observable, longer

LEMMA AfterMoves ==
  ASSUME NEW w \in Worlds, NEW input \in Inputs
  PROVE  /\ After(w, input) \in Worlds
         /\ After(w, input).inputs = Append(w.inputs, input)
         /\ After(w, input).name = w.name /\ After(w, input).fixtures = w.fixtures
         /\ After(w, input).origin = w.origin
         /\ input = "reset" => Observable(After(w, input)) =
              <<Initialized(w.name, w.fixtures), 0, Seeded, 0, {}>>
         /\ input = "advance" => Observable(After(w, input)) =
              <<w.domain, w.clock + 1, w.services, w.faults, w.cache>>
         /\ input \notin {"reset", "advance"} =>
              Observable(After(w, input)) = ToldServed(w, input)
<1> DEFINE moved == CASE input = "reset" -> Reset(w)
                      [] input = "advance" -> [w EXCEPT !.clock = @ + 1]
                      [] OTHER -> Served(w, input)
           Goal(v, u) == /\ v \in Worlds /\ v.inputs = Append(w.inputs, input)
                         /\ v.name = w.name /\ v.fixtures = w.fixtures
                         /\ v.origin = w.origin /\ Observable(v) = Observable(u)
<1>1. ASSUME NEW u, Keeps(u, w), moved = u PROVE Goal(After(w, input), u)
  <2>1. After(w, input) = Noted(u, input)
    BY <1>1 DEF After, Noted
  <2> HIDE DEF moved
  <2> QED
    BY <1>1, <2>1, AfterNotes
<1>2. CASE input = "reset"
  <2>1. moved = Reset(w) /\ Keeps(Reset(w), w)
    BY <1>2, ResetMoves
  <2>2. Goal(After(w, input), Reset(w))
    BY <1>1, <2>1, Zenon
  <2>3. Observable(Reset(w)) = <<Initialized(w.name, w.fixtures), 0, Seeded, 0, {}>>
    BY ResetMoves, Zenon
  <2> QED
    BY <1>2, <2>2, <2>3
<1>3. CASE input = "advance"
  <2> DEFINE u == [w EXCEPT !.clock = @ + 1]
  <2>1. moved = u
    BY <1>3
  <2>2. Keeps(u, w) /\ Observable(u) = <<w.domain, w.clock + 1, w.services, w.faults, w.cache>>
    BY AdvanceMoves
  <2> HIDE DEF u, moved
  <2>3. Goal(After(w, input), u)
    BY <1>1, <2>1, <2>2, Zenon
  <2> QED
    BY <1>3, <2>2, <2>3
<1>4. CASE input \notin {"reset", "advance"}
  <2>1. moved = Served(w, input) /\ input \in Operations
    BY <1>4 DEF Inputs
  <2>2. Keeps(Served(w, input), w) /\ Observable(Served(w, input)) = ToldServed(w, input)
    BY <2>1, ServedMoves, Zenon
  <2> HIDE DEF moved
  <2>3. Goal(After(w, input), Served(w, input))
    BY <1>1, <2>1, <2>2, Zenon
  <2> QED
    BY <1>4, <2>2, <2>3
<1> QED
  BY <1>2, <1>3, <1>4

\* An input that is no reset is told of any two worlds in the same way.
LEMMA ToldOfAfter ==
  ASSUME NEW w \in Worlds, NEW input \in Inputs, input # "reset"
  PROVE  Observable(After(w, input)) = ToldAfter(Observable(w), input)
<1> DEFINE v == World(0, w.domain, w.clock, w.services, w.faults, w.cache, Fixtures, 0)
<1>1. ToldAfter(Observable(w), input) = Observable(After(v, input))
  BY DEF ToldAfter, Observable
<1>2. /\ v.domain = w.domain /\ v.clock = w.clock /\ v.services = w.services
      /\ v.faults = w.faults /\ v.cache = w.cache
  BY DEF World
<1>3. v \in Worlds
  <2>1. /\ w.domain \in Seq(Entries) /\ w.clock \in Nat /\ w.services \in Positions
        /\ w.faults \in Nat /\ w.cache \in SUBSET Operations
    BY WorldFields
  <2> QED
    BY <2>1 DEF World, Worlds
<1> HIDE DEF v
<1>4. ToldServed(v, input) = ToldServed(w, input)
  BY <1>2 DEF ToldServed, Strike
<1>5. CASE input = "advance"
  <2>1. Observable(After(v, input)) = <<v.domain, v.clock + 1, v.services, v.faults, v.cache>>
    BY <1>3, <1>5, AfterMoves
  <2>2. Observable(After(w, input)) = <<w.domain, w.clock + 1, w.services, w.faults, w.cache>>
    BY <1>5, AfterMoves
  <2> QED
    BY <1>1, <1>2, <2>1, <2>2
<1>6. CASE input # "advance"
  <2>1. Observable(After(v, input)) = ToldServed(v, input)
    BY <1>3, <1>6, AfterMoves
  <2>2. Observable(After(w, input)) = ToldServed(w, input)
    BY <1>6, AfterMoves
  <2> QED
    BY <1>1, <1>4, <2>1, <2>2
<1> QED
  BY <1>5, <1>6

-----------------------------------------------------------------------------
LEMMA LineageStarts == LineageInit => LineageInv
<1> SUFFICES ASSUME LineageInit PROVE LineageInv
  OBVIOUS
<1>1. worlds = <<Opened>> /\ documents = << >>
  BY DEF LineageInit
<1>2. Opened \in Worlds /\ Opened.name = 1 /\ Opened.fixtures = Fixtures /\ Opened.origin = 0
      /\ Opened.inputs = << >>
  <2>1. [fixtures |-> Fixtures, stream |-> 1] \in Entries
    BY DEF Entries
  <2>2. Initialized(1, Fixtures) \in Seq(Entries)
    BY <2>1 DEF Initialized
  <2>3. Seeded \in Positions
    BY DEF Seeded, Positions
  <2>4. << >> \in Seq(Inputs)
    OBVIOUS
  <2> HIDE DEF Entries, Positions
  <2> QED
    BY <2>2, <2>3, <2>4, TimeAssumption DEF Opened, World, Worlds
<1>3. worlds[1] = Opened /\ DOMAIN worlds = {1} /\ DOMAIN documents = {}
  BY <1>1
<1>4. LineageType
  BY <1>1, <1>2 DEF LineageType
<1>5. LineageOrder
  BY <1>2, <1>3 DEF LineageOrder
<1>6. InputsLead /\ ResetsReturn
  BY <1>2, <1>3 DEF InputsLead, ResetsReturn
<1> QED
  BY <1>4, <1>5, <1>6 DEF LineageInv

LEMMA SinceGrows ==
  ASSUME NEW S, NEW inputs \in Seq(S), NEW x \in S, NEW n \in Nat, n <= Len(inputs)
  PROVE  SubSeq(Append(inputs, x), n + 1, Len(inputs) + 1)
           = Append(SubSeq(inputs, n + 1, Len(inputs)), x)
<1> DEFINE m == Len(inputs)
           longer == Append(inputs, x)
           since == SubSeq(inputs, n + 1, m)
           next == SubSeq(longer, n + 1, m + 1)
           grown == Append(since, x)
<1>1. m \in Nat /\ \A i \in 1 .. m : inputs[i] \in S
  OBVIOUS
<1>2. \A i \in 1 .. m : longer[i] = inputs[i]
  BY AppendProperties
<1>3. longer[m + 1] = x
  BY AppendProperties
<1> HIDE DEF m, longer
<1>4. /\ since \in Seq(S) /\ Len(since) = m - n
      /\ \A i \in 1 .. m - n : since[i] = inputs[n + i]
  <2>1. n + 1 \in Int /\ m \in Int /\ \A i \in n + 1 .. m : inputs[i] \in S
    BY <1>1
  <2>2. /\ since \in Seq(S) /\ Len(since) = IF n + 1 <= m THEN m - (n + 1) + 1 ELSE 0
        /\ \A i \in 1 .. m - (n + 1) + 1 : since[i] = inputs[n + 1 + i - 1]
    BY <2>1, SubSeqProperties
  <2> HIDE DEF since
  <2> QED
    BY <1>1, <2>2 DEF m
<1>5. /\ next \in Seq(S) /\ Len(next) = m - n + 1
      /\ \A i \in 1 .. m - n + 1 : next[i] = longer[n + i]
  <2> DEFINE k == m + 1
  <2>1. n + 1 \in Int /\ k \in Int /\ \A i \in n + 1 .. k : longer[i] \in S
    BY <1>1, <1>2, <1>3
  <2>2. n <= m
    BY DEF m
  <2>3. next = SubSeq(longer, n + 1, k)
    OBVIOUS
  <2> HIDE DEF next, k
  <2>4. /\ next \in Seq(S) /\ Len(next) = IF n + 1 <= k THEN k - (n + 1) + 1 ELSE 0
        /\ \A i \in 1 .. k - (n + 1) + 1 : next[i] = longer[n + 1 + i - 1]
    BY <2>1, <2>3, SubSeqProperties
  <2> QED
    BY <1>1, <2>2, <2>4 DEF k
<1> HIDE DEF since, next
<1>6. /\ grown \in Seq(S) /\ Len(grown) = m - n + 1 /\ grown[m - n + 1] = x
      /\ \A i \in 1 .. m - n : grown[i] = since[i]
  BY <1>4, AppendProperties
<1> HIDE DEF grown
<1>7. n <= m
  BY DEF m
<1>8. \A i \in 1 .. m - n + 1 : next[i] = grown[i]
  <2>1. ASSUME NEW i \in 1 .. m - n PROVE next[i] = grown[i]
    <3>1. n + i \in 1 .. m /\ i \in 1 .. m - n + 1
      BY <1>1
    <3> QED
      BY <1>2, <1>4, <1>5, <1>6, <3>1
  <2>2. next[m - n + 1] = grown[m - n + 1]
    <3>1. m - n + 1 \in 1 .. m - n + 1 /\ n + (m - n + 1) = m + 1
      BY <1>1, <1>7
    <3> QED
      BY <1>3, <1>5, <1>6, <3>1
  <2> QED
    BY <1>1, <1>7, <2>1, <2>2
<1>9. next = grown
  BY <1>5, <1>6, <1>8, LenProperties
<1> QED
  BY <1>9 DEF next, grown, since, longer, m

LEMMA SinceIsInputs ==
  ASSUME LineageInv, NEW d \in DOMAIN documents, NEW i \in DOMAIN worlds
  PROVE  /\ Since(i, d) \in Seq(Inputs) /\ worlds[i] \in Worlds
         /\ documents[d] \in Documents /\ documents[d].world \in Worlds
<1>1. worlds[i] \in Worlds /\ documents[d] \in Documents
  BY DEF LineageInv, LineageType
<1>2. documents[d].world \in Worlds
  BY <1>1 DEF Documents
<1>3. worlds[i].inputs \in Seq(Inputs) /\ documents[d].world.inputs \in Seq(Inputs)
  BY <1>1, <1>2, WorldFields
<1>4. Len(documents[d].world.inputs) \in Nat /\ Len(worlds[i].inputs) \in Nat
  BY <1>3
<1>5. CASE documents[d].of = i
  <2>1. Len(documents[d].world.inputs) <= Len(worlds[i].inputs)
    BY <1>5 DEF LineageInv, LineageOrder
  <2> DEFINE n == Len(documents[d].world.inputs)
             s == worlds[i].inputs
  <2>2. Since(i, d) = SubSeq(s, n + 1, Len(s))
    BY <1>5 DEF Since
  <2>3. s \in Seq(Inputs) /\ n \in Nat
    BY <1>3, <1>4
  <2> HIDE DEF n, s
  <2>4. SubSeq(s, n + 1, Len(s)) \in Seq(Inputs)
    BY <2>3
  <2> QED
    BY <1>1, <1>2, <2>2, <2>4
<1>6. CASE documents[d].of # i
  BY <1>1, <1>2, <1>3, <1>6 DEF Since
<1> QED
  BY <1>5, <1>6

LEMMA InputStep ==
  ASSUME LineageInv, NEW i \in DOMAIN worlds, NEW input \in Inputs, Input(i, input)
  PROVE  LineageInv'
<1> DEFINE w == worlds[i]
           v == After(w, input)
<1>1. /\ worlds \in Seq(Worlds) /\ documents \in Seq(Documents) /\ worlds # << >>
      /\ w \in Worlds /\ i \in 1 .. Len(worlds) /\ DOMAIN worlds = 1 .. Len(worlds)
      /\ 1 \in DOMAIN worlds
  BY DEF LineageInv, LineageType
<1>2. documents' = documents /\ worlds' = [worlds EXCEPT ![i] = v]
  BY DEF Input
<1>3. /\ v \in Worlds /\ v.inputs = Append(w.inputs, input)
      /\ v.name = w.name /\ v.fixtures = w.fixtures /\ v.origin = w.origin
      /\ input # "reset" => Observable(v) = ToldAfter(Observable(w), input)
      /\ input = "reset" => Observable(v) =
           <<Initialized(w.name, w.fixtures), 0, Seeded, 0, {}>>
  BY <1>1, AfterMoves, ToldOfAfter
<1> HIDE DEF v
<1>4. /\ DOMAIN worlds' = DOMAIN worlds /\ worlds'[i] = v
      /\ \A j \in DOMAIN worlds \ {i} : worlds'[j] = worlds[j]
  BY <1>2
<1>5. /\ w.inputs \in Seq(Inputs) /\ Len(w.inputs) \in Nat
      /\ Len(v.inputs) = Len(w.inputs) + 1 /\ v.inputs[Len(w.inputs) + 1] = input
      /\ v.inputs \in Seq(Inputs)
  <2>1. w.inputs \in Seq(Inputs)
    BY <1>1, WorldFields
  <2> HIDE DEF w
  <2> QED
    BY <1>3, <2>1
<1>6. LineageType'
  <2>1. worlds' \in Seq(Worlds)
    BY <1>1, <1>2, <1>3
  <2>2. worlds' # << >>
    BY <1>1, <1>4
  <2> QED
    BY <1>1, <1>2, <2>1, <2>2 DEF LineageType
<1>7. \A j \in DOMAIN worlds :
        worlds'[j].origin = worlds[j].origin /\ worlds'[j].name = worlds[j].name
        /\ worlds'[j].fixtures = worlds[j].fixtures
  BY <1>3, <1>4
<1>8. LineageOrder'
  <2>1. \A d \in DOMAIN documents :
          Len(documents[d].world.inputs) <= Len(worlds'[documents[d].of].inputs)
    <3>1. ASSUME NEW d \in DOMAIN documents
          PROVE  Len(documents[d].world.inputs) <= Len(worlds'[documents[d].of].inputs)
      <4>1. /\ documents[d].of \in DOMAIN worlds
            /\ Len(documents[d].world.inputs) <= Len(worlds[documents[d].of].inputs)
        BY DEF LineageInv, LineageOrder
      <4>2. CASE documents[d].of # i
        BY <1>4, <4>1, <4>2
      <4>3. CASE documents[d].of = i
        <5>1. Len(documents[d].world.inputs) \in Nat
          <6>1. documents[d].world \in Worlds
            BY <1>1, SinceIsInputs
          <6> QED
            BY <6>1, WorldFields
        <5> QED
          BY <1>4, <1>5, <4>1, <4>3, <5>1
      <4> QED
        BY <4>2, <4>3
    <3> QED
      BY <3>1
  <2> QED
    BY <1>1, <1>2, <1>4, <1>7, <2>1 DEF LineageInv, LineageOrder
<1>9. InputsLead'
  <2>1. SUFFICES ASSUME NEW d \in DOMAIN documents, NEW j \in DOMAIN worlds,
                        Descends(j, d)', NoReset(Since(j, d)')
                 PROVE  Leads(Observable(documents[d].world), Since(j, d)',
                              Observable(worlds'[j]))
    BY <1>2, <1>4 DEF InputsLead
  <2>2. Descends(j, d)
    BY <1>2, <1>7, <2>1 DEF Descends
  <2>3. CASE j # i
    <3>1. Since(j, d)' = Since(j, d)
      BY <1>2, <1>4, <2>3 DEF Since
    <3> QED
      BY <1>4, <2>1, <2>2, <2>3, <3>1 DEF LineageInv, InputsLead
  <2>4. CASE j = i
    <3>1. Since(i, d) \in Seq(Inputs) /\ documents[d].world \in Worlds
      BY SinceIsInputs
    <3>2. Since(i, d)' = Append(Since(i, d), input)
      <4>1. CASE documents[d].of = i
        <5> DEFINE n == Len(documents[d].world.inputs)
                   s == w.inputs
        <5>1. n \in Nat
          BY <3>1, WorldFields
        <5>2. n <= Len(s)
          BY <4>1 DEF LineageInv, LineageOrder
        <5>3. Since(i, d) = SubSeq(s, n + 1, Len(s))
          BY <4>1 DEF Since
        <5>4. Since(i, d)' = SubSeq(Append(s, input), n + 1, Len(s) + 1)
          BY <1>2, <1>3, <1>4, <1>5, <4>1 DEF Since
        <5>5. s \in Seq(Inputs)
          BY <1>5
        <5> HIDE DEF n, s
        <5> QED
          BY <5>1, <5>2, <5>3, <5>4, <5>5, SinceGrows
      <4>2. CASE documents[d].of # i
        BY <1>2, <1>3, <1>4, <4>2 DEF Since
      <4> QED
        BY <4>1, <4>2
    <3> DEFINE s == Since(i, d)
               t == Since(i, d)'
    <3> HIDE DEF s, t
    <3>3. s \in Seq(Inputs) /\ t = Append(s, input) /\ NoReset(t)
      BY <2>1, <2>4, <3>1, <3>2 DEF s, t
    <3>4. /\ Len(t) = Len(s) + 1 /\ Len(s) \in Nat /\ t[Len(s) + 1] = input
          /\ \A k \in 1 .. Len(s) : t[k] = s[k]
      BY <3>3
    <3>5. NoReset(s) /\ input # "reset"
      <4>1. \A k \in 1 .. Len(s) : k \in 1 .. Len(t)
        BY <3>4
      <4>2. Len(s) + 1 \in 1 .. Len(t)
        BY <3>4
      <4> QED
        BY <3>3, <3>4, <4>1, <4>2 DEF NoReset
    <3>6. Leads(Observable(documents[d].world), s, Observable(w))
      BY <2>2, <2>4, <3>5 DEF s, LineageInv, InputsLead
    <3>7. Leads(Observable(documents[d].world), t, ToldAfter(Observable(w), input))
      BY <3>3, <3>6, LeadsOn
    <3>8. Observable(worlds'[j]) = ToldAfter(Observable(w), input)
      BY <1>3, <1>4, <2>4, <3>5
    <3> QED
      BY <2>4, <3>7, <3>8 DEF t
  <2> QED
    BY <2>3, <2>4
<1>10. ResetsReturn'
  <2>1. CASE i # 1
    BY <1>1, <1>4, <2>1 DEF LineageInv, ResetsReturn
  <2>2. CASE i = 1
    <3>1. SUFFICES ASSUME DeclaredTime = 0, input = "reset"
                   PROVE  Observable(v) = Observable(Opened)
      BY <1>4, <1>5, <2>2 DEF ResetsReturn
    <3>2. w.name = 1 /\ w.fixtures = Fixtures
      BY <2>2 DEF LineageInv, LineageOrder
    <3>3. Observable(Opened) = <<Initialized(1, Fixtures), 0, Seeded, 0, {}>>
      BY <3>1 DEF Opened, World, Observable
    <3> QED
      BY <1>3, <3>1, <3>2, <3>3
  <2> QED
    BY <2>1, <2>2
<1> QED
  BY <1>6, <1>8, <1>9, <1>10 DEF LineageInv

LEMMA DocumentStep ==
  ASSUME LineageInv, NEW i \in DOMAIN worlds, Checkpoint(i)
  PROVE  LineageInv'
<1> DEFINE n == Len(documents) + 1
           document == [of |-> i, world |-> worlds[i]]
<1>1. /\ worlds \in Seq(Worlds) /\ documents \in Seq(Documents)
      /\ worlds[i] \in Worlds /\ i \in Nat
  BY DEF LineageInv, LineageType
<1>2. worlds' = worlds /\ documents' = Append(documents, document)
  BY DEF Checkpoint
<1>3. document \in Documents /\ document.of = i /\ document.world = worlds[i]
  BY <1>1 DEF Documents
<1> HIDE DEF document
<1>4. /\ documents' \in Seq(Documents)
      /\ DOMAIN documents' = DOMAIN documents \cup {n} /\ n \notin DOMAIN documents
      /\ documents'[n] = document /\ n # 0
      /\ \A d \in DOMAIN documents : documents'[d] = documents[d]
  BY <1>1, <1>2, <1>3
<1> HIDE DEF n
<1>5. LineageType' /\ ResetsReturn'
  BY <1>2, <1>4 DEF LineageInv, LineageType, ResetsReturn
<1>6. Len(worlds[i].inputs) \in Nat /\ worlds[i].inputs \in Seq(Inputs)
  BY <1>1, WorldFields
<1>7. LineageOrder'
  BY <1>2, <1>3, <1>4, <1>6 DEF LineageInv, LineageOrder
<1>8. InputsLead'
  <2>1. SUFFICES ASSUME NEW d \in DOMAIN documents', NEW j \in DOMAIN worlds,
                        Descends(j, d)', NoReset(Since(j, d)')
                 PROVE  Leads(Observable(documents'[d].world), Since(j, d)',
                              Observable(worlds[j]))
    BY <1>2 DEF InputsLead
  <2>2. CASE d \in DOMAIN documents
    <3>1. Descends(j, d) /\ Since(j, d)' = Since(j, d)
      BY <1>2, <1>4, <2>1, <2>2 DEF Descends, Since
    <3> QED
      BY <1>4, <2>1, <2>2, <3>1 DEF LineageInv, InputsLead
  <2>3. CASE d = n
    <3>1. worlds[j].origin # n
      BY <1>4 DEF LineageInv, LineageOrder
    <3>2. j = i
      BY <1>2, <1>3, <1>4, <2>1, <2>3, <3>1 DEF Descends
    <3>3. Since(j, d)' = SubSeq(worlds[i].inputs, Len(worlds[i].inputs) + 1,
                                Len(worlds[i].inputs))
      BY <1>2, <1>3, <1>4, <2>3, <3>2 DEF Since
    <3>4. Since(j, d)' = << >>
      <4>1. Len(worlds[i].inputs) + 1 \in Int /\ Len(worlds[i].inputs) \in Int
            /\ Len(worlds[i].inputs) < Len(worlds[i].inputs) + 1
        BY <1>6
      <4> QED
        BY <3>3, <4>1, SubSeqEmpty
    <3>5. Leads(Observable(worlds[i]), << >>, Observable(worlds[i]))
      BY LeadsNowhere
    <3> QED
      BY <1>3, <1>4, <2>3, <3>2, <3>4, <3>5
  <2> QED
    BY <1>4, <2>1, <2>2, <2>3
<1> QED
  BY <1>5, <1>7, <1>8 DEF LineageInv

LEMMA ForkStep ==
  ASSUME LineageInv, NEW e \in DOMAIN documents, Fork(e)
  PROVE  LineageInv'
<1> DEFINE n == Len(worlds) + 1
           w == documents[e].world
           u == Restored(e, n)
<1>1. /\ worlds \in Seq(Worlds) /\ documents \in Seq(Documents) /\ worlds # << >>
      /\ documents[e] \in Documents /\ e \in Nat /\ w \in Worlds /\ e # 0
  <2>1. /\ worlds \in Seq(Worlds) /\ documents \in Seq(Documents) /\ worlds # << >>
        /\ documents[e] \in Documents /\ e \in 1 .. Len(documents) /\ Len(documents) \in Nat
    BY DEF LineageInv, LineageType
  <2> QED
    BY <2>1 DEF Documents
<1>2. documents' = documents /\ worlds' = Append(worlds, u)
  BY DEF Fork
<1>3. /\ u \in Worlds /\ u.inputs = << >> /\ u.origin = e
      /\ Observable(u) = Observable(w)
  <2>1. /\ w.domain \in Seq(Entries) /\ w.clock \in Nat /\ w.services \in Positions
        /\ w.faults \in Nat /\ w.cache \in SUBSET Operations
    BY <1>1, WorldFields
  <2>2. << >> \in Seq(Inputs) /\ n \in Nat
    BY <1>1
  <2>3. u = World(n, w.domain, w.clock, w.services, w.faults, w.cache, << >>, e)
    BY DEF Restored
  <2> HIDE DEF u, w, n
  <2> QED
    BY <1>1, <2>1, <2>2, <2>3 DEF World, Worlds, Observable
<1>4. /\ worlds' \in Seq(Worlds) /\ worlds' # << >> /\ 1 \in DOMAIN worlds
      /\ DOMAIN worlds' = DOMAIN worlds \cup {n} /\ n \notin DOMAIN worlds
      /\ worlds'[n] = u /\ \A i \in DOMAIN worlds : i < n
      /\ \A i \in DOMAIN worlds : worlds'[i] = worlds[i]
  <2> HIDE DEF u
  <2> QED
    BY <1>1, <1>2, <1>3
<1> HIDE DEF n, u
<1>5. LineageType' /\ ResetsReturn'
  BY <1>2, <1>4 DEF LineageInv, LineageType, ResetsReturn
<1>6. \A d \in DOMAIN documents : documents[d].of \in DOMAIN worlds
  BY DEF LineageInv, LineageOrder
<1>7. LineageOrder'
  BY <1>2, <1>3, <1>4, <1>6 DEF LineageInv, LineageOrder
<1>8. InputsLead'
  <2>1. SUFFICES ASSUME NEW d \in DOMAIN documents, NEW j \in DOMAIN worlds',
                        Descends(j, d)', NoReset(Since(j, d)')
                 PROVE  Leads(Observable(documents[d].world), Since(j, d)',
                              Observable(worlds'[j]))
    BY <1>2 DEF InputsLead
  <2>2. CASE j \in DOMAIN worlds
    <3>1. Descends(j, d) /\ Since(j, d)' = Since(j, d)
      BY <1>2, <1>4, <2>1, <2>2 DEF Descends, Since
    <3> QED
      BY <1>4, <2>1, <2>2, <3>1 DEF LineageInv, InputsLead
  <2>3. CASE j = n
    <3>1. documents[d].of # n
      BY <1>4, <1>6
    <3>2. d = e
      BY <1>2, <1>3, <1>4, <2>1, <2>3, <3>1 DEF Descends
    <3>3. Since(j, d)' = << >>
      BY <1>2, <1>3, <1>4, <2>3, <3>1 DEF Since
    <3>4. Leads(Observable(w), << >>, Observable(w))
      BY LeadsNowhere
    <3> QED
      BY <1>3, <1>4, <2>3, <3>2, <3>3, <3>4
  <2> QED
    BY <1>4, <2>1, <2>2, <2>3
<1> QED
  BY <1>5, <1>7, <1>8 DEF LineageInv

LEMMA LineageStutters ==
  ASSUME LineageInv, UNCHANGED lineageVars
  PROVE  LineageInv'
<1>1. worlds' = worlds /\ documents' = documents
  BY DEF lineageVars
<1>2. LineageType' /\ LineageOrder' /\ ResetsReturn'
  BY <1>1 DEF LineageInv, LineageType, LineageOrder, ResetsReturn
<1>3. InputsLead'
  BY <1>1 DEF LineageInv, InputsLead, Descends, Since
<1> QED
  BY <1>2, <1>3 DEF LineageInv

LEMMA ContinueFromInv == LineageInv => ForksContinue
<1> SUFFICES ASSUME LineageInv PROVE ForksContinue
  OBVIOUS
<1>1. ASSUME NEW d \in DOMAIN documents, NEW i \in DOMAIN worlds, NEW j \in DOMAIN worlds,
             Descends(i, d), Descends(j, d), Since(i, d) = Since(j, d),
             ~Contains(Since(i, d), "reset")
      PROVE  Observable(worlds[i]) = Observable(worlds[j])
  <2>1. Since(i, d) \in Seq(Inputs)
    BY SinceIsInputs
  <2>2. NoReset(Since(i, d))
    BY <1>1 DEF NoReset, Contains
  <2>3. /\ Leads(Observable(documents[d].world), Since(i, d), Observable(worlds[i]))
        /\ Leads(Observable(documents[d].world), Since(i, d), Observable(worlds[j]))
    BY <1>1, <2>2 DEF LineageInv, InputsLead
  <2> QED
    BY <2>1, <2>3, LeadsOnce
<1>2. DeclaredTime = 0 /\ worlds[1].inputs # << >> /\ Last(worlds[1].inputs) = "reset"
        => Observable(worlds[1]) = Observable(Opened)
  BY DEF LineageInv, ResetsReturn, Last
<1> QED
  BY <1>1, <1>2 DEF ForksContinue

\* For any operations, declared faults and fixtures, and for any number of
\* checkpoints and forks: worlds that were asked the same since a checkpoint
\* cannot be told apart, and the reset of a world that was declared at the
\* epoch is its start (environment.ts openRestoredEnvironment,
\* resetWorldEffect; store.ts importCheckpoint).
THEOREM ForksGoOn == LineageSpec => []ForksContinue
<1>1. LineageInv /\ LineageNext => LineageInv'
  BY InputStep, DocumentStep, ForkStep DEF LineageNext
<1>2. LineageInv /\ [LineageNext]_lineageVars => LineageInv'
  BY <1>1, LineageStutters
<1> QED
  BY LineageStarts, <1>2, ContinueFromInv, PTL DEF LineageSpec

-----------------------------------------------------------------------------
(***************************************************************************)
(* The idempotency cache. Every commit with an entry has a number, entries  *)
(* are those of commits of this generation, and of a commit whose entry is  *)
(* gone it is known why.                                                    *)
(***************************************************************************)
RunsFit ==
  /\ IsFiniteSet(runs)
  /\ \A r \in runs :
       /\ r.run \in 1 .. Cardinality(runs)
       /\ r.at \in Nat /\ r.began \in Nat /\ r.sequence \in Nat
       /\ r.epoch \in Nat /\ r.epoch <= epoch
       /\ r.id[1] \in DOMAIN PolicyFor
  /\ \A r, s \in runs : r.run = s.run => r = s

\* The entry of a commit.
EntryOf(e, r) ==
  /\ r.id = e.id /\ r.run = e.run /\ r.at = e.at
  /\ r.fingerprint = e.fingerprint /\ r.sequence = e.sequence /\ r.epoch = epoch

EntriesFit ==
  /\ \A e \in entries : \E r \in runs : EntryOf(e, r)
  /\ \A e, f \in entries : e.id = f.id => e = f
  /\ IsFiniteSet(entries)
  /\ entries # {} => WithinLimits

QueryFits ==
  /\ cacheClock \in Nat /\ epoch \in Nat /\ lastNumber \in Nat
  /\ query # NoQuery =>
       /\ query \in [of : Queries, at : Nat, answered : BOOLEAN]
       /\ query.answered = FALSE => staged = NoQuery
  /\ staged # NoQuery =>
       /\ query # NoQuery /\ Covered(staged.of)
       /\ staged.of = query.of /\ staged.at = query.at

\* Why the entry of a commit is gone: its lifetime passed, or a later commit
\* found it expired or behind as many others as its policy keeps.
EvictedBy(a, c) ==
  /\ c.epoch = a.epoch /\ a.run <= c.run
  /\ LET policy == PolicyFor[c.id[1]]
     IN  \/ Expired(policy, a.at, c.at)
         \/ Cardinality({r \in runs : r.run <= c.run /\ BySequence(a, r)}) >= policy.max
Evicted(a) == \E c \in runs : EvictedBy(a, c)
Outlived(a, now) == Expired(PolicyFor[a.id[1]], a.at, now)
Kept(a) == \E e \in entries : e.run = a.run

GoneFits ==
  /\ \A a \in runs : a.epoch = epoch => Kept(a) \/ Outlived(a, cacheClock) \/ Evicted(a)
  /\ query # NoQuery /\ Covered(query.of) =>
       \A a \in runs : a.epoch = epoch /\ a.id = identityOf(query.of) =>
         /\ query.at <= cacheClock
         /\ Outlived(a, query.at) \/ Evicted(a)
  /\ ~Repeated(BySequence)

ReplyFits ==
  reply # NoReply =>
    \E r \in runs :
      /\ r.run = reply.run /\ r.epoch = epoch
      /\ r.id[1] = reply.of.operation /\ r.id[3] = reply.of.key
      /\ PolicyFor[r.id[1]].scope # "global" => r.id[2] = reply.of.principal
      /\ ~Expired(PolicyFor[r.id[1]], r.at, reply.at)
      /\ (r.fingerprint = reply.of.fingerprint) <=> (reply.kind = "replay")

CacheInv == RunsFit /\ EntriesFit /\ QueryFits /\ GoneFits /\ ReplyFits

\* What lets an entry go, with the reasons by name.
LEMMA RepeatedIs ==
  ~Repeated(BySequence) <=>
    \A a, b \in runs : a.id = b.id /\ a.epoch = b.epoch /\ a.run < b.run =>
      \/ Outlived(a, b.began)
      \/ \E c \in runs : EvictedBy(a, c) /\ c.run < b.run
  BY DEF Repeated, LetGo, Outlived, EvictedBy

\* An identity names its operation.
LEMMA IdentityIs ==
  ASSUME NEW q
  PROVE  /\ identityOf(q)[1] = q.operation /\ identityOf(q)[3] = q.key
         /\ PolicyFor[q.operation].scope # "global" => identityOf(q)[2] = q.principal
  BY DEF identityOf, principalKeyOf

\* What outlived its lifetime stays so.
LEMMA StillOutlived ==
  ASSUME RunsFit, NEW a \in runs, NEW s \in Nat, NEW t \in Nat, s <= t, Outlived(a, s)
  PROVE  Outlived(a, t)
<1>1. /\ a.at \in Nat /\ a.id[1] \in DOMAIN PolicyFor
  BY DEF RunsFit
<1>2. PolicyFor[a.id[1]].ttl \in Nat /\ s >= a.at + PolicyFor[a.id[1]].ttl
      /\ PolicyFor[a.id[1]].ttl # Forever
  BY <1>1, CacheAssumption DEF Outlived, Expired
<1>3. t >= a.at + PolicyFor[a.id[1]].ttl
  BY <1>1, <1>2
<1> QED
  BY <1>2, <1>3 DEF Outlived, Expired

\* An entry belongs to the commit of its number.
LEMMA OwnEntry ==
  ASSUME RunsFit, EntriesFit, NEW a \in runs, NEW e \in entries, e.run = a.run
  PROVE  EntryOf(e, a)
  BY DEF RunsFit, EntriesFit, EntryOf

\* The outcome of a lookup, for the one entry of the identity.
LEMMA LookupIs ==
  ASSUME EntriesFit, NEW q, NEW e \in entries, e.id = identityOf(q)
  PROVE  /\ (CHOOSE x \in entries : x.id = identityOf(q)) = e
         /\ Lookup(q) =
              IF Expired(PolicyFor[q.operation], e.at, cacheClock) THEN "expired"
              ELSE IF e.fingerprint # q.fingerprint THEN "conflict" ELSE "replay"
<1> DEFINE found == {x \in entries : x.id = identityOf(q)}
<1>1. found = {e}
  BY DEF EntriesFit
<1>2. (CHOOSE x \in entries : x.id = identityOf(q)) = e
  BY DEF EntriesFit
<1>3. (CHOOSE x \in found : TRUE) = e /\ found # {}
  BY <1>1
<1> QED
  BY <1>2, <1>3 DEF Lookup

LEMMA MissIs ==
  ASSUME NEW q, Lookup(q) \in {"replay", "conflict"}
  PROVE  \E e \in entries : e.id = identityOf(q)
  BY DEF Lookup

\* As long as no commit is added, what is gone is gone for the same reason.
LEMMA GoneStays ==
  ASSUME RunsFit, GoneFits, QueryFits, UNCHANGED <<runs, entries, epoch>>,
         cacheClock' \in Nat, cacheClock <= cacheClock',
         query' = NoQuery \/ (query # NoQuery /\ query'.of = query.of /\ query'.at = query.at)
  PROVE  GoneFits'
<1>1. \A a \in runs : Outlived(a, cacheClock) => Outlived(a, cacheClock')
  BY StillOutlived DEF QueryFits
<1>2. \A a : (Kept(a)' <=> Kept(a)) /\ (Evicted(a)' <=> Evicted(a))
  BY DEF Kept, Evicted, EvictedBy, BySequence
<1>3. Repeated(BySequence)' <=> Repeated(BySequence)
  BY DEF Repeated, LetGo, BySequence
<1>4. \A a \in runs' : a.epoch = epoch' =>
        Kept(a)' \/ Outlived(a, cacheClock') \/ Evicted(a)'
  BY <1>1, <1>2 DEF GoneFits
<1>5. query' # NoQuery /\ Covered(query'.of) =>
        \A a \in runs' : a.epoch = epoch' /\ a.id = identityOf(query'.of) =>
          /\ query'.at <= cacheClock'
          /\ Outlived(a, query'.at) \/ Evicted(a)'
  <2> SUFFICES ASSUME query' # NoQuery, Covered(query'.of), NEW a \in runs,
                      a.epoch = epoch, a.id = identityOf(query'.of)
               PROVE  /\ query'.at <= cacheClock'
                      /\ Outlived(a, query'.at) \/ Evicted(a)'
    OBVIOUS
  <2>1. /\ query # NoQuery /\ query'.at = query.at /\ Covered(query.of)
        /\ a.id = identityOf(query.of)
    OBVIOUS
  <2>2. query.at <= cacheClock /\ (Outlived(a, query.at) \/ Evicted(a))
    BY <2>1 DEF GoneFits
  <2>3. query.at \in Nat /\ cacheClock \in Nat
    BY <2>1 DEF QueryFits
  <2> QED
    BY <1>2, <2>1, <2>2, <2>3
<1> QED
  BY <1>3, <1>4, <1>5 DEF GoneFits, Outlived

LEMMA RepliesStay ==
  ASSUME ReplyFits, UNCHANGED <<reply, epoch>>, runs \subseteq runs' PROVE ReplyFits'
  BY DEF ReplyFits

LEMMA TableStays ==
  ASSUME RunsFit, EntriesFit, UNCHANGED <<runs, entries, epoch>> PROVE RunsFit' /\ EntriesFit'
  BY DEF RunsFit, EntriesFit, EntryOf, WithinLimits

LEMMA BeforeKeeps == ASSUME CacheInv, NEW q \in Queries, BeforeBehavior(q) PROVE CacheInv'
<1>1. /\ RunsFit /\ EntriesFit /\ QueryFits /\ GoneFits /\ ReplyFits
      /\ query = NoQuery /\ staged = NoQuery
      /\ UNCHANGED <<staged, cacheClock, lastNumber, epoch, runs>>
  BY DEF CacheInv, BeforeBehavior, QueryFits
<1>2. CASE /\ Covered(q) /\ Lookup(q) \in {"replay", "conflict"}
           /\ reply' = [kind |-> Lookup(q), of |-> q, at |-> cacheClock,
                        run |-> (CHOOSE e \in entries : e.id = identityOf(q)).run]
           /\ UNCHANGED <<entries, query>>
  <2>1. PICK e \in entries : e.id = identityOf(q)
    BY <1>2, MissIs
  <2>2. PICK r \in runs : EntryOf(e, r)
    BY <1>1 DEF EntriesFit
  <2>3. /\ (CHOOSE x \in entries : x.id = identityOf(q)) = e
        /\ ~Expired(PolicyFor[q.operation], e.at, cacheClock)
        /\ Lookup(q) = IF e.fingerprint # q.fingerprint THEN "conflict" ELSE "replay"
    BY <1>1, <1>2, <2>1, LookupIs
  <2>4. /\ reply'.kind = Lookup(q) /\ reply'.of = q /\ reply'.at = cacheClock
        /\ reply'.run = e.run
    BY <1>2, <2>3
  <2>5. r.id = identityOf(q) /\ r.run = e.run /\ r.epoch = epoch /\ r.at = e.at
        /\ r.fingerprint = e.fingerprint
    BY <2>1, <2>2 DEF EntryOf
  <2>6. /\ r.id[1] = q.operation /\ r.id[3] = q.key
        /\ PolicyFor[q.operation].scope # "global" => r.id[2] = q.principal
    BY <2>5, IdentityIs
  <2>7. (r.fingerprint = q.fingerprint) <=> (Lookup(q) = "replay")
    BY <2>3, <2>5
  <2>8. ReplyFits'
    BY <1>1, <2>3, <2>4, <2>5, <2>6, <2>7 DEF ReplyFits
  <2>9. RunsFit' /\ EntriesFit' /\ GoneFits'
    BY <1>1, <1>2, TableStays, GoneStays DEF QueryFits
  <2>10. QueryFits'
    BY <1>1, <1>2 DEF QueryFits
  <2> QED
    BY <2>8, <2>9, <2>10 DEF CacheInv
<1>3. CASE /\ ~(Covered(q) /\ Lookup(q) \in {"replay", "conflict"})
           /\ query' = [of |-> q, at |-> cacheClock, answered |-> FALSE]
           /\ reply' = NoReply
           /\ entries' = {e \in entries :
                 Covered(q) /\ e.id = identityOf(q) =>
                   ~Expired(PolicyFor[q.operation], e.at, cacheClock)}
  <2>1. cacheClock \in Nat
    BY <1>1 DEF QueryFits
  <2>2. RunsFit'
    BY <1>1 DEF RunsFit
  <2>3. entries' \subseteq entries
    BY <1>3
  <2>4. EntriesFit'
    <3>1. IsFiniteSet(entries') /\ Cardinality(entries') <= Cardinality(entries)
      BY <1>1, <2>3, FS_Subset DEF EntriesFit
    <3>2. Cardinality(entries') \in Nat /\ Cardinality(entries) \in Nat
      BY <1>1, <3>1, FS_CardinalityType DEF EntriesFit
    <3>3. entries' # {} => WithinLimits'
      BY <1>1, <2>3, <3>1, <3>2, CacheAssumption DEF EntriesFit, WithinLimits
    <3> QED
      BY <1>1, <2>3, <3>1, <3>3 DEF EntriesFit, EntryOf
  <2>5. QueryFits'
    <3>1. query' \in [of : Queries, at : Nat, answered : BOOLEAN] /\ query'.answered = FALSE
      BY <1>3, <2>1
    <3> QED
      BY <1>1, <3>1 DEF QueryFits
  <2>6. \A a \in runs, e \in entries : a.epoch = epoch /\ e.run = a.run =>
          \/ e \in entries'
          \/ Outlived(a, cacheClock)
    <3> SUFFICES ASSUME NEW a \in runs, NEW e \in entries, e.run = a.run, e \notin entries'
                 PROVE  Outlived(a, cacheClock)
      OBVIOUS
    <3>1. e.id = identityOf(q) /\ Expired(PolicyFor[q.operation], e.at, cacheClock)
      BY <1>3
    <3>2. a.id = e.id /\ a.at = e.at
      BY <1>1, OwnEntry DEF EntryOf
    <3> QED
      BY <3>1, <3>2, IdentityIs DEF Outlived
  <2>7. \A a : Evicted(a)' <=> Evicted(a)
    BY <1>1 DEF Evicted, EvictedBy, BySequence
  <2>8. \A a \in runs' : a.epoch = epoch' =>
          Kept(a)' \/ Outlived(a, cacheClock') \/ Evicted(a)'
    BY <1>1, <2>6, <2>7 DEF GoneFits, Kept
  <2>9. ASSUME Covered(q), NEW a \in runs, a.epoch = epoch, a.id = identityOf(q)
        PROVE  Outlived(a, cacheClock) \/ Evicted(a)
    <3>1. CASE Kept(a)
      <4>1. PICK e \in entries : e.run = a.run
        BY <3>1 DEF Kept
      <4>2. e.id = identityOf(q) /\ a.at = e.at
        BY <1>1, <2>9, <4>1, OwnEntry DEF EntryOf
      <4>3. Expired(PolicyFor[q.operation], e.at, cacheClock)
        BY <1>1, <1>3, <2>9, <4>2, LookupIs
      <4> QED
        BY <2>9, <4>2, <4>3, IdentityIs DEF Outlived
    <3> QED
      BY <1>1, <2>9, <3>1 DEF GoneFits
  <2>10. query'.of = q /\ query'.at = cacheClock
    BY <1>3
  <2>11. query' # NoQuery /\ Covered(query'.of) =>
           \A a \in runs' : a.epoch = epoch' /\ a.id = identityOf(query'.of) =>
             /\ query'.at <= cacheClock'
             /\ Outlived(a, query'.at) \/ Evicted(a)'
    BY <1>1, <2>1, <2>7, <2>9, <2>10
  <2>12. Repeated(BySequence)' <=> Repeated(BySequence)
    BY <1>1 DEF Repeated, LetGo, BySequence
  <2>13. GoneFits'
    BY <1>1, <2>8, <2>11, <2>12 DEF GoneFits, Outlived
  <2> QED
    BY <1>3, <2>2, <2>4, <2>5, <2>13 DEF CacheInv, ReplyFits
<1> QED
  BY <1>2, <1>3 DEF BeforeBehavior

\* A step that leaves the table alone.
LEMMA StageKeeps ==
  ASSUME CacheInv, NEW status, Stage(status) PROVE CacheInv'
<1>1. /\ RunsFit /\ EntriesFit /\ QueryFits /\ GoneFits /\ ReplyFits
      /\ query # NoQuery /\ ~query.answered /\ query' = [query EXCEPT !.answered = TRUE]
      /\ UNCHANGED <<entries, cacheClock, lastNumber, epoch, reply, runs>>
  BY DEF CacheInv, Stage
<1>2. query \in [of : Queries, at : Nat, answered : BOOLEAN]
  BY <1>1 DEF QueryFits
<1>3. /\ query' \in [of : Queries, at : Nat, answered : BOOLEAN]
      /\ query'.of = query.of /\ query'.at = query.at /\ query'.answered = TRUE
  BY <1>1, <1>2
<1>4. query' # NoQuery
  BY <1>3, CacheAssumption
<1>5. query.answered = FALSE
  BY <1>1, <1>2
<1>6. staged = NoQuery
  BY <1>1, <1>5 DEF QueryFits
<1>7. staged' # NoQuery => staged' = query /\ Covered(query.of)
  BY <1>6 DEF Stage
<1>8. QueryFits'
  BY <1>1, <1>3, <1>4, <1>7 DEF QueryFits
<1>9. GoneFits'
  BY <1>1, <1>3, GoneStays DEF QueryFits
<1>10. RunsFit' /\ EntriesFit' /\ ReplyFits'
  BY <1>1, TableStays, RepliesStay
<1> QED
  BY <1>8, <1>9, <1>10 DEF CacheInv

LEMMA QuietKeeps == CacheInv /\ (RollBack \/ AdvanceTime \/ UNCHANGED cacheVars) => CacheInv'
<1> SUFFICES ASSUME CacheInv, RollBack \/ AdvanceTime \/ UNCHANGED cacheVars PROVE CacheInv'
  OBVIOUS
<1>1. /\ RunsFit /\ EntriesFit /\ QueryFits /\ GoneFits /\ ReplyFits
      /\ UNCHANGED <<entries, lastNumber, epoch, reply, runs>>
      /\ cacheClock \in Nat
  BY DEF CacheInv, RollBack, AdvanceTime, cacheVars, QueryFits
<1>2. /\ cacheClock' \in Nat /\ cacheClock <= cacheClock'
      /\ (query' = NoQuery /\ staged' = NoQuery) \/ UNCHANGED <<query, staged>>
  BY <1>1 DEF RollBack, AdvanceTime, cacheVars
<1>3. QueryFits'
  BY <1>1, <1>2 DEF QueryFits
<1>4. GoneFits'
  BY <1>1, <1>2, GoneStays
<1>5. RunsFit' /\ EntriesFit' /\ ReplyFits'
  BY <1>1, TableStays, RepliesStay
<1> QED
  BY <1>3, <1>4, <1>5 DEF CacheInv

LEMMA ResetKeeps == CacheInv /\ ResetWorld => CacheInv'
<1> SUFFICES ASSUME CacheInv, ResetWorld PROVE CacheInv'
  OBVIOUS
<1>1. /\ RunsFit /\ EntriesFit /\ QueryFits /\ GoneFits /\ ReplyFits
      /\ epoch' = epoch + 1 /\ cacheClock' = 0 /\ entries' = {} /\ reply' = NoReply
      /\ UNCHANGED <<query, staged, lastNumber, runs>> /\ epoch \in Nat
  BY DEF CacheInv, ResetWorld, QueryFits
<1>2. \A r \in runs : r.epoch # epoch'
  BY <1>1 DEF RunsFit
<1>3. RunsFit'
  BY <1>1 DEF RunsFit
<1>4. EntriesFit'
  BY <1>1, FS_EmptySet DEF EntriesFit
<1>5. QueryFits'
  BY <1>1 DEF QueryFits
<1>6. Repeated(BySequence)' <=> Repeated(BySequence)
  BY <1>1 DEF Repeated, LetGo, BySequence
<1>7. GoneFits'
  BY <1>1, <1>2, <1>6 DEF GoneFits
<1> QED
  BY <1>1, <1>3, <1>4, <1>5, <1>7 DEF CacheInv, ReplyFits

LEMMA ForkKeeps == CacheInv /\ ForkWorld => CacheInv'
<1> SUFFICES ASSUME CacheInv, ForkWorld PROVE CacheInv'
  OBVIOUS
<1>1. /\ RunsFit /\ EntriesFit /\ QueryFits /\ GoneFits
      /\ lastNumber' = 0 /\ reply' = NoReply /\ query = NoQuery
      /\ UNCHANGED <<entries, query, staged, cacheClock, epoch, runs>>
  BY DEF CacheInv, ForkWorld
<1>2. QueryFits'
  BY <1>1 DEF QueryFits
<1>3. GoneFits'
  BY <1>1, GoneStays DEF QueryFits
<1>4. RunsFit' /\ EntriesFit'
  BY <1>1, TableStays
<1> QED
  BY <1>1, <1>2, <1>3, <1>4 DEF CacheInv, ReplyFits

-----------------------------------------------------------------------------
(* A commit with an entry.                                                  *)

\* The lesser of two numbers.
LEMMA MinOfTwo ==
  ASSUME NEW m \in Nat, NEW n \in Nat
  PROVE  Min({m, n}) \in {m, n} /\ Min({m, n}) <= m /\ Min({m, n}) <= n
<1>1. \E x \in {m, n} : \A y \in {m, n} : x <= y
  <2>1. CASE m <= n
    BY <2>1
  <2>2. CASE n <= m
    BY <2>2
  <2> QED
    BY <2>1, <2>2
<1>2. Min({m, n}) \in {m, n} /\ \A y \in {m, n} : Min({m, n}) <= y
  BY <1>1 DEF Min
<1> QED
  BY <1>2

\* Entries are no more than the commits that have their numbers.
LEMMA CountByRun ==
  ASSUME NEW S, NEW R, IsFiniteSet(R),
         \A e \in S : \E r \in R : r.run = e.run,
         \A e, f \in S : e.run = f.run => e = f
  PROVE  Cardinality(S) <= Cardinality(R)
<1> DEFINE g == [e \in S |-> CHOOSE r \in R : r.run = e.run]
<1>1. \A e \in S : g[e] \in R /\ g[e].run = e.run
  OBVIOUS
<1>2. g \in [S -> R] /\ DOMAIN g = S
  BY <1>1
<1> HIDE DEF g
<1>3. g \in Injection(S, R)
  BY <1>1, <1>2 DEF Injection, IsInjective
<1> QED
  BY <1>3, FS_Injection

\* What commits there are when one is added: b, with the entry x.
NewRun(b, x, now) ==
  /\ b \notin runs /\ runs' = runs \cup {b}
  /\ b.id = x.id /\ b.run = x.run /\ b.at = x.at /\ b.sequence = x.sequence
  /\ b.fingerprint = x.fingerprint /\ b.epoch = epoch
  /\ x.run = Cardinality(runs) + 1 /\ x.at = now
  /\ b.began \in Nat /\ x.sequence \in Nat /\ x.id[1] \in DOMAIN PolicyFor
  /\ now \in Nat /\ epoch \in Nat /\ epoch' = epoch

LEMMA NewRunFits ==
  ASSUME RunsFit, NEW b, NEW x, NEW now, NewRun(b, x, now)
  PROVE  /\ RunsFit' /\ \A r \in runs : r.run < b.run
         /\ Cardinality(runs) \in Nat
<1>1. /\ IsFiniteSet(runs') /\ Cardinality(runs') = Cardinality(runs) + 1
      /\ Cardinality(runs) \in Nat
  BY FS_AddElement, FS_CardinalityType DEF RunsFit, NewRun
<1>2. \A r \in runs : r.run \in Nat /\ r.run <= Cardinality(runs) /\ r.run < b.run /\ r.run >= 1
  BY <1>1 DEF RunsFit, NewRun
<1>3. \A r \in runs' :
       /\ r.run \in 1 .. Cardinality(runs')
       /\ r.at \in Nat /\ r.began \in Nat /\ r.sequence \in Nat
       /\ r.epoch \in Nat /\ r.epoch <= epoch'
       /\ r.id[1] \in DOMAIN PolicyFor
  BY <1>1, <1>2 DEF RunsFit, NewRun
<1>4. \A r, s \in runs' : r.run = s.run => r = s
  BY <1>2 DEF RunsFit, NewRun
<1> QED
  BY <1>1, <1>2, <1>3, <1>4 DEF RunsFit

\* What was let go was let go for good.
LEMMA EvictedStays ==
  ASSUME RunsFit, NEW b, NEW x, NEW now, NewRun(b, x, now),
         NEW a \in runs, NEW c \in runs, EvictedBy(a, c)
  PROVE  EvictedBy(a, c)'
<1> DEFINE R == {r \in runs : r.run <= c.run /\ BySequence(a, r)}
           Q == {r \in runs' : r.run <= c.run /\ BySequence(a, r)}
<1>1. RunsFit' /\ runs \subseteq runs' /\ c.id[1] \in DOMAIN PolicyFor
  BY NewRunFits DEF NewRun, RunsFit
<1>2. R \subseteq Q /\ IsFiniteSet(Q)
  BY <1>1, FS_Subset DEF RunsFit
<1>3. /\ Cardinality(R) <= Cardinality(Q) /\ Cardinality(Q) \in Nat
      /\ Cardinality(R) \in Nat /\ PolicyFor[c.id[1]].max \in Nat
  BY <1>1, <1>2, FS_Subset, FS_CardinalityType, CacheAssumption
<1>4. Cardinality(R) >= PolicyFor[c.id[1]].max => Cardinality(Q) >= PolicyFor[c.id[1]].max
  <2> HIDE DEF R, Q
  <2> QED
    BY <1>3
<1> QED
  BY <1>4 DEF EvictedBy, BySequence

\* What an eviction leaves of a table.
Evicts(T, policy, now) ==
  LET live == {e \in T : ~Expired(policy, e.at, now)}
  IN  /\ entries' \subseteq live
      /\ Cardinality(entries') = Min({policy.max, Cardinality(live)})
      /\ \A e \in entries', o \in live \ entries' : o.sequence <= e.sequence

\* An entry that the eviction takes was expired, or behind as many as are kept.
LEMMA EvictionTells ==
  ASSUME RunsFit, NEW b, NEW x, NEW now, NewRun(b, x, now),
         NEW T, IsFiniteSet(T), Evicts(T, PolicyFor[x.id[1]], now),
         \A e \in T : \E r \in runs' : EntryOf(e, r)',
         \A e, f \in T : e.id = f.id => e = f,
         NEW a \in runs', NEW e \in T, EntryOf(e, a)', e \notin entries'
  PROVE  EvictedBy(a, b)'
<1>1. PICK policy : policy = PolicyFor[x.id[1]]
  OBVIOUS
<1>2. PICK live : live = {y \in T : ~Expired(policy, y.at, now)}
  OBVIOUS
<1>3. /\ entries' \subseteq live
      /\ Cardinality(entries') = Min({policy.max, Cardinality(live)})
      /\ \A y \in entries', o \in live \ entries' : o.sequence <= y.sequence
  BY <1>1, <1>2 DEF Evicts
<1>4. /\ IsFiniteSet(live) /\ Cardinality(live) \in Nat /\ IsFiniteSet(entries')
      /\ Cardinality(entries') = Cardinality(live) => entries' = live
  BY <1>2, <1>3, FS_Subset, FS_CardinalityType
<1>5. policy.max \in Nat
  BY <1>1, CacheAssumption DEF NewRun
<1>6. RunsFit' /\ (\A r \in runs' : r.run \in Nat /\ r.run <= b.run) /\ b.run \in Nat
  <2>1. RunsFit' /\ (\A r \in runs : r.run < b.run) /\ Cardinality(runs) \in Nat
    BY NewRunFits
  <2>2. b.run = Cardinality(runs) + 1 /\ runs' = runs \cup {b}
    BY DEF NewRun
  <2>3. \A r \in runs : r.run \in Nat
    BY <2>1 DEF RunsFit
  <2> QED
    BY <2>1, <2>2, <2>3
<1>7. a.epoch = epoch /\ b.epoch = epoch /\ a.run <= b.run /\ a.at = e.at
      /\ a.sequence = e.sequence /\ a.run = e.run /\ a.id = e.id
  BY <1>6 DEF EntryOf, NewRun
<1>8. CASE e \notin live
  BY <1>1, <1>2, <1>7, <1>8 DEF EvictedBy, NewRun
<1>9. CASE e \in live
  <2>1. Cardinality(entries') = policy.max
    BY <1>3, <1>4, <1>5, <1>9, MinOfTwo
  <2> DEFINE R == {r \in runs' : r.run <= b.run /\ BySequence(a, r)}
  <2>2. \A k \in entries' : \E r \in R : r.run = k.run
    <3> SUFFICES ASSUME NEW k \in entries' PROVE \E r \in R : r.run = k.run
      OBVIOUS
    <3>1. PICK r \in runs' : EntryOf(k, r)'
      BY <1>2, <1>3
    <3>2. r.run = k.run /\ r.id = k.id /\ r.epoch = epoch /\ r.sequence = k.sequence
      BY <3>1 DEF EntryOf, NewRun
    <3>3. r.run # a.run
      <4>1. k \in T
        BY <1>2, <1>3
      <4>2. r = a => k.id = e.id
        BY <1>7, <3>2
      <4> QED
        BY <1>6, <4>1, <4>2 DEF RunsFit
    <3>4. a.sequence <= r.sequence
      BY <1>3, <1>7, <1>9, <3>2
    <3> QED
      BY <1>6, <1>7, <3>2, <3>3, <3>4 DEF BySequence
  <2>3. \A k, l \in entries' : k.run = l.run => k = l
    BY <1>2, <1>3, <1>6 DEF RunsFit, EntryOf
  <2>4. IsFiniteSet(R)
    BY <1>6, FS_Subset DEF RunsFit
  <2>5. Cardinality(entries') <= Cardinality(R)
    <3> HIDE DEF R
    <3> QED
      BY <2>2, <2>3, <2>4, CountByRun
  <2>6. Cardinality(R) \in Nat
    BY <2>4, FS_CardinalityType
  <2>7. Cardinality(R) >= policy.max
    <3> HIDE DEF R
    <3> QED
      BY <1>5, <2>1, <2>5, <2>6
  <2> QED
    BY <1>1, <1>7, <2>7 DEF EvictedBy, BySequence, NewRun
<1> QED
  BY <1>8, <1>9

\* The commit of an exchange that staged nothing only moves the clock.
LEMMA PlainCommitKeeps ==
  ASSUME CacheInv, Commit, staged = NoQuery PROVE CacheInv'
<1>1. /\ RunsFit /\ EntriesFit /\ QueryFits /\ GoneFits /\ ReplyFits
      /\ query' = NoQuery /\ staged' = NoQuery
      /\ UNCHANGED <<entries, lastNumber, runs, epoch, reply>>
  BY DEF CacheInv, Commit
<1>2. cacheClock \in Nat /\ cacheClock' \in Nat /\ cacheClock <= cacheClock'
  BY <1>1 DEF QueryFits, Commit
<1>3. GoneFits'
  BY <1>1, <1>2, GoneStays
<1>4. RunsFit' /\ EntriesFit' /\ ReplyFits'
  BY <1>1, TableStays, RepliesStay
<1>5. QueryFits'
  BY <1>1, <1>2 DEF QueryFits
<1> QED
  BY <1>3, <1>4, <1>5 DEF CacheInv

\* What the commit of a staged exchange does.
LEMMA CommitIs ==
  ASSUME CacheInv, Commit, staged # NoQuery
  PROVE  \E b, x, now :
           /\ NewRun(b, x, now) /\ b.began = query.at /\ x.id = identityOf(query.of)
           /\ Covered(query.of) /\ cacheClock' = now /\ cacheClock <= now
           /\ Evicts({e \in entries : e.id # x.id} \cup {x}, PolicyFor[x.id[1]], now)
           /\ query # NoQuery /\ query' = NoQuery /\ staged' = NoQuery
           /\ lastNumber' \in Nat /\ epoch' = epoch /\ reply' = reply
<1>1. /\ RunsFit /\ QueryFits /\ query # NoQuery /\ Covered(query.of)
      /\ staged.of = query.of /\ staged.at = query.at
      /\ query \in [of : Queries, at : Nat, answered : BOOLEAN]
      /\ cacheClock \in Nat /\ lastNumber \in Nat /\ epoch \in Nat
  BY DEF CacheInv, QueryFits
<1>2. query.at \in Nat
  BY <1>1
<1>3. PICK tick \in {0, 1} :
        LET q == staged.of
            now == cacheClock + tick
            run == Cardinality(runs) + 1
            Entry == [id |-> identityOf(q), fingerprint |-> q.fingerprint,
                      sequence |-> lastNumber + 1, run |-> run, at |-> now]
        IN  /\ cacheClock' = now
            /\ lastNumber' = lastNumber + 1
            /\ runs' = runs \cup
                 {[id |-> Entry.id, fingerprint |-> Entry.fingerprint,
                   sequence |-> Entry.sequence, run |-> run, at |-> now,
                   began |-> staged.at, epoch |-> epoch]}
            /\ entries' \in Evict({e \in entries : e.id # Entry.id} \cup {Entry},
                                  PolicyFor[q.operation], now)
            /\ query' = NoQuery /\ staged' = NoQuery
            /\ UNCHANGED <<epoch, reply>>
  BY DEF Commit
<1>4. PICK now : now = cacheClock + tick
  OBVIOUS
<1>5. PICK x : x = [id |-> identityOf(query.of), fingerprint |-> query.of.fingerprint,
                    sequence |-> lastNumber + 1, run |-> Cardinality(runs) + 1, at |-> now]
  OBVIOUS
<1>6. PICK b : b = [id |-> x.id, fingerprint |-> x.fingerprint, sequence |-> x.sequence,
                    run |-> x.run, at |-> x.at, began |-> query.at, epoch |-> epoch]
  OBVIOUS
<1>7. /\ cacheClock' = now /\ lastNumber' = lastNumber + 1 /\ runs' = runs \cup {b}
      /\ entries' \in Evict({e \in entries : e.id # x.id} \cup {x},
                            PolicyFor[query.of.operation], now)
      /\ query' = NoQuery /\ staged' = NoQuery /\ epoch' = epoch /\ reply' = reply
  BY <1>1, <1>3, <1>4, <1>5, <1>6
<1>8. /\ x.id = identityOf(query.of) /\ x.fingerprint = query.of.fingerprint
      /\ x.sequence = lastNumber + 1 /\ x.run = Cardinality(runs) + 1 /\ x.at = now
  BY <1>5
<1>9. /\ b.id = x.id /\ b.run = x.run /\ b.at = x.at /\ b.sequence = x.sequence
      /\ b.fingerprint = x.fingerprint /\ b.epoch = epoch /\ b.began = query.at
  BY <1>6
<1>10. x.id[1] = query.of.operation /\ x.id[1] \in DOMAIN PolicyFor
  BY <1>1, <1>8, IdentityIs DEF Covered
<1>11. b \notin runs
  <2>1. Cardinality(runs) \in Nat
    BY <1>1, FS_CardinalityType DEF RunsFit
  <2> QED
    BY <1>1, <1>8, <1>9, <2>1 DEF RunsFit
<1>12. NewRun(b, x, now)
  BY <1>1, <1>2, <1>4, <1>7, <1>8, <1>9, <1>10, <1>11 DEF NewRun
<1>13. Evicts({e \in entries : e.id # x.id} \cup {x}, PolicyFor[x.id[1]], now)
  BY <1>7, <1>10 DEF Evict, Evicts
<1>14. cacheClock <= now /\ lastNumber' \in Nat
  BY <1>1, <1>4, <1>7
<1> QED
  BY <1>1, <1>7, <1>8, <1>9, <1>12, <1>13, <1>14

LEMMA EntryCommitKeeps ==
  ASSUME CacheInv, Commit, staged # NoQuery PROVE CacheInv'
<1>1. RunsFit /\ EntriesFit /\ QueryFits /\ GoneFits /\ ReplyFits
  BY DEF CacheInv
<1>2. PICK b, x, now :
        /\ NewRun(b, x, now) /\ b.began = query.at /\ x.id = identityOf(query.of)
        /\ Covered(query.of) /\ cacheClock' = now /\ cacheClock <= now
        /\ Evicts({e \in entries : e.id # x.id} \cup {x}, PolicyFor[x.id[1]], now)
        /\ query # NoQuery /\ query' = NoQuery /\ staged' = NoQuery
        /\ lastNumber' \in Nat /\ epoch' = epoch /\ reply' = reply
  BY CommitIs
<1>3. PICK T : T = {e \in entries : e.id # x.id} \cup {x}
  OBVIOUS
<1>4. /\ Evicts(T, PolicyFor[x.id[1]], now) /\ IsFiniteSet(T)
      /\ \A e, f \in T : e.id = f.id => e = f
  <2>1. IsFiniteSet({e \in entries : e.id # x.id})
    BY <1>1, FS_Subset DEF EntriesFit
  <2>2. IsFiniteSet(T)
    BY <1>3, <2>1, FS_AddElement
  <2> QED
    BY <1>1, <1>2, <1>3, <2>2 DEF EntriesFit
<1>5. /\ RunsFit' /\ (\A r \in runs : r.run < b.run) /\ Cardinality(runs) \in Nat
  BY <1>1, <1>2, NewRunFits
<1>6. /\ runs' = runs \cup {b} /\ b.epoch = epoch /\ b.id = x.id
      /\ now \in Nat /\ b.run = x.run /\ cacheClock \in Nat /\ epoch \in Nat
      /\ x.id[1] \in DOMAIN PolicyFor
  BY <1>1, <1>2 DEF NewRun, QueryFits
<1>7. EntryOf(x, b)'
  BY <1>2 DEF EntryOf, NewRun
<1>8. \A e, r : EntryOf(e, r) => EntryOf(e, r)'
  BY <1>2 DEF EntryOf
<1>9. \A e \in T : \E r \in runs' : EntryOf(e, r)'
  <2> SUFFICES ASSUME NEW e \in T PROVE \E r \in runs' : EntryOf(e, r)'
    OBVIOUS
  <2>1. CASE e = x
    BY <1>6, <1>7, <2>1
  <2>2. CASE e \in entries
    BY <1>1, <1>6, <1>8, <2>2 DEF EntriesFit
  <2> QED
    BY <1>3, <2>1, <2>2
<1>10. /\ entries' \subseteq T /\ IsFiniteSet(entries')
       /\ Cardinality(entries') <= PolicyFor[x.id[1]].max
  <2>1. PICK live : live = {e \in T : ~Expired(PolicyFor[x.id[1]], e.at, now)}
    OBVIOUS
  <2>2. /\ entries' \subseteq live
        /\ Cardinality(entries') = Min({PolicyFor[x.id[1]].max, Cardinality(live)})
    BY <1>4, <2>1 DEF Evicts
  <2>3. live \subseteq T
    BY <2>1
  <2>4. IsFiniteSet(live) /\ IsFiniteSet(entries') /\ Cardinality(live) \in Nat
    BY <1>4, <2>2, <2>3, FS_Subset, FS_CardinalityType
  <2>5. PolicyFor[x.id[1]].max \in Nat
    BY <1>6, CacheAssumption
  <2> QED
    BY <2>2, <2>3, <2>4, <2>5, MinOfTwo
<1>11. EntriesFit'
  <2>1. WithinLimits'
    BY <1>6, <1>10 DEF WithinLimits
  <2>2. \A e, f \in entries' : e.id = f.id => e = f
    BY <1>4, <1>10
  <2>3. \A e \in entries' : \E r \in runs' : EntryOf(e, r)'
    BY <1>9, <1>10
  <2> QED
    BY <1>10, <2>1, <2>2, <2>3 DEF EntriesFit
<1>12. ASSUME NEW a \in runs', NEW e \in T, EntryOf(e, a)'
       PROVE  Kept(a)' \/ EvictedBy(a, b)'
  <2>1. CASE e \in entries'
    BY <1>12, <2>1 DEF Kept, EntryOf
  <2>2. CASE e \notin entries'
    BY <1>1, <1>2, <1>4, <1>9, <1>12, <2>2, EvictionTells
  <2> QED
    BY <2>1, <2>2
<1>13. \A a \in runs : Evicted(a) => Evicted(a)'
  BY <1>1, <1>2, <1>6, EvictedStays DEF Evicted
<1>14. ASSUME NEW a \in runs, a.epoch = epoch, a.id = x.id
       PROVE  /\ Outlived(a, query.at) \/ Evicted(a)
              /\ query.at <= cacheClock /\ query.at \in Nat
  <2>1. query.at \in Nat
    BY <1>1, <1>2 DEF QueryFits
  <2> QED
    BY <1>1, <1>2, <1>14, <2>1 DEF GoneFits
<1>15. ASSUME NEW a \in runs', a.epoch = epoch
       PROVE  Kept(a)' \/ Outlived(a, now) \/ Evicted(a)'
  <2>1. CASE a = b
    <3>1. x \in T
      BY <1>3
    <3> QED
      BY <1>6, <1>7, <1>12, <2>1, <3>1 DEF Evicted
  <2>2. CASE a \in runs /\ a.id = x.id
    <3>1. Outlived(a, query.at) \/ Evicted(a)
      BY <1>14, <1>15, <2>2
    <3>2. query.at <= now /\ query.at \in Nat
      BY <1>2, <1>6, <1>14, <1>15, <2>2
    <3> QED
      BY <1>1, <1>6, <1>13, <2>2, <3>1, <3>2, StillOutlived
  <2>3. CASE a \in runs /\ a.id # x.id
    <3>1. CASE Kept(a)
      <4>1. PICK e \in entries : e.run = a.run
        BY <3>1 DEF Kept
      <4>2. EntryOf(e, a)
        BY <1>1, <2>3, <4>1, OwnEntry
      <4>3. e \in T /\ EntryOf(e, a)'
        BY <1>3, <1>8, <2>3, <4>2 DEF EntryOf
      <4> QED
        BY <1>6, <1>12, <4>3 DEF Evicted
    <3>2. CASE Outlived(a, cacheClock)
      BY <1>1, <1>2, <1>6, <2>3, <3>2, StillOutlived
    <3>3. CASE Evicted(a)
      BY <1>13, <2>3, <3>3
    <3> QED
      BY <1>1, <1>15, <2>3, <3>1, <3>2, <3>3 DEF GoneFits
  <2> QED
    BY <1>6, <2>1, <2>2, <2>3
<1>16. ASSUME NEW p \in runs', NEW r \in runs', p.id = r.id, p.epoch = r.epoch, p.run < r.run
       PROVE  Outlived(p, r.began) \/ \E c \in runs' : EvictedBy(p, c)' /\ c.run < r.run
  <2>1. p \in runs /\ \A c \in runs : c.run < b.run
    <3>1. r.run <= b.run /\ r.run \in Nat /\ b.run \in Nat
      <4>1. b.run \in Nat /\ \A c \in runs : c.run \in Nat
        BY <1>5, <1>6 DEF RunsFit
      <4> QED
        BY <1>5, <1>6, <4>1
    <3>2. p # b
      BY <1>16, <3>1
    <3> QED
      BY <1>5, <1>6, <3>2
  <2>2. CASE r \in runs
    <3>1. Outlived(p, r.began) \/ \E c \in runs : EvictedBy(p, c) /\ c.run < r.run
      BY <1>1, <1>16, <2>1, <2>2, RepeatedIs DEF GoneFits
    <3> QED
      BY <1>1, <1>2, <1>6, <2>1, <3>1, EvictedStays
  <2>3. CASE r = b
    <3>1. Outlived(p, b.began) \/ Evicted(p)
      BY <1>2, <1>6, <1>14, <1>16, <2>1, <2>3
    <3> QED
      BY <1>1, <1>2, <1>6, <2>1, <2>3, <3>1, EvictedStays DEF Evicted
  <2> QED
    BY <1>6, <2>2, <2>3
<1>17. ~Repeated(BySequence)'
  BY <1>16 DEF Repeated, LetGo, Outlived, EvictedBy
<1>18. GoneFits'
  BY <1>2, <1>15, <1>17 DEF GoneFits, Outlived
<1>19. QueryFits'
  BY <1>2, <1>6 DEF QueryFits
<1>20. ReplyFits'
  BY <1>1, <1>2, <1>6, RepliesStay
<1> QED
  BY <1>5, <1>11, <1>18, <1>19, <1>20 DEF CacheInv

LEMMA CacheSteps == CacheInv /\ [CacheNext]_cacheVars => CacheInv'
<1> SUFFICES ASSUME CacheInv, [CacheNext]_cacheVars PROVE CacheInv'
  OBVIOUS
<1>1. CASE \E q \in Queries : BeforeBehavior(q)
  BY <1>1, BeforeKeeps
<1>2. CASE \E status \in Statuses : Stage(status)
  BY <1>2, StageKeeps
<1>3. CASE Commit
  BY <1>3, PlainCommitKeeps, EntryCommitKeeps
<1>4. CASE RollBack \/ AdvanceTime \/ UNCHANGED cacheVars
  BY <1>4, QuietKeeps
<1>5. CASE ResetWorld
  BY <1>5, ResetKeeps
<1>6. CASE ForkWorld
  BY <1>6, ForkKeeps
<1> QED
  BY <1>1, <1>2, <1>3, <1>4, <1>5, <1>6 DEF CacheNext

LEMMA CacheStarts == CacheInit => CacheInv
<1> SUFFICES ASSUME CacheInit PROVE CacheInv
  OBVIOUS
<1>1. RunsFit
  BY FS_EmptySet DEF CacheInit, RunsFit
<1>2. EntriesFit
  BY FS_EmptySet DEF CacheInit, EntriesFit
<1>3. QueryFits /\ ReplyFits
  BY DEF CacheInit, QueryFits, ReplyFits
<1>4. GoneFits
  BY DEF CacheInit, GoneFits, Repeated
<1> QED
  BY <1>1, <1>2, <1>3, <1>4 DEF CacheInv

\* The cache answers for what it holds and for what it let go
\* (idempotency.ts beforeBehavior, flushPending; store.ts evictIdempotency): in
\* every state, under every policy, no cached commit of a generation is repeated
\* unless a declared lifetime or limit let its entry go, every entry and every
\* reply is that of a commit of this generation, and the table is within limits.
THEOREM CachesAreTrue == CacheSpec => []CacheIsTrue
<1>1. CacheInv => CacheIsTrue
  <2> SUFFICES ASSUME CacheInv PROVE CacheIsTrue
    OBVIOUS
  <2>1. \A e \in entries : Backed(e)
    BY DEF CacheInv, EntriesFit, EntryOf, Backed
  <2> QED
    BY <2>1 DEF CacheInv, EntriesFit, GoneFits, ReplyFits, CacheIsTrue
<1> QED
  BY <1>1, CacheStarts, CacheSteps, PTL DEF CacheSpec
=============================================================================
