----------------------------- MODULE WorldLineage -----------------------------
(***************************************************************************)
(* Worlds, their checkpoints and their forks (packages/environment/src/    *)
(* environment.ts: openEnvironment, writeCheckpoint, resetWorldEffect,     *)
(* openRestoredEnvironment; packages/state-store/src/store.ts:             *)
(* exportCheckpoint, importCheckpoint). An exchange is one step here: what *)
(* happens inside one is World.tla, and a checkpoint is taken between two. *)
(***************************************************************************)
EXTENDS Naturals, Sequences, SequencesExt

CONSTANTS
  Operations,    \* what a request asks for
  Keyed,         \* the requests that carry an idempotency key
  Strikes,       \* occurrences at which the declared fault answers
  Fixtures,      \* the fixtures the scenario declares
  DeclaredTime,  \* clock.initial of the scenario; the virtual epoch is 0
  MaxWorlds, MaxDocuments, MaxInputs

ASSUME TimeAssumption == DeclaredTime \in Nat

VARIABLES
  worlds,        \* opened worlds: the declared one first, then forks
  documents      \* checkpoints, in the order they were written

lineageVars == <<worlds, documents>>

Inputs == Operations \cup {"advance", "reset"}

\* What a behavior sees and moves: its state, the clock, the id and random
\* positions. The initial state draws from a stream named after the world.
Initialized(name, fixtures) == <<[fixtures |-> fixtures, stream |-> name]>>

\* createNamespacePrng(seed, "world:services"), ids: {}
Seeded == [ids |-> 0, stream |-> 0]

World(name, domain, clock, services, faults, cache, fixtures, origin) ==
  [name |-> name, domain |-> domain, clock |-> clock, services |-> services,
   faults |-> faults, cache |-> cache, generation |-> 1,
   fixtures |-> fixtures, origin |-> origin, inputs |-> <<>>]

\* openEnvironment()
Opened == World(1, Initialized(1, Fixtures), DeclaredTime, Seeded, 0, {},
                Fixtures, 0)

LineageInit == worlds = <<Opened>> /\ documents = <<>>

-----------------------------------------------------------------------------
Strike(w) == w.faults + 1 \in Strikes

\* StoreGatewayState and handle(): one exchange. The fault engine counts first,
\* and its response leaves the domain alone; a replay moves the clock only.
Served(w, op) ==
  IF Strike(w) THEN [w EXCEPT !.faults = @ + 1]
  ELSE IF op \in w.cache THEN [w EXCEPT !.faults = @ + 1, !.clock = @ + 1]
  ELSE [w EXCEPT
          !.faults = @ + 1, !.clock = @ + 1,
          !.domain = Append(@, [op |-> op, at |-> w.clock, drawn |-> w.services]),
          !.services = [ids |-> @.ids + 1, stream |-> @.stream + 1],
          !.cache = IF op \in Keyed THEN @ \cup {op} ELSE @]

\* resetWorldEffect(): initialize with the fixtures the world was opened with,
\* and everything else at its declared baseline, the clock at the epoch.
Reset(w) ==
  [w EXCEPT !.domain = Initialized(w.name, w.fixtures), !.clock = 0,
            !.services = Seeded, !.faults = 0, !.cache = {},
            !.generation = @ + 1]

After(w, input) ==
  LET moved == CASE input = "reset" -> Reset(w)
                 [] input = "advance" -> [w EXCEPT !.clock = @ + 1]
                 [] OTHER -> Served(w, input)
  IN  [moved EXCEPT !.inputs = Append(@, input)]

\* A request or a control of the operator reaches a world.
Input(i, input) ==
  /\ Len(worlds[i].inputs) < MaxInputs
  /\ worlds' = [worlds EXCEPT ![i] = After(@, input)]
  /\ UNCHANGED documents

\* exportCheckpoint() with the positions of the services and the fault engine.
Checkpoint(i) ==
  /\ Len(documents) < MaxDocuments
  /\ documents' = Append(documents, [of |-> i, world |-> worlds[i]])
  /\ UNCHANGED worlds

\* Mutant: a fork draws from the start of its streams.
RestoredReseeded(d, name) ==
  World(name, documents[d].world.domain, documents[d].world.clock, Seeded,
        documents[d].world.faults, documents[d].world.cache, <<>>, d)

\* importCheckpoint() and the services of openRestoredEnvironment(): positions
\* continue, the name and the generation are new, and fixtures are [].
Restored(d, name) ==
  World(name, documents[d].world.domain, documents[d].world.clock,
        documents[d].world.services, documents[d].world.faults,
        documents[d].world.cache, <<>>, d)

\* openRestoredEnvironment()
Fork(d) ==
  /\ Len(worlds) < MaxWorlds
  /\ worlds' = Append(worlds, Restored(d, Len(worlds) + 1))
  /\ UNCHANGED documents

LineageNext ==
  \/ \E i \in DOMAIN worlds, input \in Inputs : Input(i, input)
  \/ \E i \in DOMAIN worlds : Checkpoint(i)
  \/ \E d \in DOMAIN documents : Fork(d)

LineageSpec == LineageInit /\ [][LineageNext]_lineageVars

-----------------------------------------------------------------------------
\* What a participant of the world can tell.
Observable(w) == <<w.domain, w.clock, w.services, w.faults, w.cache>>

\* What world i was asked since checkpoint d was taken of it or restored to it.
Since(i, d) ==
  IF documents[d].of = i
  THEN SubSeq(worlds[i].inputs, Len(documents[d].world.inputs) + 1,
              Len(worlds[i].inputs))
  ELSE worlds[i].inputs
Descends(i, d) == documents[d].of = i \/ worlds[i].origin = d

\* A fork goes on as its parent would have: worlds that took the same requests
\* and advances since a checkpoint cannot be told apart, whatever their
\* siblings did; and the declared world at the epoch returns to its start when
\* it is reset (environment.ts openRestoredEnvironment, resetWorldEffect,
\* store.ts importCheckpoint: SPEC.md 48.4).
ForksContinue ==
  /\ \A d \in DOMAIN documents, i, j \in DOMAIN worlds :
       (/\ Descends(i, d) /\ Descends(j, d)
        /\ Since(i, d) = Since(j, d) /\ ~Contains(Since(i, d), "reset"))
         => Observable(worlds[i]) = Observable(worlds[j])
  /\ DeclaredTime = 0 /\ worlds[1].inputs # <<>> /\ Last(worlds[1].inputs) = "reset"
       => Observable(worlds[1]) = Observable(Opened)

\* SPEC.md 48.4: reset recreates the original baseline state and clock, and the
\* reset of a fork returns to the declared scenario baseline.
ResetIsBaseline ==
  \A i \in DOMAIN worlds :
    LET w == worlds[i]
    IN  w.inputs # <<>> /\ Last(w.inputs) = "reset" =>
          /\ w.domain[1].fixtures = Fixtures
          /\ w.clock = DeclaredTime
=============================================================================
