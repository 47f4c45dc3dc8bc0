----------------------------- MODULE WorkerPool -----------------------------
(***************************************************************************)
(* The schema worker boundary of packages/core/src/schema/worker-service.ts *)
(* with the threads of worker-entry.ts: jobs wait in a bounded queue, run  *)
(* on worker threads that are spawned on demand, end at a deadline the     *)
(* parent enforces, and survive threads that block, fail or die.           *)
(***************************************************************************)
EXTENDS Naturals, Sequences, FiniteSets

CONSTANTS
  Jobs,          \* calls of validate() and of the pattern jobs
  SchemaOf,      \* what a job validates against, or NoSchema
  NoSchema,
  Oversized,     \* schemas whose registration is over the message bound
  WorkerCount,   \* the bound of the threads
  MaxPending,    \* the bound of the queue
  MaxBundles,    \* the bound of the registered bundles
  NoJob

\* A service has finitely many calls behind it, and at least one worker.
ASSUME PoolAssumption ==
  /\ IsFiniteSet(Jobs) /\ NoJob \notin Jobs
  /\ WorkerCount \in Nat \ {0} /\ MaxPending \in Nat

VARIABLES
  pool,      \* what the service keeps of its jobs and slots
  bundles,   \* the registered bundles, oldest first: [id, schema]
  nextBundle,
  threads,   \* worker -> "none", "alive" or "dead"
  known,     \* worker -> the bundles its thread holds
  replies,   \* worker -> what its thread posted
  expired,   \* jobs whose deadline passed
  poolClosed

poolVars == <<pool, bundles, nextBundle, threads, known, replies, expired,
              poolClosed>>

\* A spawn is for a job, so there are no more threads than jobs.
Workers == 1 .. Cardinality(Jobs)
NoBundle == 0

\* A promise that settled, and with what.
Failed(code) == [answer |-> code, schema |-> NoSchema]
Result(schema) == [answer |-> "result", schema |-> schema]

PoolInit ==
  /\ pool = [queue |-> << >>, slots |-> << >>, spawned |-> 0,
             current |-> [w \in Workers |-> NoJob],
             registered |-> [w \in Workers |-> {}],
             posted |-> [w \in Workers |-> << >>],
             bundle |-> [j \in Jobs |-> NoBundle],
             settled |-> [j \in Jobs |-> << >>]]
  /\ bundles = << >> /\ nextBundle = 1
  /\ threads = [w \in Workers |-> "none"]
  /\ known = [w \in Workers |-> {}]
  /\ replies = [w \in Workers |-> << >>]
  /\ expired = {} /\ poolClosed = FALSE

-----------------------------------------------------------------------------
Elements(s) == {s[i] : i \in DOMAIN s}
Without(s, i) == [k \in 1 .. Len(s) - 1 |-> s[IF k < i THEN k ELSE k + 1]]

Settle(p, j, answer) == [p EXCEPT !.settled[j] = Append(@, answer)]

Idle(p) == {i \in DOMAIN p.slots : p.current[p.slots[i]] = NoJob}

\* assign(): a job that waited past its deadline, or whose bundle this worker
\* has not seen and may not be sent, is rejected and leaves the worker idle.
Assign(p, w, j) ==
  LET b == p.bundle[j]
      unseen == SchemaOf[j] # NoSchema /\ b \notin p.registered[w]
      registration == [kind |-> "register", id |-> b, schema |-> SchemaOf[j]]
      job == [kind |-> "job", job |-> j]
  IN  CASE j \in expired -> Settle(p, j, Failed("TIMEOUT"))
        [] j \notin expired /\ unseen /\ SchemaOf[j] \in Oversized ->
             Settle(p, j, Failed("REGISTRATION_TOO_LARGE"))
        [] OTHER ->
             [p EXCEPT !.current[w] = j,
                       !.registered[w] = IF unseen THEN @ \cup {b} ELSE @,
                       !.posted[w] = @ \o (IF unseen THEN <<registration>> ELSE << >>)
                                       \o <<job>>]

\* spawn(), where createWorker() returned a worker.
Spawned(p) ==
  [p EXCEPT !.spawned = @ + 1, !.slots = Append(@, p.spawned + 1)]

\* pump() without a worker that could run a job: where none is left at all,
\* what waits is rejected.
NoWorker(p) ==
  IF p.slots # << >> THEN p
  ELSE [p EXCEPT !.queue = << >>,
          !.settled = [j \in Jobs |-> IF j \in Elements(p.queue)
                         THEN Append(@[j], Failed("FAILED")) ELSE @[j]]]

\* A pool with what is left of pump(), and one pump() returned with.
Pumping(p) == [pool |-> p, over |-> FALSE]
Pumped(p) == [pool |-> p, over |-> TRUE]

FirstIdle(p) == CHOOSE i \in Idle(p) : \A k \in Idle(p) : i <= k

\* One round of the loop: the job in front leaves the queue for a worker.
TakeJob(p, w) == Pumping(Assign([p EXCEPT !.queue = Tail(@)], w, Head(p.queue)))

\* The worker is the first idle one or, below their bound, a new one, as
\* createWorker() works or not. A closed service starts none.
Round(turn) ==
  LET p == turn.pool
      more == ~turn.over /\ p.queue # << >>
  IN  CASE more /\ Idle(p) # {} -> {TakeJob(p, p.slots[FirstIdle(p)])}
        [] more /\ Idle(p) = {} /\ Len(p.slots) < WorkerCount ->
             {Pumped(NoWorker(p))}
             \cup IF poolClosed THEN {} ELSE {TakeJob(Spawned(p), p.spawned + 1)}
        [] OTHER -> {turn}

\* pump(): what it may come to. A round takes a job, or is the last one.
Pump(p) ==
  LET rounds[n \in 0 .. Len(p.queue)] ==
        IF n = 0 THEN {Pumping(p)} ELSE UNION {Round(turn) : turn \in rounds[n - 1]}
  IN  {turn.pool : turn \in rounds[Len(p.queue)]}

Offline(w, code) ==
  LET slot == CHOOSE i \in DOMAIN pool.slots : pool.slots[i] = w
      offline == [pool EXCEPT !.slots = Without(@, slot), !.current[w] = NoJob]
      j == pool.current[w]
  IN  IF j = NoJob THEN offline ELSE Settle(offline, j, Failed(code))

\* Mutant: the queue waits for the next call.
OfflineOnly(w, code) == {Offline(w, code)}

\* takeOffline(): the job of the slot is rejected, then the queue goes on.
TakeOffline(w, code) == Pump(Offline(w, code))

\* The threads of a pool: those it spawned live, those it took offline do not.
ThreadsOf(p, dead) ==
  [w \in Workers |->
     IF w \in dead THEN "dead"
     ELSE IF threads[w] = "none" /\ w <= p.spawned THEN "alive" ELSE threads[w]]

Becomes(p, dead) == pool' = p /\ threads' = ThreadsOf(p, dead)

-----------------------------------------------------------------------------
\* bundleOf(): a schema keeps its id while it is registered; the oldest one is
\* dropped beyond the bound and comes back under a fresh id.
Registered(schema) == {i \in DOMAIN bundles : bundles[i].schema = schema}

bundleOf(schema) ==
  IF schema = NoSchema THEN NoBundle
  ELSE IF Registered(schema) = {} THEN nextBundle
  ELSE bundles[CHOOSE i \in Registered(schema) : TRUE].id

Register(schema) ==
  LET grown == Append(bundles, [id |-> nextBundle, schema |-> schema])
  IN  IF schema = NoSchema \/ Registered(schema) # {}
      THEN UNCHANGED <<bundles, nextBundle>>
      ELSE /\ bundles' = IF Len(grown) > MaxBundles THEN Tail(grown) ELSE grown
           /\ nextBundle' = nextBundle + 1

\* A job that was asked for is in one of three places.
Waiting(j) == j \in Elements(pool.queue)
OnWorker(j) == \E w \in Workers : pool.current[w] = j
Asked(j) == Waiting(j) \/ OnWorker(j) \/ pool.settled[j] # << >>

\* submit(), behind bundleOf(): refused at once, or queued and pumped. The
\* instance of a job may make its request longer than the message bound.
Refusal(long) ==
  IF poolClosed THEN "FAILED"
  ELSE IF long THEN "REQUEST_TOO_LARGE"
  ELSE IF Len(pool.queue) >= MaxPending THEN "QUEUE_FULL" ELSE "none"

Submit(j, long) ==
  /\ ~Asked(j)
  /\ Register(SchemaOf[j])
  /\ IF Refusal(long) # "none"
     THEN Becomes(Settle(pool, j, Failed(Refusal(long))), {})
     ELSE \E p \in Pump([pool EXCEPT !.queue = Append(@, j),
                                     !.bundle[j] = bundleOf(SchemaOf[j])]) :
            Becomes(p, {})
  /\ UNCHANGED <<known, replies, expired, poolClosed>>

\* The deadline of a job that was asked for passes; nothing else happens yet.
DeadlinePasses(j) ==
  /\ Waiting(j) \/ OnWorker(j)
  /\ j \notin expired
  /\ expired' = expired \cup {j}
  /\ UNCHANGED <<pool, bundles, nextBundle, threads, known, replies,
                 poolClosed>>

\* onReply(): the answer of the job the slot runs, and the queue goes on.
OnReply(w) ==
  /\ replies[w] # << >>
  /\ LET reply == Head(replies[w])
         j == pool.current[w]
     IN  IF reply.kind = "registered" \/ w \notin Elements(pool.slots) \/ j # reply.job
         THEN UNCHANGED <<pool, threads>>
         ELSE \E p \in Pump(Settle([pool EXCEPT !.current[w] = NoJob], j, reply.answer)) :
                Becomes(p, {})
  /\ replies' = [replies EXCEPT ![w] = Tail(@)]
  /\ UNCHANGED <<bundles, nextBundle, known, expired, poolClosed>>

\* The timer of a slot: its thread is terminated.
TimerFires(w) ==
  /\ w \in Elements(pool.slots)
  /\ pool.current[w] \in expired
  /\ \E p \in TakeOffline(w, "TIMEOUT") : Becomes(p, {w})
  /\ UNCHANGED <<bundles, nextBundle, known, replies, expired, poolClosed>>

\* The 'exit' of a thread that ended by itself, behind what it had posted.
OnExitOf(w) ==
  /\ threads[w] = "dead" /\ replies[w] = << >>
  /\ w \in Elements(pool.slots)
  /\ \E p \in TakeOffline(w, "FAILED") : Becomes(p, {w})
  /\ UNCHANGED <<bundles, nextBundle, known, replies, expired, poolClosed>>

\* close(): every slot goes offline, and no worker is left for the queue.
ClosePool ==
  /\ ~poolClosed
  /\ poolClosed' = TRUE
  /\ LET running == {pool.current[w] : w \in Elements(pool.slots)} \ {NoJob}
     IN  Becomes([pool EXCEPT !.queue = << >>, !.slots = << >>,
                    !.current = [w \in Workers |-> NoJob],
                    !.settled = [j \in Jobs |->
                       IF j \in running \cup Elements(pool.queue)
                       THEN Append(@[j], Failed("FAILED")) ELSE @[j]]],
                 Elements(pool.slots))
  /\ UNCHANGED <<bundles, nextBundle, known, replies, expired>>

-----------------------------------------------------------------------------
\* A thread takes what was posted to it in order. A job computes its result or
\* throws, and may do neither for as long as it likes.
ThreadRuns(w) ==
  /\ threads[w] = "alive" /\ pool.posted[w] # << >>
  /\ LET message == Head(pool.posted[w])
         Answers(j) ==
           {Failed("FAILED")} \cup
           IF SchemaOf[j] = NoSchema THEN {Result(NoSchema)}
           ELSE {Result(b.schema) : b \in {b \in known[w] : b.id = pool.bundle[j]}}
     IN  IF message.kind = "register"
         THEN /\ known' = [known EXCEPT ![w] =
                             @ \cup {[id |-> message.id, schema |-> message.schema]}]
              /\ replies' = [replies EXCEPT ![w] = Append(@, [kind |-> "registered"])]
         ELSE /\ \E answer \in Answers(message.job) :
                   replies' = [replies EXCEPT ![w] =
                     Append(@, [kind |-> "answer", job |-> message.job, answer |-> answer])]
              /\ UNCHANGED known
  /\ pool' = [pool EXCEPT !.posted[w] = Tail(@)]
  /\ UNCHANGED <<bundles, nextBundle, threads, expired, poolClosed>>

\* A thread ends by itself, over its memory bound for one: what it posted
\* arrives or is lost with it.
ThreadDies(w) ==
  /\ threads[w] = "alive"
  /\ threads' = [threads EXCEPT ![w] = "dead"]
  /\ \/ UNCHANGED replies
     \/ replies' = [replies EXCEPT ![w] = << >>]
  /\ UNCHANGED <<pool, bundles, nextBundle, known, expired, poolClosed>>

-----------------------------------------------------------------------------
PoolSteps ==
  \/ \E j \in Jobs : DeadlinePasses(j)
  \/ \E w \in Workers : OnReply(w) \/ TimerFires(w) \/ OnExitOf(w)

PoolNext ==
  \/ \E j \in Jobs, long \in BOOLEAN : Submit(j, long)
  \/ \E w \in Workers : ThreadRuns(w) \/ ThreadDies(w)
  \/ ClosePool
  \/ PoolSteps

\* Time passes and the event loop runs what is due; no thread owes an answer.
PoolSpec == PoolInit /\ [][PoolNext]_poolVars /\ WF_poolVars(PoolSteps)

-----------------------------------------------------------------------------
\* Every job that was asked for waits once, runs in one slot, or has settled
\* once: threads that block, answer late or die neither lose nor repeat one.
OnePlace ==
  \A j \in Jobs :
    LET waiting == {i \in DOMAIN pool.queue : pool.queue[i] = j}
        running == {w \in Workers : pool.current[w] = j}
    IN  /\ Cardinality(waiting) + Cardinality(running) + Len(pool.settled[j]) <= 1
        /\ running \subseteq Elements(pool.slots)

\* What a job settled with is its own and is true: a result of its schema, a
\* timeout behind its deadline, a registration that is too large.
OwnAnswer ==
  \A j \in Jobs : \A i \in DOMAIN pool.settled[j] :
    LET a == pool.settled[j][i]
    IN  /\ a.answer = "result" => a.schema = SchemaOf[j]
        /\ a.answer = "TIMEOUT" => j \in expired
        /\ a.answer = "REGISTRATION_TOO_LARGE" => SchemaOf[j] \in Oversized

\* The bounds hold, and no job waits while a worker has nothing to do, or
\* while there is none.
PoolWorks ==
  /\ Len(pool.slots) <= WorkerCount /\ Len(pool.queue) <= MaxPending
  /\ pool.queue # << >> => pool.slots # << >> /\ Idle(pool) = {}

\* worker-service.ts submit, pump, onReply, takeOffline, close.
JobsAreServed == OnePlace /\ OwnAnswer /\ PoolWorks

\* Every job that was asked for settles.
JobsSettle == \A j \in Jobs : ~Waiting(j) /\ ~OnWorker(j)
=============================================================================
