--------------------------- MODULE IdempotencyCache ---------------------------
(***************************************************************************)
(* The idempotency cache of a world (packages/environment/src/             *)
(* idempotency.ts over the idempotency table of                            *)
(* packages/state-store/src/store.ts): policies per operation, identities  *)
(* scoped to a principal, entries that live in virtual time and an entry   *)
(* limit. The pipeline serves one exchange at a time; operator controls    *)
(* land between its lookup and its commit.                                 *)
(***************************************************************************)
EXTENDS Naturals, FiniteSets, FiniteSetsExt

CONSTANTS
  PolicyFor,       \* the policy of each operation the pack covers
  Queries,         \* requests: [operation, principal, key, fingerprint]
  NoKey,           \* the request carries no key
  NoQuery, NoReply,
  Forever,         \* ttlMs = null
  MaxClock,        \* bound of virtual time
  MaxRuns          \* bound of cached commits

\* An exchange has a query, and the limits of a policy are numbers.
ASSUME CacheAssumption ==
  /\ NoQuery \notin [of : Queries, at : Nat, answered : BOOLEAN]
  /\ \A o \in DOMAIN PolicyFor :
       PolicyFor[o].max \in Nat /\ PolicyFor[o].ttl \in Nat \cup {Forever}

VARIABLES
  entries,     \* the table: [id, fingerprint, sequence, run, at]
  query,       \* the exchange between its lookup and its commit
  staged,      \* this.pending
  cacheClock,  \* store.clock
  lastNumber,  \* the number of the last exchange with an entry: those in
               \* between are left out, only their order matters
  epoch,       \* the generation of the world
  reply,       \* what the cache last answered, and to what
  runs         \* history: what was committed with an entry, in which epoch

cacheVars == <<entries, query, staged, cacheClock, lastNumber, epoch, reply, runs>>

Statuses == {"2XX", "4XX", "5XX"}

CacheInit ==
  /\ entries = {} /\ runs = {}
  /\ query = NoQuery /\ staged = NoQuery /\ reply = NoReply
  /\ cacheClock = 0 /\ lastNumber = 0 /\ epoch = 1

-----------------------------------------------------------------------------
\* policyFor() and keyValueOf(): what takes no part in the cache.
Covered(q) == q.operation \in DOMAIN PolicyFor /\ q.key # NoKey

\* Mutant: every principal shares one cache.
SharedPrincipal(q) == "global"

\* principalKeyOf()
principalKeyOf(q) ==
  IF PolicyFor[q.operation].scope = "global" THEN "global" ELSE q.principal

\* identityOf()
identityOf(q) == <<q.operation, principalKeyOf(q), q.key>>

\* input.nowMs >= expiresAt, for a policy that declares a lifetime.
Expired(policy, at, now) == policy.ttl # Forever /\ now >= at + policy.ttl

\* statusMatches(), or a failure the policy caches.
Cacheable(policy, status) ==
  \/ status \in policy.statuses
  \/ status = "5XX" /\ policy.failures

\* lookupIdempotency(): the outcome for a query, the expired entry aside.
Lookup(q) ==
  LET found == {e \in entries : e.id = identityOf(q)}
      e == CHOOSE x \in found : TRUE
  IN  IF found = {} THEN "miss"
      ELSE IF Expired(PolicyFor[q.operation], e.at, cacheClock) THEN "expired"
      ELSE IF e.fingerprint # q.fingerprint THEN "conflict" ELSE "replay"

\* beforeBehavior(): a replay or a conflict ends the exchange here, an expired
\* entry is removed.
BeforeBehavior(q) ==
  /\ query = NoQuery
  /\ IF Covered(q) /\ Lookup(q) \in {"replay", "conflict"}
     THEN /\ reply' = [kind |-> Lookup(q), of |-> q, at |-> cacheClock,
                       run |-> (CHOOSE e \in entries : e.id = identityOf(q)).run]
          /\ UNCHANGED <<entries, query>>
     ELSE /\ query' = [of |-> q, at |-> cacheClock, answered |-> FALSE]
          /\ reply' = NoReply
          /\ entries' = {e \in entries :
                Covered(q) /\ e.id = identityOf(q) =>
                  ~Expired(PolicyFor[q.operation], e.at, cacheClock)}
  /\ UNCHANGED <<staged, cacheClock, lastNumber, epoch, runs>>

\* stage(): the response candidate, when the policy caches its status.
Stage(status) ==
  /\ query # NoQuery /\ ~query.answered
  /\ query' = [query EXCEPT !.answered = TRUE]
  /\ staged' = IF Covered(query.of) /\ Cacheable(PolicyFor[query.of.operation], status)
               THEN query ELSE staged
  /\ UNCHANGED <<entries, cacheClock, lastNumber, epoch, reply, runs>>

\* Mutant: the newest entries go.
EvictNewest(table, policy, now) ==
  LET live == {e \in table : ~Expired(policy, e.at, now)}
      size == Min({policy.max, Cardinality(live)})
  IN  {kept \in SUBSET live :
         /\ Cardinality(kept) = size
         /\ \A e \in kept, o \in live \ kept : o.sequence >= e.sequence}

\* evictIdempotency(): what expired under the writer's policy, and then the
\* lowest sequences beyond the writer's limit, whoever wrote them. Equal
\* sequences have no order: the tables the query may leave.
Evict(table, policy, now) ==
  LET live == {e \in table : ~Expired(policy, e.at, now)}
      size == Min({policy.max, Cardinality(live)})
  IN  {kept \in SUBSET live :
         /\ Cardinality(kept) = size
         /\ \A e \in kept, o \in live \ kept : o.sequence <= e.sequence}

\* flushPending() inside the commit, which may tick the clock before it.
Commit ==
  \E tick \in {0, 1} :
    LET q == staged.of
        now == cacheClock + tick
        run == Cardinality(runs) + 1
        Entry == [id |-> identityOf(q), fingerprint |-> q.fingerprint,
                  sequence |-> lastNumber + 1, run |-> run, at |-> now]
    IN  /\ query # NoQuery /\ query.answered
        /\ now <= MaxClock
        /\ cacheClock' = now
        /\ IF staged = NoQuery
           THEN UNCHANGED <<runs, entries, lastNumber>>
           ELSE /\ run <= MaxRuns
                /\ lastNumber' = lastNumber + 1
                /\ runs' = runs \cup
                     {[id |-> Entry.id, fingerprint |-> Entry.fingerprint,
                       sequence |-> Entry.sequence, run |-> run, at |-> now,
                       began |-> staged.at, epoch |-> epoch]}
                /\ entries' \in Evict({e \in entries : e.id # Entry.id} \cup {Entry},
                                      PolicyFor[q.operation], now)
        /\ query' = NoQuery /\ staged' = NoQuery
        /\ UNCHANGED <<epoch, reply>>

\* discardPending(): the exchange failed, before or after it staged.
RollBack ==
  /\ query # NoQuery
  /\ query' = NoQuery /\ staged' = NoQuery
  /\ UNCHANGED <<entries, cacheClock, lastNumber, epoch, reply, runs>>

\* advanceWorldEffect(), at any point of an exchange.
AdvanceTime ==
  /\ cacheClock < MaxClock
  /\ cacheClock' = cacheClock + 1
  /\ UNCHANGED <<entries, query, staged, lastNumber, epoch, reply, runs>>

\* resetWorldEffect(), once here: the next generation at the virtual epoch.
ResetWorld ==
  /\ epoch = 1
  /\ epoch' = epoch + 1
  /\ cacheClock' = 0
  /\ entries' = {}
  /\ reply' = NoReply
  /\ UNCHANGED <<query, staged, lastNumber, runs>>

\* importCheckpoint(): the world goes on in a fork, with the entries and their
\* sequences, the clock and a request counter that starts again. Once here, at
\* the transaction boundary a checkpoint is taken at.
ForkWorld ==
  /\ query = NoQuery
  /\ lastNumber > 0 /\ lastNumber = Cardinality(runs)
  /\ lastNumber' = 0
  /\ reply' = NoReply
  /\ UNCHANGED <<entries, query, staged, cacheClock, epoch, runs>>

CacheNext ==
  \/ \E q \in Queries : BeforeBehavior(q)
  \/ \E status \in Statuses : Stage(status)
  \/ Commit \/ RollBack \/ AdvanceTime \/ ResetWorld \/ ForkWorld

CacheSpec == CacheInit /\ [][CacheNext]_cacheVars

-----------------------------------------------------------------------------
\* What an entry says happened: the run is the last one of its identity, in
\* this generation and for this request body.
Backed(e) ==
  \E r \in runs :
    /\ r.id = e.id /\ r.run = e.run /\ r.at = e.at
    /\ r.fingerprint = e.fingerprint /\ r.epoch = epoch

\* Some policy of the pack allows as many entries.
WithinLimits == \E o \in DOMAIN PolicyFor : Cardinality(entries) <= PolicyFor[o].max

\* A policy allowed the entry of run a to go before b began: its own lifetime
\* passed, or a commit up to b found it expired, or behind as many entries as
\* its policy keeps, under the limits of its own operation.
LetGo(a, b, Behind(_, _)) ==
  \/ Expired(PolicyFor[a.id[1]], a.at, b.began)
  \/ \E c \in runs :
       /\ c.epoch = a.epoch /\ a.run <= c.run /\ c.run < b.run
       /\ LET policy == PolicyFor[c.id[1]]
          IN  \/ Expired(policy, a.at, c.at)
              \/ Cardinality({r \in runs : r.run <= c.run /\ Behind(a, r)})
                   >= policy.max

Repeated(Behind(_, _)) ==
  \E a, b \in runs :
    a.id = b.id /\ a.epoch = b.epoch /\ a.run < b.run /\ ~LetGo(a, b, Behind)

BySequence(a, r) == r.run # a.run /\ r.epoch = a.epoch /\ a.sequence <= r.sequence

\* SPEC.md 17.3 evicts the oldest entries first, so a limit costs an exchange
\* its entry only when as many exchanges were committed after it.
ByAge(a, r) == r.epoch = a.epoch /\ a.run < r.run
OldestEvictedFirst == ~Repeated(ByAge)

\* A cached exchange that committed is not repeated within a generation,
\* whatever controls, forks and other operations do, unless a declared limit
\* let its entry go, by lifetime or behind entries of higher sequence (store.ts
\* lookupIdempotency, evictIdempotency). A replay is the answer to the same
\* request of the same principal in this generation, before its lifetime ended;
\* a conflict answers another body; the table holds only what was committed and
\* stays within the declared limits (idempotency.ts beforeBehavior, flushPending).
CacheIsTrue ==
  /\ ~Repeated(BySequence)
  /\ \A e \in entries : Backed(e)
  /\ entries # {} => WithinLimits
  /\ reply # NoReply =>
       \E r \in runs :
         /\ r.run = reply.run /\ r.epoch = epoch
         /\ r.id[1] = reply.of.operation /\ r.id[3] = reply.of.key
         /\ PolicyFor[r.id[1]].scope # "global" => r.id[2] = reply.of.principal
         /\ ~Expired(PolicyFor[r.id[1]], r.at, reply.at)
         /\ (r.fingerprint = reply.of.fingerprint) <=> (reply.kind = "replay")
=============================================================================
