# PRMS in TLA+

A verification project for the Passenger Resource Management System: TLA+
modules of its services, of the request handlers around them and of the way
state reaches a database; TLC configurations that check them on small
instances; and TLAPS proofs of what matters most for every size.

Run one configuration with `tlc -config MCPrms.cfg MCPrms.tla`, one set of
proofs with `tlapm EntityRosterProofs.tla`. `PROJECT.json` lists the runs, the
faults each property was shown to catch, the source lines of every definition,
the hazards, the findings and the theorems.

## 1. The system

Three crew leads administer passengers and resources. A passenger has a tier
(Silver < Gold < Diamond < Platinum), a resource a minimum tier, and a passenger
may use a resource if his tier is at least the minimum. Every administrative
change leaves an event in one audit trail, every attempt to use a resource an
event in one usage log. An axum server exposes this over HTTP; state is in
memory, or in memory and written through to SQLite or PostgreSQL.

| Component | State | Operations | What makes it correct |
|---|---|---|---|
| Tiers (`domain/tier.rs`) | none | `rank`, `can_access` | a total order |
| Passenger service | active and deleted lists, clock | `create`, `change_tier`, `soft_delete`, `get`, `list` | one active record per id; deleted records final; trail complete, in order |
| Resource service | the same | the same, `list_accessible_for` | the same; the list agrees with the access check |
| Crew-lead service | three leads, clock | `bootstrap`, `replace`; `add`, `remove` always fail | three distinct leads; trail complete |
| Access service | clock, usage sink | `use_resource` | every event true at its moment, whatever changes later |
| Reporting service | none (reads the log) | history, by tier, top-n | agree with each other and with their definitions |
| Audit sink | events and hash chain, two mutexes | `append`, `snapshot_with_hashes`; `verify_audit_chain` | one hash per event; a break means tampering |
| Handlers (`interface/http.rs`) | five `RwLock`ed aggregates, idempotency cache | one per endpoint | no lost update, safe retry, durable once acknowledged |
| Entity stores (SQLite, PostgreSQL) | tables | `sync_all`, `load_*`, `append` of events | what comes back existed, was audited, and is not behind what was acknowledged |
| Start-up (`composition_root.rs`) | tables empty or not | seed or load | a world in use is never seeded again |
| Shutdown (`bin/serve.rs`) | open connections, grace timer | signal, drain, forced exit | what has arrived is answered, and the server stops |
| Worker threads and locks (`WorldShards`) | who holds and who waits for the five locks; poison | every handler's phases | no deadlock; nobody sees two worlds |

Interaction. The handlers call the services under the write lock of one
aggregate. The three administrative services hold clones of one audit sink, so
their appends meet at the sink's mutexes only. After a mutation a handler
collects the aggregates under read locks, one after the other, and hands the
copy to the entity store outside every lock. The access handler reads two
aggregates and writes a third; the demo reset writes all five. Every handler
runs from its first lock to its answer without an `await`, so it keeps its worker
thread while it waits for a lock. `build_world` gives each service a `FakeClock`
of its own; after a restart the rosters and the access service have new ones
that start at the system's time, and the crew-lead service has a `SystemClock`.

What is hard here: two services appending at once; flushes out of order; a kill
between two steps of a write or of the first run; a retry during or long after
the first attempt, or across a shutdown; several locks held at once while writers
keep new readers out; a
panic that leaves a lock or a connection poisoned, or a change in memory without
its event; a flush error that is only logged; an id
that is deleted and created again, which touches lookups, versions, ETags and
primary keys alike. `PROJECT.json` lists these under `hazards`, each at its
line, with the properties aimed at it.

## 2. Modules

| Module | Models | Notes |
|---|---|---|
| `Tier`, `Domain` | tiers, actors, events | shared values |
| `AuditedDirectory` | what a roster promises: a map of ids to tiers, each change recorded once | abstract specification |
| `EntityRoster` | `PassengerService`; by another name `ResourceService` | one action per method, implements `AuditedDirectory` |
| `ConditionalEdit` | ETag / If-Match | `EntityRoster` with clients that read and edit later |
| `CrewLeadService` | `CrewLeadService` | |
| `AccessService` | `use_resource` | read-only view of two rosters |
| `Prms` | the world: a `CrewLeadService`, two `EntityRoster`s, an `AccessService` around one trail | composes the above by EXTENDS and INSTANCE |
| `Reporting` | reports, paging, accessible list | extends `AccessService` |
| `AuditChain` | the sink's critical sections and the verifier | three-step `append`, two-step snapshot |
| `IdempotentCreate` | the two creating POST handlers around their one Idempotency-Key cache, panics of the SQLite store included | actions only, `Serve` runs them |
| `Serve` | the process: accept, drain, grace timer, forced exit, next start; clients that hang up | extends `IdempotentCreate` |
| `WriteThrough` | first run; mutation, clone, flush, answer; failing statements; kill, restart; both stores | |
| `WorldLocks` | the five `RwLock`s, the lock script of all 25 handlers, worker threads, poison, the SQLite mutexes, `block_in_place` | |
| `ListLemmas` | facts about lists, folds and sums, and induction up to a number | what the proofs share, see section 5 |
| `EntityRosterProofs`, `ConditionalEditProofs`, `PrmsProofs`, `LogProofs`, `WriteThroughProofs`, `WorldLocksProofs`, `ServeProofs` | theorems | one per module they are named after; `PrmsProofs` includes `CrewLeadService`, `LogProofs` is about `AuditChain` and `Reporting`, the two append-only logs |

How state and actions correspond to the code:

- A record of `EntityRoster` is `[id, level, version, deleted_at]`; `level` is
  `tier` or `min_tier`. Names and categories are never compared and are left
  out, like the random event ids. `active` and `deleted` keep the order of the
  two `Vec`s.
- `clock` is the next instant of the service's `FakeClock`; reading it advances
  it, and `soft_delete` reads it twice.
- `trail` is the sink's list. In `Prms` the three services share it, each sees
  its own events by `kind`.
- Operators named `...Outcome` return the error variant of the Rust method, in
  the order of its checks. A call that fails changes nothing (`Reject`).
- In `AuditChain`, SHA-256 is injective: a hash is the list of the events it
  covers.
- In `WriteThrough`, an aggregate is the list of what was done to it, its seed
  first, which is all that durability can tell apart; each aggregate is seeded
  with one record. Deleting a roster's record and creating it again makes the
  tables unstorable because the active and the deleted record share a primary key.
- A table of `WriteThrough` is a set of such lists: it holds the rows of each.
  It holds more than one where a PostgreSQL transaction, waiting in its DELETE
  for another one, misses the rows this one inserts. `remains` are the leads
  that were missed. They collide with the own ones on a primary key if a lead is
  in both; three replacements apart, in a crew of three, there need be none
  (`MayShareNoLead`), and both sets stay. In the rosters each DELETE takes a
  snapshot of its own after the wait, so nothing is missed there. A waiting
  transaction is let on as soon as one it waited for has ended; that it may then
  wait for rows of a third is left out.
- `failures` counts the statements that fail by themselves, each at most once per
  step: the INSERT of an event, a statement or the COMMIT of `sync_all`, the COUNT
  of the start. `broken` is what a panic leaves unusable on SQLite: the mutex of
  the entity connection (`store`) or of the event connection (`sink`), and the
  `file` while a transaction that nobody ends holds its write lock. PostgreSQL
  keeps nothing of a failure, and may have committed what it reports as failed.
- In `IdempotentCreate`, the body of an answer is the creation it reports. Actor
  ids and keys are lists of the segments between their colons, which makes
  `format!("{actor_id}:{k}")` a concatenation and lets two pairs give one
  string. Of the two rosters it keeps which ids are active, as
  `AuditedDirectory` does. A handler that panics, in `emit` or in `flush_to_db`,
  leaves its request `dropped`: the record is listed, nothing is cached, the
  client gets no answer.
- In `Serve`, `stage` is where a connection is: `sending` while its body is
  incomplete, `sent` when a handler may be polled, `missed` and `created` inside
  the handler. `forced` is the time between the end of the grace period and the
  exit of the process, in which a poll that is under way still ends.
- In `WorldLocks`, a phase of a script lists the guards a block takes, in the
  order of the code, and the work done under them. What the aggregates hold is
  `Prms`' subject; here an aggregate is the number of times `/reset` has replaced
  it. A lock somebody waits for is `barred` to new readers until its last holder
  drops it. `broken` are the mutexes of the SQLite connections a panic poisoned:
  the code recovers from a poisoned `RwLock` but expects these.
- In `Reporting`, `Offset` caps an offset as `PaginationQuery::offset` does; the
  cap is the constant `MaxOffset`, 1,000,000 in the code and 1 in the runs.
  Sorting is by counting: in place *i* stands the entry that *i* - 1 others come
  before, which is what `sort_by` yields for a strict total order. A filtered
  list (`Kept`) and a sum are folds.
- Variables and record fields marked *history* are not in the code; they record
  what a property needs to speak of the past and no guard reads them.
- Definitions under "Fault, for testing the properties" are plausible bugs.
  No specification uses them. Substituted for the definition that follows them,
  each makes TLC find the property named in `PROJECT.json` violated.

## 3. Runs

| Configuration | Instance | Shows |
|---|---|---|
| `MCPrms` | 1 passenger, 1 resource, 3 founders and the passenger as their substitute; start-up and four mutations more, combined freely with two accesses | one trail explains all rosters; put-backs and self-replacements keep three distinct leads; usage events stay justified after later changes |
| `MCConditionalEdit` | 2 ids, 2 tiers, one conditional client, 6 events | all sequences of create, change, delete, re-create, re-delete keep lists, versions, instants and trail consistent and implement `AuditedDirectory`; no unseen change overwritten within one record; no undeserved 412 |
| `MCReporting` | 2 passengers, 3 resources, 4 attempts, tier changes between, pages of 2, offsets capped at 1 | reports agree, ranking correct with ties and n from 0 to 4, accessible means allowed, paging exact up to the cap |
| `MCAuditChain` | 3 services, 2 appends each, 1 verifier | lists stay in step, only overlapping appends break the chain, a torn snapshot gives no false alarm |
| `MCServe` | 2 POSTs that share a cache key (`aria` with `north:k` for a passenger, `aria:north` with `k` for a resource) and the key of the first sent by another lead for the same passenger; 1 failing statement, deletions up to 4 events, one restart of a durable server | a key acts once while kept, not raced and not hit by a panic; answers are those of the cache key, and one's own if no id has a colon; what has arrived is answered unless the grace period ends or the store panics; the server stops |
| `MCWriteThrough` | either store, 2 leads, 3 requests, 2 in flight, 1 failing statement, 1 kill, the first run included | tables hold a past state, or, of the leads, several merged ones; nothing unaudited but what failed requests did, trail equals memory up to those, no late seeds; for requests that did not overlap, acknowledged means durable unless the error was logged and, at rest, a table differs from memory only where the last request failed |
| `MCWorldLocks` | 3 requests on 3 workers, SQLite, 1 failing call; each request any of the four kinds of writers, one of them perhaps one of the four kinds of readers | no deadlock, an access sees one world, readiness reports an earlier panic, every request comes to its end, and is answered unless a call has failed |

Why the bounds are enough. An id must be created, deleted, created and deleted
again for the lookups to go wrong: four events. The other two let a second id
come between, which separates order from identity; and an ETag meets a
re-created record after create, delete, create and one edit, with room for
somebody else's. A cap of 1 with pages of 2 is met by the second page. The chain
needs two overlapping appends and one more to chain on the result; three
services with two appends each give that in every order. Stale flushes take two
requests in flight; the third one shows that a flush of someone else's mutation
is still audited, and, in sequence, deletes, re-creates and then changes an id,
which takes the SQLite server through its failed flush into the state after it.
A crew of two leads shares none with the crew two replacements earlier, so that
three requests are enough for two flushes to merge their leads, which takes four
with the three leads of the code (`Leads`). One failing statement before, in or
after any other step shows what each leaves behind; the proofs allow any number.
Of the POSTs that share a cache key the later one is a retry for all the handler
can tell, with a record of its own that it must not create. One kill suffices
because a restart forgets everything but the tables and the trail. A lock cycle
needs two requests, and a third as the waiting writer that turns a second read
of one lock into a wait. Handlers with one script are represented by one of
them, and readers of a single aggregate after another do not hinder one another,
so one per plan is enough; three workers hold every request, and two are what
`MCWorldLocksHang` starves. The proofs of section 5 remove the bounds where they
apply.

`CHECK_DEADLOCK FALSE` is given where requests are sent once each and the
system then rests (`WriteThrough`, `Serve`), and in `MCWorldLocksHang`, which is
about that rest. `MCWorldLocks` checks deadlock. Symmetry is used over
interchangeable services, ids and requests, in runs without liveness.

### Where the code and its documents disagree

Five runs check what a document or a comment says, and TLC finds it violated:

| Configuration | Property | What happens |
|---|---|---|
| `MCAuditChainRace` | `VerifyFindsNoBreak` | two services append at once: same predecessor, broken chain, no tampering |
| `MCConditionalEditAba` | `NoLostUpdate` | version 0 of a deleted record matches version 0 of its successor |
| `MCWriteThroughStale` | `AckedIsDurable` | an older clone is written last |
| `MCWriteThroughRecreate` | `NoHandlerPanics` | deleted and active record collide on the primary key, SQLite |
| `MCWorldLocksHang` | `EveryRequestEnds` | PostgreSQL: an INSERT is awaited under an aggregate's lock, the requests waiting for that lock hold every worker, and no worker is left to receive the database's answer |

Others are visible in the definitions and have no run of their own:

- RP-R2 wants a row for every tier; `Prepopulated` lacks Diamond, as
  `aggregate_by_tier` does (`reporting_service.rs:58`).
- A comment (`http.rs:853-854`) says that two actors with one key "do not
  collide in the cache and receive each other's 201 responses". They do where
  the id of one has a colon: the server splits the entries of its key list at
  the first colon only (`serve.rs:230`), and `aria` with the key `north:k` gives
  the same string as `aria:north` with `k`. `AnswersAreOwn` says who may share
  an answer, and `MCServe` has the two. In the same way one key sent to both
  endpoints shares an entry, so that POST /resources may answer with a passenger
  (`http.rs:119`, `1026`).
- `EntityStore::sync_all` documents a panic if the snapshot cannot be persisted
  (`composition_root.rs:137-139`); with PostgreSQL the error is logged and the
  request acknowledged (`PgRollback`), whatever the error. `logged` keeps account
  of it; without that exception `SerialAckIsDurable` fails after one request.
- AU-R1 wants an event for every mutation, and `docs/code-review-qa.md:2468` to
  fail closed. The append comes after the change in memory, and if it panics the
  next handler recovers the lock and its flush persists the change
  (`MutateFails`). `PersistedIsAudited` exempts just these, requests without an
  answer.
- `is_first_run` documents a panic if its query fails
  (`sqlite_event_store.rs:447-448`); `unwrap_or(0)` makes that a first run,
  which seeds a world in use and replaces its entities (`RestartMiscounted`,
  `miscounted`).
- `pg_store.rs:322` calls `sync_all` atomic, and CL-I1 wants three leads at all
  times. Two overlapping transactions may leave six in the table, and `restore`
  refuses them at the next start: the server does not come up (`server` is
  `down` in `MCWriteThrough`).
- PS-R4 calls a same-tier change a no-op; `ChangeLevel` bumps the version and
  emits an event, as `change_tier` does.
- AU-I2 wants events in the order of the mutations. PostgreSQL reloads the trail
  by timestamp, while every service counts on its own clock from 0, and the
  `SystemClock` that the leads have after a restart may repeat an instant or go
  back. The reload is not modelled; `TrailChronological` is about a service that
  runs on its `FakeClock`.
- The idempotency cache is looked up before and written after the creation, and
  it is not persisted: a retry that overlaps the first attempt, or follows a
  restart or a panic of the store, is told 409 for a creation that succeeded.
  `KeptKeyIsExactlyOnce` says what is left of "safe to retry".
- A first run that is killed midway runs again: the trail then holds the seed's
  events twice. `SeedsComeFirst` says that this ends with the first run. With
  PostgreSQL the second first run does not load the earlier ones into its sink.
- `POST /reset` on a durable server installs in-memory sinks: events after it
  are not stored (`Stored` in `WorldLocks`), although
  `docs/persistence-matrix.md` calls the audit persisted. Its gate is read before
  the five write locks are taken, a flush that clones meanwhile may collect
  aggregates of both worlds, and idempotency cache and ETags outlive it.
- A comment says that crashing is right when a SQLite write fails. The panic ends
  the handler only: the server goes on with a poisoned connection mutex
  (`broken`), and `/health/ready`, which expects the entity store's mutex, panics
  instead of answering 503. There are three connections with a mutex each, so
  the database file is contested.

## 4. Fairness

- `Serve`: weak fairness of *some* handler running, and of the shutdown. A
  handler that was polled has no `await` between its steps (in-memory and SQLite
  stores), the runtime polls ready tasks, the grace timer runs out, and `main`
  returns. Which request goes first is left open, since there are finitely many.
  Nothing makes a client send the rest of its body, send a request, or go away;
  signals, expiry, deletions and restarts just may happen. Under that,
  `EveryAttemptIsAnswered` speaks of requests that have arrived completely: each
  is answered, cut off with exit code 1, or dropped by a panic of the durable
  store. `SignalLeadsToStop` needs the timer, since a client may never finish.
- `WorldLocks`: weak fairness of *some* request taking a step: threads that can
  run are run, a released lock is handed on, the store answers. Each request has
  finitely many steps, so no fairness per request is needed. A PostgreSQL answer
  needs an idle worker in the model because a thread in `block_on` leaves
  driving the sockets to the workers; this is a guard, not a fairness
  assumption, and what `MCWorldLocksHang` runs into. `EveryRequestEnds` says
  that each handler ends; one that panics ends without an answer, which takes a
  failed call.
- The other specifications state safety only.

## 5. Proofs

Proved for every value of the constants (`tlapm` checks each to the last leaf):

- `EntityRosterProofs`. `RosterInv` strengthens the type invariant by: active
  ids are unique; every recorded instant (event times, deletion stamps) is below
  the clock; events of this service are in time order; deleted records are in
  stamp order. Uniqueness alone is not inductive for deletion order: `soft_delete`
  needs the stamps below the clock to append in order, and `LookupIsLatest`
  follows from that order. From it: `TypeOK`, `ActiveIdsUnique`,
  `TrailChronological`, `DeletedRecordsAreFinal`, `LookupIsLatest`, and, by a
  lemma per operation on how the abstract map changes, `ImplementsDirectory`.
  Then what folds over the trail: `TrailReplaysToRoster` (one more event is one
  more step of the replay, and each operation makes the same change to the active
  list as `ApplyEvent` does with its event), `VersionsCountEvents` (the sums over
  the records of an id, as a record is added, gets a version or moves to the
  deleted list) and `DeletionsMatchTrail`. The lemmas ask of the trail only that
  its own kind of event is the roster's, so they serve a shared trail as well.
- `ConditionalEditProofs`. `EditInv` adds to `RosterInv` how old the tags are
  that clients hold: since a tag was handed out, the id has had as many events
  as the version `get` shows has grown, or was created anew. A matching version
  then means no event in between (`LostOnlyAcrossRecreation`), and a version
  that does not match means one (`RefusedOnlyWhenOvertaken`).
  `EditImplementsRoster` shows `EditSpec => Spec`, so that the roster's theorems
  hold among conditional edits.
- `PrmsProofs`. By themselves the leads stay three and distinct by the collision
  check: the new id differs from the leads in the other two slots. For the World,
  `WorldInv` says that each service satisfies its own invariant on the shared
  trail, that every event there is one service's, and that each usage event was
  justified by the trail of its moment. An event of one service is skipped in the
  replay of the others (`EventsApart`), a prefix of a growing trail stays what it
  was, and what `use_resource` finds in the rosters is what the trail says because
  `TrailExplainsWorld` holds in the state it reads: the last two properties are
  inductive only together. `build_world` fails on an id that comes twice, hence
  `SeedsAssumption`.
- `LogProofs`, admin events. `ChainInv` says what each stage of `append` knows
  while no two appends have overlapped: at most one service is not idle, the hash
  it carries is that of the events so far and its own, and the lists differ by at
  most the event just pushed. `BrokenOnlyAfterRace` follows. `ListsInv` holds
  however appends overlap: hashes lack one entry per append between its last two
  steps, a verifier's events are a prefix of the events of now. A mismatch, once
  there, stays, because both lists only grow: hence `NoFalseAlarm`.
- `LogProofs`, usage events. `ReportInv` says that the log holds events of the two
  rosters, whose ids are unique and never change, and that the paging client has
  a beginning of the log, or, behind the cap, at least the first `MaxOffset` + 1
  events of it. `ReportsAgree` partitions the allowed attempts three
  ways, by tier, by place in the ranking and by passenger: counted label by label
  they add up to all of them (`CountsAddUp`), provided every attempt's label is
  among those a report adds up, which is where a report that forgets a row goes
  wrong. `TopIsReference` shows the order total and strict, so every entry has a
  place of its own and those in front of it fewer. `AccessibleMeansAllowed`
  compares the listing with the access check, `PagesExactUpToCap` extends a
  prefix by the part of the log that comes next, as far as the cap.
- `WriteThroughProofs`. `IInv` adds to the types: every clone under way is made
  of earlier, non-empty states of the memory (`ClonesFit`, `ClonesPast`); so are
  the leads a DELETE has missed, which takes an overlap (`RemainsPast`); so is
  what a table holds, once it is filled (`TablesPast`); the tables are filled
  together, before the first request, and only the leads are ever there twice
  (`StartUp`, `TablesFit`); before that the trail holds seeds only
  (`SeedsOnly`); and whatever is in memory is in the trail or was done by a
  request that failed (`MemoryIsAudited`). It yields `DiskIsPastMemory`,
  `PersistedIsAudited` and `SeedsComeFirst` for any number of requests in any
  overlap, of failing statements and of kills. `SerialInv` adds what holds while
  requests do not overlap and no COUNT has failed: the one in flight has clones
  equal to the memory; after its flush, unless the error was logged, the tables
  are the memory; at any time a table that is not was left behind by the request
  in flight or by one that ended without writing, which was the last to change
  that aggregate; and what was acknowledged is in the tables. Hence
  `SerialAckIsDurable` and `SerialDiskIsCurrent`. `TrailMatchesMemory` is
  inductive with the types alone: a mutation and its event extend the memory of
  one aggregate and what the trail has of it, a mutation whose append failed
  extends neither as far as the property looks, and the other aggregates' part
  of the trail stays.
- `WorldLocksProofs`. `SomebodyRuns` is the argument of the documented lock
  order: of the requests that wait, take one that waits for the largest lock; it
  waits for a holder, whose locks are held in ascending order, so the holder
  waits for nothing or for a larger lock. For this every script's phase must
  take its locks in ascending order, and `barred` be set only while somebody
  holds the lock. `AccessSeesOneWorld` rests on `Exclusive` (a writer is alone)
  and `OldOrNew` (two aggregates differ only while some reset holds all five
  locks, so nobody else holds any). `ReadyMeansNoPanicBefore` rests on
  `ReadyInv`: a panic leaves a poisoned lock or a broken entity connection,
  nothing mends either, and a readiness check that begins later still has that
  trace ahead of it as long as it may answer "ready".
- `ServeProofs`. `KeyInv`: creations belong to one attempt each and are in the
  trail; what cache and answers name was made with that scoped key; and for a
  key that nothing has happened to (no overlap, no expiry, no restart, no
  panic), one handler at a time is between lookup and put, none once it is
  cached, and what was made is cached when its handler has ended. The last three
  are only inductive together. `AnswersAreOwn` and `KeptKeyIsExactlyOnce`
  follow, through panics, shutdown, expiry and restart; that actors without a
  colon in their ids never share a scoped key is `PlainActorsAgree`: the joined
  string starts with the actor's id.
- `ListLemmas` holds the facts about `Append`, `RemoveAt`, overwriting, filtering
  and prefixes that these rest on, and those about folds. A fold of the community
  modules chooses a function that satisfies the recursion equation; that there is
  one (`SubsetFoldExists`, `ListFoldExists`) and what one more element does to it
  (`ListFoldSteps`, `SumTakesOne`, `SumTakesAny`) is an induction. The library's
  induction theorems take an operator, which the provers here cannot instantiate;
  `CountingUp` puts the same into first-order form, for a *set* of numbers that
  holds 0 and is closed under adding one up to n, and follows from the
  well-foundedness of < on the naturals.

Assumptions: tiers asked for are tiers, bounds are naturals, founders are three
distinct ids, seeds name no id twice, the services of a sink are finitely many,
requests are sent by known actors, plans are for handlers, the seed is no
request. Each is a named ASSUME that TLC evaluates in the runs.

Every invariant and every action property that the passing runs check is proved.
`ChainTypeOK`, `EditTypeOK` and `LocksTypeOK` are proved and not run: the runs of
these modules spend their time on what a bug of the code could break.
Only model-checked is liveness: `EveryAttemptIsAnswered`, `SignalLeadsToStop`,
`EveryRequestEnds` (fairness is ENABLED, which is out of the prover's reach).
The violated properties of section 3 are, of course, counterexamples only.

## 6. Not modelled

Validation and rendering of requests and answers (`dto.rs`, but for the cap of the
offset); authentication, rate
limit, CORS and security headers, which are middleware without state that the
handlers see; the numbers in health and metrics; caps on limits and on n;
the SQL usage sink's cache, the reload of the trail and `SystemClock`, connection
pools and migrations; a first run on a database whose statements fail (the start
ends with an error); command-line flags;
what `/reset` leaves on a durable store's disk (a demo endpoint, off by default,
whose effect section 3 describes); paging through a roster while it shrinks, of
which no document promises anything; the web client, which keeps no state that
outlives a reload. `Serve` does not cover PostgreSQL, whose handlers may be inside
`block_on` when the process exits.

## 7. Plan

Done, in this order: `EntityRoster` and its proofs; `CrewLeadService`,
`AccessService` and their composition `Prms`; `AuditChain`; `WriteThrough`;
`Reporting`; `ConditionalEdit`; `IdempotentCreate`; then `WorldLocks` with its
proofs, the first run in `WriteThrough` and the proofs of that module, `Serve`
around `IdempotentCreate` and its proofs, and the rest of the proofs about
`AuditChain`; then the inductions over lists in `ListLemmas`, and with them what
folds over trails and logs: the rest of `EntityRosterProofs`,
`ConditionalEditProofs`, `PrmsProofs`, and `LogProofs`.

Left:

1. `/reset` in `WriteThrough`, should the endpoint be used on durable servers.
2. Paging through a roster while one of its records is deleted.
3. The reload of the trail, with the clocks a restarted server has.
