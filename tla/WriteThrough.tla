---------------------------- MODULE WriteThrough ----------------------------
(***************************************************************************)
(* How a mutating request reaches the disk (flush_to_db of                 *)
(* src/interface/http.rs and sync_all of the two entity stores):           *)
(*                                                                         *)
(*   1. under the write lock of its aggregate the handler changes the      *)
(*      in-memory state and appends the event, durably, to the audit;      *)
(*   2. it clones the three aggregates, each under its own read lock;      *)
(*   3. outside every lock it replaces the entity tables by the clone;     *)
(*   4. it answers with a 2xx.                                             *)
(*                                                                         *)
(* Requests interleave between these steps, any statement may fail, and    *)
(* the process may be killed at any point, also while it seeds an empty    *)
(* database, and started again (build_world_with_sqlite and its sibling in *)
(* composition_root.rs).                                                   *)
(*                                                                         *)
(* An aggregate is what was done to it: the sequence of its mutations, of  *)
(* which its seed is the first.  Each roster is seeded with one record.  A *)
(* table is a set of such logs: it holds the rows of each of them.         *)
(***************************************************************************)
EXTENDS Naturals, FiniteSets, SequencesExt

CONSTANTS
    Requests,      \* the mutating requests that clients send, once each
    Calls,         \* what they may ask for: pairs of an aggregate and an operation
    Stores,        \* the EntityStores to consider: "sqlite", "postgres"
    Leads,         \* how many crew leads there are; three in the code
    MaxInFlight,   \* bound: how many requests the server handles at once
    MaxFailures,   \* bound: how many statements fail by themselves
    MaxRestarts    \* bound: how often the process is killed

VARIABLES
    server,    \* "seeding" an empty database, "up", or "down": the start fails
    mem,       \* the aggregates in memory
    trail,     \* the admin_events table: mutations in the order of their events
    disk,      \* the entity tables, per aggregate
    stage,     \* how far each request got
    clone,     \* what each request's flush has collected
    remains,   \* postgres: the leads in the table that a transaction's DELETE missed
    broken,    \* sqlite: what a panic has left unusable
    failures, restarts,
    store,     \* the EntityStore; never changes
    logged,    \* history: requests whose failing flush was only logged
    overlapped,\* history: some request arrived while another was in flight
    miscounted \* history: a failing COUNT passed for a first run

mutVars == <<mem, trail>>
pastVars == <<logged, overlapped, miscounted>>
vars == <<server, mutVars, disk, stage, clone, remains, broken, failures, restarts, store,
          pastVars>>

\* The order in which flush_to_db visits the aggregates.
FlushOrder == <<"crew_leads", "passengers", "resources">>
Aggregates == ToSet(FlushOrder)
Rosters == Aggregates \ {"crew_leads"}
Ops == {"Create", "Change", "Delete"}

Seed == "seed"

ASSUME StoresAssumption == Stores \subseteq {"sqlite", "postgres"}
ASSUME CallsAssumption == Calls \subseteq Aggregates \X Ops
ASSUME LeadsAssumption == Leads \in Nat \ {0}
ASSUME BoundsAssumption ==
    MaxInFlight \in Nat \ {0} /\ MaxFailures \in Nat /\ MaxRestarts \in Nat
ASSUME SeedAssumption == Seed \notin Requests

Empty == [agg \in Aggregates |-> << >>]
EmptyTables == [agg \in Aggregates |-> {}]

\* audited: whether the append of the mutation's event returned.
Mutation == [req : Requests \cup {Seed}, agg : Aggregates, op : Ops, audited : BOOLEAN]

Stages == {"new", "cloning", "cloned", "waiting", "holding", "flushed",
           "acked", "rejected", "failed", "crashed", "lost"}

InFlight == {r \in Requests : stage[r] \in {"cloning", "cloned", "waiting", "holding", "flushed"}}

\* A statement fails by itself: the connection, the pool, the file system.
StatementFails == failures < MaxFailures /\ failures' = failures + 1

-----------------------------------------------------------------------------
(* Step 1: the service call *)

\* Whether the id is active, that is, the last creation or deletion created it.
IsActive(log) ==
    log[SelectLastInSeq(log, LAMBDA m : m.op # "Change")].op = "Create"

\* Replacing a lead always finds it; the rosters answer 409 and 404.
Accepts(log, agg, op) ==
    \/ agg = "crew_leads" /\ op = "Change"
    \/ agg \in Rosters /\ (IsActive(log) <=> op # "Create")

Answer(r, to) == stage' = [stage EXCEPT ![r] = to]

(* Fault, for testing the properties: the crew-lead service was restored without its audit sink. *)
MutateUnaudited(r, agg, op) ==
    LET done == [req |-> r, agg |-> agg, op |-> op, audited |-> TRUE]
    IN  /\ stage[r] = "new" /\ Accepts(mem[agg], agg, op)
        /\ broken \cap {"sink", "file"} = {}
        /\ mem' = [mem EXCEPT ![agg] = Append(@, done)]
        /\ trail' = IF agg \in Rosters THEN Append(trail, done) ELSE trail
        /\ clone' = [clone EXCEPT ![r] = << >>]
        /\ Answer(r, "cloning")
        /\ UNCHANGED <<server, disk, remains, broken, failures, restarts, store, logged, miscounted>>

\* The mutation and its event, both under the aggregate's write lock.
Mutate(r, agg, op) ==
    LET done == [req |-> r, agg |-> agg, op |-> op, audited |-> TRUE]
    IN  /\ stage[r] = "new" /\ Accepts(mem[agg], agg, op)
        /\ broken \cap {"sink", "file"} = {}
        /\ mem' = [mem EXCEPT ![agg] = Append(@, done)]
        /\ trail' = Append(trail, done)
        /\ clone' = [clone EXCEPT ![r] = << >>]
        /\ Answer(r, "cloning")
        /\ UNCHANGED <<server, disk, remains, broken, failures, restarts, store, logged, miscounted>>

\* The append panics when the memory has changed already; the next holder of
\* the poisoned lock recovers it as it is.  SQLite's sink panics under a mutex
\* of its own, so that every later append panics as well; PostgreSQL may have
\* stored the event although the sink sees an error.
MutateFails(r, agg, op) ==
    LET done == [req |-> r, agg |-> agg, op |-> op, audited |-> FALSE]
    IN  /\ stage[r] = "new" /\ Accepts(mem[agg], agg, op)
        /\ IF broken \cap {"sink", "file"} = {} THEN StatementFails ELSE failures' = failures
        /\ mem' = [mem EXCEPT ![agg] = Append(@, done)]
        /\ \/ trail' = trail
           \/ store = "postgres" /\ trail' = Append(trail, done)
        /\ broken' = IF store = "sqlite" THEN broken \cup {"sink"} ELSE broken
        /\ Answer(r, "failed")
        /\ UNCHANGED <<server, disk, clone, remains, restarts, store, logged, miscounted>>

(* Fault, for testing the properties: a rejected call leaves an event. *)
RejectAudited(r, agg, op) ==
    /\ stage[r] = "new"
    /\ agg \in Rosters /\ ~Accepts(mem[agg], agg, op)
    /\ trail' = Append(trail, [req |-> r, agg |-> agg, op |-> op, audited |-> TRUE])
    /\ Answer(r, "rejected")
    /\ UNCHANGED <<server, mem, disk, clone, remains, broken, failures, restarts, store,
                   logged, miscounted>>

Reject(r, agg, op) ==
    /\ stage[r] = "new"
    /\ agg \in Rosters /\ ~Accepts(mem[agg], agg, op)
    /\ Answer(r, "rejected")
    /\ UNCHANGED <<server, mutVars, disk, clone, remains, broken, failures, restarts, store,
                   logged, miscounted>>

-----------------------------------------------------------------------------
(* Steps 2 and 3: flush_to_db *)

\* clone[r] lists the aggregates collected so far, in flush order.
CloneNext(r) ==
    /\ stage[r] = "cloning"
    /\ clone' = [clone EXCEPT ![r] = Append(@, mem[FlushOrder[Len(@) + 1]])]
    /\ Answer(r, IF Len(clone'[r]) = Len(FlushOrder) THEN "cloned" ELSE "cloning")
    /\ UNCHANGED <<server, mutVars, disk, remains, broken, failures, restarts, store, pastVars>>

Cloned(r) == [agg \in Aggregates |-> clone[r][CHOOSE i \in 1..Len(FlushOrder) : FlushOrder[i] = agg]]

\* Active and deleted records share one table keyed by id: the INSERTs succeed
\* unless an id was created again after its deletion.
Recreations(log) == {m \in ToSet(log) : m.op = "Create" /\ m.req # Seed}

Storable(tables) == \A agg \in Rosters : Recreations(tables[agg]) = {}

(* Fault, for testing the properties: the crew leads are left out of sync_all. *)
SqliteSyncRosters(r) ==
    /\ store = "sqlite" /\ stage[r] = "cloned"
    /\ "store" \notin broken /\ Storable(Cloned(r))
    /\ disk' = [agg \in Aggregates |-> IF agg \in Rosters THEN {Cloned(r)[agg]} ELSE disk[agg]]
    /\ Answer(r, "flushed")
    /\ UNCHANGED <<server, mutVars, clone, remains, broken, failures, restarts, store, pastVars>>

\* SQLite: one mutex around the connection, one IMMEDIATE transaction.
SqliteSync(r) ==
    /\ store = "sqlite" /\ stage[r] = "cloned"
    /\ "store" \notin broken /\ Storable(Cloned(r))
    /\ disk' = [agg \in Aggregates |-> {Cloned(r)[agg]}]
    /\ Answer(r, "flushed")
    /\ UNCHANGED <<server, mutVars, clone, remains, broken, failures, restarts, store, pastVars>>

\* A failing statement panics and poisons the mutex, so that every later
\* sync_all panics as well.  A transaction that a violated key, or another
\* failure, leaves open keeps the file locked against the events' connection.
SqlitePanic(r) ==
    /\ store = "sqlite" /\ stage[r] = "cloned"
    /\ \/ "store" \in broken /\ broken' = broken /\ failures' = failures
       \/ /\ "store" \notin broken /\ ~Storable(Cloned(r))
          /\ broken' = broken \cup {"store", "file"} /\ failures' = failures
       \/ /\ "store" \notin broken /\ StatementFails
          /\ broken' \in {broken \cup {"store"}, broken \cup {"store", "file"}}
    /\ Answer(r, "crashed")
    /\ UNCHANGED <<server, mutVars, disk, clone, remains, restarts, store, pastVars>>

\* PostgreSQL: the transaction's first DELETE removes the leads that are in the
\* table now.  It waits for a transaction that has deleted them already.
PgBegin(r) ==
    /\ store = "postgres" /\ stage[r] = "cloned"
    /\ Answer(r, IF \E q \in Requests : stage[q] = "holding" THEN "waiting" ELSE "holding")
    /\ UNCHANGED <<server, mutVars, disk, clone, remains, broken, failures, restarts, store, pastVars>>

\* Whether r's DELETE can be through: what it waited for was committed, or undone.
Deleted(r) ==
    \/ stage[r] = "holding"
    \/ stage[r] = "waiting" /\ (remains[r] # {} \/ \A q \in Requests : stage[q] # "holding")

\* As many replacements later there need be no crew lead that is still the same.
MayShareNoLead(log, other) == Len(log) + Leads <= Len(other) \/ Len(other) + Leads <= Len(log)

\* The transaction is committed.  The leads of the transactions that overtook
\* it stay in the table, if their keys do not collide; the rosters, of which
\* each statement sees what was committed before it, are replaced.
PgWrite(r) ==
    LET leads == Cloned(r)["crew_leads"]
    IN  /\ Deleted(r) /\ Storable(Cloned(r))
        /\ \A log \in remains[r] : MayShareNoLead(log, leads)
        /\ disk' = [agg \in Aggregates |->
                      {Cloned(r)[agg]} \cup (IF agg = "crew_leads" THEN remains[r] ELSE {})]
        /\ remains' = [q \in Requests |->
                         IF q # r /\ stage[q] \in {"waiting", "holding"}
                         THEN (remains[q] \cap remains[r]) \cup {leads} ELSE {}]

PgCommit(r) ==
    /\ PgWrite(r)
    /\ Answer(r, "flushed")
    /\ UNCHANGED <<server, mutVars, clone, broken, failures, restarts, store, pastVars>>

\* Whatever error sync_all returns is logged, and the handler goes on.  It is
\* the database's if a key collides, also that of an overtaking transaction.
PgRollback(r) ==
    /\ store = "postgres" /\ stage[r] \in {"cloned", "waiting", "holding"}
    /\ \/ StatementFails
       \/ /\ stage[r] # "cloned" /\ failures' = failures
          /\ remains[r] # {} \/ ~Storable(Cloned(r))
    /\ remains' = [remains EXCEPT ![r] = {}]
    /\ logged' = logged \cup {r}
    /\ Answer(r, "flushed")
    /\ UNCHANGED <<server, mutVars, disk, clone, broken, restarts, store, overlapped, miscounted>>

\* The connection breaks after the COMMIT was sent: an error, yet committed.
PgCommitUnheard(r) ==
    /\ PgWrite(r) /\ StatementFails
    /\ logged' = logged \cup {r}
    /\ Answer(r, "flushed")
    /\ UNCHANGED <<server, mutVars, clone, broken, restarts, store, overlapped, miscounted>>

(* Fault, for testing the properties: the answer does not wait for the flush. *)
AcknowledgeEarly(r) ==
    /\ stage[r] = "cloned"
    /\ Answer(r, "acked")
    /\ UNCHANGED <<server, mutVars, disk, clone, remains, broken, failures, restarts, store, pastVars>>

\* Step 4.
Acknowledge(r) ==
    /\ stage[r] = "flushed"
    /\ Answer(r, "acked")
    /\ UNCHANGED <<server, mutVars, disk, clone, remains, broken, failures, restarts, store, pastVars>>

-----------------------------------------------------------------------------
(* Start-up *)

(* Fault, for testing the properties: the first run is told by the passengers that are active. *)
is_first_run_by_passengers(tables) ==
    \A log \in tables["passengers"] : ~IsActive(log)

is_first_run(tables) == tables["crew_leads"] = {}

\* The process dies and starts again with these aggregates in memory; requests
\* in flight get no answer.
RestartWith(aggregates, mode) ==
    /\ restarts < MaxRestarts
    /\ server' = mode
    /\ mem' = aggregates
    /\ stage' = [r \in Requests |-> IF r \in InFlight THEN "lost" ELSE stage[r]]
    /\ remains' = [r \in Requests |-> {}]
    /\ broken' = {}
    /\ restarts' = restarts + 1
    /\ UNCHANGED <<trail, disk, clone, store, logged, overlapped>>

(* Faults, for testing the properties: the start skips the crew leads; it  *)
(* bootstraps them again.                                                  *)
LoadedRosters(tables) == [agg \in Rosters |-> CHOOSE log \in tables[agg] : TRUE]
LoadedAndBootstrapped(tables) ==
    [agg \in Aggregates |-> LET log == CHOOSE log \in tables[agg] : TRUE
                            IN  IF agg = "crew_leads" THEN <<log[1]>> ELSE log]

Loaded(tables) == [agg \in Aggregates |-> CHOOSE log \in tables[agg] : TRUE]

\* CrewLeadService::restore takes as many leads, no more.
Restorable(tables) == \E log \in tables["crew_leads"] : tables["crew_leads"] = {log}

\* The aggregates are loaded from the tables, if there is something in them.
Restart ==
    /\ \/ is_first_run(disk) /\ RestartWith(Empty, "seeding")
       \/ ~is_first_run(disk) /\ Restorable(disk) /\ RestartWith(Loaded(disk), "up")
       \/ ~is_first_run(disk) /\ ~Restorable(disk) /\ RestartWith(Empty, "down")
    /\ UNCHANGED <<failures, miscounted>>

\* SQLite: a COUNT that fails counts as no rows.  (In PostgreSQL the start fails.)
RestartMiscounted ==
    /\ store = "sqlite" /\ ~is_first_run(disk) /\ StatementFails
    /\ RestartWith(Empty, "seeding")
    /\ miscounted' = TRUE

\* build_world creates the next record; its event is stored at once.
SeedNext ==
    /\ server = "seeding"
    /\ \E i \in 1..Len(FlushOrder) :
         LET agg == FlushOrder[i]
             seed == [req |-> Seed, agg |-> agg, op |-> "Create", audited |-> TRUE]
         IN  /\ \A j \in 1..Len(FlushOrder) : mem[FlushOrder[j]] = << >> <=> i <= j
             /\ mem' = [mem EXCEPT ![agg] = <<seed>>]
             /\ trail' = Append(trail, seed)
    /\ UNCHANGED <<server, disk, stage, clone, remains, broken, failures, restarts, store, pastVars>>

\* sync_all of the seeded world; then requests are accepted.
SyncSeeds ==
    /\ server = "seeding" /\ \A agg \in Aggregates : mem[agg] # << >>
    /\ disk' = [agg \in Aggregates |-> {mem[agg]}]
    /\ server' = "up"
    /\ UNCHANGED <<mutVars, stage, clone, remains, broken, failures, restarts, store, pastVars>>

-----------------------------------------------------------------------------
Init ==
    /\ server = "seeding"
    /\ mem = Empty /\ trail = << >> /\ disk = EmptyTables
    /\ stage = [r \in Requests |-> "new"]
    /\ clone = [r \in Requests |-> << >>]
    /\ remains = [r \in Requests |-> {}]
    /\ broken = {} /\ failures = 0 /\ restarts = 0
    /\ store \in Stores
    /\ logged = {} /\ overlapped = FALSE /\ miscounted = FALSE

Arrive(r) ==
    /\ server = "up" /\ Cardinality(InFlight) < MaxInFlight
    /\ overlapped' = (overlapped \/ InFlight # {})
    /\ \E call \in Calls :
         \/ Mutate(r, call[1], call[2])
         \/ MutateFails(r, call[1], call[2])
         \/ Reject(r, call[1], call[2])

Flush(r) ==
    \/ CloneNext(r)
    \/ SqliteSync(r) \/ SqlitePanic(r)
    \/ PgBegin(r) \/ PgCommit(r) \/ PgCommitUnheard(r) \/ PgRollback(r)
    \/ Acknowledge(r)

Start == SeedNext \/ SyncSeeds \/ Restart \/ RestartMiscounted

Next == (\E r \in Requests : Arrive(r) \/ Flush(r)) \/ Start

Spec == Init /\ [][Next]_vars

-----------------------------------------------------------------------------
(* Correctness *)

\* The state has its declared types.
TypeOK ==
    /\ server \in {"seeding", "up", "down"}
    /\ mem \in [Aggregates -> Seq(Mutation)]
    /\ trail \in Seq(Mutation)
    /\ disk \in [Aggregates -> SUBSET Seq(Mutation)]
    /\ stage \in [Requests -> Stages]
    /\ clone \in [Requests -> Seq(Seq(Mutation))]
    /\ \A r \in Requests : Len(clone[r]) <= Len(FlushOrder)
    /\ remains \in [Requests -> SUBSET Seq(Mutation)]
    /\ broken \subseteq {"store", "sink", "file"}
    /\ failures \in 0..MaxFailures /\ restarts \in 0..MaxRestarts
    /\ store \in Stores
    /\ logged \subseteq Requests /\ overlapped \in BOOLEAN /\ miscounted \in BOOLEAN

\* "Atomically replace all three entity tables": what a restart would bring
\* back was done by requests, in that order.  Each table holds an earlier state
\* of the memory, and only the one of the crew leads may hold several, merged by
\* requests that overlapped.
DiskIsPastMemory ==
    server = "up" =>
      \A agg \in Aggregates :
        /\ \A log \in disk[agg] : IsPrefix(log, mem[agg])
        /\ (agg \in Rosters \/ ~overlapped) => \E log \in disk[agg] : disk[agg] = {log}

\* The mutation has its event, or its request ended without an answer.
Accounted(m) ==
    m \in ToSet(trail) \/ (~m.audited /\ m.req \in {r \in Requests : stage[r] = "failed"})

\* AU-R1: what is persisted is in the audit trail, although one request may
\* flush the mutation of another before that one flushes.  What lacks its event
\* was done by a request whose client never got an answer.
PersistedIsAudited ==
    \A agg \in Aggregates : \A log \in disk[agg] : \A m \in ToSet(log) : Accounted(m)

\* What a log says was done, and audited, to an aggregate, in the order of the log.
DoneTo(agg, log) ==
    FoldLeft(LAMBDA done, m : IF m.agg = agg /\ m.audited THEN Append(done, m) ELSE done,
             << >>, log)

\* Until the process is killed the trail and the memory agree, aggregate by
\* aggregate and in their order, on everything but the failed requests.
TrailMatchesMemory ==
    restarts = 0 => \A agg \in Aggregates : DoneTo(agg, trail) = DoneTo(agg, mem[agg])

Durable(m) == \E log \in disk[m.agg] : m \in ToSet(log)

\* A mutation answered with a 2xx survives a restart.  (Does not hold of
\* requests in flight together: an older clone may be written last.  Nor of
\* PostgreSQL's errors, which are answered with a 2xx.)
AckedIsDurable ==
    \A i \in DOMAIN trail :
        trail[i].req # Seed /\ stage[trail[i].req] = "acked" => Durable(trail[i])

\* Requests that never overlapped, on a database whose rows were never overlooked.
Serial == ~overlapped /\ ~miscounted

\* Requests handled one after the other are durable once acknowledged, unless
\* the error of their flush was logged, wherever between two of their steps the
\* process is killed and whatever fails later.
SerialAckIsDurable ==
    Serial => \A i \in DOMAIN trail :
        /\ trail[i].req \in Requests \ logged
        /\ stage[trail[i].req] = "acked"
        => Durable(trail[i])

\* Requests that ended without their mutation written.
Unsaved == logged \cup {r \in Requests : stage[r] \in {"failed", "crashed"}}

\* After such requests each table is the memory as soon as nothing is in flight,
\* also right after a restart, or else the last to change that aggregate failed.
SerialDiskIsCurrent ==
    Serial /\ InFlight = {} /\ server = "up" =>
      \A agg \in Aggregates : disk[agg] = {mem[agg]} \/ Last(mem[agg]).req \in Unsaved

\* "On subsequent runs: restores entity state from the database without
\* re-seeding": however often the first run is killed, the trail has no seed
\* behind the first mutation of a request, unless the COUNT has failed.
SeedsComeFirst ==
    ~miscounted => \A i, j \in DOMAIN trail : i < j /\ trail[j].req = Seed => trail[i].req = Seed

-----------------------------------------------------------------------------
(* A claim that does not hold *)

\* PS-R6, RS: creating an id again after its deletion is a legal call, and it
\* takes no later request down.  (Does not hold with SQLite.)
NoHandlerPanics == \A r \in Requests : stage[r] \notin {"failed", "crashed"}
=============================================================================
