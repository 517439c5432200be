----------------------------- MODULE WorldLocks -----------------------------
(***************************************************************************)
(* The five RwLocks of WorldShards (src/interface/http.rs) and the order   *)
(* in which every handler takes them, on a fixed number of worker threads. *)
(* A handler is one poll without an await: it keeps its thread from its    *)
(* first lock to its end, also while it waits for a lock.  A script        *)
(* lists its phases: the guards a phase takes, in the order of the code,   *)
(* and the work done under all of them; the guards are dropped in reverse  *)
(* order when their block ends, or while a panic unwinds.                  *)
(*                                                                         *)
(* What the aggregates hold is left out (Prms has it); an aggregate is     *)
(* only the number of times POST /reset has replaced it.                   *)
(***************************************************************************)
EXTENDS Naturals, Sequences, FiniteSets

CONSTANTS
    Requests,      \* the requests that arrive
    Plans,         \* which handlers they may be for: a set of functions
    Workers,       \* worker threads of the tokio runtime
    Store,         \* the entity store: "memory", "sqlite" or "postgres"
    MaxFailures    \* bound: calls to the store that fail of themselves

ASSUME WorkersAssumption == Workers \in Nat \ {0}
ASSUME StoreAssumption == Store \in {"memory", "sqlite", "postgres"}
ASSUME MaxFailuresAssumption == MaxFailures \in Nat

\* The locks, by their place in the documented order of acquisition.
crew_leads == 1
passengers == 2
resources  == 3
access     == 4
audit_sink == 5
Locks == 1..5

-----------------------------------------------------------------------------
(* The handlers *)

Read(l) == [lock |-> l, mode |-> "read"]
Write(l) == [lock |-> l, mode |-> "write"]
Phase(take, work) == [take |-> take, work |-> work]

View(l) == <<Phase(<<Read(l)>>, "view")>>

(* Fault, for testing the properties: the flush begins under the write lock. *)
MutationFlushingInside(l) ==
    <<Phase(<<Write(l)>> \o <<Read(crew_leads), Read(passengers), Read(resources)>>, "mutate"),
      Phase(<< >>, "sync")>>

\* flush_to_db: clones under three brief read locks, then one transaction.
flush_to_db ==
    IF Store = "memory" THEN << >>
    ELSE <<Phase(<<Read(crew_leads)>>, "clone"), Phase(<<Read(passengers)>>, "clone"),
           Phase(<<Read(resources)>>, "clone"), Phase(<< >>, "sync")>>

\* A service call under the aggregate's write lock, which ends before the flush.
Mutation(l) == <<Phase(<<Write(l)>>, "mutate")>> \o flush_to_db

list_crew_leads == View(crew_leads)
add_crew_lead == Mutation(crew_leads)
replace_crew_lead == Mutation(crew_leads)
remove_crew_lead == Mutation(crew_leads)
list_passengers == View(passengers)
get_passenger == View(passengers)
create_passenger == Mutation(passengers)
change_passenger_tier == Mutation(passengers)
soft_delete_passenger == Mutation(passengers)
list_resources == View(resources)
get_resource == View(resources)
list_accessible_resources == View(resources)
create_resource == Mutation(resources)
change_resource_min_tier == Mutation(resources)
soft_delete_resource == Mutation(resources)
list_usage_events == View(access)
report_by_tier == View(access)
report_top_resources == View(access)
report_personal_history == View(access)
list_admin_events == <<Phase(<<Read(audit_sink)>>, "snapshot")>>
verify_audit_chain == <<Phase(<<Read(audit_sink)>>, "snapshot")>>

(* Fault, for testing the properties: the lock to be written is taken first. *)
use_resource_access_first ==
    <<Phase(<<Write(access), Read(passengers), Read(resources)>>, "use")>>

use_resource == <<Phase(<<Read(passengers), Read(resources), Write(access)>>, "use")>>

(* Fault, for testing the properties: one aggregate is replaced after another. *)
reset_world_one_by_one ==
    <<Phase(<<Read(crew_leads)>>, "gate")>>
        \o [l \in Locks |-> Phase(<<Write(l)>>, "replace")] \o flush_to_db

\* The gate's read lock is released before the five write locks.
reset_world ==
    <<Phase(<<Read(crew_leads)>>, "gate"),
      Phase(<<Write(crew_leads), Write(passengers), Write(resources), Write(access),
              Write(audit_sink)>>, "replace")>> \o flush_to_db

(* Fault, for testing the properties: poisoned locks are entered, not reported. *)
health_ready_recovering ==
    <<Phase(<< >>, "ping"), Phase(<<Read(crew_leads)>>, "view"),
      Phase(<<Read(passengers)>>, "view"), Phase(<<Read(resources)>>, "view"),
      Phase(<<Read(access)>>, "view"), Phase(<<Read(audit_sink)>>, "count")>>

health_ready ==
    (IF Store = "memory" THEN << >> ELSE <<Phase(<< >>, "ping")>>)
        \o [l \in Locks |-> Phase(<<Read(l)>>, "count")]

metrics ==
    <<Phase(<<Read(crew_leads)>>, "view"), Phase(<<Read(passengers)>>, "view"),
      Phase(<<Read(resources)>>, "view"), Phase(<<Read(audit_sink)>>, "snapshot"),
      Phase(<<Read(access)>>, "view")>>

\* The router: one handler per endpoint.
Script ==
    [list_crew_leads |-> list_crew_leads, add_crew_lead |-> add_crew_lead,
     replace_crew_lead |-> replace_crew_lead, remove_crew_lead |-> remove_crew_lead,
     list_passengers |-> list_passengers, get_passenger |-> get_passenger,
     create_passenger |-> create_passenger,
     change_passenger_tier |-> change_passenger_tier,
     soft_delete_passenger |-> soft_delete_passenger,
     list_resources |-> list_resources, get_resource |-> get_resource,
     list_accessible_resources |-> list_accessible_resources,
     create_resource |-> create_resource,
     change_resource_min_tier |-> change_resource_min_tier,
     soft_delete_resource |-> soft_delete_resource,
     use_resource |-> use_resource, list_usage_events |-> list_usage_events,
     report_by_tier |-> report_by_tier, report_top_resources |-> report_top_resources,
     report_personal_history |-> report_personal_history,
     list_admin_events |-> list_admin_events, verify_audit_chain |-> verify_audit_chain,
     health_ready |-> health_ready, metrics |-> metrics, reset_world |-> reset_world]

Handlers == DOMAIN Script

ASSUME PlansAssumption == Plans \subseteq [Requests -> Handlers]

-----------------------------------------------------------------------------
VARIABLES
    plan,      \* which handler each request is for
    stage,     \* "queued", "taking" guards, "storing", "leaving", "ended"
    phase,     \* the phase of its script a request is in
    taken,     \* how many of the phase's guards it holds: the first ones
    result,    \* its answer, "none" until it is known; "panicked": there is none
    handedOff, \* requests that gave up their worker thread (block_in_place)
    barred,    \* locks that somebody waits for: new readers wait as well
    poisoned,  \* locks whose writer has panicked
    broken,    \* mutexes of the SQLite connections whose holder has panicked
    failures,  \* calls to the store that failed of themselves so far
    world,     \* how often each aggregate has been replaced
    alarmed    \* history: requests that began after another one had panicked

control == <<stage, phase, taken, result, handedOff>>
vars == <<plan, control, barred, poisoned, broken, failures, world, alarmed>>

Results == {"none", "ok", "refused", "unready", "panicked"}

\* The mutex around the connection that each kind of work uses.
Connection(work) ==
    IF work \in {"mutate", "snapshot"} THEN "admin"
    ELSE IF work = "use" THEN "usage" ELSE "entity"

Now(r) == Script[plan[r]][phase[r]]

Guards(r) == {Now(r).take[i] : i \in 1..taken[r]}

Holders(l) == {r \in Requests : \E g \in Guards(r) : g.lock = l}

HasWriter(l) == \E r \in Requests : Write(l) \in Guards(r)

Wants(r) == stage[r] = "taking" /\ taken[r] < Len(Now(r).take)

Wanted(r) == Now(r).take[taken[r] + 1]

\* RwLock: a writer needs the lock for itself; a reader is not let in while
\* somebody writes or waits.
Granted(g) ==
    IF g.mode = "write" THEN Holders(g.lock) = {}
    ELSE ~HasWriter(g.lock) /\ g.lock \notin barred

OnWorker(r) == stage[r] \notin {"queued", "ended"} /\ r \notin handedOff

IdleWorker == Cardinality({r \in Requests : OnWorker(r)}) < Workers

\* The aggregates that POST /reset puts in place have in-memory sinks, also
\* when there is a store.
Stored(r) ==
    /\ Store # "memory"
    /\ \A g \in Guards(r) : g.mode = "write" => world[g.lock] = 0

-----------------------------------------------------------------------------
(* Steps *)

\* A worker polls the handler.
Start(r) ==
    /\ stage[r] = "queued" /\ IdleWorker
    /\ stage' = [stage EXCEPT ![r] = "taking"]
    /\ phase' = [phase EXCEPT ![r] = 1]
    /\ alarmed' = IF \E q \in Requests : stage[q] = "ended" /\ result[q] = "panicked"
                  THEN alarmed \cup {r} ELSE alarmed
    /\ UNCHANGED <<plan, taken, result, handedOff, barred, poisoned, broken, failures, world>>

Take(r) ==
    /\ Wants(r) /\ Granted(Wanted(r))
    /\ taken' = [taken EXCEPT ![r] = @ + 1]
    /\ UNCHANGED <<plan, stage, phase, result, handedOff, barred, poisoned, broken, failures,
                   world, alarmed>>

\* The thread sleeps until the lock is released.
Await(r) ==
    /\ Wants(r) /\ ~Granted(Wanted(r)) /\ Wanted(r).lock \notin barred
    /\ barred' = barred \cup {Wanted(r).lock}
    /\ UNCHANGED <<plan, control, poisoned, broken, failures, world, alarmed>>

At(r, works) ==
    /\ stage[r] = "taking" /\ taken[r] = Len(Now(r).take)
    /\ Now(r).work \in works

\* The work of the phase is over; with an answer, so is the request.
Leave(r, answer) ==
    /\ stage' = [stage EXCEPT ![r] = "leaving"]
    /\ result' = [result EXCEPT ![r] = answer]
    /\ UNCHANGED <<plan, phase, taken, barred, alarmed>>

\* Unwinding poisons the locks whose write guard it drops.
Panic(r) ==
    /\ Leave(r, "panicked")
    /\ poisoned' = poisoned \cup {g.lock : g \in {x \in Guards(r) : x.mode = "write"}}

Look(r) ==
    /\ At(r, {"view", "clone"})
    /\ Leave(r, "none")
    /\ UNCHANGED <<handedOff, poisoned, broken, failures, world>>

\* The SQLite sink clones its cache under the mutex of its connection.
SnapshotPanics(r) ==
    Read(audit_sink) \in Guards(r) /\ world[audit_sink] = 0 /\ "admin" \in broken

Snapshot(r) ==
    /\ At(r, {"snapshot"})
    /\ IF SnapshotPanics(r) THEN Panic(r) ELSE Leave(r, "none") /\ UNCHANGED poisoned
    /\ UNCHANGED <<handedOff, broken, failures, world>>

\* read_or_503!, and the length of what is under the lock.
Count(r) ==
    /\ At(r, {"count"})
    /\ IF \E g \in Guards(r) : g.lock \in poisoned
       THEN Leave(r, "unready") /\ UNCHANGED poisoned
       ELSE IF SnapshotPanics(r) THEN Panic(r) ELSE Leave(r, "none") /\ UNCHANGED poisoned
    /\ UNCHANGED <<handedOff, broken, failures, world>>

\* 403 unless the caller is a crew lead.
Gate(r) ==
    /\ At(r, {"gate"})
    /\ \E answer \in {"none", "refused"} : Leave(r, answer)
    /\ UNCHANGED <<handedOff, poisoned, broken, failures, world>>

\* One of the assignments *cl = new_cl, *pax = new_pax, ...: the first of the
\* aggregates that are not replaced yet.
Replace(r) ==
    LET writing == {g.lock : g \in Guards(r)}
        last == CHOOSE l \in writing : \A m \in writing : m <= l
        next == CHOOSE l \in writing :
                  /\ world[l] = world[last]
                  /\ \A m \in writing : m < l => world[m] # world[last]
    IN  /\ At(r, {"replace"})
        /\ world' = [world EXCEPT ![next] = @ + 1]
        /\ IF next = last THEN Leave(r, "none")
           ELSE UNCHANGED <<plan, stage, phase, taken, result, barred, alarmed>>
        /\ UNCHANGED <<handedOff, poisoned, broken, failures>>

\* The service returns an error, or If-Match does not match.
Refuse(r) ==
    /\ At(r, {"mutate", "use"})
    /\ Leave(r, "refused")
    /\ UNCHANGED <<handedOff, poisoned, broken, failures, world>>

\* The service changes its aggregate and the event goes to an in-memory sink.
Record(r) ==
    /\ At(r, {"mutate", "use"}) /\ ~Stored(r)
    /\ Leave(r, "none")
    /\ UNCHANGED <<handedOff, poisoned, broken, failures, world>>

\* The event's INSERT, sync_all or the ping.  With PostgreSQL it is awaited in
\* block_in_place, which hands the worker thread's tasks to another thread.
CallStore(r) ==
    /\ At(r, {"mutate", "use", "sync", "ping"}) /\ Stored(r)
    /\ stage' = [stage EXCEPT ![r] = "storing"]
    /\ handedOff' = IF Store = "postgres" THEN handedOff \cup {r} ELSE handedOff
    /\ UNCHANGED <<plan, phase, taken, result, barred, poisoned, broken, failures, world, alarmed>>

\* A PostgreSQL answer arrives only if a worker has nothing to run: idle
\* workers drive the sockets and the timers.
StoreAnswers(r) == stage[r] = "storing" /\ (Store = "postgres" => IdleWorker)

StoreSucceeds(r) ==
    /\ StoreAnswers(r) /\ Connection(Now(r).work) \notin broken
    /\ Leave(r, "none")
    /\ UNCHANGED <<handedOff, poisoned, broken, failures, world>>

\* The event sinks and the SQLite store expect success, and panic with the
\* mutex of their connection held.
StorePanics(r) ==
    /\ Now(r).work \in (IF Store = "sqlite" THEN {"mutate", "use", "sync"} ELSE {"mutate", "use"})
    /\ Panic(r)
    /\ broken' = IF Store = "sqlite" THEN broken \cup {Connection(Now(r).work)} ELSE broken

\* A failed ping is a 503, a failed PostgreSQL flush is logged.
StoreRefuses(r) ==
    /\ Now(r).work \in (IF Store = "postgres" THEN {"ping", "sync"} ELSE {"ping"})
    /\ Leave(r, IF Now(r).work = "ping" THEN "unready" ELSE "none")
    /\ UNCHANGED <<poisoned, broken>>

StoreFails(r) ==
    /\ StoreAnswers(r) /\ Connection(Now(r).work) \notin broken
    /\ failures < MaxFailures /\ failures' = failures + 1
    /\ StorePanics(r) \/ StoreRefuses(r)
    /\ UNCHANGED <<handedOff, world>>

\* expect("... mutex poisoned")
StoreIsBroken(r) ==
    /\ StoreAnswers(r) /\ Connection(Now(r).work) \in broken
    /\ Panic(r)
    /\ UNCHANGED <<handedOff, broken, failures, world>>

\* Guards are dropped in the reverse order; the last one wakes who waits.
Drop(r) ==
    LET g == Now(r).take[taken[r]] IN
    /\ stage[r] = "leaving" /\ taken[r] > 0
    /\ taken' = [taken EXCEPT ![r] = @ - 1]
    /\ barred' = IF Holders(g.lock) = {r} THEN barred \ {g.lock} ELSE barred
    /\ UNCHANGED <<plan, stage, phase, result, handedOff, poisoned, broken, failures, world,
                   alarmed>>

\* To the next phase, or to the end: the answer, or the connection that is
\* dropped without one when the panic has unwound.
Proceed(r) ==
    /\ stage[r] = "leaving" /\ taken[r] = 0
    /\ IF result[r] = "none" /\ phase[r] < Len(Script[plan[r]])
       THEN /\ stage' = [stage EXCEPT ![r] = "taking"]
            /\ phase' = [phase EXCEPT ![r] = @ + 1]
            /\ UNCHANGED result
       ELSE /\ stage' = [stage EXCEPT ![r] = "ended"]
            /\ result' = [result EXCEPT ![r] = IF @ = "none" THEN "ok" ELSE @]
            /\ UNCHANGED phase
    /\ UNCHANGED <<plan, taken, handedOff, barred, poisoned, broken, failures, world, alarmed>>

-----------------------------------------------------------------------------
Init ==
    /\ plan \in Plans
    /\ stage = [r \in Requests |-> "queued"]
    /\ phase = [r \in Requests |-> 0]
    /\ taken = [r \in Requests |-> 0]
    /\ result = [r \in Requests |-> "none"]
    /\ handedOff = {} /\ barred = {} /\ poisoned = {} /\ broken = {}
    /\ failures = 0
    /\ world = [l \in Locks |-> 0]
    /\ alarmed = {}

Work(r) ==
    \/ Look(r) \/ Count(r) \/ Snapshot(r) \/ Gate(r) \/ Replace(r)
    \/ Refuse(r) \/ Record(r) \/ CallStore(r)

Step(r) ==
    \/ Start(r) \/ Take(r) \/ Await(r) \/ Work(r)
    \/ StoreSucceeds(r) \/ StoreFails(r) \/ StoreIsBroken(r)
    \/ Drop(r) \/ Proceed(r)

AllEnded == \A r \in Requests : stage[r] = "ended"

\* The server is idle.
Idle == AllEnded /\ UNCHANGED vars

Next == (\E r \in Requests : Step(r)) \/ Idle

\* As long as some request can take a step, some request takes one: threads that
\* can run are run, a released lock is given on, and the store answers.  Requests
\* are finite, so nothing is assumed about which one goes first.
Fairness == WF_vars(\E r \in Requests : Step(r))

Spec == Init /\ [][Next]_vars

FairSpec == Spec /\ Fairness

-----------------------------------------------------------------------------
(* Correctness *)

\* The state has its declared types.
LocksTypeOK ==
    /\ plan \in [Requests -> Handlers]
    /\ stage \in [Requests -> {"queued", "taking", "storing", "leaving", "ended"}]
    /\ phase \in [Requests -> Nat] /\ taken \in [Requests -> Nat]
    /\ \A r \in Requests :
         IF stage[r] = "queued" THEN phase[r] = 0 /\ taken[r] = 0
         ELSE /\ phase[r] \in 1..Len(Script[plan[r]])
              /\ taken[r] \in 0..Len(Now(r).take)
    /\ result \in [Requests -> Results]
    /\ handedOff \subseteq Requests
    /\ barred \subseteq Locks /\ poisoned \subseteq Locks
    /\ broken \subseteq {"admin", "usage", "entity"}
    /\ failures \in 0..MaxFailures
    /\ world \in [Locks -> Nat]
    /\ alarmed \subseteq Requests

Waits(r) == Wants(r) /\ ~Granted(Wanted(r))

Handled(r) == stage[r] \notin {"queued", "ended"}

\* "Lock acquisition order (prevents deadlocks when multiple locks are needed
\* simultaneously, e.g. use_resource and reset_world)": whatever requests are
\* being handled, and whoever waits between them, one of them does not wait
\* for a lock.
SomebodyRuns ==
    (\E r \in Requests : Handled(r)) => \E r \in Requests : Handled(r) /\ ~Waits(r)

\* POST /reset replaces the aggregates atomically: the aggregates a POST
\* /access reads and writes belong to one world, from its first guard to its
\* last, also when it waits between two guards while a reset is under way.
AccessSeesOneWorld ==
    \A r \in Requests :
        plan[r] = "use_resource" =>
            \A g, h \in Guards(r) : world[g.lock] = world[h.lock]

\* GET /health/ready detects early that a handler has panicked: it does not say
\* "ready" when that was before it began, whichever lock or connection the
\* panic left behind, and although /reset has replaced what is under the lock.
ReadyMeansNoPanicBefore ==
    \A r \in Requests : plan[r] = "health_ready" /\ result[r] = "ok" => r \notin alarmed

\* Every request comes to its end, also after others have panicked; and it is
\* answered, unless some call to the store has failed: a handler that panics
\* drops its connection without an answer.
EveryRequestEnds ==
    <>(AllEnded /\ (failures = 0 => \A r \in Requests : result[r] # "panicked"))
=============================================================================
