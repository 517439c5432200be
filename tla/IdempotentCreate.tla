--------------------------- MODULE IdempotentCreate ---------------------------
(***************************************************************************)
(* POST with an Idempotency-Key (create_passenger and create_resource of   *)
(* src/interface/http.rs), as several attempts of clients that retry, in   *)
(* sequence or while the first attempt is still being handled.             *)
(*                                                                         *)
(* A handler looks the key up in the cache, creates the record under the   *)
(* aggregate's write lock, flushes, stores its answer in the cache and     *)
(* answers.  Nothing ties these steps together.  One cache, in memory,     *)
(* serves both endpoints, and its entries expire.  An answer's body is the *)
(* creation it reports: the position of its event in the trail.  Module    *)
(* Serve runs the handlers in a server that is shut down and started       *)
(* again.                                                                  *)
(*                                                                         *)
(* Of the two rosters only the ids that are active count here, as in       *)
(* module AuditedDirectory, which the services implement.  Actor ids and   *)
(* keys are strings that may hold colons; they are written as the lists of *)
(* their segments, so that joining two strings by a colon is to            *)
(* concatenate the lists.                                                  *)
(***************************************************************************)
EXTENDS Naturals, Sequences, FiniteSets

CONSTANTS
    Segments,      \* what actor ids and keys have between their colons
    ActorIds,      \* the crew leads that create records
    Ids,           \* the ids of passengers and of resources
    Attempts,      \* the POSTs that reach the server, retries included
    Request,       \* Request[a]: its actor, its key (or NoKey), endpoint and id
    MaxFailures    \* bound: SQL statements that fail of themselves

NoKey == << >>

Strings == Seq(Segments) \ {<< >>}

Kinds == {"Passenger", "Resource"}

ASSUME ActorsAssumption == ActorIds \subseteq Strings
ASSUME RequestAssumption ==
    \A a \in Attempts : Request[a] \in [actor : ActorIds, key : Strings \cup {NoKey},
                                        kind : Kinds, id : Ids]
ASSUME MaxFailuresAssumption == MaxFailures \in Nat

VARIABLES
    listed,     \* the active records of both rosters: pairs of kind and id
    trail,      \* the admin events, oldest first
    cache,      \* the idempotency cache: scoped key -> the creation it answers with
    stage,      \* how far each attempt, or its handler, got
    made,       \* the creation an attempt made, or NoCreation
    answers,    \* the answers received by clients, in order
    durable,    \* whether there is a SQLite store; never changes
    jammed,     \* "admin", "entity": mutexes of connections poisoned by a panic
    failures,   \* SQL statements that failed of themselves so far
    disturbed   \* history: <<key, cause>>, what happened to a key or its entry

recordVars == <<listed, trail>>
storeVars == <<durable, jammed, failures>>
postVars == <<recordVars, cache, stage, made, answers, storeVars, disturbed>>

NoCreation == 0

Event(action, kind, id, actor) ==
    [action |-> action, kind |-> kind, target |-> id, actor |-> actor]

(* Fault, for testing the properties: the key is not scoped by the actor. *)
UnscopedKey(a) == Request[a].key

\* format!("{actor_id}:{k}")
ScopedKey(a) == Request[a].actor \o Request[a].key

Keyed(a) == Request[a].key # NoKey

Siblings(a) == {b \in Attempts : Keyed(b) /\ ScopedKey(b) = ScopedKey(a)}

Target(a) == <<Request[a].kind, Request[a].id>>

\* An answer, with whether the key's request had been carried out by then.
Received(a, status, creation) ==
    [attempt |-> a, status |-> status, creation |-> creation,
     done |-> Keyed(a) /\ \E b \in Siblings(a) : made[b] # NoCreation]

Respond(a, status, creation) ==
    /\ answers' = Append(answers, Received(a, status, creation))
    /\ stage' = [stage EXCEPT ![a] = "answered"]

-----------------------------------------------------------------------------
(* The handler *)

\* idempotency_get, hit: the cached 201, and nothing else happens.
Replay(a) ==
    /\ stage[a] = "sent"
    /\ Keyed(a) /\ ScopedKey(a) \in DOMAIN cache
    /\ Respond(a, 201, cache[ScopedKey(a)])
    /\ UNCHANGED <<recordVars, cache, made, storeVars, disturbed>>

Disturb(a, cause) ==
    disturbed' = IF Keyed(a) THEN disturbed \cup {<<ScopedKey(a), cause>>} ELSE disturbed

\* idempotency_get, miss.
Miss(a) ==
    /\ stage[a] = "sent"
    /\ Keyed(a) => ScopedKey(a) \notin DOMAIN cache
    /\ stage' = [stage EXCEPT ![a] = "missed"]
    /\ IF \E b \in Siblings(a) : stage[b] \in {"missed", "created"}
       THEN Disturb(a, "overlap") ELSE UNCHANGED disturbed
    /\ UNCHANGED <<recordVars, cache, made, answers, storeVars>>

\* The service call fails: the 409 is answered and not cached.
Conflict(a) ==
    /\ stage[a] = "missed" /\ Target(a) \in listed
    /\ Respond(a, 409, NoCreation)
    /\ UNCHANGED <<recordVars, cache, made, storeVars, disturbed>>

\* The service call succeeds: the record is listed and its event stored.
CreateRecord(a) ==
    /\ stage[a] = "missed" /\ Target(a) \notin listed /\ "admin" \notin jammed
    /\ listed' = listed \cup {Target(a)}
    /\ trail' = Append(trail, Event("Created", Request[a].kind, Request[a].id, Request[a].actor))
    /\ made' = [made EXCEPT ![a] = Len(trail')]
    /\ stage' = [stage EXCEPT ![a] = "created"]
    /\ UNCHANGED <<cache, answers, storeVars, disturbed>>

\* A statement on a connection fails, of itself or after an earlier panic.  The
\* handler panics with the mutex of the connection held, and its client's
\* connection is closed without an answer.
StatementFails(a, connection, afterPanic) ==
    /\ durable
    /\ \/ failures < MaxFailures /\ failures' = failures + 1
       \/ afterPanic /\ UNCHANGED failures
    /\ jammed' = jammed \cup {connection}
    /\ stage' = [stage EXCEPT ![a] = "dropped"]
    /\ Disturb(a, "panic")
    /\ UNCHANGED <<cache, made, answers, durable>>

\* The INSERT of the event, after the record was listed.  A sync_all that has
\* panicked may have left its transaction open and the database locked.
EmitPanics(a) ==
    /\ stage[a] = "missed" /\ Target(a) \notin listed
    /\ StatementFails(a, "admin", jammed # {})
    /\ listed' = listed \cup {Target(a)}
    /\ UNCHANGED trail

\* flush_to_db: an expect of sync_all.
FlushPanics(a) ==
    /\ stage[a] = "created"
    /\ StatementFails(a, "entity", "entity" \in jammed)
    /\ UNCHANGED recordVars

(* Fault, for testing the properties: the answer is not put into the cache. *)
FinishUncached(a) ==
    /\ stage[a] = "created" /\ "entity" \notin jammed
    /\ Respond(a, 201, made[a])
    /\ UNCHANGED <<recordVars, cache, made, storeVars, disturbed>>

\* idempotency_put, which overwrites.
Keep(a) ==
    cache' = IF Keyed(a)
             THEN [key \in DOMAIN cache \cup {ScopedKey(a)} |->
                      IF key = ScopedKey(a) THEN made[a] ELSE cache[key]]
             ELSE cache

\* After the flush.
Finish(a) ==
    /\ stage[a] = "created" /\ "entity" \notin jammed
    /\ Keep(a)
    /\ Respond(a, 201, made[a])
    /\ UNCHANGED <<recordVars, made, storeVars, disturbed>>

Handle(a) ==
    \/ Replay(a) \/ Miss(a) \/ Conflict(a)
    \/ CreateRecord(a) \/ EmitPanics(a)
    \/ FlushPanics(a) \/ Finish(a)

\* The entry's ten minutes are over; retain drops it at the next lookup.
Expire(key) ==
    /\ key \in DOMAIN cache
    /\ cache' = [k \in DOMAIN cache \ {key} |-> cache[k]]
    /\ disturbed' = disturbed \cup {<<key, "expired">>}
    /\ UNCHANGED <<recordVars, stage, made, answers, storeVars>>

-----------------------------------------------------------------------------
(* Correctness *)

Causes(a) ==
    {cause \in {"overlap", "expired", "restart", "panic"} : <<ScopedKey(a), cause>> \in disturbed}

\* The actor's id has no colon.
Plain(a) == Len(Request[a].actor) = 1

\* A 201, fresh or replayed, reports a creation that was really made, by an
\* attempt with the same scoped key; among actors without a colon in their ids
\* that is one of the actor who asked: nobody receives another's answer.
AnswersAreOwn ==
    \A i \in DOMAIN answers :
        LET ans == answers[i] IN
        ans.status = 201 =>
            /\ trail[ans.creation].action = "Created"
            /\ \E b \in Siblings(ans.attempt) \cup {ans.attempt} :
                  /\ made[b] = ans.creation
                  /\ trail[ans.creation].actor = Request[b].actor
                  /\ Plain(b) /\ Plain(ans.attempt) =>
                        Request[b].actor = Request[ans.attempt].actor

\* As long as a key's attempts do not overlap, none of them panics and its entry
\* is kept, its request is carried out at most once, every 201 reports that one
\* creation, and no attempt after it is told 409; deletions in between change
\* nothing.
KeptKeyIsExactlyOnce ==
    \A a \in Attempts :
        (Keyed(a) /\ Causes(a) = {}) =>
            /\ Cardinality({b \in Siblings(a) : made[b] # NoCreation}) <= 1
            /\ \A i \in DOMAIN answers :
                 answers[i].attempt \in Siblings(a) =>
                     /\ answers[i].status = 409 => ~answers[i].done
                     /\ answers[i].status = 201 =>
                          \A b \in Siblings(a) :
                              made[b] # NoCreation => made[b] = answers[i].creation
=============================================================================
