--------------------------- MODULE ConditionalEdit ---------------------------
(***************************************************************************)
(* Optimistic concurrency: GET answers with the record's version as ETag,  *)
(* PATCH and DELETE take it back as If-Match (get_passenger,               *)
(* change_passenger_tier, soft_delete_passenger of                         *)
(* src/interface/http.rs; the resource handlers are the same).  Clients    *)
(* read, and edit some time later; others create, edit and delete without  *)
(* a condition in between.  Precondition and edit are one step: both are   *)
(* under the aggregate's write lock.                                       *)
(***************************************************************************)
EXTENDS EntityRoster

CONSTANTS Clients   \* the crew leads that edit conditionally

ASSUME ClientsAssumption == Clients \subseteq ActorIds

VARIABLES
    held,     \* the ETag each client holds: [id, version] or NoTag
    seen,     \* history: the length of the trail when the client got it
    answer    \* the last answer of each client's conditional edit, with the
              \* events of that id (history) that it was not told about

editVars == <<held, seen, answer>>
allVars == <<vars, editVars>>

NoTag == [id |-> "none", version |-> 0]

AsLead(client) == [role |-> "CrewLead", id |-> client]

NoAnswer == [status |-> 0, missed |-> {}]

-----------------------------------------------------------------------------
(* The handlers *)

(* Fault, for testing the properties: the ETag counts versions from 1. *)
ETagFromOne(id) == [id |-> id, version |-> Get(id).version + 1]

ETag(id) == [id |-> id, version |-> Get(id).version]

GetRecord(client, id) ==
    /\ IsKnown(id)
    /\ held' = [held EXCEPT ![client] = ETag(id)]
    /\ seen' = [seen EXCEPT ![client] = Len(trail)]
    /\ UNCHANGED <<vars, answer>>

\* The check of If-Match is against get(), which also finds deleted records.
PreconditionFails(tag) == IsKnown(tag.id) /\ Get(tag.id).version # tag.version

EventsSince(id, n) == {k \in EventsOf(id) : k > n}

Missed(client) == {trail[k] : k \in EventsSince(held[client].id, seen[client])}

Tell(client, status) ==
    /\ answer' = [answer EXCEPT ![client] = [status |-> status, missed |-> Missed(client)]]
    /\ held' = [held EXCEPT ![client] = NoTag]
    /\ seen' = [seen EXCEPT ![client] = 0]

\* 412: the version is another one.
EditRefused(client) ==
    /\ held[client] # NoTag
    /\ PreconditionFails(held[client])
    /\ Tell(client, 412)
    /\ UNCHANGED vars

\* 404: the version matches that of a deleted record.
EditNotFound(client) ==
    /\ held[client] # NoTag
    /\ ~PreconditionFails(held[client])
    /\ EditOutcome(AsLead(client), held[client].id) = "NotFound"
    /\ Tell(client, 404)
    /\ UNCHANGED vars

\* 204: PATCH /tier or DELETE.
EditDone(client) ==
    /\ held[client] # NoTag
    /\ ~PreconditionFails(held[client])
    /\ \/ \E level \in Levels : ChangeLevel(AsLead(client), held[client].id, level)
       \/ SoftDelete(AsLead(client), held[client].id)
    /\ Tell(client, 204)

\* A request without If-Match.
Unconditional(actor, id) == Call(actor, id) /\ UNCHANGED editVars

-----------------------------------------------------------------------------
EditInit ==
    /\ Init
    /\ held = [c \in Clients |-> NoTag]
    /\ seen = [c \in Clients |-> 0]
    /\ answer = [c \in Clients |-> NoAnswer]

EditNext ==
    \/ \E c \in Clients :
          \/ \E id \in Ids : GetRecord(c, id)
          \/ EditRefused(c) \/ EditNotFound(c)
          \/ Len(trail) < MaxEvents /\ EditDone(c)
    \/ /\ Len(trail) < MaxEvents
       /\ \E actor \in Actor, id \in Ids : Unconditional(actor, id)

EditSpec == EditInit /\ [][EditNext]_allVars

-----------------------------------------------------------------------------
(* Correctness *)

\* The state has its declared types.
EditTypeOK ==
    /\ TypeOK
    /\ held \in [Clients -> [id : Ids, version : Nat] \cup {NoTag}]
    /\ seen \in [Clients -> Nat]
    /\ answer \in [Clients -> [status : {0, 204, 404, 412}, missed : SUBSET OwnEvent]]

Lost(client) == answer[client].status = 204 /\ answer[client].missed # {}

Recreated(events) == \E e \in events : e.action = "Created"

\* An edit that succeeds overwrites no change its author did not see, unless
\* the record he saw is gone and the id is another record's by now.
LostOnlyAcrossRecreation ==
    \A c \in Clients : Lost(c) => Recreated(answer[c].missed)

\* A client that nobody overtook is never refused: 412 means that the record
\* was modified by another request since.
RefusedOnlyWhenOvertaken ==
    \A c \in Clients : answer[c].status = 412 => answer[c].missed # {}

\* "Use as the If-Match header value on PATCH/DELETE requests to prevent
\* lost-update races."  (Does not hold: versions restart at 0 with every
\* record, so the ETag of an earlier record of the id can match.)
NoLostUpdate == \A c \in Clients : ~Lost(c)
=============================================================================
