---------------------------- MODULE EntityRoster ----------------------------
(***************************************************************************)
(* The roster that PassengerService and ResourceService both are: a Vec    *)
(* of active records, a Vec of soft-deleted ones, a clock, and an audit    *)
(* sink that receives one event per successful mutation.  The two services *)
(* are the same program up to names (tier / min_tier, name / name and      *)
(* category); Kind says which of the two an instance is.  The source       *)
(* lines are those of src/application/passenger_service.rs; the ones of    *)
(* resource_service.rs are mapped where module Prms instantiates this one. *)
(*                                                                         *)
(* A method is one atomic action: it has &mut self, and the HTTP adapter   *)
(* calls it under the aggregate's write lock.                              *)
(***************************************************************************)
EXTENDS Domain, SequencesExt

CONSTANTS
    Ids,        \* ids of the passengers (or of the resources)
    Kind,       \* the target kind of this service's events
    Levels,     \* the tiers requests ask for
    MaxEvents   \* bound: no operation starts once the trail is this long

ASSUME LevelsAssumption == Levels \subseteq Tiers
ASSUME MaxEventsAssumption == MaxEvents \in Nat

VARIABLES
    active,     \* self.active
    deleted,    \* self.deleted
    clock,      \* the next instant of self.clock (a FakeClock)
    trail       \* the admin events appended to self.audit, oldest first

vars == <<active, deleted, clock, trail>>

NotDeleted == -1    \* deleted_at: None

Record == [id : Ids, level : Tiers, version : Nat,
           deleted_at : Nat \cup {NotDeleted}]

OwnEvent == [actor : ActorIds, action : {"Created", "LevelChanged", "Deleted"},
             kind : {Kind}, target : Ids, time : Nat,
             details : Tiers \cup {NoDetails}]

-----------------------------------------------------------------------------
(* Lookups *)

IsActive(id) == \E i \in DOMAIN active : active[i].id = id

\* iter().position(): the first active record with this id.
Slot(id) ==
    CHOOSE i \in DOMAIN active :
        /\ active[i].id = id
        /\ \A j \in 1..(i - 1) : active[j].id # id

IsKnown(id) == IsActive(id) \/ \E i \in DOMAIN deleted : deleted[i].id = id

(* Fault, for testing the properties: get finds the first deleted record. *)
GetFirstDeleted(id) ==
    IF IsActive(id) THEN active[Slot(id)]
    ELSE deleted[SelectInSeq(deleted, LAMBDA r : r.id = id)]

\* get: the active record, otherwise the one deleted last.
Get(id) ==
    IF IsActive(id) THEN active[Slot(id)]
    ELSE deleted[SelectLastInSeq(deleted, LAMBDA r : r.id = id)]

(* Fault, for testing the properties: create does not look the id up. *)
CreateOutcomeNoLookup(actor, id) ==
    IF ~RequireCrewLead(actor) THEN "UnauthorizedActor" ELSE "Ok"

\* The answers of create, and of the two methods that need an active record.
CreateOutcome(actor, id) ==
    IF ~RequireCrewLead(actor) THEN "UnauthorizedActor"
    ELSE IF IsActive(id) THEN "AlreadyExists" ELSE "Ok"

EditOutcome(actor, id) ==
    IF ~RequireCrewLead(actor) THEN "UnauthorizedActor"
    ELSE IF IsActive(id) THEN "Ok" ELSE "NotFound"

-----------------------------------------------------------------------------
(* Operations *)

(* Fault, for testing the properties: actor and target are swapped. *)
EmitSwapped(actor, action, id, details, now) ==
    /\ trail' = Append(trail, AdminEvent(id, action, Kind, actor.id, now, details))
    /\ clock' = now + 1

(* Fault, for testing the properties: reading the clock does not advance it. *)
EmitFrozenClock(actor, action, id, details, now) ==
    /\ trail' = Append(trail, AdminEvent(actor.id, action, Kind, id, now, details))
    /\ clock' = clock

\* emit reads the clock once and hands the event to the sink.
Emit(actor, action, id, details, now) ==
    /\ trail' = Append(trail, AdminEvent(actor.id, action, Kind, id, now, details))
    /\ clock' = now + 1

NewRecord(id, level) ==
    [id |-> id, level |-> level, version |-> 0, deleted_at |-> NotDeleted]

(* Fault, for testing the properties: a tier change is not a version. *)
RelevelledSameVersion(r, level) ==
    [id |-> r.id, level |-> level, version |-> r.version, deleted_at |-> r.deleted_at]

\* The two edits of a record; both count as a new version of it.
Relevelled(r, level) ==
    [id |-> r.id, level |-> level, version |-> r.version + 1, deleted_at |-> r.deleted_at]

(* Fault, for testing the properties: a deletion is not a version. *)
StampedSameVersion(r, now) ==
    [id |-> r.id, level |-> r.level, version |-> r.version, deleted_at |-> now]

Stamped(r, now) ==
    [id |-> r.id, level |-> r.level, version |-> r.version + 1, deleted_at |-> now]

(* Fault, for testing the properties: a new record goes to the front. *)
CreateAtFront(actor, id, level) ==
    /\ CreateOutcome(actor, id) = "Ok"
    /\ active' = <<NewRecord(id, level)>> \o active
    /\ Emit(actor, "Created", id, level, clock)
    /\ UNCHANGED deleted

Create(actor, id, level) ==
    /\ CreateOutcome(actor, id) = "Ok"
    /\ active' = Append(active, NewRecord(id, level))
    /\ Emit(actor, "Created", id, level, clock)
    /\ UNCHANGED deleted

(* Fault, for testing the properties: the event carries the tier before the change. *)
ChangeLevelOldTier(actor, id, level) ==
    /\ EditOutcome(actor, id) = "Ok"
    /\ active' = [active EXCEPT ![Slot(id)] = Relevelled(@, level)]
    /\ Emit(actor, "LevelChanged", id, active[Slot(id)].level, clock)
    /\ UNCHANGED deleted

\* change_tier: the version grows and an event is emitted even when the new
\* tier is the old one.
ChangeLevel(actor, id, level) ==
    /\ EditOutcome(actor, id) = "Ok"
    /\ active' = [active EXCEPT ![Slot(id)] = Relevelled(@, level)]
    /\ Emit(actor, "LevelChanged", id, level, clock)
    /\ UNCHANGED deleted

(* Fault, for testing the properties: the event is emitted before the stamp. *)
SoftDeleteEventFirst(actor, id) ==
    /\ EditOutcome(actor, id) = "Ok"
    /\ deleted' = Append(deleted, Stamped(active[Slot(id)], clock + 1))
    /\ active' = RemoveAt(active, Slot(id))
    /\ Emit(actor, "Deleted", id, NoDetails, clock)

(* Fault, for testing the properties: one deleted record is kept per id. *)
SoftDeleteReplacing(actor, id) ==
    /\ EditOutcome(actor, id) = "Ok"
    /\ deleted' = Append(SelectSeq(deleted, LAMBDA r : r.id # id),
                          Stamped(active[Slot(id)], clock))
    /\ active' = RemoveAt(active, Slot(id))
    /\ Emit(actor, "Deleted", id, NoDetails, clock + 1)

\* soft_delete reads the clock twice: for deleted_at, then for the event.
SoftDelete(actor, id) ==
    /\ EditOutcome(actor, id) = "Ok"
    /\ deleted' = Append(deleted, Stamped(active[Slot(id)], clock))
    /\ active' = RemoveAt(active, Slot(id))
    /\ Emit(actor, "Deleted", id, NoDetails, clock + 1)

\* Every other call returns its error and leaves the service as it was.
Reject(actor, id) ==
    /\ CreateOutcome(actor, id) # "Ok" \/ EditOutcome(actor, id) # "Ok"
    /\ UNCHANGED vars

-----------------------------------------------------------------------------
Init ==
    /\ active = << >>
    /\ deleted = << >>
    /\ clock = 0
    /\ trail = << >>

Call(actor, id) ==
    \/ \E level \in Levels : Create(actor, id, level) \/ ChangeLevel(actor, id, level)
    \/ SoftDelete(actor, id)

Next ==
    \E actor \in Actor, id \in Ids :
        \/ Len(trail) < MaxEvents /\ Call(actor, id)
        \/ Reject(actor, id)

Spec == Init /\ [][Next]_vars

-----------------------------------------------------------------------------
(* Correctness *)

\* The state has its declared types.
TypeOK ==
    /\ active \in Seq(Record)
    /\ deleted \in Seq(Record)
    /\ clock \in Nat
    /\ trail \in Seq(OwnEvent)

\* PS-R2, RS-R2: at most one active record per id, whatever the sequence of
\* creations, deletions and re-creations.
ActiveIdsUnique ==
    \A i, j \in DOMAIN active : active[i].id = active[j].id => i = j

\* PS-I2, RS-I2: a soft-deleted record is final; later operations, also the
\* re-creation and re-deletion of its id, only append to the deleted list.
DeletedRecordsAreFinal == [][IsPrefix(deleted, deleted')]_vars

\* The roster one gets by applying this service's events, picked out of the
\* (possibly shared) trail, to an empty one.
WithoutEntry(list, id) == RemoveFirstMatch(list, LAMBDA entry : entry[1] = id)

ApplyEvent(list, e) ==
    IF e.kind # Kind THEN list
    ELSE CASE e.action = "Created" -> Append(list, <<e.target, e.details>>)
           [] e.action = "LevelChanged" ->
                [i \in DOMAIN list |->
                    IF list[i][1] = e.target THEN <<e.target, e.details>> ELSE list[i]]
           [] e.action = "Deleted" -> WithoutEntry(list, e.target)

Replayed(events) == FoldLeft(ApplyEvent, << >>, events)

\* The audit trail is complete and correctly ordered: replaying it yields the
\* active list, with its order (PS-R8) and its current tiers.
TrailReplaysToRoster ==
    Replayed(trail) = [i \in DOMAIN active |-> <<active[i].id, active[i].level>>]

\* The positions of an id's events in the trail, and the changes that its
\* records count: the creation, and one per version since.
EventsOf(id) == {i \in DOMAIN trail : trail[i].kind = Kind /\ trail[i].target = id}

ChangesOfActive(id) == IF IsActive(id) THEN active[Slot(id)].version + 1 ELSE 0

ChangesOfDeleted(id) ==
    SumFunctionOnSet([i \in DOMAIN deleted |-> deleted[i].version + 1],
                     {i \in DOMAIN deleted : deleted[i].id = id})

\* Versions count changes: every event of an id is either the creation of one
\* of its records or one version of one of them, so that no change escapes
\* If-Match and none is counted twice.
VersionsCountEvents ==
    \A id \in Ids :
        Cardinality(EventsOf(id)) = ChangesOfActive(id) + ChangesOfDeleted(id)

\* The positions of this service's deletion events, and how many there are up
\* to one of them.
Deletions == {i \in DOMAIN trail : trail[i].kind = Kind /\ trail[i].action = "Deleted"}

DeletionsUpTo(k) == {i \in Deletions : i <= k}

\* The deleted list and the trail tell the same story: the n-th deletion event
\* is about the n-th deleted record, which was stamped before that event and
\* after the deletion events before it.
DeletionsMatchTrail ==
    /\ Cardinality(Deletions) = Len(deleted)
    /\ \A k \in Deletions :
         LET record == deleted[Cardinality(DeletionsUpTo(k))] IN
         /\ record.id = trail[k].target
         /\ record.deleted_at < trail[k].time
         /\ \A j \in Deletions : j < k => trail[j].time < record.deleted_at

\* AU-I2: within one service the trail is in strict chronological order.
TrailChronological ==
    \A i, j \in DOMAIN trail :
        (i < j /\ trail[i].kind = Kind /\ trail[j].kind = Kind)
            => trail[i].time < trail[j].time

\* PS-R9: get answers with the latest record of an id, so that the ETag built
\* from it is the current one; after a second deletion it is not the first
\* deleted record that is found.
LookupIsLatest ==
    \A id \in Ids :
        IsKnown(id) =>
            /\ Get(id).id = id
            /\ IsActive(id) => Get(id).deleted_at = NotDeleted
            /\ ~IsActive(id) =>
                 \A i \in DOMAIN deleted :
                     deleted[i].id = id => deleted[i].deleted_at <= Get(id).deleted_at

\* The tier of every active id.
RosterView == [id \in Ids |-> IF IsActive(id) THEN active[Slot(id)].level ELSE "absent"]

-----------------------------------------------------------------------------
(* Refinement: the roster, with a trail of its own, implements the audited *)
(* directory.                                                              *)

EntryOf(e) ==
    [action |-> e.action, target |-> e.target,
     level  |-> IF e.action = "Deleted" THEN "absent" ELSE e.details]

HistoryView == [i \in DOMAIN trail |-> EntryOf(trail[i])]

Directory == INSTANCE AuditedDirectory WITH roster <- RosterView, history <- HistoryView

\* The service is an audited directory: every mutation changes one id and
\* records exactly that change, at the same step.
ImplementsDirectory == Directory!DirSpec
=============================================================================
