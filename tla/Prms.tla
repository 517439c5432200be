-------------------------------- MODULE Prms --------------------------------
(***************************************************************************)
(* The World of src/interface/composition_root.rs: the crew leads, the     *)
(* passenger roster, the resource roster and the access service, each with *)
(* a clock of its own, around one audit trail and one usage log.  Every    *)
(* request is atomic here; how the HTTP adapter makes it so, and where it  *)
(* does not, is the subject of AuditChain and WriteThrough.                *)
(***************************************************************************)
EXTENDS CrewLeadService

CONSTANTS
    PassengerIds, ResourceIds,
    Callers,             \* the authenticated ids whose requests arrive
    Levels,              \* the tiers requests ask for
    SeedPassengers,      \* the passengers of build_world, as <<id, tier>> in creation order
    SeedResources,       \* its resources, as <<id, minimum tier>>
    MaxUsage             \* bound: no access once the usage log is this long

ASSUME CallersAssumption == Callers \subseteq ActorIds
ASSUME BoundsAssumption == MaxUsage \in Nat
ASSUME RequestedLevelsAssumption == Levels \subseteq Tiers

\* build_world passes on the error of any create: in a World no id comes twice.
Seeds(list, ids) ==
    /\ list \in Seq(ids \X Tiers)
    /\ \A i, j \in DOMAIN list : list[i][1] = list[j][1] => i = j

ASSUME SeedsAssumption ==
    Seeds(SeedPassengers, PassengerIds) /\ Seeds(SeedResources, ResourceIds)

\* leads, leadClock and the trail, which the three services share, are those of
\* CrewLeadService.
VARIABLES
    pActive, pDeleted, pClock,   \* PassengerService
    rActive, rDeleted, rClock,   \* ResourceService
    accessClock, usage,          \* AccessService and its sink
    usedAt                       \* history: Len(trail) when usage[k] was recorded

leadState == <<leads, leadClock>>
passengerState == <<pActive, pDeleted, pClock>>
resourceState == <<rActive, rDeleted, rClock>>
accessState == <<accessClock, usage, usedAt>>

worldVars == <<leadState, passengerState, resourceState, accessState, trail>>

Passengers == INSTANCE EntityRoster
    WITH Ids <- PassengerIds, Kind <- "Passenger",
         active <- pActive, deleted <- pDeleted, clock <- pClock

Resources == INSTANCE EntityRoster
    WITH Ids <- ResourceIds, Kind <- "Resource",
         active <- rActive, deleted <- rDeleted, clock <- rClock

Access == INSTANCE AccessService

-----------------------------------------------------------------------------
(* Start-up: build_world creates the seed records through the services. *)

SeedRecords(seeds) ==
    [i \in DOMAIN seeds |-> Passengers!NewRecord(seeds[i][1], seeds[i][2])]

SeedEvents(seeds, kind) ==
    [i \in DOMAIN seeds |->
        AdminEvent(Founders[1], "Created", kind, seeds[i][1], i - 1, seeds[i][2])]

WorldInit ==
    /\ leads = Founders /\ leadClock = 1
    /\ pActive = SeedRecords(SeedPassengers) /\ pDeleted = << >>
    /\ pClock = Len(SeedPassengers)
    /\ rActive = SeedRecords(SeedResources) /\ rDeleted = << >>
    /\ rClock = Len(SeedResources)
    /\ accessClock = 0 /\ usage = << >> /\ usedAt = << >>
    /\ trail = <<BootstrapEvent>> \o SeedEvents(SeedPassengers, "Passenger")
                 \o SeedEvents(SeedResources, "Resource")

-----------------------------------------------------------------------------
(* Requests.  The handler of an administrative endpoint acts as a crew lead *)
(* with the caller's id, that of POST /access as a passenger with that id.  *)

AsCrewLead(caller) == [role |-> "CrewLead", id |-> caller]
AsPassenger(caller) == [role |-> "Passenger", id |-> caller]

ReplaceCrewLead(caller, old, new) ==
    /\ Replace(caller, old, new)
    /\ UNCHANGED <<passengerState, resourceState, accessState>>

PassengerRequest(caller, id) ==
    /\ Passengers!Call(AsCrewLead(caller), id)
    /\ UNCHANGED <<leadState, resourceState, accessState>>

\* The resource service is the passenger service with other names: create,
\* change_min_tier, soft_delete.
ResourceRequest(caller, id) ==
    /\ Resources!Call(AsCrewLead(caller), id)
    /\ UNCHANGED <<leadState, passengerState, accessState>>

UseResource(caller, rid) ==
    /\ Len(usage) < MaxUsage
    /\ Access!UseResource(AsPassenger(caller), rid)
    /\ usedAt' = Append(usedAt, Len(trail))
    /\ UNCHANGED <<leadState, passengerState, resourceState, trail>>

\* A request that is answered with an error, AccessDenied apart.
RejectedRequest(caller, id, rid) ==
    /\ \/ Passengers!Reject(AsCrewLead(caller), id)
       \/ Resources!Reject(AsCrewLead(caller), rid)
       \/ RejectLead(caller, caller)
       \/ Access!UseOutcome(AsPassenger(caller), rid) \notin {"Ok", "AccessDenied"}
    /\ UNCHANGED worldVars

WorldNext ==
    \E caller \in Callers :
        \/ /\ Len(trail) < MaxEvents
           /\ \/ \E old, new \in ActorIds : ReplaceCrewLead(caller, old, new)
              \/ \E id \in PassengerIds : PassengerRequest(caller, id)
              \/ \E id \in ResourceIds : ResourceRequest(caller, id)
        \/ \E rid \in ResourceIds :
              \/ UseResource(caller, rid)
              \/ \E id \in PassengerIds : RejectedRequest(caller, id, rid)

WorldSpec == WorldInit /\ [][WorldNext]_worldVars

-----------------------------------------------------------------------------
(* Correctness *)

\* Each service's state keeps its types, and a usage event has a history entry.
WorldTypeOK ==
    /\ leads \in [1..3 -> ActorIds]
    /\ pActive \in Seq(Passengers!Record) /\ pDeleted \in Seq(Passengers!Record)
    /\ rActive \in Seq(Resources!Record) /\ rDeleted \in Seq(Resources!Record)
    /\ \A i \in DOMAIN trail :
         trail[i] \in LeadEvent \cup Passengers!OwnEvent \cup Resources!OwnEvent
    /\ DOMAIN usage = DOMAIN usedAt

\* One shared trail explains all three rosters at once: the events of each
\* service, picked out of the interleaving, replay to that service's state.
TrailExplainsWorld ==
    /\ TrailReplaysToLeads
    /\ Passengers!TrailReplaysToRoster
    /\ Resources!TrailReplaysToRoster

\* AC-R4..R6, AC-I1: every usage event tells what was true when it was
\* recorded.  The trail up to that moment, replayed, has the passenger with
\* the snapshot tier and the resource with the snapshot minimum, and the
\* outcome is what can_access says of the two; later tier changes, deletions
\* and re-creations rewrite nothing.
UsageJustifiedByTrail ==
    \A k \in DOMAIN usage :
        LET past == SubSeq(trail, 1, usedAt[k])
            e == usage[k]
        IN  /\ <<e.passenger, e.tier>> \in ToSet(Passengers!Replayed(past))
            /\ <<e.resource, e.minTier>> \in ToSet(Resources!Replayed(past))
            /\ (e.outcome = "Allowed") <=> CanAccess(e.tier, e.minTier)

=============================================================================
