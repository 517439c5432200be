--------------------------- MODULE AccessService ---------------------------
(***************************************************************************)
(* The runtime permission check of src/application/access_service.rs: a    *)
(* passenger uses a resource, and the attempt, allowed or denied, is       *)
(* recorded with a snapshot of both tiers before the answer is returned.   *)
(* The rosters are only read here.                                         *)
(***************************************************************************)
EXTENDS Domain

VARIABLES
    pActive,      \* the active passengers, PassengerService::list()
    rActive,      \* the active resources, ResourceService::list()
    accessClock,  \* the next instant of the service's clock
    usage         \* the usage events in the sink, oldest first

\* list().iter().find(|x| x.id == id)
Finds(list, id) == \E i \in DOMAIN list : list[i].id = id

Find(list, id) ==
    list[CHOOSE i \in DOMAIN list :
            list[i].id = id /\ \A j \in 1..(i - 1) : list[j].id # id]

(* Fault, for testing the properties: the two tiers are compared the wrong way round. *)
AllowedReversed(pid, rid) ==
    CanAccess(Find(rActive, rid).level, Find(pActive, pid).level)

Allowed(pid, rid) == CanAccess(Find(pActive, pid).level, Find(rActive, rid).level)

UseOutcome(actor, rid) ==
    IF actor.role # "Passenger" THEN "UnauthorizedActor"
    ELSE IF ~Finds(pActive, actor.id) THEN "PassengerNotFound"
    ELSE IF ~Finds(rActive, rid) THEN "ResourceNotFound"
    ELSE IF Allowed(actor.id, rid) THEN "Ok" ELSE "AccessDenied"

UsageEvent(pid, rid) ==
    [passenger |-> pid, resource |-> rid,
     tier      |-> Find(pActive, pid).level,
     minTier   |-> Find(rActive, rid).level,
     time      |-> accessClock,
     outcome   |-> IF Allowed(pid, rid) THEN "Allowed" ELSE "Denied"]

\* An attempt is recorded exactly when both parties were found.
UseResource(actor, rid) ==
    /\ UseOutcome(actor, rid) \in {"Ok", "AccessDenied"}
    /\ usage' = Append(usage, UsageEvent(actor.id, rid))
    /\ accessClock' = accessClock + 1
=============================================================================
