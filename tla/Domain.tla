------------------------------- MODULE Domain -------------------------------
(***************************************************************************)
(* Values shared by every service: actors and the crew-lead guard          *)
(* (src/domain/actor.rs, src/application/guards.rs), the administrative    *)
(* event that a mutation leaves in the audit trail                         *)
(* (src/domain/admin_event.rs) and the usage event of an access attempt    *)
(* (src/domain/usage_event.rs).  Names, categories and the random event    *)
(* ids (UUID v4, never compared) are left out.                             *)
(***************************************************************************)
EXTENDS Tier, Sequences

CONSTANTS
    ActorIds    \* the ids a caller may present, of either role

Actor == [role : {"CrewLead", "Passenger"}, id : ActorIds]

RequireCrewLead(actor) == actor.role = "CrewLead"

\* What an event's details name: a tier, a crew-lead id, or nothing.
NoDetails == "none"

AdminEvent(actorId, action, kind, target, time, details) ==
    [actor  |-> actorId, action |-> action, kind    |-> kind,
     target |-> target,  time   |-> time,   details |-> details]
=============================================================================
