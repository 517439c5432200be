-------------------------- MODULE CrewLeadService --------------------------
(***************************************************************************)
(* The crew-lead roster of src/application/crew_lead_service.rs: always    *)
(* three leads with distinct ids, changed only by replacing one of them in *)
(* place.  A lead is its id; names are left out.  The service is built by  *)
(* bootstrap_audited, which leaves one event in the trail.                 *)
(***************************************************************************)
EXTENDS Domain, SequencesExt

CONSTANTS
    Founders,   \* the three leads the composition root bootstraps with
    MaxEvents   \* bound: no operation starts once the trail is this long

VARIABLES
    leads,      \* self.leads
    leadClock,  \* the next instant of the service's clock
    trail       \* the admin events appended to its sink, oldest first

leadVars == <<leads, leadClock, trail>>

\* The test that bootstrap and restore apply to the list they are given.
ValidLeads(list) ==
    /\ Len(list) = 3
    /\ \A i, j \in 1..3 : i < j => list[i] # list[j]

ASSUME FoundersAssumption == Founders \in Seq(ActorIds) /\ ValidLeads(Founders)
ASSUME MaxEventsAssumption == MaxEvents \in Nat

LeadEvent == [actor : ActorIds, action : {"Bootstrapped", "Replaced"},
              kind : {"CrewLead"}, target : ActorIds, time : Nat,
              details : ActorIds \cup {NoDetails}]

-----------------------------------------------------------------------------
(* Operations *)

IsLead(id) == \E i \in DOMAIN leads : leads[i] = id

LeadSlot(id) ==
    CHOOSE i \in DOMAIN leads : leads[i] = id /\ \A j \in 1..(i - 1) : leads[j] # id

(* Fault, for testing the properties: the new id is not compared with the other leads. *)
CollidesNever(old, new) == FALSE

\* The new id may only repeat the one in the slot it goes to.
Collides(old, new) == \E i \in DOMAIN leads : i # LeadSlot(old) /\ leads[i] = new

ReplaceOutcome(old, new) ==
    IF ~IsLead(old) THEN "CrewLeadNotFound"
    ELSE IF Collides(old, new) THEN "CrewLeadAlreadyExists" ELSE "Ok"

AddOutcome == "CrewLeadLimitReached"

RemoveOutcome == "CrewLeadMinimumBreached"

BootstrapEvent ==
    AdminEvent(Founders[1], "Bootstrapped", "CrewLead", Founders[1], 0, NoDetails)

\* bootstrap_audited: the first lead is the actor and the target of the event.
LeadInit ==
    /\ leads = Founders
    /\ leadClock = 1
    /\ trail = <<BootstrapEvent>>

\* replace_audited: replace, then the event with the clock's next instant.  The
\* clock is the FakeClock of build_world; a service that was restored has a
\* SystemClock, whose instants need not increase, and no property reads them.
Replace(actorId, old, new) ==
    /\ ReplaceOutcome(old, new) = "Ok"
    /\ leads' = [leads EXCEPT ![LeadSlot(old)] = new]
    /\ trail' = Append(trail, AdminEvent(actorId, "Replaced", "CrewLead", new, leadClock, old))
    /\ leadClock' = leadClock + 1

\* add and remove never succeed; replace returns its error and changes nothing.
RejectLead(old, new) ==
    /\ \/ ReplaceOutcome(old, new) # "Ok"
       \/ AddOutcome # "Ok"
       \/ RemoveOutcome # "Ok"
    /\ UNCHANGED leadVars

LeadNext ==
    \E old, new \in ActorIds :
        \/ Len(trail) < MaxEvents /\ \E actorId \in ActorIds : Replace(actorId, old, new)
        \/ RejectLead(old, new)

LeadSpec == LeadInit /\ [][LeadNext]_leadVars

-----------------------------------------------------------------------------
(* Correctness *)

\* The state has its declared types.
LeadTypeOK ==
    /\ leads \in Seq(ActorIds)
    /\ leadClock \in Nat
    /\ trail \in Seq(LeadEvent)

\* CL-I1, CL-I2: exactly three leads, no id twice, through any sequence of
\* replacements, also those that put an id back or replace a lead by itself.
ExactlyThreeDistinctLeads == ValidLeads(leads)

\* The audit trail suffices to know who the leads are: applying the recorded
\* replacements to the founders yields the current list, slot by slot.
ApplyReplacement(list, e) ==
    IF e.action # "Replaced" THEN list
    ELSE [i \in DOMAIN list |-> IF list[i] = e.details THEN e.target ELSE list[i]]

TrailReplaysToLeads == FoldLeft(ApplyReplacement, Founders, trail) = leads
=============================================================================
