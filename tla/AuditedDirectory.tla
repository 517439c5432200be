-------------------------- MODULE AuditedDirectory --------------------------
(***************************************************************************)
(* What a roster service promises its callers, without saying how: a       *)
(* partial map from ids to tiers, and a history in which every change of   *)
(* the map is recorded by exactly one entry, in the order of the changes.  *)
(* The passenger service and the resource service both implement it        *)
(* (module EntityRoster).                                                  *)
(***************************************************************************)
EXTENDS Tier, Sequences

CONSTANTS Ids

VARIABLES
    roster,   \* roster[id] is the tier of id, or Absent
    history   \* the changes made so far, oldest first

Absent == "absent"

Entry(action, id, level) == [action |-> action, target |-> id, level |-> level]

DirInit ==
    /\ roster = [id \in Ids |-> Absent]
    /\ history = << >>

Register(id, level) ==
    /\ roster[id] = Absent
    /\ roster' = [roster EXCEPT ![id] = level]
    /\ history' = Append(history, Entry("Created", id, level))

Reassign(id, level) ==
    /\ roster[id] # Absent
    /\ roster' = [roster EXCEPT ![id] = level]
    /\ history' = Append(history, Entry("LevelChanged", id, level))

Withdraw(id) ==
    /\ roster[id] # Absent
    /\ roster' = [roster EXCEPT ![id] = Absent]
    /\ history' = Append(history, Entry("Deleted", id, Absent))

DirNext ==
    \E id \in Ids :
        \/ \E level \in Tiers : Register(id, level) \/ Reassign(id, level)
        \/ Withdraw(id)

DirSpec == DirInit /\ [][DirNext]_<<roster, history>>
=============================================================================
