---------------------------- MODULE MCWorldLocks ----------------------------
(* Three requests for TLC.  Requests are alike, so a plan is taken once, with *)
(* its handlers in a fixed order; of handlers with one script one stands for  *)
(* all; and of those that only look at one aggregate after another there is   *)
(* at most one in a plan, for they do not hinder one another.                 *)
EXTENDS WorldLocks

CONSTANTS
    Writers,    \* handlers that take a write lock, in that order
    Readers     \* handlers that only take read locks

const_Requests == 1..3
const_Writers == <<"create_passenger", "change_resource_min_tier", "use_resource",
                   "reset_world">>
const_Readers == {"list_passengers", "list_admin_events", "health_ready", "metrics"}
const_Plans ==
    {[r \in 1..3 |-> IF r = 3 /\ last \in Readers THEN last ELSE Writers[n[r]]] :
        n \in {f \in [1..3 -> 1..4] : f[1] <= f[2] /\ f[2] <= f[3]},
        last \in Readers \cup {"none"}}
=============================================================================
