------------------------------- MODULE MCServe -------------------------------
(* A POST of aria; one of "aria:north" to the other endpoint, whose id and key *)
(* are joined to the same string, so that for the cache it is a retry; and the *)
(* key of the first sent by bron, for the same passenger.                      *)
EXTENDS Serve

aria == <<"aria">>
bron == <<"bron">>
ariaNorth == <<"aria", "north">>
const_ActorIds == {aria, bron, ariaNorth}
const_Removers == {bron}

Post(actor, kind, key) == [actor |-> actor, kind |-> kind, id |-> "neo", key |-> key]

const_Request ==
    [first |-> Post(aria, "Passenger", <<"north", "k">>),
     joined |-> Post(ariaNorth, "Resource", <<"k">>),
     other |-> Post(bron, "Passenger", <<"north", "k">>)]
=============================================================================
