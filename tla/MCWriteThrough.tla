--------------------------- MODULE MCWriteThrough ---------------------------
(* Small instances of WriteThrough for TLC; requests are interchangeable. *)
EXTENDS WriteThrough

RequestSymmetry == Permutations(Requests)

\* Every operation on one roster, and one on each of the others.
McCalls == {<<"crew_leads", "Change">>, <<"passengers", "Create">>, <<"passengers", "Change">>,
            <<"passengers", "Delete">>, <<"resources", "Change">>}
=============================================================================
