-------------------------- MODULE MCConditionalEdit --------------------------
(* A small roster for TLC: two ids, two tiers, one crew lead who edits       *)
(* conditionally while others, who act in his name too, edit freely.         *)
EXTENDS ConditionalEdit

CONSTANTS p1, p2, aria

const_Ids == {p1, p2}
const_ActorIds == {aria}
const_Clients == {aria}
const_Levels == {"Silver", "Gold"}
Symmetry == Permutations(const_Ids)
=============================================================================
