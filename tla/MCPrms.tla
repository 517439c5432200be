------------------------------- MODULE MCPrms -------------------------------
(* A small world for TLC: one seeded passenger and one seeded resource, each *)
(* of which can be changed, deleted and created again; two tiers.            *)
EXTENDS Prms

CONSTANTS aria, noor, jun, mira, spa

const_PassengerIds == {mira}
const_ResourceIds == {spa}
const_ActorIds == {aria, noor, jun, mira}
const_Callers == {mira}
const_Founders == <<aria, noor, jun>>
const_SeedPassengers == <<<<mira, "Silver">>>>
const_SeedResources == <<<<spa, "Gold">>>>
const_Levels == {"Silver", "Gold"}
=============================================================================
