---------------------------- MODULE MCAuditChain ----------------------------
(* A small instance of AuditChain for TLC: the three services of the World, *)
(* two appends each, and one verifier that may ask again and again.         *)
EXTENDS AuditChain, TLC

CONSTANTS crewLeads, passengers, resources, verifier

const_Services == {crewLeads, passengers, resources}
const_Verifiers == {verifier}

\* No service is special: they only differ in name.
ServiceSymmetry == Permutations(const_Services)
=============================================================================
