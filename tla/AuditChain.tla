----------------------------- MODULE AuditChain -----------------------------
(***************************************************************************)
(* The hash chain of src/infrastructure/in_memory_admin_event_sink.rs and  *)
(* its check, verify_audit_chain of src/interface/http.rs.  The services   *)
(* hold clones of one sink.  Each service appends under the write lock of  *)
(* its own aggregate, so one service appends one event at a time, but two  *)
(* services may append together: append takes the sink's two mutexes three *)
(* times and nothing else keeps the three steps of two appends apart.      *)
(*                                                                         *)
(* SHA-256 is taken to be injective: a hash is the sequence of the events  *)
(* it was computed over, and compute_hash appends one.                     *)
(***************************************************************************)
EXTENDS Sequences, Naturals, FiniteSets

CONSTANTS
    Services,    \* the services that append: one per aggregate
    Verifiers,   \* concurrent GET /audit/verify requests
    MaxAppends   \* bound: the appends each service makes

ASSUME ServicesAssumption == IsFiniteSet(Services)
ASSUME MaxAppendsAssumption == MaxAppends \in Nat

VARIABLES
    inner,     \* self.inner: the events
    hashes,    \* self.hashes: the chain, hashes[i] for event i
    stage,     \* where each service is in append
    link,      \* new_hash, computed but not pushed yet
    sent,      \* how many events each service has started to append
    snapshot,  \* the events a verifier has cloned
    verdict,   \* the verifier's last answer
    raced      \* history: some append started while another was under way

appendVars == <<inner, hashes, stage, link, sent, raced>>
chainVars == <<appendVars, snapshot, verdict>>

Event == Services \X (Nat \ {0})

Hash == Seq(Event)
Genesis == << >>

ComputeHash(prev, event) == Append(prev, event)

(* Fault, for testing the properties: every hash chains on the first one. *)
LastHashIsFirst == IF hashes = << >> THEN Genesis ELSE hashes[1]

LastHash == IF hashes = << >> THEN Genesis ELSE hashes[Len(hashes)]

CurrentEvent(s) == <<s, sent[s]>>

-----------------------------------------------------------------------------
(* append *)

\* The first critical section: read the last hash and compute the next one.
ReadLast(s) ==
    /\ stage[s] = "idle"
    /\ sent[s] < MaxAppends
    /\ sent' = [sent EXCEPT ![s] = @ + 1]
    /\ link' = [link EXCEPT ![s] = ComputeHash(LastHash, <<s, sent[s] + 1>>)]
    /\ stage' = [stage EXCEPT ![s] = "hashed"]
    /\ raced' = (raced \/ \E t \in Services : stage[t] # "idle")
    /\ UNCHANGED <<inner, hashes, snapshot, verdict>>

(* Fault, for testing the properties: append returns before the hash is pushed. *)
PushEventOnly(s) ==
    /\ stage[s] = "hashed"
    /\ inner' = Append(inner, CurrentEvent(s))
    /\ stage' = [stage EXCEPT ![s] = "idle"]
    /\ UNCHANGED <<hashes, link, sent, raced, snapshot, verdict>>

\* The second: push the event.
PushEvent(s) ==
    /\ stage[s] = "hashed"
    /\ inner' = Append(inner, CurrentEvent(s))
    /\ stage' = [stage EXCEPT ![s] = "pushed"]
    /\ UNCHANGED <<hashes, link, sent, raced, snapshot, verdict>>

\* The third: push its hash.
PushHash(s) ==
    /\ stage[s] = "pushed"
    /\ hashes' = Append(hashes, link[s])
    /\ stage' = [stage EXCEPT ![s] = "idle"]
    /\ UNCHANGED <<inner, link, sent, raced, snapshot, verdict>>

-----------------------------------------------------------------------------
(* verify_audit_chain *)

(* Fault, for testing the properties: a missing hash counts as a wrong one. *)
MismatchesOrMissing(events, stored) ==
    {i \in DOMAIN events : i \notin DOMAIN stored \/ stored[i] # SubSeq(events, 1, i)}

\* The loop keeps prev at the expected hash whenever it goes on, so event i is
\* expected to carry the hash of the first i events.  An event whose hash is
\* missing is skipped.
Mismatches(events, stored) ==
    {i \in DOMAIN events \cap DOMAIN stored : stored[i] # SubSeq(events, 1, i)}

Answer(events, stored) ==
    IF Mismatches(events, stored) = {} THEN "valid" ELSE "broken"

\* snapshot_with_hashes clones the events and the hashes one after the other.
SnapshotEvents(v) ==
    /\ verdict[v] # "reading"
    /\ snapshot' = [snapshot EXCEPT ![v] = inner]
    /\ verdict' = [verdict EXCEPT ![v] = "reading"]
    /\ UNCHANGED appendVars

SnapshotHashes(v) ==
    /\ verdict[v] = "reading"
    /\ verdict' = [verdict EXCEPT ![v] = Answer(snapshot[v], hashes)]
    /\ UNCHANGED <<appendVars, snapshot>>

-----------------------------------------------------------------------------
ChainInit ==
    /\ inner = << >> /\ hashes = << >>
    /\ stage = [s \in Services |-> "idle"]
    /\ link = [s \in Services |-> Genesis]
    /\ sent = [s \in Services |-> 0]
    /\ snapshot = [v \in Verifiers |-> << >>]
    /\ verdict = [v \in Verifiers |-> "none"]
    /\ raced = FALSE

ChainNext ==
    \/ \E s \in Services : ReadLast(s) \/ PushEvent(s) \/ PushHash(s)
    \/ \E v \in Verifiers : SnapshotEvents(v) \/ SnapshotHashes(v)

ChainSpec == ChainInit /\ [][ChainNext]_chainVars

-----------------------------------------------------------------------------
(* Correctness *)

\* The state has its declared types.
ChainTypeOK ==
    /\ inner \in Seq(Event)
    /\ hashes \in Seq(Hash)
    /\ stage \in [Services -> {"idle", "hashed", "pushed"}]
    /\ link \in [Services -> Hash]
    /\ sent \in [Services -> Nat]
    /\ snapshot \in [Verifiers -> Seq(Event)]
    /\ verdict \in [Verifiers -> {"none", "reading", "valid", "broken"}]
    /\ raced \in BOOLEAN

\* However the appends interleave, the two lists stay in step: what the chain
\* is short of is the hashes of the appends still under way.
HashPerEvent ==
    Len(inner) = Len(hashes) + Cardinality({s \in Services : stage[s] = "pushed"})

\* Appends that never overlap never break the chain, whatever the verifiers do.
BrokenOnlyAfterRace == raced \/ Mismatches(inner, hashes) = {}

\* A verifier that clones the events and the hashes at different moments, with
\* appends in between, gives no false alarm: "broken" means broken by now.
NoFalseAlarm ==
    \A v \in Verifiers :
        verdict[v] = "broken" => Mismatches(inner, hashes) # {}

\* "A broken chain indicates deletion or modification": nothing is deleted or
\* modified here, so no verifier should find one.  (Does not hold: the appends
\* of two services can overlap.)
VerifyFindsNoBreak == \A v \in Verifiers : verdict[v] # "broken"
=============================================================================
