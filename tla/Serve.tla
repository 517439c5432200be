-------------------------------- MODULE Serve --------------------------------
(***************************************************************************)
(* The life of the server process (src/bin/serve.rs) around the handlers   *)
(* of module IdempotentCreate: connections are accepted until a signal     *)
(* comes, then the requests in flight are drained, until none is left or   *)
(* the grace period is over, and a durable server is started again.        *)
(*                                                                         *)
(* The store is in memory or SQLite: there a handler, once polled, runs to *)
(* its end without an await.  Which records a restart reads back is the    *)
(* subject of module WriteThrough; here it may be any of them.             *)
(***************************************************************************)
EXTENDS IdempotentCreate

CONSTANTS
    Removers,      \* the crew leads that soft-delete records meanwhile
    MaxEvents,     \* bound: no deletion once the trail is this long
    MaxRestarts    \* bound: how often the server is started again

ASSUME RemoversAssumption == Removers \subseteq ActorIds
ASSUME ServeBoundsAssumption == MaxEvents \in Nat /\ MaxRestarts \in Nat

VARIABLES
    server,     \* "serving", "draining", "forced" to exit, "stopped"
    exit,       \* the exit code of the last stop, "none" before it
    restarts

serveVars == <<postVars, server, exit, restarts>>

InHandler == {"missed", "created"}

\* Connections that are neither idle nor closed.
Busy == {a \in Attempts : stage[a] \in {"sending", "sent"} \cup InHandler}

-----------------------------------------------------------------------------
(* Clients *)

MoveTo(a, next) ==
    /\ stage' = [stage EXCEPT ![a] = next]
    /\ UNCHANGED <<recordVars, cache, made, answers, storeVars, disturbed, server, exit, restarts>>

\* The listener accepts the connection and the head of the request is read.
Connect(a) ==
    /\ server = "serving" /\ stage[a] = "unsent"
    /\ MoveTo(a, "sending")

\* The rest of the body arrives, also after the signal.
Send(a) ==
    /\ server \in {"serving", "draining"} /\ stage[a] = "sending"
    /\ MoveTo(a, "sent")

\* The client goes away before it has sent its body; it may try again.
HangUp(a) ==
    /\ server \in {"serving", "draining"} /\ stage[a] = "sending"
    /\ MoveTo(a, "unsent")

-----------------------------------------------------------------------------
(* The server *)

\* Nothing new is polled when the runtime is being dropped; a poll that is
\* under way ends.
Run(a) ==
    /\ server \in {"serving", "draining"} \/ (server = "forced" /\ stage[a] \in InHandler)
    /\ Handle(a)
    /\ UNCHANGED <<server, exit, restarts>>

\* A handler that ends while the process exits: its answer is not written.
RunUnheard(a) ==
    /\ server = "forced"
    /\ \/ /\ stage[a] = "created" /\ "entity" \notin jammed
          /\ Keep(a)
       \/ /\ stage[a] = "missed" /\ Target(a) \in listed
          /\ UNCHANGED cache
    /\ stage' = [stage EXCEPT ![a] = "lost"]
    /\ UNCHANGED <<recordVars, made, answers, storeVars, disturbed, server, exit, restarts>>

Expired(key) == Expire(key) /\ UNCHANGED <<server, exit, restarts>>

\* What a durable store does with a record that is created again after this is
\* the subject of module WriteThrough.
DeleteRecord(remover, kind, id) ==
    /\ ~durable /\ server = "serving"
    /\ <<kind, id>> \in listed /\ Len(trail) < MaxEvents
    /\ listed' = listed \ {<<kind, id>>}
    /\ trail' = Append(trail, Event("Deleted", kind, id, remover))
    /\ UNCHANGED <<cache, stage, made, answers, storeVars, disturbed, server, exit, restarts>>

\* shutdown_signal resolves: the listener is closed and the grace timer starts.
Signal ==
    /\ server = "serving"
    /\ server' = "draining"
    /\ UNCHANGED <<postVars, exit, restarts>>

Stop(code) ==
    /\ server' = "stopped" /\ exit' = code
    /\ UNCHANGED restarts

(* Fault, for testing the properties: a request that no handler has begun is not waited for. *)
DrainedBeforeHandling ==
    /\ server = "draining" /\ \A a \in Attempts : stage[a] \notin InHandler
    /\ Stop("SUCCESS")
    /\ UNCHANGED postVars

\* serve_fut completes: every connection is closed.
Drained ==
    /\ server = "draining" /\ Busy = {}
    /\ Stop("SUCCESS")
    /\ UNCHANGED postVars

(* Fault, for testing the properties: the timer runs only while a handler does. *)
GraceOverForHandlers ==
    /\ server = "draining" /\ \E a \in Attempts : stage[a] \in InHandler
    /\ server' = "forced"
    /\ UNCHANGED <<postVars, exit, restarts>>

\* force_exit_fut completes; select! is biased to serve_fut.
GraceOver ==
    /\ server = "draining" /\ Busy # {}
    /\ server' = "forced"
    /\ UNCHANGED <<postVars, exit, restarts>>

\* main returns and drops the runtime: what no handler has begun is cut off.
ForcedExit ==
    /\ server = "forced" /\ \A a \in Attempts : stage[a] \notin InHandler
    /\ Stop("FAILURE")
    /\ stage' = [a \in Attempts |-> IF a \in Busy THEN "lost" ELSE stage[a]]
    /\ UNCHANGED <<recordVars, cache, made, answers, storeVars, disturbed>>

\* The trail comes back and so do records, the cache does not.
StartAgain ==
    /\ server = "stopped" /\ durable
    /\ restarts < MaxRestarts
    /\ restarts' = restarts + 1
    /\ server' = "serving"
    /\ disturbed' = disturbed \cup {<<key, "restart">> : key \in DOMAIN cache}
    /\ cache' = << >>
    /\ listed' \in SUBSET listed
    /\ jammed' = {}
    /\ UNCHANGED <<trail, stage, made, answers, exit, durable, failures>>

ServeInit ==
    /\ listed = {} /\ trail = << >>
    /\ cache = << >>
    /\ stage = [a \in Attempts |-> "unsent"]
    /\ made = [a \in Attempts |-> NoCreation]
    /\ answers = << >>
    /\ disturbed = {}
    /\ durable \in BOOLEAN /\ jammed = {} /\ failures = 0
    /\ server = "serving" /\ exit = "none" /\ restarts = 0

Shutdown == Drained \/ GraceOver \/ ForcedExit

ServeNext ==
    \/ \E a \in Attempts : Connect(a) \/ Send(a) \/ HangUp(a) \/ Run(a) \/ RunUnheard(a)
    \/ \E key \in DOMAIN cache : Expired(key)
    \/ \E remover \in Removers, kind \in Kinds, id \in Ids : DeleteRecord(remover, kind, id)
    \/ Signal \/ Shutdown \/ StartAgain

\* As long as there is a complete request, some handler is polled (there are
\* finitely many, so nothing is assumed about which); the timer runs out, and
\* main returns.  Nothing makes a client send the rest of its body.
ServeSpec ==
    /\ ServeInit /\ [][ServeNext]_serveVars
    /\ WF_serveVars(\E a \in Attempts : Run(a) \/ RunUnheard(a))
    /\ WF_serveVars(Shutdown)

-----------------------------------------------------------------------------
(* Correctness *)

\* "Graceful drain always runs": a request that has arrived is answered, signal
\* or not, with two exceptions.  It may be cut off at the end of the grace period,
\* which the exit code tells, and its handler may panic, which takes a failing
\* statement of a durable server.
EveryAttemptIsAnswered ==
    \A a \in Attempts :
        stage[a] = "sent" ~>
            \/ stage[a] = "answered"
            \/ stage[a] = "lost" /\ exit = "FAILURE"
            \/ stage[a] = "dropped" /\ durable /\ failures > 0

\* "Max seconds to drain in-flight requests": after a signal the server stops,
\* also when a client never finishes its request.
SignalLeadsToStop == server = "draining" ~> server = "stopped"
=============================================================================
