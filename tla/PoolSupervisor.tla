--------------------------- MODULE PoolSupervisor ---------------------------
(***************************************************************************)
(* The database pool supervisor (app/db/session.py) and the requests that  *)
(* use the pool it publishes in app.state.pool.  One asyncio task connects,*)
(* tests and publishes a pool, waits until a request reports it dead and   *)
(* replaces it; stop() cancels the task and closes what is left.  A step   *)
(* here is what runs between two awaits.                                   *)
(*                                                                         *)
(* A pool that was closed and that nobody refers to is recycled; the code  *)
(* keeps such pools in _retired, where closing them again does nothing.    *)
(***************************************************************************)
EXTENDS Values, Naturals, FiniteSets

CONSTANTS Pools,       \* pool objects; enough that one is always free
          Users,       \* concurrent requests and probes
          Probes       \* those that are GET /ready

VARIABLES dbUp,        \* PostgreSQL accepts connections
          pool,        \* [inner, notifies]: the asyncpg pool, the wake attached
          published,   \* app.state.pool
          current, retired,
          wake, stop, first,       \* the events _wake, _stop, _first_attempt_done
          loop,        \* the _run task: [pc, candidate, previous, cancel]
          stopper,     \* the shutdown: [pc, left]
          user         \* each request: [pc, pool]
vars == <<dbUp, pool, published, current, retired, wake, stop, first, loop, stopper, user>>

ASSUME PoolAssumption == None \notin Pools /\ IsFiniteSet(Pools) /\ Probes \subseteq Users

Fresh == [inner |-> "none", notifies |-> FALSE]

PoolType == [inner : {"none", "open", "closing", "closed"}, notifies : BOOLEAN]
LoopType == [pc : {"head", "connect", "test", "schema", "closeCandidate", "sleep", "closePrevious",
                   "wait", "finally", "ended"},
             candidate : Pools \cup {None}, previous : Pools \cup {None}, cancel : BOOLEAN]
StopType == [pc : {"running", "awaiting", "closing", "stopped"}, left : SUBSET Pools]
UserType == [pc : {"idle", "acquiring", "holding"}, pool : Pools \cup {None}]

TypeOK ==
    /\ dbUp \in BOOLEAN /\ wake \in BOOLEAN /\ stop \in BOOLEAN /\ first \in BOOLEAN
    /\ pool \in [Pools -> PoolType]
    /\ published \in Pools \cup {None} /\ current \in Pools \cup {None} /\ retired \subseteq Pools
    /\ loop \in LoopType /\ stopper \in StopType /\ user \in [Users -> UserType]

Init ==
    /\ dbUp \in BOOLEAN
    /\ pool = [p \in Pools |-> Fresh]
    /\ published = None /\ current = None /\ retired = {}
    /\ wake = FALSE /\ stop = FALSE /\ first = FALSE
    /\ loop = [pc |-> "head", candidate |-> None, previous |-> None, cancel |-> FALSE]
    /\ stopper = [pc |-> "running", left |-> {}]
    /\ user = [u \in Users |-> [pc |-> "idle", pool |-> None]]

-----------------------------------------------------------------------------
(* asyncpg: a closing pool hands out nothing and waits for what it handed  *)
(* out; when the wait is cut short it terminates those connections.        *)

Unused(p) ==
    /\ pool[p].inner \in {"none", "closed"}
    /\ p \notin {published, current, loop.candidate, loop.previous} \cup stopper.left
    /\ \A u \in Users : user[u].pool # p

BeginClose(p) ==
    pool' = [pool EXCEPT ![p].inner = IF @ = "open" THEN "closing" ELSE "closed"]

EndClose(p) ==
    /\ pool' = [pool EXCEPT ![p].inner = "closed"]
    /\ user' = [u \in Users |-> IF user[u].pool = p /\ user[u].pc = "holding" THEN [pc |-> "idle", pool |-> None] ELSE user[u]]

-----------------------------------------------------------------------------
(* The loop.  A cancellation is delivered at an await; asyncio.wait_for    *)
(* loses it when the awaited call ends at the same time.                   *)

At(pc)     == loop.pc = pc /\ ~ loop.cancel
WaitFor(pc) == loop.pc = pc

\* Mutant: while True.
LoopHead_Forever ==
    /\ WaitFor("head")
    /\ \E p \in Pools : /\ Unused(p)
                        /\ pool' = [pool EXCEPT ![p] = Fresh]
                        /\ retired' = retired \ {p}
                        /\ loop' = [loop EXCEPT !.pc = "connect", !.candidate = p]
    /\ UNCHANGED <<dbUp, published, current, wake, stop, first, stopper, user>>

\* while not stop: a new DatabasePool.
LoopHead ==
    /\ WaitFor("head")
    /\ \/ /\ stop
          /\ loop' = [loop EXCEPT !.pc = "ended"]
          /\ UNCHANGED <<pool, retired>>
       \/ /\ ~ stop
          /\ \E p \in Pools : /\ Unused(p)
                              /\ pool' = [pool EXCEPT ![p] = Fresh]
                              /\ retired' = retired \ {p}
                              /\ loop' = [loop EXCEPT !.pc = "connect", !.candidate = p]
    /\ UNCHANGED <<dbUp, published, current, wake, stop, first, stopper, user>>

ConnectOk ==
    /\ WaitFor("connect") /\ dbUp
    /\ pool' = [pool EXCEPT ![loop.candidate].inner = "open"]
    /\ loop' = [loop EXCEPT !.pc = "test", !.cancel = FALSE]
    /\ UNCHANGED <<dbUp, published, current, retired, wake, stop, first, stopper, user>>

TestOk ==
    /\ WaitFor("test") /\ dbUp
    /\ loop' = [loop EXCEPT !.pc = "schema", !.cancel = FALSE]
    /\ UNCHANGED <<dbUp, pool, published, current, retired, wake, stop, first, stopper, user>>

\* A refused or timed out connect or test, or a failing migration.
AttemptFails ==
    /\ WaitFor("connect") \/ WaitFor("test") \/ At("schema")
    /\ loop' = [loop EXCEPT !.pc = "closeCandidate", !.cancel = FALSE]
    /\ UNCHANGED <<dbUp, pool, published, current, retired, wake, stop, first, stopper, user>>

CloseCandidate ==
    /\ WaitFor("closeCandidate")
    /\ IF pool[loop.candidate].inner = "open"
       THEN BeginClose(loop.candidate) /\ UNCHANGED <<loop, user, first>>
       ELSE /\ EndClose(loop.candidate)
            /\ loop' = [loop EXCEPT !.pc = "sleep", !.candidate = None, !.cancel = FALSE]
            /\ first' = TRUE
    /\ UNCHANGED <<dbUp, published, current, retired, wake, stop, stopper>>

\* The capped backoff passes.
Sleep ==
    /\ At("sleep")
    /\ loop' = [loop EXCEPT !.pc = "head"]
    /\ UNCHANGED <<dbUp, pool, published, current, retired, wake, stop, first, stopper, user>>

\* Mutant: the replaced pool is not remembered while it is being closed.
SchemaOk_Forgets ==
    /\ At("schema") /\ dbUp
    /\ pool' = [p \in Pools |-> [pool[p] EXCEPT !.notifies = (p = loop.candidate)]]
    /\ current' = loop.candidate
    /\ published' = loop.candidate
    /\ wake' = FALSE
    /\ first' = TRUE
    /\ loop' = [loop EXCEPT !.candidate = None, !.previous = current,
                            !.pc = IF current = None THEN "wait" ELSE "closePrevious"]
    /\ UNCHANGED <<dbUp, retired, stop, stopper, user>>

\* The schema is current: attach, clear, publish and retire in one step.
SchemaOk ==
    /\ At("schema") /\ dbUp
    /\ pool' = [p \in Pools |-> [pool[p] EXCEPT !.notifies = (p = loop.candidate)]]
    /\ current' = loop.candidate
    /\ published' = loop.candidate
    /\ wake' = FALSE
    /\ first' = TRUE
    /\ retired' = retired \cup ({current} \ {None})
    /\ loop' = [loop EXCEPT !.candidate = None, !.previous = current,
                            !.pc = IF current = None THEN "wait" ELSE "closePrevious"]
    /\ UNCHANGED <<dbUp, stop, stopper, user>>

\* Mutant: the wake-up is cleared after the replaced pool was closed.
ClosePrevious_ClearsWake ==
    /\ WaitFor("closePrevious")
    /\ IF pool[loop.previous].inner = "open"
       THEN BeginClose(loop.previous) /\ UNCHANGED <<loop, user, wake>>
       ELSE /\ EndClose(loop.previous)
            /\ wake' = FALSE
            /\ loop' = [loop EXCEPT !.pc = "wait", !.previous = None, !.cancel = FALSE]
    /\ UNCHANGED <<dbUp, published, current, retired, stop, first, stopper>>

ClosePrevious ==
    /\ WaitFor("closePrevious")
    /\ IF pool[loop.previous].inner = "open"
       THEN BeginClose(loop.previous) /\ UNCHANGED <<loop, user>>
       ELSE /\ EndClose(loop.previous)
            /\ loop' = [loop EXCEPT !.pc = "wait", !.previous = None, !.cancel = FALSE]
    /\ UNCHANGED <<dbUp, published, current, retired, wake, stop, first, stopper>>

\* Mutant: the lost pool is closed before there is another.
WaitFailureOrStop_Closes ==
    /\ At("wait")
    /\ wake \/ stop
    /\ loop' = [loop EXCEPT !.pc = IF stop THEN "ended" ELSE "head"]
    /\ pool' = IF stop THEN pool ELSE [pool EXCEPT ![current] = [inner |-> "closed", notifies |-> FALSE]]
    /\ UNCHANGED <<dbUp, published, current, retired, wake, stop, first, stopper, user>>

\* _wait_failure_or_stop, then _mark_unavailable: the lost pool stays
\* published but can no longer wake the loop.
WaitFailureOrStop ==
    /\ At("wait")
    /\ wake \/ stop
    /\ loop' = [loop EXCEPT !.pc = IF stop THEN "ended" ELSE "head"]
    /\ pool' = IF stop THEN pool ELSE [pool EXCEPT ![current].notifies = FALSE]
    /\ UNCHANGED <<dbUp, published, current, retired, wake, stop, first, stopper, user>>

\* CancelledError.  A close that was already under way ends in terminate().
Cancelled ==
    /\ loop.cancel /\ loop.pc # "head"
    /\ LET closing == {p \in {loop.candidate, loop.previous} \ {None} : pool[p].inner = "closing"}
       IN  /\ pool' = [p \in Pools |-> IF p \in closing THEN [pool[p] EXCEPT !.inner = "closed"] ELSE pool[p]]
           /\ user' = [u \in Users |-> IF user[u].pc = "holding" /\ user[u].pool \in closing
                                       THEN [pc |-> "idle", pool |-> None] ELSE user[u]]
    /\ loop' = [loop EXCEPT !.pc = IF loop.candidate = None THEN "ended" ELSE "finally", !.previous = None, !.cancel = FALSE]
    /\ UNCHANGED <<dbUp, published, current, retired, wake, stop, first, stopper>>

Finally ==
    /\ WaitFor("finally")
    /\ IF pool[loop.candidate].inner = "open"
       THEN BeginClose(loop.candidate) /\ UNCHANGED <<loop, user>>
       ELSE EndClose(loop.candidate) /\ loop' = [loop EXCEPT !.pc = "ended", !.candidate = None]
    /\ UNCHANGED <<dbUp, published, current, retired, wake, stop, first, stopper>>

-----------------------------------------------------------------------------
(* stop().                                                                 *)

Stop ==
    /\ stopper.pc = "running" /\ first
    /\ stop' = TRUE
    /\ loop' = [loop EXCEPT !.cancel = loop.pc # "ended"]
    /\ stopper' = [stopper EXCEPT !.pc = "awaiting"]
    /\ UNCHANGED <<dbUp, pool, published, current, retired, wake, first, user>>

TaskEnded ==
    /\ stopper.pc = "awaiting" /\ loop.pc = "ended"
    /\ stopper' = [pc |-> "closing", left |-> retired \cup ({current} \ {None})]
    /\ pool' = IF current = None THEN pool ELSE [pool EXCEPT ![current].notifies = FALSE]
    /\ current' = None /\ retired' = {}
    /\ UNCHANGED <<dbUp, published, wake, stop, first, loop, user>>

StopCloses(p) ==
    /\ stopper.pc = "closing" /\ p \in stopper.left
    /\ IF pool[p].inner = "open"
       THEN BeginClose(p) /\ UNCHANGED <<stopper, user>>
       ELSE EndClose(p) /\ stopper' = [stopper EXCEPT !.left = @ \ {p}]
    /\ UNCHANGED <<dbUp, published, current, retired, wake, stop, first, loop>>

Stopped ==
    /\ stopper.pc = "closing" /\ stopper.left = {}
    /\ stopper' = [stopper EXCEPT !.pc = "stopped"]
    /\ UNCHANGED <<dbUp, pool, published, current, retired, wake, stop, first, loop, user>>

-----------------------------------------------------------------------------
(* Requests, /health and /ready.  A request keeps the pool object it read. *)

Ask(u) ==
    /\ user[u].pc = "idle" /\ published # None /\ ~ stop
    /\ user' = [user EXCEPT ![u] = [pc |-> "acquiring", pool |-> published]]
    /\ UNCHANGED <<dbUp, pool, published, current, retired, wake, stop, first, loop, stopper>>

Acquire(u) ==
    /\ user[u].pc = "acquiring" /\ pool[user[u].pool].inner = "open"
    /\ user' = [user EXCEPT ![u].pc = "holding"]
    /\ UNCHANGED <<dbUp, pool, published, current, retired, wake, stop, first, loop, stopper>>

\* The acquisition fails or times out.
AcquireFails(u) ==
    /\ user[u].pc = "acquiring"
    /\ wake' = (wake \/ pool[user[u].pool].notifies)
    /\ user' = [user EXCEPT ![u] = [pc |-> "idle", pool |-> None]]
    /\ UNCHANGED <<dbUp, pool, published, current, retired, stop, first, loop, stopper>>

Release(u) ==
    /\ user[u].pc = "holding"
    /\ user' = [user EXCEPT ![u] = [pc |-> "idle", pool |-> None]]
    /\ UNCHANGED <<dbUp, pool, published, current, retired, wake, stop, first, loop, stopper>>

\* The round trip of /ready fails or times out on the connection it was
\* given: the connection goes back and the pool it came from is reported.
ProbeFails(u) ==
    /\ u \in Probes /\ user[u].pc = "holding"
    /\ wake' = (wake \/ pool[user[u].pool].notifies)
    /\ user' = [user EXCEPT ![u] = [pc |-> "idle", pool |-> None]]
    /\ UNCHANGED <<dbUp, pool, published, current, retired, stop, first, loop, stopper>>

Outage ==
    /\ dbUp' = ~ dbUp
    /\ UNCHANGED <<pool, published, current, retired, wake, stop, first, loop, stopper, user>>

LoopStep ==
    \/ LoopHead \/ ConnectOk \/ TestOk \/ AttemptFails \/ CloseCandidate \/ Sleep \/ SchemaOk
    \/ ClosePrevious \/ WaitFailureOrStop \/ Cancelled \/ Finally

StopStep == TaskEnded \/ (\E p \in Pools : StopCloses(p)) \/ Stopped

Next ==
    \/ LoopStep
    \/ Stop
    \/ StopStep
    \/ \E u \in Users : Ask(u) \/ Acquire(u) \/ AcquireFails(u) \/ Release(u) \/ ProbeFails(u)
    \/ Outage

(* The event loop runs every ready task, and every wait of the supervisor  *)
(* is bounded by a timeout (the migrations are assumed to end).  While the *)
(* database is up, not every attempt fails.                                *)
Fairness ==
    /\ WF_vars(LoopStep) /\ WF_vars(StopStep)
    /\ SF_vars(ConnectOk) /\ SF_vars(TestOk) /\ SF_vars(SchemaOk)

Spec == Init /\ [][Next]_vars /\ Fairness

-----------------------------------------------------------------------------
(* Properties.                                                             *)

\* Until shutdown the published pool is an open one: a replacement is
\* published before the pool it replaces is closed, and a pool that was
\* reported dead keeps serving until there is another.
PublishedIsOpen == published # None /\ ~ stop => pool[published].inner = "open"

\* stop() leaves no pool open, wherever the cancellation hit the loop:
\* between connecting and publishing, while closing a failed candidate or
\* while closing the pool just replaced.
StoppedMeansClosed ==
    stopper.pc = "stopped" => \A p \in Pools : pool[p].inner \notin {"open", "closing"}

\* A failure reported on the published pool is acted on, also when it is
\* reported while the loop is still closing the previous pool.
WakeIsSeen == (wake /\ loop.pc \in {"closePrevious", "wait"}) ~> (loop.pc = "connect" \/ stop)

\* Once the database stays up, the gateway has an open pool for good.
RecoversFromOutage ==
    <>[](dbUp /\ ~ stop) => <>[](published # None /\ pool[published].inner = "open")

\* The supervisor answers every loss of the database with a new pool.
SupervisorResponds == WakeIsSeen /\ RecoversFromOutage

\* Shutdown ends, although a cancellation may be lost in wait_for.
ShutdownEnds == stop ~> stopper.pc = "stopped"
=============================================================================
