---------------------------- MODULE MCMaintenance ----------------------------
(* The jobs that repair or derive data next to the running gateway: the    *)
(* daily dashboards, the AWX reconciliation and the usage reconciliation.  *)
(* They share no table the models keep, so the run explores one of them at *)
(* a time: `focus' is chosen in the initial state.                         *)
EXTENDS Dashboards, ExecutionReconciliation, HistoricalUsage, TLC

VARIABLE focus

-----------------------------------------------------------------------------
(* The dashboards: one run that changes its day, one run without an owner, *)
(* a session both may claim, a usage event that grows past Int4Max and one *)
(* without a provider.                                                     *)

Plan(kind, table, lo, hi) == [kind |-> kind, table |-> table, lo |-> lo, hi |-> hi]
MCPlans == {Plan("refresh", "afk", 1, 1), Plan("backfill", "afk", 1, 2), Plan("verify", "afk", 1, 1),
            Plan("refresh", "usage", 1, 2), Plan("backfill", "usage", 2, 2)}

MCMonth(d) == 0

RunFact(id, day, owner) == [kind |-> "run", id |-> id, day |-> day, owner |-> owner]
UsageFact(id, provider, day, n) ==
    [kind |-> "usage", id |-> id, session |-> "s", provider |-> provider, day |-> day, tokens |-> n]

MCFacts ==
    {RunFact("r1", 1, "A"), RunFact("r1", 2, "A"), RunFact("r2", 1, None),
     [kind |-> "event", id |-> "e", type |-> "opened", day |-> 1, owner |-> "A"],
     [kind |-> "binding", id |-> "x", type |-> "completed", day |-> 1, owner |-> "A"],
     [kind |-> "link", id |-> "l1", session |-> "s", run |-> "r1", day |-> 1],
     [kind |-> "link", id |-> "l2", session |-> "s", run |-> "r2", day |-> 1],
     UsageFact("u", "P", 1, 1), UsageFact("u", "P", 1, 3), UsageFact("v", None, 2, 1)}

MCSeeded == {RunFact("r1", 1, "A"), UsageFact("u", "P", 1, 1),
             [kind |-> "link", id |-> "l1", session |-> "s", run |-> "r1", day |-> 1]}

-----------------------------------------------------------------------------
(* Two AWX jobs, the first without the evidence a completion needs.        *)

MCShape == [j \in AwxJobs |-> [complete |-> j > 1, blamed |-> FALSE]]

-----------------------------------------------------------------------------
(* Three events of one record in two sessions, one more to be booked, and  *)
(* a rollup that has drifted and keeps a bucket without events.            *)

EventRow(record, session, bucket, day, first, tokens) ==
    [record |-> record, client |-> "c", session |-> session, bucket |-> bucket, day |-> day,
     first |-> first, tokens |-> tokens]

MCEventRows == <<EventRow("k", "s", "b", 1, 1, 2), EventRow("k", "t", "b", 1, 2, 2),
                 EventRow("k", "t", "g", 2, 3, 3), EventRow("m", "t", None, 2, 4, 1)>>

MCOldRollup == [b \in {"b", "old"} |-> IF b = "b" THEN 4 ELSE 7]

MCScopes == {[client |-> None, days |-> {1, 2}], [client |-> "c", days |-> {1, 2}]}

-----------------------------------------------------------------------------
Init == /\ focus \in {"dashboards", "reconciliation", "history"}
        /\ DashInit /\ ReconcileInit /\ HistInit

Next == \/ focus = "dashboards" /\ DashNext /\ UNCHANGED <<focus, recVars, histVars>>
        \/ focus = "reconciliation" /\ ReconcileNext /\ UNCHANGED <<focus, dashVars, histVars>>
        \/ focus = "history" /\ HistNext /\ UNCHANGED <<focus, dashVars, recVars>>

Spec == Init /\ [][Next]_<<focus, dashVars, recVars, histVars>>

Symmetry == Permutations(DashJobs) \cup Permutations(Admins)
=============================================================================
