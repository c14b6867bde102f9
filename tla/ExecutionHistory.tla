-------------------------- MODULE ExecutionHistory --------------------------
(***************************************************************************)
(* What the gateway promises about the history of its executions, whoever  *)
(* writes it: an execution is recorded once, may change while it runs, and *)
(* is final when it has ended.  Only an audited correction may still turn  *)
(* a cancelled execution into a completed one, and it leaves the rest of   *)
(* the row as it was.                                                      *)
(*                                                                         *)
(* AFKLifecycle (the API's transactions) and ExecutionReconciliation (the  *)
(* AWX sweep and the operator's script) implement this specification.      *)
(***************************************************************************)
EXTENDS Values, Naturals

CONSTANT Executions

VARIABLES
    history,      \* execution -> [outcome, rest], or None
    corrections   \* execution -> number of audit rows

historyVars == <<history, corrections>>

Ended == {"completed", "failed", "cancelled"}

HistoryInit ==
    /\ \A e \in Executions : history[e] # None => history[e].outcome = "running"
    /\ corrections = [e \in Executions |-> 0]

Untouched(e) == history'[e] = history[e] /\ corrections'[e] = corrections[e]
OthersUntouched(e) == \A f \in Executions \ {e} : Untouched(f)

Record(e) ==
    /\ history[e] = None /\ history'[e] # None
    /\ corrections'[e] = corrections[e]
    /\ OthersUntouched(e)

\* The row of a running execution changes; the change may end it.
Amend(e) ==
    /\ history[e] # None /\ history'[e] # None
    /\ history[e].outcome = "running" /\ history'[e].outcome \in {"running"} \cup Ended
    /\ corrections'[e] = corrections[e]
    /\ OthersUntouched(e)

\* Of two corrections at once the later finds the execution corrected.
Correctable(e) ==
    \/ history[e].outcome = "cancelled"
    \/ history[e].outcome = "completed" /\ corrections[e] > 0

CorrectOutcome(e) ==
    /\ history[e] # None /\ Correctable(e)
    /\ history' = [history EXCEPT ![e].outcome = "completed"]
    /\ corrections' = [corrections EXCEPT ![e] = @ + 1]

HistoryNext == \E e \in Executions : Record(e) \/ Amend(e) \/ CorrectOutcome(e)

HistorySpec == HistoryInit /\ [][HistoryNext]_historyVars
=============================================================================
