---------------------- MODULE ExecutionReconciliation ----------------------
(***************************************************************************)
(* Executions whose AWX job ended without a terminal callback stay running *)
(* until an administrator's reconciliation pass asks AWX.  A pass reads the*)
(* oldest running bindings up to a limit, looks all their jobs up in       *)
(* parallel and then persists the answers one after the other, while the   *)
(* playbooks still send callbacks, other passes run, and an operator       *)
(* corrects executions wrongly recorded as cancelled.                      *)
(*                                                                         *)
(* A binding is named by its AWX job, a number in order of creation.  Of   *)
(* what a binding holds, complete says whether it has the session and the  *)
(* change request that a completed execution needs, blamed whether it has  *)
(* failure metadata; finished is the terminal timestamp.                   *)
(***************************************************************************)
EXTENDS Values, Integers, FiniteSets

CONSTANTS
    AwxJobs,   \* AWX job ids, in order of creation
    Passes,    \* concurrent reconciliation requests
    Operators, \* concurrent runs of correct_execution_outcome.py
    Limit,     \* the pass's limit
    Shape      \* AwxJobs -> [complete, blamed]: what provisioning left


VARIABLES
    awx,         \* job -> its status in AWX; None when AWX forgot it
    execution,   \* job -> the binding's [outcome, finished, complete, blamed]
    audit,       \* job -> rows in execution_outcome_corrections
    pass,        \* pass -> [pc, listed, answer]
    fix          \* operator -> [pc, job]

recVars == <<awx, execution, audit, pass, fix>>

Terminal == {"completed", "failed", "cancelled"}
AwxFinal == {"successful", "failed", "canceled"}

\* map_awx_status_to_outcome; every other status is not terminal yet.
OutcomeOf(status) ==
    CASE status = "successful" -> "completed"
      [] status = "failed"     -> "failed"
      [] status = "canceled"   -> "cancelled"
      [] OTHER                 -> None

\* None is neither a status, a timestamp nor a row.
ASSUME ReconcileAssumption ==
    /\ Limit \in Nat \ {0} /\ AwxJobs \subseteq Nat
    /\ Shape \in [AwxJobs -> [complete : BOOLEAN, blamed : BOOLEAN]]
    /\ None \notin AwxFinal \cup Terminal \cup {"running", "callback", "awx"}
    /\ None \notin [outcome : {"running"} \cup Terminal, rest : {None, "callback", "awx"}]

-----------------------------------------------------------------------------
(* AWX and the playbooks, external.                                        *)

\* A job ends, or AWX purges a job that ended.
JobEnds == \E j \in AwxJobs :
    /\ \/ awx[j] = "running" /\ \E s \in AwxFinal : awx' = [awx EXCEPT ![j] = s]
       \/ awx[j] \in AwxFinal /\ awx' = [awx EXCEPT ![j] = None]
    /\ UNCHANGED <<execution, audit, pass, fix>>

\* Mutant: a terminal binding is overwritten by what comes later.
Update_Overwrites(j, outcome, at, extra) ==
    [execution[j] EXCEPT !.outcome = outcome, !.finished = at,
                         !.complete = @ \/ extra.complete, !.blamed = @ \/ extra.blamed]

\* update_execution_binding_terminal for an outcome, a finish time and what
\* else the request carries, under the binding's row lock: a terminal row
\* never changes, and completed needs a session, a change request and no
\* failure metadata.
Update(j, outcome, at, extra) ==
    LET row == execution[j]
        new == [outcome |-> outcome, finished |-> at, complete |-> row.complete \/ extra.complete,
                blamed |-> row.blamed \/ extra.blamed]
    IN  IF row.outcome \in Terminal \/ (outcome = "completed" /\ (~new.complete \/ new.blamed))
        THEN row ELSE new

NoExtra == [complete |-> FALSE, blamed |-> FALSE]

\* The playbook's own callback, which may come late or more than once.
Callback == \E j \in AwxJobs, o \in Terminal :
    /\ awx[j] # "running"
    /\ execution' = [execution EXCEPT ![j] =
         Update(j, o, "callback", [complete |-> o = "completed", blamed |-> o = "failed"])]
    /\ UNCHANGED <<awx, audit, pass, fix>>

-----------------------------------------------------------------------------
(* The pass.                                                               *)

Ready == [pc |-> "idle", listed |-> {}, answer |-> [j \in AwxJobs |-> "unasked"]]

Running == {j \in AwxJobs : execution[j].outcome = "running"}

\* list_running_execution_bindings: the oldest, up to the limit.
Listed == {j \in Running : Cardinality({i \in Running : i < j}) < Limit}

ListRunning(p) ==
    /\ pass[p].pc = "idle" /\ Listed # {}
    /\ pass' = [pass EXCEPT ![p] = [Ready EXCEPT !.pc = "lookup", !.listed = Listed]]
    /\ UNCHANGED <<awx, execution, audit, fix>>

\* One AWX answer: the status, None for a 404, or an error.
LookupJob(p) == \E j \in pass[p].listed : \E a \in {awx[j], "error"} :
    /\ pass[p].pc = "lookup" /\ pass[p].answer[j] = "unasked"
    /\ pass' = [pass EXCEPT ![p].answer[j] = a]
    /\ UNCHANGED <<awx, execution, audit, fix>>

\* gather returned: the second phase begins.
LookupsDone(p) ==
    /\ pass[p].pc = "lookup" /\ \A j \in pass[p].listed : pass[p].answer[j] # "unasked"
    /\ pass' = [pass EXCEPT ![p].pc = "persist"]
    /\ UNCHANGED <<awx, execution, audit, fix>>

\* Mutant: a job that AWX does not know is taken for cancelled.
PersistResult_MissingIsCancelled(p) == \E j \in pass[p].listed :
    LET o == IF pass[p].answer[j] = None THEN "cancelled" ELSE OutcomeOf(pass[p].answer[j]) IN
    /\ pass[p].pc = "persist" /\ \A i \in pass[p].listed : j <= i
    /\ execution' = IF o = None THEN execution ELSE [execution EXCEPT ![j] = Update(j, o, "awx", NoExtra)]
    /\ pass' = [pass EXCEPT ![p].listed = @ \ {j}]
    /\ UNCHANGED <<awx, audit, fix>>

\* One answer is persisted, in the order of the list; a missing job, an
\* error and a job that still runs leave the binding alone.
PersistResult(p) == \E j \in pass[p].listed :
    LET o == OutcomeOf(pass[p].answer[j]) IN
    /\ pass[p].pc = "persist" /\ \A i \in pass[p].listed : j <= i
    /\ execution' = IF o = None THEN execution ELSE [execution EXCEPT ![j] = Update(j, o, "awx", NoExtra)]
    /\ pass' = [pass EXCEPT ![p].listed = @ \ {j}]
    /\ UNCHANGED <<awx, audit, fix>>

\* The pass answers, or its request is cut off after any step.
EndPass(p) ==
    /\ pass[p].pc # "idle"
    /\ pass' = [pass EXCEPT ![p] = Ready]
    /\ UNCHANGED <<awx, execution, audit, fix>>

-----------------------------------------------------------------------------
(* correct_execution_outcome.py: the read takes no lock.                   *)

ReadBinding(o) == \E j \in AwxJobs :
    /\ fix[o].pc = "idle" /\ execution[j].outcome = "cancelled"
    /\ fix' = [fix EXCEPT ![o] = [pc |-> "correct", job |-> j]]
    /\ UNCHANGED <<awx, execution, audit, pass>>

\* The audit row and the update, in one transaction.
Correct(o) ==
    /\ fix[o].pc = "correct"
    /\ audit' = [audit EXCEPT ![fix[o].job] = @ + 1]
    /\ execution' = [execution EXCEPT ![fix[o].job].outcome = "completed", ![fix[o].job].blamed = FALSE]
    /\ fix' = [fix EXCEPT ![o] = [pc |-> "done", job |-> None]]
    /\ UNCHANGED <<awx, pass>>

ReconcileInit ==
    /\ awx = [j \in AwxJobs |-> "running"]
    /\ execution = [j \in AwxJobs |-> [outcome |-> "running", finished |-> None,
                                       complete |-> Shape[j].complete, blamed |-> Shape[j].blamed]]
    /\ audit = [j \in AwxJobs |-> 0]
    /\ pass = [p \in Passes |-> Ready]
    /\ fix = [o \in Operators |-> [pc |-> "idle", job |-> None]]

PassStep(p) == ListRunning(p) \/ LookupJob(p) \/ LookupsDone(p) \/ PersistResult(p) \/ EndPass(p)

ReconcileNext ==
    \/ JobEnds \/ Callback
    \/ \E p \in Passes : PassStep(p)
    \/ \E o \in Operators : ReadBinding(o) \/ Correct(o)

ReconcileSpec == ReconcileInit /\ [][ReconcileNext]_recVars

-----------------------------------------------------------------------------
(* Properties.                                                             *)

\* Whatever callbacks, passes and corrections race, the bindings are an
\* execution history: a terminal outcome changes only from cancelled to
\* completed, with an audit row, and its finish time never.
History == INSTANCE ExecutionHistory WITH
    Executions  <- AwxJobs,
    history     <- [j \in AwxJobs |-> [outcome |-> execution[j].outcome, rest |-> execution[j].finished]],
    corrections <- audit

ReconciliationKeepsHistory == History!HistorySpec

\* A pass records only what AWX answered: a binding it made terminal belongs
\* to a job that ended that way (AWX may have purged it since), never to one
\* that is still running or that AWX did not know when it was asked.
PassRecordsAwxFinal ==
    [][\A j \in AwxJobs :
          execution[j].finished = None /\ execution'[j].finished = "awx" =>
             \E p \in Passes : OutcomeOf(pass[p].answer[j]) = execution'[j].outcome]_recVars

\* A completed execution has its session and change request unless an
\* operator's correction made it so.
CompletedHasEvidence == \A j \in AwxJobs :
    execution[j].outcome = "completed" /\ ~execution[j].complete => audit[j] > 0

\* Late, parallel and interrupted passes record the truth: the job of a
\* binding that a pass made terminal has ended, and unless AWX purged it or
\* an operator corrected the binding, it ended the way the binding says.
SweptOutcomesAreTrue == \A j \in AwxJobs : execution[j].finished = "awx" =>
    /\ awx[j] # "running"
    /\ awx[j] = None \/ OutcomeOf(awx[j]) = execution[j].outcome \/ audit[j] > 0

\* No outcome is recorded without its evidence: AWX's answer for a pass,
\* session and change request or an audited correction for a completion.
OutcomesHaveEvidence ==
    []CompletedHasEvidence /\ []SweptOutcomesAreTrue /\ PassRecordsAwxFinal
=============================================================================
