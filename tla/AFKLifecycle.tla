---------------------------- MODULE AFKLifecycle ----------------------------
(***************************************************************************)
(* The AFK run lifecycle of the gateway: provisioning of runs, binding of  *)
(* a change request to a run, creation and terminal update of AWX          *)
(* execution bindings, retitling and orphan deletion of runs, as the       *)
(* methods of AsyncpgOutcomeRepository (afk_outcomes/repository/           *)
(* lifecycle.py, executions.py) and the endpoints that call them           *)
(* (app/api/afk_executions.py, app/api/afk_runs.py) perform them.          *)
(*                                                                         *)
(* Several requests are served at once, each on a connection of its own    *)
(* and in one PostgreSQL transaction at READ COMMITTED.  The variables     *)
(* runs, bindings, links and logged are the committed tables; tx[c] is     *)
(* what the transaction of connection c has read, locked and written.      *)
(* One action is one SQL statement, with the Python code around it: a      *)
(* statement that needs a row locked by another transaction, or a unique   *)
(* key another transaction has written and not committed, waits.           *)
(***************************************************************************)
EXTENDS Naturals, FiniteSets

CONSTANTS Clients,    \* connections serving requests
          Runs,       \* AFK run ULIDs; each is handed out once
          Jobs,       \* AWX job ids
          Legacy,     \* jobs whose row predates afk_run_id: its run is NULL
          CRs,        \* change-request identities (provider, repository, number)
          Requests,   \* the requests clients may send
          None        \* SQL NULL, a missing row, an omitted optional field

(***************************************************************************)
(* Running is provisional; the others are terminal (ExecutionOutcome).     *)
(***************************************************************************)
Terminal == {"completed", "failed"}

\* The columns of a row that control flow depends on.
RunRow == [key : STRING, title : STRING \cup {None}, batch : STRING \cup {None},
           recovered : Runs \cup {None}, cr : CRs \cup {None}]
BindingRow == [run : Runs \cup {None}, cr : CRs \cup {None},
               session : STRING \cup {None}, failure : STRING \cup {None},
               outcome : Terminal \cup {"running"}]

\* What a completed execution must carry, and must not.
Complete(row) == row.cr # None /\ row.session # None /\ row.failure = None

(***************************************************************************)
(* The requests that pass the validation of the API's schemas.  Each       *)
(* request class names the fields its operation may be given; only a       *)
(* terminal update may leave the failure fields out altogether.            *)
(***************************************************************************)
ProvisionRequests == [op : {"provision"}, key : STRING, title : STRING \cup {None},
                      batch : STRING \cup {None}, recovered : Runs \cup {None}]
BindRequests == [op : {"bind"}, run : Runs, cr : CRs]
TitleRequests == [op : {"title"}, run : Runs, title : STRING]
DeleteRequests == [op : {"delete"}, run : Runs]
CheckpointRequests == [op : {"checkpoint"}, job : Jobs, ref : STRING]

\* A creation that completes at once has to bring everything itself.
CreateRequests ==
  {q \in [op : {"create"}, job : Jobs, run : Runs, cr : CRs \cup {None},
          session : STRING \cup {None}, failure : STRING \cup {None},
          outcome : Terminal \cup {"running"}] :
     q.outcome = "completed" => Complete(q)}

\* A terminal update may draw on the stored row, but brings no failure to a
\* completion.
TerminalRequests ==
  {q \in [op : {"terminal"}, job : Jobs, outcome : Terminal, cr : CRs \cup {None},
          session : STRING \cup {None}, failureProvided : BOOLEAN,
          failure : STRING \cup {None}] :
     q.outcome = "completed" \/ ~q.failureProvided => q.failure = None}

ValidRequests ==
  ProvisionRequests \cup BindRequests \cup TitleRequests \cup DeleteRequests
  \cup CheckpointRequests \cup CreateRequests \cup TerminalRequests

\* NULL is no identity, text, status code, request or row.
ASSUME LifecycleAssumption ==
  /\ Requests \subseteq ValidRequests /\ Legacy \subseteq Jobs
  /\ None \notin Runs /\ None \notin Jobs /\ None \notin CRs
  /\ None \notin STRING /\ None \notin Nat /\ None \notin ValidRequests
  /\ None \notin RunRow /\ None \notin BindingRow
  /\ None \notin [outcome : Terminal \cup {"running"}, rest : BindingRow]

VARIABLES runs,      \* afk_runs
          bindings,  \* execution_bindings, by awx_job_id
          links,     \* afk_run_sessions: pairs of run and external session id
          logged,    \* runs that delivery_log rows refer to
          checkpoints, \* recovery_checkpoints, by their unique key
          used,      \* ULIDs handed out so far
          tx         \* the transaction of each connection
vars == <<runs, bindings, links, logged, checkpoints, used, tx>>
tables == <<runs, bindings, links, logged, checkpoints>>

(***************************************************************************)
(* A transaction: the statement it is at (pc), the request it serves, the  *)
(* row it has read (seen), the run rows it holds FOR UPDATE, the row of    *)
(* execution_bindings it holds (job), the run it holds FOR KEY SHARE       *)
(* through a foreign key (share), and what it has written: the change      *)
(* request claimed for its run, the binding row, the provisioned run.      *)
(* ans is the answer, while the connection is idle after it.               *)
(***************************************************************************)
NoTx == [pc |-> "idle", req |-> None, seen |-> None, locked |-> {},
         job |-> None, share |-> None, claim |-> None, put |-> None,
         fresh |-> None, ans |-> None]

LegacyRow == [run |-> None, cr |-> None, session |-> None, failure |-> None,
              outcome |-> "running"]

Init ==
  /\ runs = [r \in Runs |-> None]
  /\ bindings = [j \in Jobs |-> IF j \in Legacy THEN LegacyRow ELSE None]
  /\ links = {} /\ logged = {} /\ used = {} /\ checkpoints = {}
  /\ tx = [c \in Clients |-> NoTx]

-----------------------------------------------------------------------------
Others(c) == Clients \ {c}
Req(c) == tx[c].req
Exists(r) == runs[r] # None

\* No other transaction holds r FOR UPDATE.
Unlocked(c, r) == \A d \in Others(c) : r \notin tx[d].locked
\* FOR UPDATE also waits for foreign-key share locks.
Free(c, r) == Unlocked(c, r) /\ \A d \in Others(c) : tx[d].share # r

At(c, pc) == tx[c].pc = pc
Goto(c, pc) == tx' = [tx EXCEPT ![c].pc = pc]
Started(q, pc) == [NoTx EXCEPT !.req = q, !.pc = pc]

\* The transaction ends (nothing it wrote and did not commit survives) and
\* the endpoint answers.
Answer(c, code) == tx' = [tx EXCEPT ![c] = [NoTx EXCEPT !.ans = code]]

\* Runs provisioned under a key (uq_afk_runs_provisioning_key).
WithKey(k) == {r \in Runs : Exists(r) /\ runs[r].key = k}
\* Runs a change request is bound to (uq_afk_runs_change_request_identity).
Owners(cr) == {r \in Runs : Exists(r) /\ runs[r].cr = cr}

-----------------------------------------------------------------------------
(***************************************************************************)
(* provision_afk_run                                                       *)
(***************************************************************************)

\* A replay that omits the batch is not compared with the stored one.
_batch_provenance_matches(r, q) ==
  q.batch = None \/ runs[r].batch = q.batch

provisioning_payload_matches(r, q) ==
  /\ runs[r].title = q.title
  /\ runs[r].recovered = q.recovered

ReplayCode(r, q) ==
  IF provisioning_payload_matches(r, q) /\ _batch_provenance_matches(r, q)
  THEN 200 ELSE 409

\* SELECT by the idempotency key.
ProvisionSelect(c, q) ==
  /\ At(c, "idle") /\ q.op = "provision"
  /\ \/ /\ WithKey(q.key) = {}
        /\ tx' = [tx EXCEPT ![c] =
                    Started(q, IF q.recovered = None THEN "insertRun"
                                                     ELSE "predecessor")]
     \/ \E r \in WithKey(q.key) : Answer(c, ReplayCode(r, q))
  /\ UNCHANGED <<tables, used>>

ProvisionPredecessor(c) ==
  /\ At(c, "predecessor")
  /\ \/ Exists(Req(c).recovered) /\ Goto(c, "insertRun")
     \/ ~Exists(Req(c).recovered) /\ Answer(c, 404)
  /\ UNCHANGED <<tables, used>>

\* Another transaction has inserted a run with this key and not committed.
KeyPending(c, k) ==
  \E d \in Others(c) : tx[d].fresh # None /\ tx[d].req.key = k

\* INSERT ... ON CONFLICT (provider, host, source_event_id) DO NOTHING, with
\* the batch rows; the foreign key of recovered_from is checked next.
ProvisionInsert(c) ==
  /\ At(c, "insertRun")
  /\ ~KeyPending(c, Req(c).key)
  /\ \/ /\ WithKey(Req(c).key) = {}
        /\ \E r \in Runs \ used :
             /\ used' = used \cup {r}
             /\ tx' = [tx EXCEPT ![c].fresh = r,
                         ![c].pc = IF Req(c).recovered = None
                                   THEN "commit" ELSE "foreignKey"]
     \/ /\ WithKey(Req(c).key) # {}
        /\ Goto(c, "winner") /\ UNCHANGED used
  /\ UNCHANGED tables

\* The foreign key locks the predecessor FOR KEY SHARE; a predecessor deleted
\* meanwhile is a ForeignKeyViolationError, which nothing catches.
ProvisionForeignKey(c) ==
  LET p == Req(c).recovered IN
  /\ At(c, "foreignKey")
  /\ Unlocked(c, p)
  /\ \/ /\ Exists(p)
        /\ tx' = [tx EXCEPT ![c].share = p, ![c].pc = "commit"]
     \/ ~Exists(p) /\ Answer(c, 500)
  /\ UNCHANGED <<tables, used>>

\* The insert lost: read the winner again, which may be deleted by now.
ProvisionWinner(c) ==
  /\ At(c, "winner")
  /\ \/ \E r \in WithKey(Req(c).key) : Answer(c, ReplayCode(r, Req(c)))
     \/ WithKey(Req(c).key) = {} /\ Answer(c, 500)
  /\ UNCHANGED <<tables, used>>

-----------------------------------------------------------------------------
(***************************************************************************)
(* _apply_change_request_binding, shared by bind_change_request and the    *)
(* two execution writes.                                                   *)
(***************************************************************************)

\* The run a transaction works on, and the change request it wants bound.
RunOf(c) ==
  IF Req(c).op = "terminal" THEN bindings[Req(c).job].run ELSE Req(c).run
Wanted(c) == IF Req(c).op = "terminal" THEN tx[c].put.cr ELSE Req(c).cr

\* Where a transaction goes once the change request is known to be its run's.
Accept(c) ==
  CASE Req(c).op = "bind"     -> Answer(c, 200)
    [] Req(c).op = "create"   -> Goto(c, "insertBinding")
    [] Req(c).op = "terminal" -> Goto(c, "commit")

\* A bound run is compared; otherwise SELECT the run that owns the change
\* request.  If this very run owns it now, the row is read again and matches.
ApplyPreCheck(c) ==
  LET bound == tx[c].seen.cr
      owners == Owners(Wanted(c))
  IN
  /\ At(c, "apply")
  /\ \/ bound = Wanted(c) /\ Accept(c)
     \/ bound \notin {None, Wanted(c)} /\ Answer(c, 409)
     \/ bound = None /\ RunOf(c) \in owners /\ Accept(c)
     \/ bound = None /\ owners \ {RunOf(c)} # {} /\ Answer(c, 409)
     \/ /\ bound = None /\ owners = {}
        /\ Goto(c, "updateRun")
  /\ UNCHANGED <<tables, used>>

\* Mutant: the UPDATE does not look whether the run has been bound since.
ApplyUpdate_Overwrites(c) ==
  LET r == RunOf(c) IN
  /\ At(c, "updateRun")
  /\ Unlocked(c, r)
  /\ \/ Exists(r) /\ tx' = [tx EXCEPT ![c].locked = @ \cup {r}, ![c].pc = "unique"]
     \/ ~Exists(r) /\ Answer(c, 409)
  /\ UNCHANGED <<tables, used>>

\* UPDATE ... WHERE change_request_provider IS NULL takes the row lock.  No
\* row updated: a concurrent bind of this run won, or the run is gone.
ApplyUpdate(c) ==
  LET r == RunOf(c) IN
  /\ At(c, "updateRun")
  /\ Unlocked(c, r)
  /\ \/ /\ Exists(r) /\ runs[r].cr = None
        /\ tx' = [tx EXCEPT ![c].locked = @ \cup {r}, ![c].pc = "unique"]
     \/ Exists(r) /\ runs[r].cr = Wanted(c) /\ Accept(c)
     \/ /\ Exists(r) => runs[r].cr \notin {None, Wanted(c)}
        /\ Answer(c, 409)
  /\ UNCHANGED <<tables, used>>

\* Another transaction has claimed the change request and not committed.
ClaimPending(c, cr) == \E d \in Others(c) : tx[d].claim = cr

\* Mutant: no unique index, the pre-check alone protects the identity.
ApplyUnique_NoIndex(c) ==
  /\ At(c, "unique")
  /\ tx' = [tx EXCEPT ![c].claim = Wanted(c),
              ![c].pc = IF Req(c).op = "create"
                        THEN "insertBinding" ELSE "commit"]
  /\ UNCHANGED <<tables, used>>

\* The unique index: a committed owner is a UniqueViolationError, which rolls
\* the savepoint back and is a conflict.
ApplyUnique(c) ==
  /\ At(c, "unique")
  /\ ~ClaimPending(c, Wanted(c))
  /\ \/ Owners(Wanted(c)) # {} /\ Answer(c, 409)
     \/ /\ Owners(Wanted(c)) = {}
        /\ tx' = [tx EXCEPT ![c].claim = Wanted(c),
                    ![c].pc = IF Req(c).op = "create"
                              THEN "insertBinding" ELSE "commit"]
  /\ UNCHANGED <<tables, used>>

\* bind_change_request reads the run without locking it.
BindRead(c, q) ==
  /\ At(c, "idle") /\ q.op = "bind"
  /\ \/ /\ Exists(q.run)
        /\ tx' = [tx EXCEPT ![c] = [Started(q, "apply") EXCEPT
                                      !.seen = runs[q.run]]]
     \/ ~Exists(q.run) /\ Answer(c, 404)
  /\ UNCHANGED <<tables, used>>

-----------------------------------------------------------------------------
(***************************************************************************)
(* create_or_replay_afk_execution_binding, POST /executions                *)
(***************************************************************************)

\* A supplied optional field differs from the stored one.
Differs(supplied, stored) == supplied # None /\ supplied # stored

\* The comparison of the repository, which leaves the resource out.
PayloadMatches(row, q) ==
  /\ row.outcome = q.outcome /\ row.run = q.run
  /\ ~Differs(q.session, row.session)
  /\ ~Differs(q.failure, row.failure)

\* The comparison of the endpoint.
_binding_conflicts_with(row, q) ==
  ~PayloadMatches(row, q) \/ Differs(q.cr, row.cr)

\* SELECT the binding by awx_job_id.  Its run is locked, the binding is not:
\* what is compared is what the statement's snapshot saw before the wait.
CreateSelect(c, q) ==
  /\ At(c, "idle") /\ q.op = "create"
  /\ tx' = [tx EXCEPT ![c] =
              [Started(q, IF bindings[q.job] = None THEN "lock" ELSE "replay")
                 EXCEPT !.seen = bindings[q.job]]]
  /\ UNCHANGED <<tables, used>>

CreateReplay(c) ==
  /\ At(c, "replay")
  /\ tx[c].seen.run # None => Free(c, tx[c].seen.run)
  /\ \/ PayloadMatches(tx[c].seen, Req(c)) /\ Goto(c, "reread")
     \/ ~PayloadMatches(tx[c].seen, Req(c)) /\ Answer(c, 409)
  /\ UNCHANGED <<tables, used>>

\* SELECT ... FROM afk_runs FOR UPDATE.
CreateLock(c) ==
  LET r == Req(c).run IN
  /\ At(c, "lock")
  /\ Free(c, r)
  /\ \/ /\ Exists(r)
        /\ tx' = [tx EXCEPT ![c].locked = {r}, ![c].seen = runs[r],
                    ![c].pc = IF Req(c).cr = None
                              THEN "insertBinding" ELSE "apply"]
     \/ ~Exists(r) /\ Answer(c, 404)
  /\ UNCHANGED <<tables, used>>

\* Another transaction has inserted the job and not committed.
JobPending(c, j) ==
  \E d \in Others(c) : /\ tx[d].put # None
                       /\ tx[d].req.op = "create" /\ tx[d].req.job = j

\* INSERT ... ON CONFLICT (awx_job_id) DO NOTHING, then the session link.
\* The loser keeps what it has written so far.
CreateInsert(c) ==
  LET q == Req(c) IN
  /\ At(c, "insertBinding")
  /\ ~JobPending(c, q.job)
  /\ \/ /\ bindings[q.job] = None
        /\ tx' = [tx EXCEPT ![c].pc = "commit",
                    ![c].put = [run |-> q.run, cr |-> q.cr,
                                session |-> q.session, failure |-> q.failure,
                                outcome |-> q.outcome]]
     \/ bindings[q.job] # None /\ Goto(c, "commitLoser")
  /\ UNCHANGED <<tables, used>>

\* After the transaction the endpoint reads the binding and compares it in
\* full.
CreateReread(c) ==
  /\ At(c, "reread")
  /\ Answer(c, IF _binding_conflicts_with(bindings[Req(c).job], Req(c))
               THEN 409 ELSE 200)
  /\ UNCHANGED <<tables, used>>

-----------------------------------------------------------------------------
(***************************************************************************)
(* update_execution_binding_terminal, PATCH /executions/{awx_job_id}       *)
(***************************************************************************)

\* A supplied fill-in contradicts a stored value.
Contradicts(supplied, stored) ==
  supplied # None /\ stored # None /\ supplied # stored

FillIn(supplied, stored) == IF supplied = None THEN stored ELSE supplied

FillInConflict(row, q) ==
  \/ Contradicts(q.session, row.session)
  \/ Contradicts(q.cr, row.cr)

FailureConflict(row, q) ==
  q.failureProvided /\ Contradicts(q.failure, row.failure)

\* A terminal row is observed again, never changed.
Identical(row, q) ==
  /\ row.outcome = q.outcome
  /\ ~q.failureProvided \/ row.failure = q.failure
  /\ ~FillInConflict(row, q)

Merged(row, q) ==
  [run |-> row.run, outcome |-> q.outcome,
   cr |-> FillIn(q.cr, row.cr), session |-> FillIn(q.session, row.session),
   failure |-> IF q.failureProvided THEN q.failure ELSE row.failure]

\* Mutant: a terminal row may change again.
Transition_Reopens(row, q) ==
  /\ ~FillInConflict(row, q) /\ ~FailureConflict(row, q)
  /\ q.outcome = "completed" => Complete(Merged(row, q))

\* The update is a legal transition of the row.
Transition(row, q) ==
  /\ row.outcome \notin Terminal
  /\ ~FillInConflict(row, q) /\ ~FailureConflict(row, q)
  /\ q.outcome = "completed" => Complete(Merged(row, q))

\* SELECT ... FOR UPDATE locks the run, then the binding, and returns the
\* binding as it is once both are locked.
TerminalLock(c, q) ==
  LET row == bindings[q.job]
      authority == row.run # None /\ Merged(row, q).cr # None
  IN
  /\ At(c, "idle") /\ q.op = "terminal"
  /\ \A d \in Others(c) : tx[d].job # q.job
  /\ row # None /\ row.run # None => Free(c, row.run)
  /\ \/ row = None /\ Answer(c, 404)
     \/ /\ row # None /\ row.outcome \in Terminal
        /\ Answer(c, IF Identical(row, q) THEN 200 ELSE 409)
     \/ /\ row # None /\ row.outcome \notin Terminal /\ ~Transition(row, q)
        /\ Answer(c, 409)
     \/ /\ row # None /\ Transition(row, q)
        /\ tx' = [tx EXCEPT ![c] =
                    [Started(q, IF authority THEN "apply" ELSE "commit") EXCEPT
                       !.job = q.job, !.locked = {row.run} \ {None},
                       !.put = Merged(row, q),
                       !.seen = IF authority THEN runs[row.run] ELSE None]]
  /\ UNCHANGED <<tables, used>>

-----------------------------------------------------------------------------
(***************************************************************************)
(* create_or_replay_recovery_checkpoint,                                   *)
(* POST /executions/{awx_job_id}/recovery-checkpoints                      *)
(***************************************************************************)

\* SELECT the run of the execution, without a lock.
CheckpointSelect(c, q) ==
  /\ At(c, "idle") /\ q.op = "checkpoint"
  /\ \/ bindings[q.job] = None /\ Answer(c, 404)
     \/ /\ bindings[q.job] # None
        /\ tx' = [tx EXCEPT ![c] = [Started(q, "insertCheckpoint") EXCEPT
                                      !.seen = bindings[q.job]]]
  /\ UNCHANGED <<tables, used>>

CheckpointRow(c) == [job |-> Req(c).job, ref |-> Req(c).ref, run |-> tx[c].seen.run]
Recorded(c) == {k \in checkpoints : k.job = Req(c).job /\ k.ref = Req(c).ref}

\* INSERT ... ON CONFLICT (awx_job_id, ref, commit_sha) DO NOTHING.  The
\* foreign keys share-lock the execution and its run, so the statement waits
\* for whoever holds one of them for update, and for an uncommitted insert of
\* the same key.  A replay reads the row that is there.
CheckpointInsert(c) ==
  LET q == Req(c)
      run == tx[c].seen.run
  IN
  /\ At(c, "insertCheckpoint")
  /\ \A d \in Others(c) : tx[d].job = q.job
       => Req(d).op = "checkpoint" /\ Req(d).ref # q.ref
  /\ run # None => Unlocked(c, run)
  /\ \/ Recorded(c) # {} /\ Answer(c, 200)
     \/ /\ Recorded(c) = {} /\ (run # None => Exists(run))
        /\ tx' = [tx EXCEPT ![c].job = q.job, ![c].share = run, ![c].pc = "commit"]
     \/ Recorded(c) = {} /\ run # None /\ ~Exists(run) /\ Answer(c, 500)
  /\ UNCHANGED <<tables, used>>

-----------------------------------------------------------------------------
(***************************************************************************)
(* update_afk_run (PATCH /runs/{id}) and _delete_orphan_run                *)
(***************************************************************************)
TitleLock(c, q) ==
  /\ At(c, "idle") /\ q.op = "title"
  /\ Free(c, q.run)
  /\ \/ ~Exists(q.run) /\ Answer(c, 404)
     \/ Exists(q.run) /\ runs[q.run].title = q.title /\ Answer(c, 200)
     \/ /\ Exists(q.run) /\ runs[q.run].title # q.title
        /\ tx' = [tx EXCEPT ![c] = [Started(q, "commit") EXCEPT
                                      !.locked = {q.run}]]
  /\ UNCHANGED <<tables, used>>

\* Mutant: the run is read without FOR UPDATE.
DeleteLock_NoLock(c, q) ==
  /\ At(c, "idle") /\ q.op = "delete"
  /\ IF Exists(q.run)
     THEN tx' = [tx EXCEPT ![c] = [Started(q, "eligible") EXCEPT
                                     !.seen = runs[q.run]]]
     ELSE Answer(c, 404)
  /\ UNCHANGED <<tables, used>>

DeleteLock(c, q) ==
  /\ At(c, "idle") /\ q.op = "delete"
  /\ Free(c, q.run)
  /\ \/ ~Exists(q.run) /\ Answer(c, 404)
     \/ /\ Exists(q.run)
        /\ tx' = [tx EXCEPT ![c] = [Started(q, "eligible") EXCEPT
                                      !.locked = {q.run}, !.seen = runs[q.run]]]
  /\ UNCHANGED <<tables, used>>

HasBindings(r) == \E j \in Jobs : bindings[j] # None /\ bindings[j].run = r

DeleteEligible(c) ==
  LET r == Req(c).run
      orphan == tx[c].seen.cr = None /\ ~HasBindings(r) /\ r \notin logged
  IN
  /\ At(c, "eligible")
  /\ \/ orphan /\ Goto(c, "deleteRun")
     \/ ~orphan /\ Answer(c, 409)
  /\ UNCHANGED <<tables, used>>

\* DELETE FROM afk_runs: ON DELETE SET NULL updates, and so locks, the runs
\* recovered from this one.
DeleteRun(c) ==
  LET successors == {s \in Runs : Exists(s) /\ runs[s].recovered = Req(c).run}
  IN
  /\ At(c, "deleteRun")
  /\ Free(c, Req(c).run) /\ \A s \in successors : Unlocked(c, s)
  /\ tx' = [tx EXCEPT ![c].locked = successors \cup {Req(c).run},
                      ![c].pc = "commit"]
  /\ UNCHANGED <<tables, used>>

-----------------------------------------------------------------------------
(***************************************************************************)
(* The end of a transaction                                                *)
(***************************************************************************)
ClearRun(row, r) ==
  IF row # None /\ row.run = r THEN [row EXCEPT !.run = None] ELSE row
ClearRecovered(row, r) ==
  IF row # None /\ row.recovered = r THEN [row EXCEPT !.recovered = None]
                                     ELSE row

ProvisionedRow(q) == [key |-> q.key, title |-> q.title, batch |-> q.batch,
                      recovered |-> q.recovered, cr |-> None]

\* The session link an execution write upserts.
SessionLinks(c) ==
  LET put == tx[c].put IN
  IF put # None /\ put.run # None /\ put.session # None
  THEN {<<put.run, put.session>>} ELSE {}

\* What the statements of each operation have written, made visible at once.
WriteTables(c) ==
  LET q == Req(c)
      put == tx[c].put
  IN
  CASE q.op = "provision" ->
         /\ runs' = [runs EXCEPT ![tx[c].fresh] = ProvisionedRow(q)]
         /\ UNCHANGED <<bindings, links, logged, checkpoints>>
    [] q.op = "title" ->
         /\ runs' = [runs EXCEPT ![q.run].title = q.title]
         /\ UNCHANGED <<bindings, links, logged, checkpoints>>
    [] q.op = "delete" ->
         /\ runs' = [r \in Runs |-> IF r = q.run THEN None
                                    ELSE ClearRecovered(runs[r], q.run)]
         /\ bindings' = [j \in Jobs |-> ClearRun(bindings[j], q.run)]
         /\ links' = {l \in links : l[1] # q.run}
         /\ checkpoints' = {ClearRun(k, q.run) : k \in checkpoints}
         /\ UNCHANGED logged
    [] q.op \in {"bind", "create", "terminal"} ->
         /\ runs' = IF tx[c].claim = None THEN runs
                    ELSE [runs EXCEPT ![RunOf(c)].cr = tx[c].claim]
         /\ bindings' = IF put = None THEN bindings
                        ELSE [bindings EXCEPT ![q.job] = put]
         /\ links' = links \cup SessionLinks(c)
         /\ UNCHANGED <<logged, checkpoints>>
    [] q.op = "checkpoint" ->
         /\ checkpoints' = checkpoints \cup {CheckpointRow(c)}
         /\ UNCHANGED <<runs, bindings, links, logged>>

SuccessCode(q) == CASE q.op \in {"provision", "create", "checkpoint"} -> 201
                    [] q.op \in {"bind", "terminal", "title"} -> 200
                    [] q.op = "delete" -> 204

\* COMMIT.  When the database timeout cancels the request in this statement
\* the client is told 504 although the commit took place.
Commit(c) ==
  /\ At(c, "commit")
  /\ WriteTables(c)
  /\ \E code \in {SuccessCode(Req(c)), 504} : Answer(c, code)
  /\ UNCHANGED used

\* The loser of the insert race commits too, then reads the winner.
CommitLoser(c) ==
  /\ At(c, "commitLoser")
  /\ WriteTables(c)
  /\ tx' = [tx EXCEPT ![c] = Started(Req(c), "reread")]
  /\ UNCHANGED used

\* _db_timeout and _request_timeout cancel a request anywhere; asyncpg rolls
\* the transaction back.
Timeout(c) ==
  /\ ~At(c, "idle")
  /\ Answer(c, 504)
  /\ UNCHANGED <<tables, used>>

\* The backfill (crud.save) logs a delivery of a run; the foreign key makes
\* it wait for a transaction that holds the run FOR UPDATE.
LogDelivery(r) ==
  /\ Exists(r) /\ \A d \in Clients : r \notin tx[d].locked
  /\ logged' = logged \cup {r}
  /\ UNCHANGED <<runs, bindings, links, checkpoints, used, tx>>

Begin(c, q) ==
  \/ ProvisionSelect(c, q) \/ BindRead(c, q) \/ CreateSelect(c, q)
  \/ TerminalLock(c, q) \/ TitleLock(c, q) \/ DeleteLock(c, q)
  \/ CheckpointSelect(c, q)

Step(c) ==
  \/ ProvisionPredecessor(c) \/ ProvisionInsert(c)
  \/ ProvisionForeignKey(c) \/ ProvisionWinner(c)
  \/ ApplyPreCheck(c) \/ ApplyUpdate(c) \/ ApplyUnique(c)
  \/ CreateReplay(c) \/ CreateLock(c) \/ CreateInsert(c) \/ CreateReread(c)
  \/ DeleteEligible(c) \/ DeleteRun(c) \/ CheckpointInsert(c)
  \/ Commit(c) \/ CommitLoser(c)

Next == \/ \E c \in Clients : \E q \in Requests : Begin(c, q)
        \/ \E c \in Clients : Step(c) \/ Timeout(c)
        \/ \E r \in Runs : LogDelivery(r)

Spec == Init /\ [][Next]_vars

-----------------------------------------------------------------------------
PCs == {"idle", "predecessor", "insertRun", "foreignKey", "winner", "apply",
        "updateRun", "unique", "replay", "lock", "insertBinding", "reread",
        "eligible", "deleteRun", "insertCheckpoint", "commit", "commitLoser"}

\* The tables hold rows of their schema, only a transaction that is under way
\* holds locks or unwritten changes, and every ULID in use was handed out.
TypeOK ==
  /\ runs \in [Runs -> RunRow \cup {None}]
  /\ bindings \in [Jobs -> BindingRow \cup {None}]
  /\ links \subseteq Runs \X STRING
  /\ logged \subseteq used /\ used \subseteq Runs
  /\ checkpoints \subseteq [job : Jobs, ref : STRING, run : Runs \cup {None}]
  /\ {r \in Runs : Exists(r)} \subseteq used
  /\ tx \in [Clients ->
       [pc : PCs, req : Requests \cup {None},
        seen : RunRow \cup BindingRow \cup {None}, locked : SUBSET Runs,
        job : Jobs \cup {None}, share : Runs \cup {None},
        claim : CRs \cup {None}, put : BindingRow \cup {None},
        fresh : used \cup {None},
        ans : Nat \cup {None}]]
  /\ \A c \in Clients : At(c, "idle") => tx[c] = [NoTx EXCEPT !.ans = tx[c].ans]

\* A change request is bound to at most one run and a provisioning key names
\* at most one run, whatever binds, executions and provisioning calls
\* interleave (lifecycle.py, the 1:1 invariant and the idempotency key).
IdentitiesAreUnique ==
  \A r, s \in Runs : Exists(r) /\ Exists(s) /\ r # s =>
    /\ runs[r].key # runs[s].key
    /\ runs[r].cr # None => runs[r].cr # runs[s].cr

\* An execution that carries a change request carries its run's: the execution
\* row can never diverge from afk_runs (executions.py, lifecycle authority).
BindingAgreesWithRun ==
  \A j \in Jobs : bindings[j] # None =>
    (bindings[j].run # None /\ bindings[j].cr # None =>
       runs[bindings[j].run].cr = bindings[j].cr)

\* An execution never loses the run it was created under: orphan deletion sees
\* every binding a concurrent request is about to commit.
BindingKeepsItsRun ==
  \A j \in Jobs \ Legacy : bindings[j] # None =>
    bindings[j].run # None /\ Exists(bindings[j].run)

\* The session of an execution is linked to its run, and every link belongs
\* to a run that exists.
SessionsAreLinked ==
  /\ \A j \in Jobs : bindings[j] # None =>
       (bindings[j].run # None /\ bindings[j].session # None =>
          <<bindings[j].run, bindings[j].session>> \in links)
  /\ \A l \in links : Exists(l[1])

\* A recovery checkpoint belongs to an execution that is there and to that
\* execution's run, although the run was read without a lock and executions
\* are created, updated and their runs deleted meanwhile (executions.py, "the
\* execution binding is the authority").
CheckpointsFollowExecutions ==
  \A k \in checkpoints :
    bindings[k.job] # None /\ k.run = bindings[k.job].run

\* A completed execution carries a change request and a session and no
\* failure metadata, by whichever of the two phases each was supplied.
CompletedIsComplete ==
  \A j \in Jobs : bindings[j] # None /\ bindings[j].outcome = "completed" =>
    /\ bindings[j].cr # None /\ bindings[j].session # None
    /\ bindings[j].failure = None

\* The rows agree with each other, whichever requests race: executions with
\* their runs, sessions with their links, checkpoints with their executions,
\* and completions with the evidence they need.
TablesAgree ==
  /\ BindingAgreesWithRun /\ BindingKeepsItsRun
  /\ SessionsAreLinked /\ CheckpointsFollowExecutions /\ CompletedIsComplete

\* The execution bindings are an execution history, whichever requests
\* race: none is recorded twice, and a terminal row is never changed again,
\* in any of its columns (executions.py, the terminal guard).
History == INSTANCE ExecutionHistory WITH
  Executions  <- Jobs,
  history     <- [j \in Jobs |-> IF bindings[j] = None THEN None
                                ELSE [outcome |-> bindings[j].outcome, rest |-> bindings[j]]],
  corrections <- [j \in Jobs |-> 0]

LifecycleKeepsHistory == History!HistorySpec

\* A run's change request, once bound, is never another one, although bind
\* and the execution writes read the run before they lock it.
BoundIsFinal ==
  [][\A r \in Runs : Exists(r) /\ runs[r].cr # None
        => runs'[r] # None /\ runs'[r].cr = runs[r].cr]_vars

\* The answer c gives in this step, None if it gives none.
Answering(c) == IF ~At(c, "idle") /\ tx'[c].pc = "idle" THEN tx'[c].ans ELSE None

\* What a request that succeeds tells its caller is what the tables hold: the
\* run is bound to the change request, the execution belongs to the run and
\* the change request of the call, or has the outcome of the update, the
\* recovery checkpoint is recorded.
AnswersHold ==
  [][\A c \in Clients : Answering(c) \in {200, 201} =>
       LET q == Req(c) IN
       /\ q.op = "bind" => runs'[q.run] # None /\ runs'[q.run].cr = q.cr
       /\ q.op = "create" => /\ bindings'[q.job].run = q.run
                             /\ q.cr # None => bindings'[q.job].cr = q.cr
       /\ q.op = "terminal" => bindings'[q.job].outcome = q.outcome
       /\ q.op = "checkpoint" => \E k \in checkpoints' :
                                   k.job = q.job /\ k.ref = q.ref]_vars

\* What a caller was told is true and, for the binding of a change request,
\* stays true.
AnswersStayTrue == AnswersHold /\ BoundIsFinal
=============================================================================
