-------------------------- MODULE AFKLifecycleProofs --------------------------
(***************************************************************************)
(* Proofs about AFKLifecycle for any number of connections, runs, jobs,    *)
(* change requests and requests: identities are unique, the tables agree   *)
(* with each other, the bindings implement ExecutionHistory, and what a    *)
(* caller is told is true.                                                 *)
(*                                                                         *)
(* The tables alone are not inductive: a commit writes what its            *)
(* transaction decided many statements ago.  The invariant therefore says, *)
(* for each statement a transaction can be at, which of the facts it has   *)
(* read are still true of the committed tables (Sound), and that no two    *)
(* transactions hold what excludes the other (Apart).                      *)
(***************************************************************************)
EXTENDS AFKLifecycle, TLAPS

TxType ==
  [pc : PCs, req : Requests \cup {None},
   seen : RunRow \cup BindingRow \cup {None}, locked : SUBSET Runs,
   job : Jobs \cup {None}, share : Runs \cup {None},
   claim : CRs \cup {None}, put : BindingRow \cup {None},
   fresh : used \cup {None}, ans : Nat \cup {None}]

CheckpointType == [job : Jobs, ref : STRING, run : Runs \cup {None}]

(* The run is bound to this change request; the run has none yet.          *)
BoundTo(r, cr) == Exists(r) /\ runs[r].cr = cr
Bindable(r) == Exists(r) /\ runs[r].cr = None

(* What _apply_change_request_binding has established when it accepts: the *)
(* run is bound, or the transaction has claimed the change request.        *)
Settled(t, r, cr) ==
  \/ t.claim = None /\ BoundTo(r, cr)
  \/ t.claim = cr /\ Bindable(r) /\ Owners(cr) = {}

(* What the transaction knows at each statement of that procedure.  A bind *)
(* has no lock before the UPDATE, the execution writes do.                 *)
Applying(t, r, cr) ==
  /\ cr # None /\ t.claim = None
  /\ t.pc = "apply" => t.seen \in RunRow /\ (t.seen.cr # None => BoundTo(r, t.seen.cr))
  /\ t.pc = "unique" => Bindable(r)

Idle(t) == t = [NoTx EXCEPT !.ans = t.ans]

Provisioning(t) ==
  /\ t.req \in ProvisionRequests
  /\ t.pc \in {"predecessor", "insertRun", "foreignKey", "winner", "commit"}
  /\ t.locked = {} /\ t.job = None /\ t.claim = None /\ t.put = None
  /\ t.pc \in {"foreignKey", "commit"} <=> t.fresh # None
  /\ t.fresh # None => ~Exists(t.fresh) /\ WithKey(t.req.key) = {}

Binding(t) ==
  /\ t.req \in BindRequests
  /\ t.job = None /\ t.put = None /\ t.fresh = None
  /\ \/ /\ t.pc \in {"apply", "updateRun", "unique"}
        /\ Applying(t, t.req.run, t.req.cr)
     \/ /\ t.pc = "commit"
        /\ t.claim = t.req.cr /\ Bindable(t.req.run) /\ Owners(t.req.cr) = {}
  /\ t.locked = IF t.pc \in {"unique", "commit"} THEN {t.req.run} ELSE {}

RequestedRow(q) == [run |-> q.run, cr |-> q.cr, session |-> q.session,
                    failure |-> q.failure, outcome |-> q.outcome]

Creating(t) ==
  /\ t.req \in CreateRequests
  /\ t.job = None /\ t.fresh = None
  /\ \/ /\ t.pc \in {"replay", "lock", "reread"}
        /\ t.locked = {} /\ t.claim = None
        /\ t.pc # "lock" => bindings[t.req.job] # None
        /\ t.pc = "replay" => t.seen \in BindingRow
     \/ /\ t.locked = {t.req.run} /\ Exists(t.req.run)
        /\ \/ /\ t.pc \in {"apply", "updateRun", "unique"}
              /\ Applying(t, t.req.run, t.req.cr)
           \/ /\ t.pc \in {"insertBinding", "commit", "commitLoser"}
              /\ IF t.req.cr = None THEN t.claim = None
                                    ELSE Settled(t, t.req.run, t.req.cr)
  /\ t.pc = "commitLoser" => bindings[t.req.job] # None
  /\ IF t.pc = "commit"
     THEN bindings[t.req.job] = None /\ t.put = RequestedRow(t.req)
     ELSE t.put = None

Updating(t) ==
  LET row == bindings[t.req.job] IN
  /\ t.req \in TerminalRequests
  /\ t.job = t.req.job /\ t.fresh = None
  /\ row # None /\ Transition(row, t.req) /\ t.put = Merged(row, t.req)
  /\ t.locked = {row.run} \ {None}
  /\ \/ /\ t.pc \in {"apply", "updateRun", "unique"}
        /\ row.run # None /\ Applying(t, row.run, t.put.cr)
     \/ /\ t.pc = "commit"
        /\ IF row.run = None \/ t.put.cr = None THEN t.claim = None
                                                ELSE Settled(t, row.run, t.put.cr)

Checkpointing(t) ==
  /\ t.req \in CheckpointRequests
  /\ t.locked = {} /\ t.claim = None /\ t.put = None /\ t.fresh = None
  /\ \/ t.pc = "insertCheckpoint" /\ t.job = None
     \/ t.pc = "commit" /\ t.job = t.req.job
  /\ bindings[t.req.job] # None
  /\ t.seen \in BindingRow /\ t.seen.run = bindings[t.req.job].run

Retitling(t) ==
  /\ t.req \in TitleRequests /\ t.pc = "commit"
  /\ t.job = None /\ t.claim = None /\ t.put = None /\ t.fresh = None
  /\ t.locked = {t.req.run} /\ Exists(t.req.run)

Deleting(t) ==
  /\ t.req \in DeleteRequests
  /\ t.job = None /\ t.claim = None /\ t.put = None /\ t.fresh = None
  /\ t.req.run \in t.locked /\ Exists(t.req.run)
  /\ \/ t.pc = "eligible" /\ t.seen \in RunRow /\ t.seen.cr = runs[t.req.run].cr
     \/ t.pc \in {"deleteRun", "commit"} /\ Bindable(t.req.run) /\ ~HasBindings(t.req.run)

(* What a transaction has read and still relies on is true.                *)
Sound(t) ==
  \/ Idle(t) \/ Provisioning(t) \/ Binding(t) \/ Creating(t) \/ Updating(t)
  \/ Checkpointing(t) \/ Retitling(t) \/ Deleting(t)

Inserting(t) == t.put # None /\ t.req.op = "create"

(* Two transactions never hold the same row for update, claim the same     *)
(* change request, insert a run under the same key or the same execution.  *)
Apart(t, u) ==
  /\ t.locked \cap u.locked = {}
  /\ t.claim # None => t.claim # u.claim
  /\ t.fresh # None /\ u.fresh # None => t.fresh # u.fresh /\ t.req.key # u.req.key
  /\ Inserting(t) /\ Inserting(u) => t.req.job # u.req.job
  /\ t.job # None /\ t.job = u.job =>
       t.req.op = "checkpoint" /\ u.req.op = "checkpoint"

TableTypes ==
  /\ runs \in [Runs -> RunRow \cup {None}]
  /\ bindings \in [Jobs -> BindingRow \cup {None}]
  /\ links \subseteq Runs \X STRING
  /\ logged \subseteq used /\ used \subseteq Runs
  /\ checkpoints \subseteq CheckpointType
  /\ {r \in Runs : Exists(r)} \subseteq used

BindingRunsExist ==
  \A j \in Jobs : bindings[j] # None /\ bindings[j].run # None =>
    Exists(bindings[j].run)

TxInv == /\ tx \in [Clients -> TxType]
         /\ \A c \in Clients : Sound(tx[c])
         /\ \A c, d \in Clients : c # d => Apart(tx[c], tx[d])

LifecycleInv ==
  /\ TableTypes /\ IdentitiesAreUnique /\ TablesAgree /\ BindingRunsExist
  /\ TxInv

-----------------------------------------------------------------------------
(* Requests and rows.                                                      *)

(* The operation of a request names its class, and its fields with it.     *)
LEMMA RequestsByOp ==
  ASSUME NEW q \in Requests
  PROVE  /\ q.op = "provision" => q \in ProvisionRequests
         /\ q.op = "bind" => q \in BindRequests
         /\ q.op = "title" => q \in TitleRequests
         /\ q.op = "delete" => q \in DeleteRequests
         /\ q.op = "checkpoint" => q \in CheckpointRequests
         /\ q.op = "create" => q \in CreateRequests
         /\ q.op = "terminal" => q \in TerminalRequests
BY LifecycleAssumption
   DEF ValidRequests, ProvisionRequests, BindRequests, TitleRequests, DeleteRequests,
       CheckpointRequests, CreateRequests, TerminalRequests

LEMMA OpsOfRequests ==
  /\ \A q \in ProvisionRequests : q.op = "provision"
  /\ \A q \in BindRequests : q.op = "bind"
  /\ \A q \in TitleRequests : q.op = "title"
  /\ \A q \in DeleteRequests : q.op = "delete"
  /\ \A q \in CheckpointRequests : q.op = "checkpoint"
  /\ \A q \in CreateRequests : q.op = "create"
  /\ \A q \in TerminalRequests : q.op = "terminal"
BY DEF ProvisionRequests, BindRequests, TitleRequests, DeleteRequests,
       CheckpointRequests, CreateRequests, TerminalRequests

(* A terminal update fills a row in and leaves its run alone.              *)
LEMMA MergedRow ==
  ASSUME NEW row \in BindingRow, NEW q \in TerminalRequests
  PROVE  /\ Merged(row, q) \in BindingRow
         /\ Merged(row, q).run = row.run /\ Merged(row, q).outcome = q.outcome
         /\ Merged(row, q).cr \in {q.cr, row.cr}
<1>1. q.failure \in STRING \cup {None} /\ row.failure \in STRING \cup {None}
  BY DEF TerminalRequests, BindingRow
<1>2. (IF q.failureProvided THEN q.failure ELSE row.failure) \in STRING \cup {None}
  BY <1>1
<1>3. FillIn(q.cr, row.cr) \in CRs \cup {None} /\ FillIn(q.cr, row.cr) \in {q.cr, row.cr}
  BY DEF FillIn, TerminalRequests, BindingRow
<1>4. FillIn(q.session, row.session) \in STRING \cup {None}
  BY DEF FillIn, TerminalRequests, BindingRow
<1> DEFINE f == IF q.failureProvided THEN q.failure ELSE row.failure
<1>5. Merged(row, q) = [run |-> row.run, outcome |-> q.outcome,
   cr |-> FillIn(q.cr, row.cr), session |-> FillIn(q.session, row.session),
   failure |-> f]
  BY DEF Merged
<1>6. row.run \in Runs \cup {None} /\ q.outcome \in Terminal BY DEF BindingRow, TerminalRequests
<1>7. f \in STRING \cup {None} BY <1>2
<1> HIDE DEF f
<1> QED BY <1>3, <1>4, <1>5, <1>6, <1>7 DEF BindingRow

LEMMA ApartIsSymmetric ==
  ASSUME NEW t, NEW u, Apart(t, u)
  PROVE  Apart(u, t)
BY DEF Apart

(* Two transactions stay apart when neither takes anything.                *)
LEMMA ApartIsAboutHoldings ==
  ASSUME NEW t, NEW u, NEW v, Apart(v, u),
         t.locked \subseteq v.locked, t.claim \in {v.claim, None}, t.fresh \in {v.fresh, None},
         t.put \in {v.put, None}, t.job \in {v.job, None}, t.req = v.req
  PROVE  Apart(t, u)
<1>1. t.locked \cap u.locked = {} BY DEF Apart
<1>2. t.claim # None => t.claim # u.claim BY DEF Apart
<1>3. t.fresh # None /\ u.fresh # None => t.fresh # u.fresh /\ t.req.key # u.req.key BY DEF Apart
<1>4. Inserting(t) => Inserting(v) BY DEF Inserting
<1>5. Inserting(t) /\ Inserting(u) => t.req.job # u.req.job BY <1>4 DEF Apart
<1>6. t.job # None /\ t.job = u.job => t.req.op = "checkpoint" /\ u.req.op = "checkpoint" BY DEF Apart
<1> QED BY <1>1, <1>2, <1>3, <1>5, <1>6 DEF Apart

LEMMA NothingHeldIsApart ==
  ASSUME NEW t, NEW u, t.locked = {}, t.claim = None, t.fresh = None,
         t.put = None, t.job = None
  PROVE  Apart(t, u)
BY DEF Apart, Inserting

-----------------------------------------------------------------------------
(* Statements that write no table.                                         *)

LEMMA SoundIsAboutTables ==
  ASSUME NEW t, Sound(t), UNCHANGED <<runs, bindings>>
  PROVE  Sound(t)'
<1>1. runs' = runs /\ bindings' = bindings OBVIOUS
<1>2. \A r : Exists(r)' = Exists(r) BY <1>1 DEF Exists
<1>3. \A r, cr : BoundTo(r, cr)' = BoundTo(r, cr) BY <1>1, <1>2 DEF BoundTo
<1>4. \A r : Bindable(r)' = Bindable(r) BY <1>1, <1>2 DEF Bindable
<1>5. \A cr : Owners(cr)' = Owners(cr) BY <1>1, <1>2 DEF Owners
<1>6. \A k : WithKey(k)' = WithKey(k) BY <1>1, <1>2 DEF WithKey
<1>7. \A r : HasBindings(r)' = HasBindings(r) BY <1>1 DEF HasBindings
<1>8. \A r, cr : Settled(t, r, cr)' = Settled(t, r, cr) BY <1>3, <1>4, <1>5 DEF Settled
<1>9. \A r, cr : Applying(t, r, cr)' = Applying(t, r, cr) BY <1>3, <1>4 DEF Applying
<1>10. Idle(t)' = Idle(t) BY DEF Idle
<1>11. Provisioning(t)' = Provisioning(t) BY <1>2, <1>6 DEF Provisioning
<1>12. Binding(t)' = Binding(t) BY <1>4, <1>5, <1>9 DEF Binding
<1>13. Creating(t)' = Creating(t) BY <1>1, <1>2, <1>8, <1>9 DEF Creating
<1>14. Updating(t)' = Updating(t) BY <1>1, <1>8, <1>9 DEF Updating
<1>15. Checkpointing(t)' = Checkpointing(t) BY <1>1 DEF Checkpointing
<1>16. Retitling(t)' = Retitling(t) BY <1>2 DEF Retitling
<1>17. Deleting(t)' = Deleting(t) BY <1>1, <1>2, <1>4, <1>7 DEF Deleting
<1> QED BY <1>10, <1>11, <1>12, <1>13, <1>14, <1>15, <1>16, <1>17 DEF Sound

(* A statement that writes no table preserves the invariant if what its    *)
(* own transaction then relies on is true and nobody else holds it.        *)
LEMMA QuietStep ==
  ASSUME LifecycleInv, NEW c \in Clients, NEW t, t \in TxType',
         tx' = [tx EXCEPT ![c] = t], UNCHANGED tables,
         used \subseteq used', used' \subseteq Runs,
         Sound(t), \A d \in Others(c) : Apart(t, tx[d])
  PROVE  LifecycleInv'
<1>1. UNCHANGED <<runs, bindings, links, logged, checkpoints>> BY DEF tables
<1>2. TableTypes' BY <1>1 DEF LifecycleInv, TableTypes, Exists
<1>3. IdentitiesAreUnique' BY <1>1 DEF LifecycleInv, IdentitiesAreUnique, Exists
<1>4. TablesAgree'
  BY <1>1 DEF LifecycleInv, TablesAgree, BindingAgreesWithRun, BindingKeepsItsRun,
       SessionsAreLinked, CheckpointsFollowExecutions, CompletedIsComplete, Exists
<1>5. BindingRunsExist' BY <1>1 DEF LifecycleInv, BindingRunsExist, Exists
<1>6. tx \in [Clients -> TxType] /\ (\A d \in Clients : Sound(tx[d]))
      /\ \A d, e \in Clients : d # e => Apart(tx[d], tx[e])
  BY DEF LifecycleInv, TxInv
<1>7. tx' \in [Clients -> TxType'] 
  <2>1. TxType \subseteq TxType' BY DEF TxType
  <2> QED BY <1>6, <2>1
<1>8. ASSUME NEW d \in Clients PROVE Sound(tx[d])'
  <2>1. PICK u : u = tx'[d] OBVIOUS
  <2>2. Sound(u) BY <2>1, <1>6
  <2>3. Sound(u)' BY <2>2, <1>1, SoundIsAboutTables
  <2> QED BY <2>1, <2>3
<1>9. ASSUME NEW d \in Clients, NEW e \in Clients, d # e PROVE Apart(tx'[d], tx'[e])
  <2>1. CASE d = c BY <2>1, <1>6, <1>9 DEF Others
  <2>2. CASE e = c
    <3>1. Apart(t, tx[d]) BY <2>2, <1>9 DEF Others
    <3> QED BY <2>2, <3>1, <1>6, <1>9, ApartIsSymmetric
  <2>3. CASE d # c /\ e # c BY <2>3, <1>6, <1>9
  <2> QED BY <2>1, <2>2, <2>3
<1>10. TxInv' BY <1>7, <1>8, <1>9 DEF TxInv
<1> QED BY <1>2, <1>3, <1>4, <1>5, <1>10 DEF LifecycleInv

(* A transaction that ends without having written leaves nothing behind.   *)
LEMMA AnswerStep ==
  ASSUME LifecycleInv, NEW c \in Clients, NEW code \in Nat, Answer(c, code),
         UNCHANGED <<tables, used>>
  PROVE  LifecycleInv'
<1> DEFINE t == [NoTx EXCEPT !.ans = code]
<1>1. t = [pc |-> "idle", req |-> None, seen |-> None, locked |-> {},
         job |-> None, share |-> None, claim |-> None, put |-> None,
         fresh |-> None, ans |-> code]
  BY DEF NoTx
<1>2. t \in TxType' BY <1>1 DEF TxType, PCs
<1>3. Sound(t) BY <1>1 DEF Sound, Idle, NoTx
<1>4. \A d \in Others(c) : Apart(t, tx[d]) BY <1>1, NothingHeldIsApart
<1>5. tx' = [tx EXCEPT ![c] = t] BY DEF Answer
<1>6. used \subseteq used' /\ used' \subseteq Runs BY DEF LifecycleInv, TableTypes
<1> HIDE DEF t
<1> QED BY <1>2, <1>3, <1>4, <1>5, <1>6, QuietStep

LEMMA GotoStep ==
  ASSUME LifecycleInv, NEW c \in Clients, NEW pc \in PCs, Goto(c, pc),
         UNCHANGED <<tables, used>>, Sound([tx[c] EXCEPT !.pc = pc])
  PROVE  LifecycleInv'
<1> DEFINE t == [tx[c] EXCEPT !.pc = pc]
<1>1. tx[c] \in TxType /\ \A d \in Others(c) : Apart(tx[c], tx[d])
  BY DEF LifecycleInv, TxInv, Others
<1>2. t \in TxType' BY <1>1 DEF TxType
<1>3. \A d \in Others(c) : Apart(t, tx[d])
  <2>1. /\ t.locked = tx[c].locked /\ t.claim = tx[c].claim /\ t.fresh = tx[c].fresh
        /\ t.put = tx[c].put /\ t.job = tx[c].job /\ t.req = tx[c].req
    BY <1>1 DEF TxType
  <2> QED BY <1>1, <2>1, ApartIsAboutHoldings
<1>4. tx' = [tx EXCEPT ![c] = t] BY DEF Goto
<1>5. used \subseteq used' /\ used' \subseteq Runs BY DEF LifecycleInv, TableTypes
<1> HIDE DEF t
<1>6. Sound(t) BY DEF t
<1> QED BY <1>2, <1>3, <1>4, <1>5, <1>6, QuietStep

(* The statement a transaction is at tells which operation it performs.    *)
LEMMA ShapeByStatement ==
  ASSUME LifecycleInv, NEW c \in Clients
  PROVE  /\ tx[c] \in TxType
         /\ At(c, "idle") => Idle(tx[c])
         /\ tx[c].pc \in {"predecessor", "insertRun", "foreignKey", "winner"}
              => Provisioning(tx[c])
         /\ tx[c].pc \in {"apply", "updateRun", "unique"}
              => Binding(tx[c]) \/ Creating(tx[c]) \/ Updating(tx[c])
         /\ tx[c].pc \in {"replay", "lock", "reread", "insertBinding", "commitLoser"}
              => Creating(tx[c])
         /\ tx[c].pc = "insertCheckpoint" => Checkpointing(tx[c])
         /\ tx[c].pc \in {"eligible", "deleteRun"} => Deleting(tx[c])
         /\ ~At(c, "idle") => Req(c) \in Requests
<1> DEFINE t == tx[c]
<1>1. t \in TxType /\ Sound(t) BY DEF LifecycleInv, TxInv
<1>2. Idle(t) => t.pc = "idle" BY DEF Idle, NoTx
<1>3. Provisioning(t) => t.pc \in {"predecessor", "insertRun", "foreignKey", "winner", "commit"}
                         /\ t.req # None
  BY LifecycleAssumption DEF Provisioning, ValidRequests
<1>4. Binding(t) => t.pc \in {"apply", "updateRun", "unique", "commit"}
  BY DEF Binding
<1>5. Creating(t) => t.pc \in {"replay", "lock", "reread", "apply", "updateRun", "unique",
                               "insertBinding", "commit", "commitLoser"}
  BY DEF Creating
<1>6. Updating(t) => t.pc \in {"apply", "updateRun", "unique", "commit"}
  BY DEF Updating
<1>7. Checkpointing(t) => t.pc \in {"insertCheckpoint", "commit"}
  BY DEF Checkpointing
<1>8. Retitling(t) => t.pc = "commit" BY DEF Retitling
<1>9. Deleting(t) => t.pc \in {"eligible", "deleteRun", "commit"} BY DEF Deleting
<1>10. t.pc # "idle" => t.req \in Requests
  <2>1. t.req \in Requests \cup {None} BY <1>1, SMTT(60) DEF TxType
  <2>2. Idle(t) \/ t.req # None
    <3>1. /\ None \notin ProvisionRequests /\ None \notin BindRequests
          /\ None \notin TitleRequests /\ None \notin DeleteRequests
          /\ None \notin CheckpointRequests /\ None \notin CreateRequests
          /\ None \notin TerminalRequests
      BY LifecycleAssumption DEF ValidRequests
    <3> QED BY <1>1, <3>1 DEF Sound, Provisioning, Binding, Creating, Updating,
                  Checkpointing, Retitling, Deleting
  <2> QED BY <2>1, <2>2, <1>2
<1> HIDE DEF t
<1>11. tx[c] = t BY DEF t
<1> QED
  BY <1>1, <1>2, <1>3, <1>4, <1>5, <1>6, <1>7, <1>8, <1>9, <1>10, <1>11
  DEF Sound, At, Req

LEMMA StartedTx ==
  ASSUME NEW q, NEW pc
  PROVE  Started(q, pc) =
           [pc |-> pc, req |-> q, seen |-> None, locked |-> {},
            job |-> None, share |-> None, claim |-> None, put |-> None,
            fresh |-> None, ans |-> None]
<1> DEFINE n == [NoTx EXCEPT !.req = q]
<1>1. n = [pc |-> "idle", req |-> q, seen |-> None, locked |-> {},
           job |-> None, share |-> None, claim |-> None, put |-> None,
           fresh |-> None, ans |-> None]
  BY DEF NoTx
<1>2. Started(q, pc) = [n EXCEPT !.pc = pc] BY DEF Started, NoTx
<1> HIDE DEF n
<1> QED BY <1>1, <1>2

(* A transaction that begins and locks nothing.                            *)
LEMMA BeginStep ==
  ASSUME LifecycleInv, NEW c \in Clients, NEW q \in Requests, NEW pc \in PCs,
         NEW seen \in RunRow \cup BindingRow \cup {None},
         tx' = [tx EXCEPT ![c] = [Started(q, pc) EXCEPT !.seen = seen]],
         Sound([Started(q, pc) EXCEPT !.seen = seen]), UNCHANGED <<tables, used>>
  PROVE  LifecycleInv'
<1> DEFINE t == [Started(q, pc) EXCEPT !.seen = seen]
<1>1. t = [pc |-> pc, req |-> q, seen |-> seen, locked |-> {},
           job |-> None, share |-> None, claim |-> None, put |-> None,
           fresh |-> None, ans |-> None]
  BY StartedTx, SMTT(60)
<1>2. t \in TxType' BY <1>1 DEF TxType
<1>3. \A d \in Others(c) : Apart(t, tx[d]) BY <1>1, NothingHeldIsApart
<1>4. used \subseteq used' /\ used' \subseteq Runs BY DEF LifecycleInv, TableTypes
<1>5. tx' = [tx EXCEPT ![c] = t] /\ Sound(t) OBVIOUS
<1> HIDE DEF t
<1> QED BY <1>2, <1>3, <1>4, <1>5, QuietStep

LEMMA ProvisionSelectStep ==
  ASSUME LifecycleInv, NEW c \in Clients, NEW q \in Requests, ProvisionSelect(c, q)
  PROVE  LifecycleInv'
<1>1. UNCHANGED <<tables, used>> /\ q \in ProvisionRequests
  BY RequestsByOp DEF ProvisionSelect
<1>2. CASE \E r \in WithKey(q.key) : Answer(c, ReplayCode(r, q))
  <2>1. \A r \in Runs : ReplayCode(r, q) \in Nat BY DEF ReplayCode
  <2> QED BY <1>1, <1>2, <2>1, AnswerStep DEF WithKey
<1>3. ASSUME NEW pc \in {"insertRun", "predecessor"}, tx' = [tx EXCEPT ![c] = Started(q, pc)]
      PROVE  LifecycleInv'
  <2>1. Started(q, pc) = [Started(q, pc) EXCEPT !.seen = None] BY StartedTx DEF PCs
  <2>2. Sound(Started(q, pc)) BY <1>1, StartedTx DEF Sound, Provisioning
  <2>3. tx' = [tx EXCEPT ![c] = [Started(q, pc) EXCEPT !.seen = None]] BY <1>3, <2>1
  <2>4. Sound([Started(q, pc) EXCEPT !.seen = None]) BY <2>1, <2>2
  <2> QED BY <1>1, <2>3, <2>4, BeginStep DEF PCs
<1> QED BY <1>2, <1>3 DEF ProvisionSelect

LEMMA ProvisionPredecessorStep ==
  ASSUME LifecycleInv, NEW c \in Clients, ProvisionPredecessor(c)
  PROVE  LifecycleInv'
<1>1. UNCHANGED <<tables, used>> /\ Provisioning(tx[c]) /\ tx[c].pc = "predecessor" /\ tx[c] \in TxType
  BY ShapeByStatement DEF ProvisionPredecessor, At
<1>2. CASE Answer(c, 404) BY <1>1, <1>2, AnswerStep
<1>3. CASE Goto(c, "insertRun")
  <2>1. Sound([tx[c] EXCEPT !.pc = "insertRun"])
    BY <1>1 DEF Sound, Provisioning, TxType
  <2> QED BY <1>1, <1>3, <2>1, GotoStep DEF PCs
<1> QED BY <1>2, <1>3 DEF ProvisionPredecessor

LEMMA ProvisionInsertStep ==
  ASSUME LifecycleInv, NEW c \in Clients, ProvisionInsert(c)
  PROVE  LifecycleInv'
<1>1. UNCHANGED tables /\ Provisioning(tx[c]) /\ tx[c].pc = "insertRun" /\ tx[c] \in TxType
  BY ShapeByStatement DEF ProvisionInsert, At
<1>2. CASE Goto(c, "winner") /\ UNCHANGED used
  <2>1. Sound([tx[c] EXCEPT !.pc = "winner"])
    BY <1>1 DEF Sound, Provisioning, TxType
  <2> QED BY <1>1, <1>2, <2>1, GotoStep DEF PCs
<1>3. ASSUME NEW r \in Runs \ used, WithKey(Req(c).key) = {}, used' = used \cup {r},
             NEW pc \in {"commit", "foreignKey"},
             tx' = [tx EXCEPT ![c].fresh = r, ![c].pc = pc]
      PROVE  LifecycleInv'
  <2> DEFINE t == [tx[c] EXCEPT !.fresh = r, !.pc = pc]
  <2>1. t \in TxType'
    <3>1. r \in used' \cup {None} /\ pc \in PCs BY <1>3 DEF PCs
    <3>2. tx[c] \in TxType' BY <1>1, <1>3 DEF TxType
    <3> QED BY <3>1, <3>2, ZenonT(60) DEF TxType
  <2>2. /\ t.req = tx[c].req /\ t.locked = tx[c].locked /\ t.claim = tx[c].claim
        /\ t.put = tx[c].put /\ t.job = tx[c].job /\ t.fresh = r /\ t.pc = pc
    BY <1>1 DEF TxType
  <2>3. ~Exists(r) BY DEF LifecycleInv, TableTypes
  <2>4. r # None BY LifecycleAssumption
  <2> HIDE DEF t
  <2>5. Sound(t) BY <1>1, <1>3, <2>2, <2>3, <2>4 DEF Sound, Provisioning, Req
  <2>6. ASSUME NEW d \in Others(c) PROVE Apart(t, tx[d])
    <3>1. tx[d].fresh # r
      BY <2>4, LifecycleAssumption DEF LifecycleInv, TxInv, TxType, Others
    <3>2. tx[d].fresh # None => tx[d].req.key # t.req.key
      BY <2>2 DEF ProvisionInsert, KeyPending, Req
    <3>3. t.locked = {} /\ t.claim = None /\ t.put = None /\ t.job = None
      BY <1>1, <2>2 DEF Provisioning
    <3> QED BY <2>2, <3>1, <3>2, <3>3 DEF Apart, Inserting
  <2>7. tx' = [tx EXCEPT ![c] = t]
    BY <1>3 DEF t
  <2>8. used \subseteq used' /\ used' \subseteq Runs BY <1>3 DEF LifecycleInv, TableTypes
  <2> QED BY <1>1, <2>1, <2>5, <2>6, <2>7, <2>8, QuietStep
<1> QED BY <1>2, <1>3 DEF ProvisionInsert

LEMMA ProvisionForeignKeyStep ==
  ASSUME LifecycleInv, NEW c \in Clients, ProvisionForeignKey(c)
  PROVE  LifecycleInv'
<1>1. UNCHANGED <<tables, used>> /\ Provisioning(tx[c]) /\ tx[c].pc = "foreignKey" /\ tx[c] \in TxType
  BY ShapeByStatement DEF ProvisionForeignKey, At
<1>2. CASE Answer(c, 500) BY <1>1, <1>2, AnswerStep
<1>3. CASE tx' = [tx EXCEPT ![c].share = Req(c).recovered, ![c].pc = "commit"]
  <2> DEFINE t == [tx[c] EXCEPT !.share = Req(c).recovered, !.pc = "commit"]
  <2>1. Req(c).recovered \in Runs \cup {None}
    BY <1>1 DEF Provisioning, ProvisionRequests, Req
  <2> "commit" \in PCs BY DEF PCs
  <2>2. t \in TxType' BY <1>1, <2>1, ZenonT(60) DEF TxType
  <2>3. /\ t.req = tx[c].req /\ t.locked = tx[c].locked /\ t.claim = tx[c].claim
        /\ t.put = tx[c].put /\ t.job = tx[c].job /\ t.fresh = tx[c].fresh /\ t.pc = "commit"
    BY <1>1 DEF TxType
  <2>4. tx' = [tx EXCEPT ![c] = t] BY <1>3
  <2> HIDE DEF t
  <2>5. Sound(t) BY <1>1, <2>3 DEF Sound, Provisioning
  <2>6. \A d \in Others(c) : Apart(t, tx[d])
    BY <2>3, ApartIsAboutHoldings DEF LifecycleInv, TxInv, Others
  <2>7. used \subseteq used' /\ used' \subseteq Runs BY <1>1 DEF LifecycleInv, TableTypes
  <2> QED BY <1>1, <2>2, <2>4, <2>5, <2>6, <2>7, QuietStep
<1> QED BY <1>2, <1>3 DEF ProvisionForeignKey

LEMMA ProvisionWinnerStep ==
  ASSUME LifecycleInv, NEW c \in Clients, ProvisionWinner(c)
  PROVE  LifecycleInv'
<1>1. \A r : ReplayCode(r, Req(c)) \in Nat BY DEF ReplayCode
<1> QED BY <1>1, AnswerStep DEF ProvisionWinner

-----------------------------------------------------------------------------
(* _apply_change_request_binding                                           *)

ApplyPCs == {"apply", "updateRun", "unique"}

(* The run and the change request the procedure works on, for each of its  *)
(* three callers.                                                          *)
LEMMA ApplyFacts ==
  ASSUME LifecycleInv, NEW c \in Clients, tx[c].pc \in ApplyPCs
  PROVE  /\ RunOf(c) \in Runs /\ Wanted(c) \in CRs
         /\ Applying(tx[c], RunOf(c), Wanted(c))
         /\ Req(c).op \in {"bind", "create", "terminal"}
         /\ Req(c).op = "bind" =>
              /\ Binding(tx[c]) /\ RunOf(c) = tx[c].req.run /\ Wanted(c) = tx[c].req.cr
         /\ Req(c).op = "create" =>
              /\ Creating(tx[c]) /\ RunOf(c) = tx[c].req.run /\ Wanted(c) = tx[c].req.cr
         /\ Req(c).op = "terminal" =>
              /\ Updating(tx[c]) /\ RunOf(c) = bindings[tx[c].req.job].run
              /\ Wanted(c) = tx[c].put.cr
<1>1. tx[c] \in TxType /\ (Binding(tx[c]) \/ Creating(tx[c]) \/ Updating(tx[c]))
  BY ShapeByStatement DEF ApplyPCs
<1>2. CASE Binding(tx[c])
  <2>1. tx[c].req \in BindRequests /\ tx[c].req.op = "bind"
    BY <1>2, OpsOfRequests DEF Binding
  <2>2. RunOf(c) = tx[c].req.run /\ Wanted(c) = tx[c].req.cr
    BY <2>1 DEF RunOf, Wanted, Req
  <2>3. Applying(tx[c], tx[c].req.run, tx[c].req.cr) BY <1>2 DEF Binding, ApplyPCs
  <2> QED BY <1>2, <2>1, <2>2, <2>3 DEF BindRequests, Req
<1>3. CASE Creating(tx[c])
  <2>1. tx[c].req \in CreateRequests /\ tx[c].req.op = "create"
    BY <1>3, OpsOfRequests DEF Creating
  <2>2. RunOf(c) = tx[c].req.run /\ Wanted(c) = tx[c].req.cr
    BY <2>1 DEF RunOf, Wanted, Req
  <2>3. Applying(tx[c], tx[c].req.run, tx[c].req.cr) BY <1>3 DEF Creating, ApplyPCs
  <2>4. tx[c].req.cr # None BY <2>3, SMTT(60) DEF Applying
  <2> QED BY <1>3, <2>1, <2>2, <2>3, <2>4 DEF CreateRequests, Req
<1>4. CASE Updating(tx[c])
  <2>1. tx[c].req \in TerminalRequests /\ tx[c].req.op = "terminal"
    BY <1>4, OpsOfRequests DEF Updating
  <2>2. RunOf(c) = bindings[tx[c].req.job].run /\ Wanted(c) = tx[c].put.cr
    BY <2>1, SMTT(60) DEF RunOf, Wanted, Req
  <2>3. /\ bindings[tx[c].req.job] # None /\ bindings[tx[c].req.job].run # None
        /\ tx[c].put = Merged(bindings[tx[c].req.job], tx[c].req)
        /\ Applying(tx[c], bindings[tx[c].req.job].run, tx[c].put.cr)
    BY <1>4 DEF Updating, ApplyPCs
  <2>4. bindings[tx[c].req.job] \in BindingRow
    BY <2>1, <2>3 DEF LifecycleInv, TableTypes, TerminalRequests
  <2>5. tx[c].put \in BindingRow BY <2>1, <2>3, <2>4, MergedRow
  <2>6. tx[c].put.cr # None BY <2>3 DEF Applying
  <2> QED BY <1>4, <2>1, <2>2, <2>3, <2>4, <2>5, <2>6, SMTT(60) DEF BindingRow, Req
<1> QED BY <1>1, <1>2, <1>3, <1>4

LEMMA AcceptStep ==
  ASSUME LifecycleInv, NEW c \in Clients, tx[c].pc \in {"apply", "updateRun"},
         BoundTo(RunOf(c), Wanted(c)), Accept(c), UNCHANGED <<tables, used>>
  PROVE  LifecycleInv'
<1>1. tx[c] \in TxType /\ tx[c].pc \in ApplyPCs BY ShapeByStatement DEF ApplyPCs
<1>2. CASE Req(c).op = "bind"
  BY <1>2, AnswerStep DEF Accept
<1>3. CASE Req(c).op = "create"
  <2> DEFINE t == [tx[c] EXCEPT !.pc = "insertBinding"]
  <2>1. Goto(c, "insertBinding") BY <1>3 DEF Accept
  <2>2. /\ t.req = tx[c].req /\ t.locked = tx[c].locked /\ t.claim = tx[c].claim
        /\ t.put = tx[c].put /\ t.job = tx[c].job /\ t.fresh = tx[c].fresh
        /\ t.pc = "insertBinding"
    BY <1>1 DEF TxType
  <2> HIDE DEF t
  <2>3. /\ Creating(tx[c]) /\ BoundTo(tx[c].req.run, tx[c].req.cr)
        /\ Applying(tx[c], tx[c].req.run, tx[c].req.cr)
    BY <1>1, <1>3, ApplyFacts
  <2>4. Settled(t, t.req.run, t.req.cr) /\ t.req.cr # None
    BY <2>2, <2>3 DEF Settled, Applying
  <2>5. Creating(t) BY <1>1, <2>2, <2>3, <2>4 DEF Creating, ApplyPCs
  <2>6. Sound(t) BY <2>5 DEF Sound
  <2> QED BY <2>1, <2>6, GotoStep DEF PCs, t
<1>4. CASE Req(c).op = "terminal"
  <2> DEFINE t == [tx[c] EXCEPT !.pc = "commit"]
  <2>1. Goto(c, "commit") BY <1>4 DEF Accept
  <2>2. /\ t.req = tx[c].req /\ t.locked = tx[c].locked /\ t.claim = tx[c].claim
        /\ t.put = tx[c].put /\ t.job = tx[c].job /\ t.fresh = tx[c].fresh
        /\ t.pc = "commit"
    BY <1>1 DEF TxType
  <2> HIDE DEF t
  <2>3. /\ Updating(tx[c]) /\ BoundTo(bindings[tx[c].req.job].run, tx[c].put.cr)
        /\ Applying(tx[c], bindings[tx[c].req.job].run, tx[c].put.cr)
    BY <1>1, <1>4, ApplyFacts
  <2>4. Settled(t, bindings[t.req.job].run, t.put.cr)
    BY <2>2, <2>3 DEF Settled, Applying
  <2>5. t.put.cr # None /\ bindings[t.req.job].run # None
    <3>1. tx[c].put.cr # None BY <2>3 DEF Applying
    <3>2. tx[c].pc # "commit" BY <1>1, Zenon DEF ApplyPCs
    <3>3. bindings[tx[c].req.job].run # None BY <2>3, <3>2, ZenonT(60) DEF Updating
    <3> QED BY <2>2, <3>1, <3>3
  <2>6. Updating(t) BY <2>2, <2>3, <2>4, <2>5 DEF Updating
  <2>7. Sound(t) BY <2>6 DEF Sound
  <2> QED BY <2>1, <2>7, GotoStep DEF PCs, t
<1> QED BY <1>1, <1>2, <1>3, <1>4, ApplyFacts

LEMMA ApplyPreCheckStep ==
  ASSUME LifecycleInv, NEW c \in Clients, ApplyPreCheck(c)
  PROVE  LifecycleInv'
<1> DEFINE bound == tx[c].seen.cr
           owners == Owners(Wanted(c))
<1>1. UNCHANGED <<tables, used>> /\ tx[c].pc = "apply" /\ tx[c] \in TxType
  BY ShapeByStatement DEF ApplyPreCheck, At
<1>2. tx[c].pc \in ApplyPCs BY <1>1 DEF ApplyPCs
<1>3. /\ RunOf(c) \in Runs /\ Wanted(c) \in CRs /\ Wanted(c) # None
      /\ Applying(tx[c], RunOf(c), Wanted(c))
  BY <1>2, ApplyFacts, LifecycleAssumption
<1>4. CASE bound = Wanted(c) /\ Accept(c)
  <2>1. BoundTo(RunOf(c), Wanted(c)) BY <1>1, <1>3, <1>4 DEF Applying
  <2> QED BY <1>1, <1>4, <2>1, AcceptStep
<1>5. CASE Answer(c, 409) BY <1>1, <1>5, AnswerStep
<1>6. CASE RunOf(c) \in owners /\ Accept(c)
  <2>1. BoundTo(RunOf(c), Wanted(c)) BY <1>6 DEF Owners, BoundTo
  <2> QED BY <1>1, <1>6, <2>1, AcceptStep
<1>7. CASE Goto(c, "updateRun")
  <2> DEFINE t == [tx[c] EXCEPT !.pc = "updateRun"]
  <2>1. /\ t.req = tx[c].req /\ t.locked = tx[c].locked /\ t.claim = tx[c].claim
        /\ t.put = tx[c].put /\ t.job = tx[c].job /\ t.fresh = tx[c].fresh
        /\ t.pc = "updateRun"
    BY <1>1 DEF TxType
  <2> HIDE DEF t
  <2>2. \A r, w : Applying(tx[c], r, w) => Applying(t, r, w) BY <2>1 DEF Applying
  <2>3. Binding(tx[c]) => Binding(t) BY <1>1, <2>1, <2>2 DEF Binding
  <2>4. Creating(tx[c]) => Creating(t) BY <1>1, <2>1, <2>2 DEF Creating
  <2>5. Updating(tx[c]) => Updating(t) BY <1>1, <2>1, <2>2 DEF Updating
  <2>6. Sound(t) BY <1>1, <2>3, <2>4, <2>5, ShapeByStatement DEF Sound
  <2> QED BY <1>1, <1>7, <2>6, GotoStep DEF PCs, t
<1> QED BY <1>4, <1>5, <1>6, <1>7 DEF ApplyPreCheck

LEMMA ApplyUpdateStep ==
  ASSUME LifecycleInv, NEW c \in Clients, ApplyUpdate(c)
  PROVE  LifecycleInv'
<1>1. UNCHANGED <<tables, used>> /\ tx[c].pc = "updateRun" /\ tx[c] \in TxType
  BY ShapeByStatement DEF ApplyUpdate, At
<1>2. tx[c].pc \in ApplyPCs BY <1>1 DEF ApplyPCs
<1>3. /\ RunOf(c) \in Runs /\ Wanted(c) \in CRs /\ Wanted(c) # None
      /\ Applying(tx[c], RunOf(c), Wanted(c))
  BY <1>2, ApplyFacts, LifecycleAssumption
<1>4. CASE BoundTo(RunOf(c), Wanted(c)) /\ Accept(c) BY <1>1, <1>4, AcceptStep
<1>5. CASE Answer(c, 409) BY <1>1, <1>5, AnswerStep
<1>6. CASE /\ Bindable(RunOf(c)) /\ Unlocked(c, RunOf(c))
           /\ tx' = [tx EXCEPT ![c].locked = @ \cup {RunOf(c)}, ![c].pc = "unique"]
  <2> DEFINE t == [tx[c] EXCEPT !.locked = @ \cup {RunOf(c)}, !.pc = "unique"]
  <2>1. /\ t.req = tx[c].req /\ t.locked = tx[c].locked \cup {RunOf(c)}
        /\ t.claim = tx[c].claim /\ t.put = tx[c].put /\ t.job = tx[c].job
        /\ t.fresh = tx[c].fresh /\ t.pc = "unique"
    BY <1>1 DEF TxType
  <2> "unique" \in PCs BY DEF PCs
  <2>2. t \in TxType' BY <1>1, <1>3, ZenonT(60) DEF TxType
  <2>3. tx' = [tx EXCEPT ![c] = t] BY <1>6
  <2> HIDE DEF t
  <2>4. Applying(t, RunOf(c), Wanted(c)) BY <1>3, <1>6, <2>1 DEF Applying
  <2>5. Req(c).op = "bind" => Binding(t)
    BY <1>1, <1>2, <2>1, <2>4, ApplyFacts, ZenonT(60) DEF Binding
  <2>6. Req(c).op = "create" => Creating(t)
    BY <1>1, <1>2, <2>1, <2>4, ApplyFacts DEF Creating
  <2>7. Req(c).op = "terminal" => Updating(t)
    <3>1. SUFFICES ASSUME Req(c).op = "terminal" PROVE Updating(t) OBVIOUS
    <3>2. Updating(tx[c]) /\ RunOf(c) = bindings[tx[c].req.job].run /\ Wanted(c) = tx[c].put.cr
      BY <1>2, <3>1, ApplyFacts, ZenonT(60)
    <3>3. RunOf(c) # None /\ tx[c].locked = {RunOf(c)}
      BY <1>3, <3>2, LifecycleAssumption DEF Updating
    <3> QED BY <2>1, <2>4, <3>2, <3>3 DEF Updating
  <2>8. Sound(t) BY <1>2, <2>5, <2>6, <2>7, ApplyFacts DEF Sound
  <2>9. ASSUME NEW d \in Others(c) PROVE Apart(t, tx[d])
    <3>1. Apart(tx[c], tx[d]) BY DEF LifecycleInv, TxInv, Others
    <3>2. RunOf(c) \notin tx[d].locked BY <1>6 DEF Unlocked
    <3> QED BY <2>1, <3>1, <3>2 DEF Apart, Inserting
  <2>10. used \subseteq used' /\ used' \subseteq Runs BY <1>1 DEF LifecycleInv, TableTypes
  <2> QED BY <1>1, <2>2, <2>3, <2>8, <2>9, <2>10, QuietStep
<1> QED BY <1>4, <1>5, <1>6 DEF ApplyUpdate, BoundTo, Bindable

LEMMA ApplyUniqueStep ==
  ASSUME LifecycleInv, NEW c \in Clients, ApplyUnique(c)
  PROVE  LifecycleInv'
<1>1. UNCHANGED <<tables, used>> /\ tx[c].pc = "unique" /\ tx[c] \in TxType
  BY ShapeByStatement DEF ApplyUnique, At
<1>2. tx[c].pc \in ApplyPCs BY <1>1 DEF ApplyPCs
<1>3. /\ RunOf(c) \in Runs /\ Wanted(c) \in CRs /\ Wanted(c) # None
      /\ Bindable(RunOf(c))
  BY <1>1, <1>2, ApplyFacts, LifecycleAssumption DEF Applying
<1>4. CASE Answer(c, 409) BY <1>1, <1>4, AnswerStep
<1> DEFINE next == IF Req(c).op = "create" THEN "insertBinding" ELSE "commit"
<1>5. CASE /\ ~ClaimPending(c, Wanted(c)) /\ Owners(Wanted(c)) = {}
           /\ tx' = [tx EXCEPT ![c].claim = Wanted(c), ![c].pc = next]
  <2> DEFINE t == [tx[c] EXCEPT !.claim = Wanted(c), !.pc = next]
  <2>0. next \in PCs BY DEF PCs
  <2>1. /\ t.req = tx[c].req /\ t.locked = tx[c].locked
        /\ t.claim = Wanted(c) /\ t.put = tx[c].put /\ t.job = tx[c].job
        /\ t.fresh = tx[c].fresh /\ t.pc = next
    BY <1>1 DEF TxType
  <2>2. t \in TxType'
    <3> HIDE DEF next
    <3> QED BY <1>1, <1>3, <2>0 DEF TxType
  <2>3. tx' = [tx EXCEPT ![c] = t] BY <1>5
  <2> HIDE DEF t
  <2>4. Settled(t, RunOf(c), Wanted(c)) BY <1>3, <1>5, <2>1 DEF Settled
  <2>5. Req(c).op = "bind" => Binding(t)
    BY <1>1, <1>2, <1>3, <1>5, <2>1, ApplyFacts, ZenonT(60) DEF Binding
  <2>6. Req(c).op = "create" => Creating(t)
    BY <1>1, <1>2, <1>3, <2>1, <2>4, ApplyFacts DEF Creating
  <2>7. Req(c).op = "terminal" => Updating(t)
    BY <1>1, <1>2, <1>3, <2>1, <2>4, ApplyFacts DEF Updating
  <2>8. Sound(t) BY <1>2, <2>5, <2>6, <2>7, ApplyFacts DEF Sound
  <2>9. ASSUME NEW d \in Others(c) PROVE Apart(t, tx[d])
    <3>1. Apart(tx[c], tx[d]) BY DEF LifecycleInv, TxInv, Others
    <3>2. Wanted(c) # tx[d].claim BY <1>5 DEF ClaimPending
    <3> QED BY <2>1, <3>1, <3>2 DEF Apart, Inserting
  <2>10. used \subseteq used' /\ used' \subseteq Runs BY <1>1 DEF LifecycleInv, TableTypes
  <2> QED BY <1>1, <2>2, <2>3, <2>8, <2>9, <2>10, QuietStep
<1> QED BY <1>4, <1>5 DEF ApplyUnique

LEMMA BindReadStep ==
  ASSUME LifecycleInv, NEW c \in Clients, NEW q \in Requests, BindRead(c, q)
  PROVE  LifecycleInv'
<1>1. UNCHANGED <<tables, used>> /\ q \in BindRequests
  BY RequestsByOp DEF BindRead
<1>2. CASE Answer(c, 404) BY <1>1, <1>2, AnswerStep
<1>3. CASE /\ Exists(q.run)
           /\ tx' = [tx EXCEPT ![c] = [Started(q, "apply") EXCEPT !.seen = runs[q.run]]]
  <2> DEFINE t == [Started(q, "apply") EXCEPT !.seen = runs[q.run]]
  <2>1. t = [pc |-> "apply", req |-> q, seen |-> runs[q.run], locked |-> {},
             job |-> None, share |-> None, claim |-> None, put |-> None,
             fresh |-> None, ans |-> None]
    BY StartedTx, SMTT(60)
  <2>2. q.run \in Runs /\ q.cr \in CRs /\ q.cr # None
    BY <1>1, LifecycleAssumption DEF BindRequests
  <2>3. runs[q.run] \in RunRow BY <1>3, <2>2 DEF LifecycleInv, TableTypes, Exists
  <2>4. Applying(t, q.run, q.cr)
    BY <1>3, <2>1, <2>2, <2>3 DEF Applying, BoundTo
  <2>5. Sound(t) BY <1>1, <2>1, <2>4 DEF Sound, Binding
  <2> QED BY <1>1, <1>3, <2>3, <2>5, BeginStep DEF PCs
<1> QED BY <1>2, <1>3 DEF BindRead

-----------------------------------------------------------------------------
(* Executions and checkpoints                                              *)

LEMMA CreateSelectStep ==
  ASSUME LifecycleInv, NEW c \in Clients, NEW q \in Requests, CreateSelect(c, q)
  PROVE  LifecycleInv'
<1> DEFINE pc == IF bindings[q.job] = None THEN "lock" ELSE "replay"
           t == [Started(q, pc) EXCEPT !.seen = bindings[q.job]]
<1>1. UNCHANGED <<tables, used>> /\ q \in CreateRequests /\ tx' = [tx EXCEPT ![c] = t]
  BY RequestsByOp DEF CreateSelect
<1>2. t = [pc |-> pc, req |-> q, seen |-> bindings[q.job], locked |-> {},
           job |-> None, share |-> None, claim |-> None, put |-> None,
           fresh |-> None, ans |-> None]
  <2> HIDE DEF pc
  <2> QED BY StartedTx, SMTT(60)
<1>3. bindings[q.job] \in BindingRow \cup {None}
  BY <1>1 DEF LifecycleInv, TableTypes, CreateRequests
<1>4. Sound(t) BY <1>1, <1>2, <1>3 DEF Sound, Creating
<1>5. pc \in PCs BY DEF PCs
<1> HIDE DEF pc
<1> QED BY <1>1, <1>3, <1>4, <1>5, BeginStep

LEMMA CreateReplayStep ==
  ASSUME LifecycleInv, NEW c \in Clients, CreateReplay(c)
  PROVE  LifecycleInv'
<1>1. UNCHANGED <<tables, used>> /\ Creating(tx[c]) /\ tx[c].pc = "replay" /\ tx[c] \in TxType
  BY ShapeByStatement DEF CreateReplay, At
<1>2. CASE Answer(c, 409) BY <1>1, <1>2, AnswerStep
<1>3. CASE Goto(c, "reread")
  <2>1. Sound([tx[c] EXCEPT !.pc = "reread"])
    BY <1>1 DEF Sound, Creating, TxType
  <2> QED BY <1>1, <1>3, <2>1, GotoStep DEF PCs
<1> QED BY <1>2, <1>3 DEF CreateReplay

LEMMA CreateLockStep ==
  ASSUME LifecycleInv, NEW c \in Clients, CreateLock(c)
  PROVE  LifecycleInv'
<1> DEFINE r == Req(c).run
           pc == IF Req(c).cr = None THEN "insertBinding" ELSE "apply"
           t == [tx[c] EXCEPT !.locked = {r}, !.seen = runs[r], !.pc = pc]
<1>1. UNCHANGED <<tables, used>> /\ Creating(tx[c]) /\ tx[c].pc = "lock" /\ tx[c] \in TxType
  BY ShapeByStatement DEF CreateLock, At
<1>2. CASE Answer(c, 404) BY <1>1, <1>2, AnswerStep
<1>3. CASE Exists(r) /\ tx' = [tx EXCEPT ![c].locked = {r}, ![c].seen = runs[r], ![c].pc = pc]
  <2>1. r \in Runs /\ Req(c).cr \in CRs \cup {None}
    BY <1>1 DEF Creating, CreateRequests, Req
  <2>2. runs[r] \in RunRow BY <1>3, <2>1 DEF LifecycleInv, TableTypes, Exists
  <2>3. pc \in PCs BY DEF PCs
  <2>4. /\ t.req = tx[c].req /\ t.locked = {r} /\ t.claim = tx[c].claim /\ t.put = tx[c].put
        /\ t.job = tx[c].job /\ t.fresh = tx[c].fresh /\ t.pc = pc /\ t.seen = runs[r]
    BY <1>1 DEF TxType
  <2>5. t \in TxType'
    <3> HIDE DEF pc
    <3> QED BY <1>1, <2>1, <2>2, <2>3 DEF TxType
  <2>6. tx' = [tx EXCEPT ![c] = t] BY <1>3
  <2> HIDE DEF t
  <2>7. t.claim = None /\ t.put = None /\ t.fresh = None /\ t.job = None
    BY <1>1, <2>4 DEF Creating
  <2>8. Req(c).cr # None => Applying(t, r, Req(c).cr)
    BY <1>3, <2>2, <2>4, <2>7 DEF Applying, BoundTo
  <2>9. Creating(t)
    BY <1>1, <1>3, <2>4, <2>7, <2>8 DEF Creating, Req
  <2>10. Sound(t) BY <2>9 DEF Sound
  <2>11. ASSUME NEW d \in Others(c) PROVE Apart(t, tx[d])
    <3>1. r \notin tx[d].locked BY DEF CreateLock, Free, Unlocked
    <3> QED BY <2>4, <2>7, <3>1 DEF Apart, Inserting
  <2>12. used \subseteq used' /\ used' \subseteq Runs BY <1>1 DEF LifecycleInv, TableTypes
  <2> QED BY <1>1, <2>5, <2>6, <2>10, <2>11, <2>12, QuietStep
<1> QED BY <1>2, <1>3 DEF CreateLock

LEMMA CreateInsertStep ==
  ASSUME LifecycleInv, NEW c \in Clients, CreateInsert(c)
  PROVE  LifecycleInv'
<1> DEFINE q == Req(c)
           t == [tx[c] EXCEPT !.pc = "commit", !.put = RequestedRow(q)]
<1>1. UNCHANGED <<tables, used>> /\ Creating(tx[c]) /\ tx[c].pc = "insertBinding" /\ tx[c] \in TxType
  BY ShapeByStatement DEF CreateInsert, At
<1>2. CASE bindings[q.job] # None /\ Goto(c, "commitLoser")
  <2> DEFINE u == [tx[c] EXCEPT !.pc = "commitLoser"]
  <2>1. /\ u.req = tx[c].req /\ u.locked = tx[c].locked /\ u.claim = tx[c].claim
        /\ u.put = tx[c].put /\ u.job = tx[c].job /\ u.fresh = tx[c].fresh
        /\ u.pc = "commitLoser"
    BY <1>1 DEF TxType
  <2> HIDE DEF u
  <2>2. Creating(u) BY <1>1, <1>2, <2>1 DEF Creating, Settled, Req
  <2>3. Sound(u) BY <2>2 DEF Sound
  <2> QED BY <1>1, <1>2, <2>3, GotoStep DEF PCs, u
<1>3. CASE /\ bindings[q.job] = None
           /\ tx' = [tx EXCEPT ![c].pc = "commit", ![c].put = RequestedRow(q)]
  <2>1. /\ t.req = tx[c].req /\ t.locked = tx[c].locked /\ t.claim = tx[c].claim
        /\ t.put = RequestedRow(q) /\ t.job = tx[c].job /\ t.fresh = tx[c].fresh
        /\ t.pc = "commit"
    BY <1>1 DEF TxType
  <2>2. RequestedRow(q) \in BindingRow /\ q.op = "create"
    BY <1>1, OpsOfRequests DEF Creating, CreateRequests, RequestedRow, BindingRow, Req
  <2> "commit" \in PCs BY DEF PCs
  <2>3. t \in TxType' BY <1>1, <2>2, ZenonT(60) DEF TxType
  <2>4. tx' = [tx EXCEPT ![c] = t] BY <1>3
  <2> HIDE DEF t
  <2>5. Creating(t) BY <1>1, <1>3, <2>1 DEF Creating, Settled, Req
  <2>6. Sound(t) BY <2>5 DEF Sound
  <2>7. ASSUME NEW d \in Others(c) PROVE Apart(t, tx[d])
    <3>1. Apart(tx[c], tx[d]) BY DEF LifecycleInv, TxInv, Others
    <3>2. Inserting(tx[d]) => tx[d].req.job # q.job
      BY DEF CreateInsert, JobPending, Inserting
    <3> QED BY <2>1, <2>2, <3>1, <3>2 DEF Apart, Req
  <2>8. used \subseteq used' /\ used' \subseteq Runs BY <1>1 DEF LifecycleInv, TableTypes
  <2> QED BY <1>1, <2>3, <2>4, <2>6, <2>7, <2>8, QuietStep
<1> QED BY <1>2, <1>3 DEF CreateInsert, RequestedRow

LEMMA CreateRereadStep ==
  ASSUME LifecycleInv, NEW c \in Clients, CreateReread(c)
  PROVE  LifecycleInv'
<1> DEFINE code == IF _binding_conflicts_with(bindings[Req(c).job], Req(c)) THEN 409 ELSE 200
<1>1. code \in Nat OBVIOUS
<1>2. Answer(c, code) /\ UNCHANGED <<tables, used>> BY DEF CreateReread
<1> HIDE DEF code
<1> QED BY <1>1, <1>2, AnswerStep

LEMMA TerminalLockStep ==
  ASSUME LifecycleInv, NEW c \in Clients, NEW q \in Requests, TerminalLock(c, q)
  PROVE  LifecycleInv'
<1> DEFINE row == bindings[q.job]
           put == Merged(row, q)
           authority == row.run # None /\ put.cr # None
           pc == IF authority THEN "apply" ELSE "commit"
           seen == IF authority THEN runs[row.run] ELSE None
           t == [Started(q, pc) EXCEPT !.job = q.job, !.locked = {row.run} \ {None},
                                       !.put = put, !.seen = seen]
<1>1. UNCHANGED <<tables, used>> /\ q \in TerminalRequests
  BY RequestsByOp DEF TerminalLock
<1>2. ASSUME NEW code \in {404, 200, 409}, Answer(c, code) PROVE LifecycleInv'
  BY <1>1, <1>2, AnswerStep
<1>3. CASE row # None /\ Transition(row, q) /\ tx' = [tx EXCEPT ![c] = t]
  <2>1. q.job \in Jobs BY <1>1 DEF TerminalRequests
  <2>2. row \in BindingRow BY <1>3, <2>1 DEF LifecycleInv, TableTypes
  <2>3. put \in BindingRow /\ put.run = row.run BY <1>1, <2>2, MergedRow
  <2>4. row.run # None => row.run \in Runs /\ Exists(row.run) /\ runs[row.run] \in RunRow
    BY <1>3, <2>1, <2>2 DEF LifecycleInv, TableTypes, BindingRunsExist, BindingRow, Exists
  <2>5. pc \in {"apply", "commit"} /\ (pc = "apply" <=> authority) OBVIOUS
  <2>6. authority => seen \in RunRow /\ seen = runs[row.run] BY <2>4
  <2>7. ~authority => seen = None OBVIOUS
  <2>8. authority \in BOOLEAN OBVIOUS
  <2>9. authority <=> row.run # None /\ put.cr # None OBVIOUS
  <2> HIDE DEF put, pc, seen, authority
  <2> DEFINE start == Started(q, pc)
  <2>10. start \in TxType' /\ start.req = q /\ start.pc = pc /\ start.claim = None /\ start.fresh = None
    BY StartedTx, <2>5 DEF TxType, PCs
  <2>11. {row.run} \ {None} \subseteq Runs BY <2>4
  <2> HIDE DEF start
  <2>12. /\ t \in TxType'
         /\ t.pc = pc /\ t.req = q /\ t.seen = seen /\ t.locked = {row.run} \ {None}
         /\ t.job = q.job /\ t.claim = None /\ t.put = put /\ t.fresh = None
    <3>1. t = [start EXCEPT !.job = q.job, !.locked = {row.run} \ {None},
                            !.put = put, !.seen = seen]
      BY DEF start
    <3> HIDE DEF t
    <3>2. seen \in RunRow \cup BindingRow \cup {None} BY <2>6, <2>7
    <3> QED BY <2>1, <2>3, <2>10, <2>11, <3>1, <3>2, ZenonT(60) DEF TxType
  <2> HIDE DEF t
  <2>13. authority => Applying(t, row.run, put.cr)
    BY <2>4, <2>5, <2>6, <2>9, <2>12 DEF Applying, BoundTo
  <2>14. Updating(t)
    <3>1. t.req = q /\ t.put = put /\ t.job = q.job /\ t.fresh = None
          /\ t.pc = pc /\ t.locked = {row.run} \ {None} /\ t.claim = None
      BY <2>12
    <3>2. t.put = Merged(row, q) BY <3>1 DEF put
    <3> QED BY <1>1, <1>3, <3>1, <3>2, <2>5, <2>9, <2>13 DEF Updating
  <2>15. Sound(t) BY <2>14 DEF Sound
  <2>16. ASSUME NEW d \in Others(c) PROVE Apart(t, tx[d])
    <3>1. tx[d].job # q.job BY DEF TerminalLock
    <3>2. row.run # None => row.run \notin tx[d].locked
      BY <1>3 DEF TerminalLock, Free, Unlocked
    <3>3. q.op # "create" BY <1>1, OpsOfRequests
    <3> QED BY <2>12, <3>1, <3>2, <3>3 DEF Apart, Inserting
  <2>17. used \subseteq used' /\ used' \subseteq Runs BY <1>1 DEF LifecycleInv, TableTypes
  <2> QED BY <1>1, <1>3, <2>12, <2>15, <2>16, <2>17, QuietStep
<1> QED BY <1>2, <1>3 DEF TerminalLock

LEMMA CheckpointSelectStep ==
  ASSUME LifecycleInv, NEW c \in Clients, NEW q \in Requests, CheckpointSelect(c, q)
  PROVE  LifecycleInv'
<1>1. UNCHANGED <<tables, used>> /\ q \in CheckpointRequests
  BY RequestsByOp DEF CheckpointSelect
<1>2. CASE Answer(c, 404) BY <1>1, <1>2, AnswerStep
<1>3. CASE /\ bindings[q.job] # None
           /\ tx' = [tx EXCEPT ![c] = [Started(q, "insertCheckpoint") EXCEPT
                                         !.seen = bindings[q.job]]]
  <2> DEFINE t == [Started(q, "insertCheckpoint") EXCEPT !.seen = bindings[q.job]]
  <2>1. t = [pc |-> "insertCheckpoint", req |-> q, seen |-> bindings[q.job], locked |-> {},
             job |-> None, share |-> None, claim |-> None, put |-> None,
             fresh |-> None, ans |-> None]
    BY StartedTx, SMTT(60)
  <2>2. bindings[q.job] \in BindingRow
    BY <1>1, <1>3 DEF LifecycleInv, TableTypes, CheckpointRequests
  <2>3. Sound(t) BY <1>1, <1>3, <2>1, <2>2 DEF Sound, Checkpointing
  <2> QED BY <1>1, <1>3, <2>2, <2>3, BeginStep DEF PCs
<1> QED BY <1>2, <1>3 DEF CheckpointSelect

LEMMA CheckpointInsertStep ==
  ASSUME LifecycleInv, NEW c \in Clients, CheckpointInsert(c)
  PROVE  LifecycleInv'
<1> DEFINE q == Req(c)
           t == [tx[c] EXCEPT !.job = q.job, !.share = tx[c].seen.run, !.pc = "commit"]
<1>1. UNCHANGED <<tables, used>> /\ Checkpointing(tx[c]) /\ tx[c].pc = "insertCheckpoint"
      /\ tx[c] \in TxType
  BY ShapeByStatement DEF CheckpointInsert, At
<1>2. ASSUME NEW code \in {200, 500}, Answer(c, code) PROVE LifecycleInv'
  BY <1>1, <1>2, AnswerStep
<1>3. CASE tx' = [tx EXCEPT ![c].job = q.job, ![c].share = tx[c].seen.run, ![c].pc = "commit"]
  <2>1. /\ t.req = tx[c].req /\ t.locked = tx[c].locked /\ t.claim = tx[c].claim
        /\ t.put = tx[c].put /\ t.job = q.job /\ t.fresh = tx[c].fresh
        /\ t.pc = "commit" /\ t.seen = tx[c].seen
    BY <1>1 DEF TxType
  <2>2. q.job \in Jobs /\ tx[c].seen.run \in Runs \cup {None} /\ q.op = "checkpoint"
    BY <1>1, OpsOfRequests DEF Checkpointing, CheckpointRequests, BindingRow, Req
  <2> "commit" \in PCs BY DEF PCs
  <2>3. t \in TxType' BY <1>1, <2>2, ZenonT(60) DEF TxType
  <2>4. tx' = [tx EXCEPT ![c] = t] BY <1>3
  <2> HIDE DEF t
  <2>5. Sound(t) BY <1>1, <2>1 DEF Sound, Checkpointing, Req
  <2>6. ASSUME NEW d \in Others(c) PROVE Apart(t, tx[d])
    <3>1. Apart(tx[c], tx[d]) BY DEF LifecycleInv, TxInv, Others
    <3>2. tx[d].job = q.job => tx[d].req.op = "checkpoint" BY DEF CheckpointInsert, Req
    <3> QED BY <2>1, <2>2, <3>1, <3>2 DEF Apart, Inserting, Req
  <2>7. used \subseteq used' /\ used' \subseteq Runs BY <1>1 DEF LifecycleInv, TableTypes
  <2> QED BY <1>1, <2>3, <2>4, <2>5, <2>6, <2>7, QuietStep
<1> QED BY <1>2, <1>3 DEF CheckpointInsert

-----------------------------------------------------------------------------
(* Retitling and deletion                                                  *)

(* A transaction that begins by locking the run of its request.            *)
LEMMA LockedBeginStep ==
  ASSUME LifecycleInv, NEW c \in Clients, NEW q \in Requests, NEW pc \in PCs,
         NEW r \in Runs, NEW seen \in RunRow \cup {None}, Free(c, r),
         UNCHANGED <<tables, used>>, NEW t,
         t = [pc |-> pc, req |-> q, seen |-> seen, locked |-> {r},
              job |-> None, share |-> None, claim |-> None, put |-> None,
              fresh |-> None, ans |-> None],
         tx' = [tx EXCEPT ![c] = t], Sound(t)
  PROVE  LifecycleInv'
<1>1. t \in TxType' BY DEF TxType
<1>2. \A d \in Others(c) : Apart(t, tx[d]) BY DEF Apart, Inserting, Free, Unlocked
<1>3. used \subseteq used' /\ used' \subseteq Runs BY DEF LifecycleInv, TableTypes
<1> QED BY <1>1, <1>2, <1>3, QuietStep

LEMMA TitleLockStep ==
  ASSUME LifecycleInv, NEW c \in Clients, NEW q \in Requests, TitleLock(c, q)
  PROVE  LifecycleInv'
<1>1. UNCHANGED <<tables, used>> /\ q \in TitleRequests /\ Free(c, q.run)
  BY RequestsByOp DEF TitleLock
<1>2. ASSUME NEW code \in {404, 200}, Answer(c, code) PROVE LifecycleInv'
  BY <1>1, <1>2, AnswerStep
<1>3. CASE /\ Exists(q.run)
           /\ tx' = [tx EXCEPT ![c] = [Started(q, "commit") EXCEPT !.locked = {q.run}]]
  <2> DEFINE t == [Started(q, "commit") EXCEPT !.locked = {q.run}]
  <2>1. t = [pc |-> "commit", req |-> q, seen |-> None, locked |-> {q.run},
             job |-> None, share |-> None, claim |-> None, put |-> None,
             fresh |-> None, ans |-> None]
    BY StartedTx, SMTT(60)
  <2>2. q.run \in Runs BY <1>1 DEF TitleRequests
  <2>3. Sound(t) BY <1>1, <1>3, <2>1 DEF Sound, Retitling
  <2>4. tx' = [tx EXCEPT ![c] = t] BY <1>3
  <2> HIDE DEF t
  <2> QED BY <1>1, <2>1, <2>2, <2>3, <2>4, LockedBeginStep DEF PCs
<1> QED BY <1>2, <1>3 DEF TitleLock

LEMMA DeleteLockStep ==
  ASSUME LifecycleInv, NEW c \in Clients, NEW q \in Requests, DeleteLock(c, q)
  PROVE  LifecycleInv'
<1>1. UNCHANGED <<tables, used>> /\ q \in DeleteRequests /\ Free(c, q.run)
  BY RequestsByOp DEF DeleteLock
<1>2. CASE Answer(c, 404) BY <1>1, <1>2, AnswerStep
<1>3. CASE /\ Exists(q.run)
           /\ tx' = [tx EXCEPT ![c] = [Started(q, "eligible") EXCEPT
                                         !.locked = {q.run}, !.seen = runs[q.run]]]
  <2> DEFINE n == [Started(q, "eligible") EXCEPT !.locked = {q.run}]
             t == [n EXCEPT !.seen = runs[q.run]]
  <2>1. n = [pc |-> "eligible", req |-> q, seen |-> None, locked |-> {q.run},
             job |-> None, share |-> None, claim |-> None, put |-> None,
             fresh |-> None, ans |-> None]
    BY StartedTx, SMTT(60)
  <2>2. tx' = [tx EXCEPT ![c] = t] BY <1>3
  <2> HIDE DEF n
  <2>3. t = [pc |-> "eligible", req |-> q, seen |-> runs[q.run], locked |-> {q.run},
             job |-> None, share |-> None, claim |-> None, put |-> None,
             fresh |-> None, ans |-> None]
    BY <2>1
  <2>4. q.run \in Runs /\ runs[q.run] \in RunRow
    BY <1>1, <1>3 DEF DeleteRequests, LifecycleInv, TableTypes, Exists
  <2>5. Sound(t) BY <1>1, <1>3, <2>3, <2>4 DEF Sound, Deleting
  <2> HIDE DEF t
  <2> QED BY <1>1, <2>2, <2>3, <2>4, <2>5, LockedBeginStep DEF PCs
<1> QED BY <1>2, <1>3 DEF DeleteLock

LEMMA DeleteEligibleStep ==
  ASSUME LifecycleInv, NEW c \in Clients, DeleteEligible(c)
  PROVE  LifecycleInv'
<1>1. UNCHANGED <<tables, used>> /\ Deleting(tx[c]) /\ tx[c].pc = "eligible" /\ tx[c] \in TxType
  BY ShapeByStatement DEF DeleteEligible, At
<1>2. CASE Answer(c, 409) BY <1>1, <1>2, AnswerStep
<1>3. CASE Goto(c, "deleteRun") /\ tx[c].seen.cr = None /\ ~HasBindings(Req(c).run)
  <2> DEFINE t == [tx[c] EXCEPT !.pc = "deleteRun"]
  <2>1. /\ t.req = tx[c].req /\ t.locked = tx[c].locked /\ t.claim = tx[c].claim
        /\ t.put = tx[c].put /\ t.job = tx[c].job /\ t.fresh = tx[c].fresh
        /\ t.pc = "deleteRun"
    BY <1>1 DEF TxType
  <2> HIDE DEF t
  <2>2. Deleting(t) BY <1>1, <1>3, <2>1 DEF Deleting, Bindable, Req
  <2>3. Sound(t) BY <2>2 DEF Sound
  <2> QED BY <1>1, <1>3, <2>3, GotoStep DEF PCs, t
<1> QED BY <1>2, <1>3 DEF DeleteEligible

LEMMA DeleteRunStep ==
  ASSUME LifecycleInv, NEW c \in Clients, DeleteRun(c)
  PROVE  LifecycleInv'
<1> DEFINE successors == {s \in Runs : Exists(s) /\ runs[s].recovered = Req(c).run}
           t == [tx[c] EXCEPT !.locked = successors \cup {Req(c).run}, !.pc = "commit"]
<1>1. UNCHANGED <<tables, used>> /\ Deleting(tx[c]) /\ tx[c].pc = "deleteRun" /\ tx[c] \in TxType
  BY ShapeByStatement DEF DeleteRun, At
<1>2. tx' = [tx EXCEPT ![c] = t] BY DEF DeleteRun
<1>3. \A d \in Others(c) : \A s \in successors \cup {Req(c).run} : s \notin tx[d].locked
  BY DEF DeleteRun, Free, Unlocked
<1>4. successors \cup {Req(c).run} \subseteq Runs
  BY <1>1 DEF Deleting, DeleteRequests, Req
<1> HIDE DEF successors
<1>5. /\ t.req = tx[c].req /\ t.locked = successors \cup {Req(c).run} /\ t.claim = tx[c].claim
      /\ t.put = tx[c].put /\ t.job = tx[c].job /\ t.fresh = tx[c].fresh /\ t.pc = "commit"
  BY <1>1 DEF TxType
<1> "commit" \in PCs BY DEF PCs
<1>6. t \in TxType' BY <1>1, <1>4, ZenonT(60) DEF TxType
<1> HIDE DEF t
<1>7. Sound(t) BY <1>1, <1>5 DEF Sound, Deleting, Req
<1>8. ASSUME NEW d \in Others(c) PROVE Apart(t, tx[d])
  <2>1. Apart(tx[c], tx[d]) BY DEF LifecycleInv, TxInv, Others
  <2> QED BY <1>3, <1>5, <2>1 DEF Apart, Inserting
<1>9. used \subseteq used' /\ used' \subseteq Runs BY <1>1 DEF LifecycleInv, TableTypes
<1> QED BY <1>1, <1>2, <1>6, <1>7, <1>8, <1>9, QuietStep

LEMMA TimeoutStep ==
  ASSUME LifecycleInv, NEW c \in Clients, Timeout(c)
  PROVE  LifecycleInv'
BY AnswerStep DEF Timeout

LEMMA LogDeliveryStep ==
  ASSUME LifecycleInv, NEW r \in Runs, LogDelivery(r)
  PROVE  LifecycleInv'
<1>1. UNCHANGED <<runs, bindings, links, checkpoints, used, tx>> BY DEF LogDelivery
<1>2. TableTypes' BY <1>1 DEF LogDelivery, LifecycleInv, TableTypes, Exists
<1>3. IdentitiesAreUnique' BY <1>1 DEF LifecycleInv, IdentitiesAreUnique, Exists
<1>4. TablesAgree'
  BY <1>1 DEF LifecycleInv, TablesAgree, BindingAgreesWithRun, BindingKeepsItsRun,
       SessionsAreLinked, CheckpointsFollowExecutions, CompletedIsComplete, Exists
<1>5. BindingRunsExist' BY <1>1 DEF LifecycleInv, BindingRunsExist, Exists
<1>6. ASSUME NEW d \in Clients PROVE Sound(tx[d])'
  <2>1. PICK u : u = tx[d] OBVIOUS
  <2>2. Sound(u) BY <2>1 DEF LifecycleInv, TxInv
  <2>3. Sound(u)' BY <2>2, <1>1, SoundIsAboutTables
  <2> QED BY <1>1, <2>1, <2>3
<1>7. TxInv' BY <1>1, <1>6 DEF LifecycleInv, TxInv, TxType
<1> QED BY <1>2, <1>3, <1>4, <1>5, <1>7 DEF LifecycleInv

-----------------------------------------------------------------------------
(* Commits                                                                 *)

TableInv ==
  /\ TableTypes /\ IdentitiesAreUnique /\ TablesAgree /\ BindingRunsExist

RunIn(t) == IF t.req.op = "terminal" THEN bindings[t.req.job].run ELSE t.req.run

(* What the commit of t may do to a run: provision it, bind it to the      *)
(* change request t has claimed, or delete it if no execution refers to    *)
(* it; it never touches the identities of a run that t has not locked.     *)
RunsEffect(t) ==
  \A r \in Runs :
    /\ Exists(r) /\ (r \notin t.locked \/ runs[r].cr # None \/ HasBindings(r))
         => runs'[r] # None
    /\ Exists(r) /\ (r \notin t.locked \/ runs[r].cr # None) /\ runs'[r] # None
         => runs'[r].cr = runs[r].cr
    /\ Exists(r) /\ runs'[r] # None =>
         /\ runs'[r].key = runs[r].key
         /\ \/ runs'[r].cr = runs[r].cr
            \/ runs'[r].cr = t.claim /\ t.claim # None /\ r = RunIn(t)
    /\ ~Exists(r) /\ runs'[r] # None =>
         /\ r = t.fresh /\ WithKey(t.req.key) = {}
         /\ runs'[r].key = t.req.key /\ runs'[r].cr = None

(* What it may do to an execution: insert the one t is inserting, or       *)
(* replace the one t has locked, whose run stays.                          *)
BindingsEffect(t) ==
  \A j \in Jobs :
    \/ bindings'[j] = bindings[j]
    \/ /\ Inserting(t) /\ j = t.req.job /\ bindings[j] = None
       /\ bindings'[j] = t.put /\ t.put # None /\ t.put.run \in t.locked
    \/ /\ t.req.op = "terminal" /\ j = t.job /\ bindings[j] # None
       /\ bindings'[j] = t.put /\ t.put # None /\ t.put.run = bindings[j].run

CommitShape(t) ==
  \/ Provisioning(t) \/ Binding(t) \/ Creating(t) \/ Updating(t)
  \/ Checkpointing(t) \/ Retitling(t) \/ Deleting(t)

LEMMA CommitShapes ==
  ASSUME LifecycleInv, NEW c \in Clients, tx[c].pc \in {"commit", "commitLoser"}
  PROVE  /\ tx[c] \in TxType /\ CommitShape(tx[c]) /\ Req(c) \in Requests
         /\ Provisioning(tx[c]) => Req(c).op = "provision"
         /\ Binding(tx[c]) => Req(c).op = "bind"
         /\ Creating(tx[c]) => Req(c).op = "create"
         /\ Updating(tx[c]) => Req(c).op = "terminal"
         /\ Checkpointing(tx[c]) => Req(c).op = "checkpoint"
         /\ Retitling(tx[c]) => Req(c).op = "title"
         /\ Deleting(tx[c]) => Req(c).op = "delete"
<1>1. tx[c] \in TxType /\ Sound(tx[c]) BY DEF LifecycleInv, TxInv
<1>2. ~Idle(tx[c]) BY DEF Idle, NoTx
<1>3. Req(c) \in Requests BY ShapeByStatement DEF At
<1>4. CommitShape(tx[c]) BY <1>1, <1>2 DEF Sound, CommitShape
<1>5. /\ Provisioning(tx[c]) => Req(c).op = "provision"
      /\ Binding(tx[c]) => Req(c).op = "bind"
      /\ Creating(tx[c]) => Req(c).op = "create"
      /\ Updating(tx[c]) => Req(c).op = "terminal"
      /\ Checkpointing(tx[c]) => Req(c).op = "checkpoint"
      /\ Retitling(tx[c]) => Req(c).op = "title"
      /\ Deleting(tx[c]) => Req(c).op = "delete"
  BY OpsOfRequests DEF Provisioning, Binding, Creating, Updating, Checkpointing,
     Retitling, Deleting, Req
<1> QED BY <1>1, <1>3, <1>4, <1>5

(* A commit that leaves the executions and the checkpoints alone keeps the *)
(* tables in order if it keeps every run an execution refers to.           *)
LEMMA RunsAloneKeepTables ==
  ASSUME TableInv, UNCHANGED <<bindings, checkpoints, logged, used>>,
         links' \subseteq links, runs' \in [Runs -> RunRow \cup {None}],
         NEW t, RunsEffect(t), \A r \in Runs : runs'[r] # None => r \in used,
         \A r \in Runs : Exists(r) /\ runs'[r] # None => runs'[r].cr = runs[r].cr,
         \A l \in links : (l \in links' <=> runs'[l[1]] # None)
  PROVE  TableInv'
<1>1. TableTypes' BY DEF TableInv, TableTypes, Exists
<1>2. IdentitiesAreUnique'
  <2>1. SUFFICES ASSUME NEW r \in Runs, NEW s \in Runs, runs'[r] # None, runs'[s] # None, r # s
                 PROVE  /\ runs'[r].key # runs'[s].key
                        /\ runs'[r].cr # None => runs'[r].cr # runs'[s].cr
    BY DEF IdentitiesAreUnique, Exists
  <2>2. CASE Exists(r) /\ Exists(s)
    BY <2>1, <2>2 DEF TableInv, IdentitiesAreUnique, RunsEffect
  <2>3. CASE Exists(r) /\ ~Exists(s)
    <3>1. runs[r].key # t.req.key BY <2>1, <2>3 DEF RunsEffect, WithKey
    <3> QED BY <2>1, <2>3, <3>1 DEF RunsEffect
  <2>4. CASE ~Exists(r) /\ Exists(s)
    <3>1. runs[s].key # t.req.key BY <2>1, <2>4 DEF RunsEffect, WithKey
    <3> QED BY <2>1, <2>4, <3>1 DEF RunsEffect
  <2>5. CASE ~Exists(r) /\ ~Exists(s) BY <2>1, <2>5 DEF RunsEffect
  <2> QED BY <2>2, <2>3, <2>4, <2>5
<1>3. ASSUME NEW j \in Jobs, bindings[j] # None, bindings[j].run # None
      PROVE  /\ bindings[j].run \in Runs /\ Exists(bindings[j].run)
             /\ runs'[bindings[j].run] # None
             /\ runs'[bindings[j].run].cr = runs[bindings[j].run].cr
  <2>1. bindings[j].run \in Runs /\ Exists(bindings[j].run)
    BY <1>3 DEF TableInv, TableTypes, BindingRow, BindingRunsExist
  <2>2. HasBindings(bindings[j].run) BY <1>3 DEF HasBindings
  <2> QED BY <2>1, <2>2 DEF RunsEffect
<1>4. BindingRunsExist' BY <1>3 DEF TableInv, BindingRunsExist, Exists
<1>5. BindingAgreesWithRun' BY <1>3 DEF TableInv, TablesAgree, BindingAgreesWithRun
<1>6. BindingKeepsItsRun' BY <1>3 DEF TableInv, TablesAgree, BindingKeepsItsRun, Exists
<1>7. SessionsAreLinked' BY <1>3 DEF TableInv, TablesAgree, SessionsAreLinked, Exists
<1>8. CheckpointsFollowExecutions' BY DEF TableInv, TablesAgree, CheckpointsFollowExecutions
<1>9. CompletedIsComplete' BY DEF TableInv, TablesAgree, CompletedIsComplete
<1> QED BY <1>1, <1>2, <1>4, <1>5, <1>6, <1>7, <1>8, <1>9 DEF TableInv, TablesAgree

LEMMA CommitProvision ==
  ASSUME LifecycleInv, NEW c \in Clients, tx[c].pc = "commit", Provisioning(tx[c]),
         WriteTables(c), UNCHANGED used
  PROVE  TableInv' /\ RunsEffect(tx[c]) /\ BindingsEffect(tx[c])
<1> DEFINE q == Req(c)
           f == tx[c].fresh
<1>1. q.op = "provision" BY CommitShapes
<1>2. /\ runs' = [runs EXCEPT ![f] = ProvisionedRow(q)]
      /\ UNCHANGED <<bindings, links, logged, checkpoints>>
  BY <1>1 DEF WriteTables
<1>3. tx[c] \in TxType BY CommitShapes
<1>4. /\ f \in used /\ f # None /\ q \in ProvisionRequests
      /\ ~Exists(f) /\ WithKey(q.key) = {}
  BY <1>3 DEF Provisioning, TxType, Req
<1>5. f \in Runs /\ used \subseteq Runs BY <1>4 DEF LifecycleInv, TableTypes
<1>6. ProvisionedRow(q) \in RunRow /\ ProvisionedRow(q).cr = None /\ ProvisionedRow(q).key = q.key
  BY <1>4 DEF ProvisionedRow, ProvisionRequests, RunRow
<1>7. runs \in [Runs -> RunRow \cup {None}] BY DEF LifecycleInv, TableTypes
<1>8. runs' \in [Runs -> RunRow \cup {None}] /\ runs'[f] = ProvisionedRow(q)
      /\ \A r \in Runs \ {f} : runs'[r] = runs[r]
  BY <1>2, <1>5, <1>6, <1>7
<1>9. RunsEffect(tx[c]) BY <1>4, <1>6, <1>8 DEF RunsEffect, Req, Exists
<1>10. TableInv
  BY DEF LifecycleInv, TableInv
<1>11. \A r \in Runs : runs'[r] # None => r \in used
  BY <1>4, <1>8 DEF LifecycleInv, TableTypes, Exists
<1>12. \A l \in links : runs'[l[1]] # None
  <2>1. SUFFICES ASSUME NEW l \in links PROVE runs'[l[1]] # None OBVIOUS
  <2>2. l[1] \in Runs /\ Exists(l[1])
    BY DEF LifecycleInv, TableTypes, TablesAgree, SessionsAreLinked
  <2> QED BY <1>4, <1>8, <2>2 DEF Exists
<1>13. TableInv'
  BY <1>2, <1>4, <1>8, <1>9, <1>10, <1>11, <1>12, RunsAloneKeepTables DEF Exists
<1> QED BY <1>2, <1>9, <1>13 DEF BindingsEffect

LEMMA CommitTitle ==
  ASSUME LifecycleInv, NEW c \in Clients, tx[c].pc = "commit", Retitling(tx[c]),
         WriteTables(c), UNCHANGED used
  PROVE  TableInv' /\ RunsEffect(tx[c]) /\ BindingsEffect(tx[c])
<1> DEFINE q == Req(c)
<1>1. q.op = "title" BY CommitShapes
<1>2. /\ runs' = [runs EXCEPT ![q.run].title = q.title]
      /\ UNCHANGED <<bindings, links, logged, checkpoints>>
  BY <1>1 DEF WriteTables
<1>3. q.run \in Runs /\ Exists(q.run) /\ q.title \in STRING
  BY DEF Retitling, TitleRequests, Req
<1>4. runs \in [Runs -> RunRow \cup {None}] BY DEF LifecycleInv, TableTypes
<1>5. runs[q.run] \in RunRow BY <1>3, <1>4 DEF Exists
<1> DEFINE row == [runs[q.run] EXCEPT !.title = q.title]
<1>6. row \in RunRow /\ row.cr = runs[q.run].cr /\ row.key = runs[q.run].key
  BY <1>3, <1>5 DEF RunRow
<1>7. row # None BY <1>6, LifecycleAssumption
<1>8. runs' = [runs EXCEPT ![q.run] = row] BY <1>2
<1> HIDE DEF row
<1>9. runs' \in [Runs -> RunRow \cup {None}] /\ runs'[q.run] = row
      /\ \A r \in Runs \ {q.run} : runs'[r] = runs[r]
  BY <1>3, <1>4, <1>6, <1>8
<1>10. \A r \in Runs : Exists(r) <=> runs'[r] # None BY <1>3, <1>7, <1>9 DEF Exists
<1>11. \A r \in Runs : Exists(r) => runs'[r].cr = runs[r].cr /\ runs'[r].key = runs[r].key
  BY <1>6, <1>9
<1>12. RunsEffect(tx[c]) BY <1>10, <1>11 DEF RunsEffect
<1>13. TableInv BY DEF LifecycleInv, TableInv
<1>14. \A l \in links : runs'[l[1]] # None
  BY <1>10 DEF LifecycleInv, TableTypes, TablesAgree, SessionsAreLinked
<1>15. \A r \in Runs : runs'[r] # None => r \in used
  BY <1>10 DEF LifecycleInv, TableTypes
<1>16. TableInv'
  BY <1>2, <1>9, <1>11, <1>12, <1>13, <1>14, <1>15, RunsAloneKeepTables
<1> QED BY <1>2, <1>12, <1>16 DEF BindingsEffect

(* An orphan has no execution and so no checkpoint: its deletion clears no *)
(* reference but those of its successors.                                  *)
LEMMA CommitDelete ==
  ASSUME LifecycleInv, NEW c \in Clients, tx[c].pc = "commit", Deleting(tx[c]),
         WriteTables(c), UNCHANGED used
  PROVE  TableInv' /\ RunsEffect(tx[c]) /\ BindingsEffect(tx[c])
<1> DEFINE q == Req(c)
<1>1. q.op = "delete" BY CommitShapes
<1>2. /\ runs' = [r \in Runs |-> IF r = q.run THEN None ELSE ClearRecovered(runs[r], q.run)]
      /\ bindings' = [j \in Jobs |-> ClearRun(bindings[j], q.run)]
      /\ links' = {l \in links : l[1] # q.run}
      /\ checkpoints' = {ClearRun(k, q.run) : k \in checkpoints}
      /\ UNCHANGED logged
  BY <1>1 DEF WriteTables
<1>3. /\ q.run \in Runs /\ Exists(q.run) /\ q.run \in tx[c].locked
      /\ runs[q.run].cr = None /\ ~HasBindings(q.run)
  BY DEF Deleting, DeleteRequests, Req, Bindable
<1>4. /\ runs \in [Runs -> RunRow \cup {None}] /\ bindings \in [Jobs -> BindingRow \cup {None}]
      /\ checkpoints \subseteq CheckpointType
  BY DEF LifecycleInv, TableTypes
<1>5. bindings' = bindings
  <2>1. \A j \in Jobs : ClearRun(bindings[j], q.run) = bindings[j]
    BY <1>3 DEF ClearRun, HasBindings
  <2> QED BY <1>2, <1>4, <2>1
<1>6. checkpoints' = checkpoints
  <2>1. ASSUME NEW k \in checkpoints PROVE ClearRun(k, q.run) = k
    <3>1. k.job \in Jobs BY <1>4 DEF CheckpointType
    <3>2. bindings[k.job] # None /\ k.run = bindings[k.job].run
      BY DEF LifecycleInv, TablesAgree, CheckpointsFollowExecutions
    <3> QED BY <1>3, <3>1, <3>2 DEF HasBindings, ClearRun
  <2> QED BY <1>2, <2>1
<1>7. ASSUME NEW r \in Runs, r # q.run
      PROVE  /\ ClearRecovered(runs[r], q.run) \in RunRow \cup {None}
             /\ ClearRecovered(runs[r], q.run) # None <=> Exists(r)
             /\ Exists(r) => /\ ClearRecovered(runs[r], q.run).key = runs[r].key
                             /\ ClearRecovered(runs[r], q.run).cr = runs[r].cr
  <2>1. CASE ~Exists(r) BY <2>1 DEF ClearRecovered, Exists
  <2>2. CASE Exists(r)
    <3>1. runs[r] \in RunRow BY <1>4, <2>2 DEF Exists
    <3>2. /\ [runs[r] EXCEPT !.recovered = None] \in RunRow
          /\ [runs[r] EXCEPT !.recovered = None].key = runs[r].key
          /\ [runs[r] EXCEPT !.recovered = None].cr = runs[r].cr
      BY <3>1 DEF RunRow
    <3> QED BY <2>2, <3>1, <3>2, LifecycleAssumption DEF ClearRecovered, Exists
  <2> QED BY <2>1, <2>2
<1>8. /\ runs' \in [Runs -> RunRow \cup {None}] /\ runs'[q.run] = None
      /\ \A r \in Runs \ {q.run} : runs'[r] = ClearRecovered(runs[r], q.run)
  <2>1. \A r \in Runs : (IF r = q.run THEN None ELSE ClearRecovered(runs[r], q.run))
                           \in RunRow \cup {None}
    BY <1>7
  <2> QED BY <1>2, <1>3, <2>1
<1>9. /\ \A r \in Runs \ {q.run} : runs'[r] # None <=> Exists(r)
      /\ \A r \in Runs : runs'[r] # None => Exists(r)
      /\ \A r \in Runs \ {q.run} : Exists(r) => runs'[r].key = runs[r].key /\ runs'[r].cr = runs[r].cr
  BY <1>7, <1>8
<1>10. RunsEffect(tx[c]) BY <1>3, <1>8, <1>9 DEF RunsEffect
<1>11. TableInv BY DEF LifecycleInv, TableInv
<1>12. links' \subseteq links /\ \A l \in links : (l \in links' <=> runs'[l[1]] # None)
  <2>1. \A l \in links : l[1] \in Runs /\ Exists(l[1])
    BY DEF LifecycleInv, TableTypes, TablesAgree, SessionsAreLinked
  <2> QED BY <1>2, <1>8, <1>9, <2>1
<1>13. \A r \in Runs : runs'[r] # None => r \in used
  BY <1>9 DEF LifecycleInv, TableTypes
<1>14. TableInv'
  BY <1>2, <1>5, <1>6, <1>8, <1>9, <1>10, <1>11, <1>12, <1>13, RunsAloneKeepTables
<1> QED BY <1>5, <1>10, <1>14 DEF BindingsEffect

LEMMA CommitCheckpoint ==
  ASSUME LifecycleInv, NEW c \in Clients, tx[c].pc = "commit", Checkpointing(tx[c]),
         WriteTables(c), UNCHANGED used
  PROVE  TableInv' /\ RunsEffect(tx[c]) /\ BindingsEffect(tx[c])
<1> DEFINE q == Req(c)
<1>1. q.op = "checkpoint" BY CommitShapes
<1>2. /\ checkpoints' = checkpoints \cup {CheckpointRow(c)}
      /\ UNCHANGED <<runs, bindings, links, logged>>
  BY <1>1 DEF WriteTables
<1>3. /\ CheckpointRow(c) \in CheckpointType
      /\ CheckpointRow(c).job = q.job /\ bindings[q.job] # None
      /\ CheckpointRow(c).run = bindings[q.job].run
  BY DEF Checkpointing, CheckpointRequests, CheckpointRow, CheckpointType, BindingRow, Req
<1>4. TableTypes' BY <1>2, <1>3 DEF LifecycleInv, TableTypes, Exists
<1>5. IdentitiesAreUnique' BY <1>2 DEF LifecycleInv, IdentitiesAreUnique, Exists
<1>6. CheckpointsFollowExecutions'
  BY <1>2, <1>3 DEF LifecycleInv, TablesAgree, CheckpointsFollowExecutions
<1>7. (BindingAgreesWithRun /\ BindingKeepsItsRun /\ SessionsAreLinked /\ CompletedIsComplete)'
  BY <1>2 DEF LifecycleInv, TablesAgree, BindingAgreesWithRun, BindingKeepsItsRun,
              SessionsAreLinked, CompletedIsComplete, Exists
<1>8. BindingRunsExist' BY <1>2 DEF LifecycleInv, BindingRunsExist, Exists
<1>9. RunsEffect(tx[c]) BY <1>2 DEF RunsEffect, Exists
<1>10. BindingsEffect(tx[c]) BY <1>2 DEF BindingsEffect
<1> QED BY <1>4, <1>5, <1>6, <1>7, <1>8, <1>9, <1>10 DEF TableInv, TablesAgree

ExecutionOps == {"bind", "create", "terminal"}

(* What a bind or an execution write relies on when it commits.            *)
LEMMA ExecutionFacts ==
  ASSUME LifecycleInv, NEW c \in Clients, tx[c].pc \in {"commit", "commitLoser"},
         Req(c).op \in ExecutionOps
  PROVE  /\ tx[c].claim # None =>
              /\ RunOf(c) \in Runs /\ RunOf(c) \in tx[c].locked /\ Bindable(RunOf(c))
              /\ tx[c].claim \in CRs /\ Owners(tx[c].claim) = {}
         /\ tx[c].put # None =>
              /\ Req(c).job \in Jobs /\ tx[c].put \in BindingRow
              /\ tx[c].put.run # None =>
                   /\ tx[c].put.run = RunOf(c) /\ RunOf(c) \in Runs /\ Exists(RunOf(c))
                   /\ RunOf(c) \in tx[c].locked
                   /\ tx[c].put.cr # None => Settled(tx[c], RunOf(c), tx[c].put.cr)
              /\ tx[c].put.outcome = "completed" => Complete(tx[c].put)
              /\ \/ /\ Req(c).op = "create" /\ bindings[Req(c).job] = None
                    /\ tx[c].put.run # None
                 \/ /\ Req(c).op = "terminal" /\ bindings[Req(c).job] # None
                    /\ tx[c].job = Req(c).job /\ tx[c].put.run = bindings[Req(c).job].run
                    /\ bindings[Req(c).job].outcome \notin Terminal
         /\ Req(c).op = "bind" =>
              tx[c].put = None /\ tx[c].claim = Req(c).cr /\ Req(c).run \in Runs /\ Req(c).cr # None
         /\ Req(c).op = "create" /\ tx[c].pc = "commit" => tx[c].put = RequestedRow(Req(c))
         /\ Req(c).op = "terminal" => tx[c].put # None /\ tx[c].put.outcome = Req(c).outcome
<1>1. tx[c] \in TxType /\ CommitShape(tx[c]) /\ Req(c) = tx[c].req
  BY CommitShapes DEF Req
<1>2. Binding(tx[c]) \/ Creating(tx[c]) \/ Updating(tx[c])
  BY <1>1, CommitShapes DEF CommitShape, ExecutionOps
<1>3. CASE Binding(tx[c])
  <2>1. Req(c).op = "bind" BY <1>3, CommitShapes
  <2>2. RunOf(c) = tx[c].req.run BY <2>1 DEF RunOf, Req
  <2>3. /\ tx[c].put = None /\ tx[c].claim = tx[c].req.cr /\ Bindable(tx[c].req.run)
        /\ Owners(tx[c].req.cr) = {} /\ tx[c].req \in BindRequests /\ tx[c].req.run \in tx[c].locked
    BY <1>3 DEF Binding
  <2> QED BY <1>1, <2>1, <2>2, <2>3, LifecycleAssumption DEF BindRequests
<1>4. CASE Creating(tx[c])
  <2>1. Req(c).op = "create" BY <1>4, CommitShapes
  <2>2. RunOf(c) = tx[c].req.run BY <2>1 DEF RunOf, Req
  <2>3. /\ tx[c].locked = {tx[c].req.run} /\ Exists(tx[c].req.run) /\ tx[c].req \in CreateRequests
        /\ IF tx[c].req.cr = None THEN tx[c].claim = None
                                  ELSE Settled(tx[c], tx[c].req.run, tx[c].req.cr)
        /\ tx[c].pc = "commit" => bindings[tx[c].req.job] = None /\ tx[c].put = RequestedRow(tx[c].req)
        /\ tx[c].pc # "commit" => tx[c].put = None
    BY <1>4 DEF Creating
  <2>4. /\ tx[c].req.run \in Runs /\ tx[c].req.job \in Jobs
        /\ tx[c].req.cr \in CRs \cup {None} /\ tx[c].req.run # None
    BY <2>3, LifecycleAssumption DEF CreateRequests
  <2>5. tx[c].claim # None =>
          Bindable(tx[c].req.run) /\ tx[c].claim = tx[c].req.cr /\ Owners(tx[c].claim) = {}
    BY <2>3 DEF Settled
  <2>6. /\ RequestedRow(tx[c].req) \in BindingRow
        /\ RequestedRow(tx[c].req).run = tx[c].req.run /\ RequestedRow(tx[c].req).cr = tx[c].req.cr
        /\ RequestedRow(tx[c].req).outcome = "completed" => Complete(RequestedRow(tx[c].req))
    BY <2>3, SMTT(60) DEF CreateRequests, RequestedRow, BindingRow, Complete
  <2> QED BY <1>1, <2>1, <2>2, <2>3, <2>4, <2>5, <2>6
<1>5. CASE Updating(tx[c])
  <2>1. Req(c).op = "terminal" BY <1>5, CommitShapes
  <2> DEFINE row == bindings[tx[c].req.job]
  <2>2. RunOf(c) = row.run BY <2>1, SMTT(60) DEF RunOf, Req
  <2>3. /\ tx[c].req \in TerminalRequests /\ tx[c].job = tx[c].req.job
        /\ row # None /\ Transition(row, tx[c].req) /\ tx[c].put = Merged(row, tx[c].req)
        /\ tx[c].locked = {row.run} \ {None}
        /\ IF row.run = None \/ tx[c].put.cr = None THEN tx[c].claim = None
                                                    ELSE Settled(tx[c], row.run, tx[c].put.cr)
    BY <1>5 DEF Updating
  <2>4. row \in BindingRow /\ tx[c].req.job \in Jobs
    BY <2>3 DEF LifecycleInv, TableTypes, TerminalRequests
  <2>5. tx[c].put \in BindingRow /\ tx[c].put.run = row.run /\ tx[c].put.outcome = tx[c].req.outcome
    BY <2>3, <2>4, MergedRow
  <2>6. tx[c].put # None BY <2>5, LifecycleAssumption
  <2>7. row.run # None => row.run \in Runs /\ Exists(row.run) /\ row.run \in tx[c].locked
    BY <2>3, <2>4 DEF LifecycleInv, BindingRunsExist, BindingRow
  <2>8. tx[c].claim # None =>
          /\ row.run # None /\ Bindable(row.run) /\ tx[c].claim = tx[c].put.cr
          /\ Owners(tx[c].claim) = {}
    BY <2>3 DEF Settled
  <2>9. tx[c].claim # None => tx[c].claim \in CRs BY <1>1 DEF TxType
  <2>10. /\ tx[c].put.outcome = "completed" => Complete(tx[c].put)
         /\ row.outcome \notin Terminal
    BY <2>3, <2>5 DEF Transition
  <2> HIDE DEF row
  <2>11. row = bindings[Req(c).job] BY <1>1 DEF row
  <2> QED BY <1>1, <2>1, <2>2, <2>3, <2>4, <2>5, <2>6, <2>7, <2>8, <2>9, <2>10, <2>11
<1> QED BY <1>2, <1>3, <1>4, <1>5

LEMMA CommitExecution ==
  ASSUME LifecycleInv, NEW c \in Clients, tx[c].pc \in {"commit", "commitLoser"},
         Req(c).op \in ExecutionOps, WriteTables(c), UNCHANGED used
  PROVE  /\ TableInv' /\ RunsEffect(tx[c]) /\ BindingsEffect(tx[c])
         /\ tx[c].claim # None => runs'[RunOf(c)] # None /\ runs'[RunOf(c)].cr = tx[c].claim
         /\ tx[c].put # None => bindings'[Req(c).job] = tx[c].put
<1> DEFINE q == Req(c)
           t == tx[c]
           r == RunOf(c)
           put == tx[c].put
           claim == tx[c].claim
<1>1. /\ runs' = IF claim = None THEN runs ELSE [runs EXCEPT ![r].cr = claim]
      /\ bindings' = IF put = None THEN bindings ELSE [bindings EXCEPT ![q.job] = put]
      /\ links' = links \cup SessionLinks(c)
      /\ UNCHANGED <<logged, checkpoints>>
  BY DEF WriteTables, ExecutionOps
<1>2. /\ runs \in [Runs -> RunRow \cup {None}] /\ bindings \in [Jobs -> BindingRow \cup {None}]
      /\ links \subseteq Runs \X STRING /\ logged \subseteq used /\ used \subseteq Runs
      /\ checkpoints \subseteq CheckpointType /\ {s \in Runs : Exists(s)} \subseteq used
  BY DEF LifecycleInv, TableTypes
<1>3. claim # None => /\ r \in Runs /\ r \in t.locked /\ Bindable(r)
                      /\ claim \in CRs /\ Owners(claim) = {}
  BY ExecutionFacts
<1>4. claim # None => runs' = [runs EXCEPT ![r] = [runs[r] EXCEPT !.cr = claim]]
  BY <1>1
<1>5. claim # None => /\ runs[r] \in RunRow
                      /\ [runs[r] EXCEPT !.cr = claim] \in RunRow
                      /\ [runs[r] EXCEPT !.cr = claim].cr = claim
                      /\ [runs[r] EXCEPT !.cr = claim].key = runs[r].key
  BY <1>2, <1>3 DEF RunRow, Bindable, Exists
<1>6. /\ runs' \in [Runs -> RunRow \cup {None}]
      /\ \A s \in Runs : runs'[s] # None <=> Exists(s)
      /\ \A s \in Runs : Exists(s) => runs'[s].key = runs[s].key
      /\ \A s \in Runs : (claim = None \/ s # r) => runs'[s] = runs[s]
      /\ claim # None => runs'[r].cr = claim
  <2>1. CASE claim = None BY <1>1, <1>2, <2>1 DEF Exists
  <2>2. CASE claim # None
    <3> DEFINE new == [runs[r] EXCEPT !.cr = claim]
    <3>1. runs' = [runs EXCEPT ![r] = new] /\ new \in RunRow /\ new.cr = claim /\ new.key = runs[r].key
      BY <1>4, <1>5, <2>2
    <3> HIDE DEF new
    <3>2. new # None BY <3>1, LifecycleAssumption
    <3> QED BY <1>2, <1>3, <2>2, <3>1, <3>2 DEF Exists, Bindable
  <2> QED BY <2>1, <2>2
<1>7. put # None =>
        /\ q.job \in Jobs /\ put \in BindingRow
        /\ put.run # None => /\ put.run = r /\ r \in Runs /\ Exists(r) /\ r \in t.locked
                             /\ put.cr # None => Settled(t, r, put.cr)
        /\ put.outcome = "completed" => Complete(put)
        /\ \/ q.op = "create" /\ bindings[q.job] = None /\ put.run # None
           \/ /\ q.op = "terminal" /\ bindings[q.job] # None
              /\ t.job = q.job /\ put.run = bindings[q.job].run
              /\ bindings[q.job].outcome \notin Terminal
  BY ExecutionFacts
<1>8. /\ bindings' \in [Jobs -> BindingRow \cup {None}]
      /\ \A j \in Jobs : (put = None \/ j # q.job) => bindings'[j] = bindings[j]
      /\ put # None => bindings'[q.job] = put
  BY <1>1, <1>2, <1>7

<1>9. /\ SessionLinks(c) \subseteq Runs \X STRING
      /\ \A l \in SessionLinks(c) : l[1] = put.run /\ put # None /\ put.run # None
      /\ put # None /\ put.run # None /\ put.session # None => <<put.run, put.session>> \in SessionLinks(c)
  <2>1. CASE put # None /\ put.run # None /\ put.session # None
    <3>1. SessionLinks(c) = {<<put.run, put.session>>} BY <2>1 DEF SessionLinks
    <3>2. put.run \in Runs /\ put.session \in STRING BY <1>7, <2>1 DEF BindingRow
    <3> QED BY <2>1, <3>1, <3>2
  <2>2. CASE ~(put # None /\ put.run # None /\ put.session # None)
    <3>1. SessionLinks(c) = {} BY <2>2 DEF SessionLinks
    <3> QED BY <2>2, <3>1
  <2> QED BY <2>1, <2>2
<1> HIDE DEF q, t, r, put, claim
<1>10. TableTypes'
  <2>1. links' \subseteq Runs \X STRING BY <1>1, <1>2, <1>9
  <2> QED BY <1>1, <1>2, <1>6, <1>8, <2>1 DEF TableTypes, Exists
<1>11. IdentitiesAreUnique'
  <2>1. SUFFICES ASSUME NEW s \in Runs, NEW u \in Runs, Exists(s), Exists(u), s # u
                 PROVE  /\ runs'[s].key # runs'[u].key
                        /\ runs'[s].cr # None => runs'[s].cr # runs'[u].cr
    BY <1>6 DEF IdentitiesAreUnique, Exists
  <2>2. runs[s].key # runs[u].key /\ (runs[s].cr # None => runs[s].cr # runs[u].cr)
    BY <2>1 DEF LifecycleInv, IdentitiesAreUnique
  <2>3. claim # None => runs[s].cr # claim /\ runs[u].cr # claim
    BY <1>3, <2>1 DEF Owners
  <2> QED BY <1>6, <2>1, <2>2, <2>3
<1>12. ASSUME NEW s \in Runs, Exists(s), runs[s].cr # None PROVE runs'[s] = runs[s]
  BY <1>3, <1>6, <1>12 DEF Bindable
<1>13. put # None /\ put.run # None /\ put.cr # None => runs'[r] # None /\ runs'[r].cr = put.cr
  BY <1>3, <1>6, <1>7, <1>12 DEF Settled, BoundTo, t, claim
<1>14. ASSUME NEW j \in Jobs, bindings[j] # None, bindings[j].run # None
       PROVE  /\ bindings[j].run \in Runs /\ Exists(bindings[j].run)
              /\ bindings[j].cr # None => runs'[bindings[j].run].cr = bindings[j].cr
  <2>1. bindings[j].run \in Runs /\ Exists(bindings[j].run)
    BY <1>2, <1>14 DEF LifecycleInv, BindingRunsExist, BindingRow
  <2>2. bindings[j].cr # None => runs[bindings[j].run].cr = bindings[j].cr
    BY <1>14 DEF LifecycleInv, TablesAgree, BindingAgreesWithRun
  <2> QED BY <1>12, <2>1, <2>2
<1>15. BindingRunsExist'
  BY <1>6, <1>7, <1>8, <1>14 DEF BindingRunsExist, Exists
<1>16. BindingAgreesWithRun'
  <2>1. SUFFICES ASSUME NEW j \in Jobs, bindings'[j] # None, bindings'[j].run # None,
                        bindings'[j].cr # None
                 PROVE  runs'[bindings'[j].run].cr = bindings'[j].cr
    BY DEF BindingAgreesWithRun
  <2>2. CASE put # None /\ j = q.job BY <1>7, <1>8, <1>13, <2>1, <2>2
  <2>3. CASE put = None \/ j # q.job BY <1>8, <1>14, <2>1, <2>3
  <2> QED BY <2>2, <2>3
<1>17. BindingKeepsItsRun'
  <2>1. SUFFICES ASSUME NEW j \in Jobs \ Legacy, bindings'[j] # None
                 PROVE  bindings'[j].run # None /\ runs'[bindings'[j].run] # None
    BY DEF BindingKeepsItsRun, Exists
  <2>2. bindings[j] # None => bindings[j].run # None
    BY DEF LifecycleInv, TablesAgree, BindingKeepsItsRun
  <2>3. CASE put # None /\ j = q.job BY <1>6, <1>7, <1>8, <2>2, <2>3
  <2>4. CASE put = None \/ j # q.job BY <1>6, <1>8, <1>14, <2>1, <2>2, <2>4
  <2> QED BY <2>3, <2>4
<1>18. SessionsAreLinked'
  <2>1. ASSUME NEW j \in Jobs, bindings'[j] # None, bindings'[j].run # None,
               bindings'[j].session # None
        PROVE  <<bindings'[j].run, bindings'[j].session>> \in links'
    <3>1. CASE put # None /\ j = q.job BY <1>1, <1>8, <1>9, <2>1, <3>1
    <3>2. CASE put = None \/ j # q.job
      <4>1. <<bindings[j].run, bindings[j].session>> \in links
        BY <1>8, <2>1, <3>2 DEF LifecycleInv, TablesAgree, SessionsAreLinked
      <4> QED BY <1>1, <1>8, <3>2, <4>1
    <3> QED BY <3>1, <3>2
  <2>2. ASSUME NEW l \in links' PROVE runs'[l[1]] # None
    <3>1. l \in links => l[1] \in Runs /\ Exists(l[1])
      BY <1>2 DEF LifecycleInv, TablesAgree, SessionsAreLinked
    <3>2. l \in SessionLinks(c) => l[1] \in Runs /\ Exists(l[1])
      BY <1>7, <1>9
    <3> QED BY <1>1, <1>6, <2>2, <3>1, <3>2
  <2> QED BY <2>1, <2>2 DEF SessionsAreLinked, Exists
<1>19. CheckpointsFollowExecutions'
  <2>1. SUFFICES ASSUME NEW k \in checkpoints
                 PROVE  bindings'[k.job] # None /\ k.run = bindings'[k.job].run
    BY <1>1 DEF CheckpointsFollowExecutions
  <2>2. k.job \in Jobs /\ bindings[k.job] # None /\ k.run = bindings[k.job].run
    BY <1>2 DEF LifecycleInv, TablesAgree, CheckpointsFollowExecutions, CheckpointType
  <2> QED BY <1>7, <1>8, <2>2
<1>20. CompletedIsComplete'
  <2>1. SUFFICES ASSUME NEW j \in Jobs, bindings'[j] # None, bindings'[j].outcome = "completed"
                 PROVE  Complete(bindings'[j])
    BY DEF CompletedIsComplete, Complete
  <2>2. CASE put # None /\ j = q.job BY <1>7, <1>8, <2>1, <2>2
  <2>3. CASE put = None \/ j # q.job
    BY <1>8, <2>1, <2>3 DEF LifecycleInv, TablesAgree, CompletedIsComplete, Complete
  <2> QED BY <2>2, <2>3
<1>21. r = RunIn(t) BY DEF r, t, RunIn, RunOf, Req
<1>22. RunsEffect(t)
  <2>1. \A s \in Runs : Exists(s) /\ (s \notin t.locked \/ runs[s].cr # None) => runs'[s] = runs[s]
    BY <1>3, <1>6 DEF Bindable
  <2>2. \A s \in Runs : Exists(s) =>
          runs'[s].cr = runs[s].cr \/ (runs'[s].cr = t.claim /\ t.claim # None /\ s = RunIn(t))
    BY <1>6, <1>21 DEF claim, t
  <2> QED BY <1>6, <2>1, <2>2 DEF RunsEffect
<1>23. BindingsEffect(t)
  <2>1. q = t.req /\ put = t.put BY DEF q, t, put, Req
  <2> QED BY <1>7, <1>8, <2>1 DEF BindingsEffect, Inserting
<1>24. claim # None => runs'[r] # None BY <1>3, <1>6 DEF Bindable
<1> QED
  BY <1>6, <1>8, <1>10, <1>11, <1>15, <1>16, <1>17, <1>18, <1>19, <1>20, <1>22, <1>23, <1>24
  DEF TableInv, TablesAgree, q, t, r, put, claim

LEMMA CommitEffects ==
  ASSUME LifecycleInv, NEW c \in Clients, tx[c].pc \in {"commit", "commitLoser"},
         WriteTables(c), UNCHANGED used
  PROVE  TableInv' /\ RunsEffect(tx[c]) /\ BindingsEffect(tx[c])
<1>1. CommitShape(tx[c]) BY CommitShapes
<1>2. Creating(tx[c]) \/ tx[c].pc = "commit"
  BY ShapeByStatement
<1>3. CASE Provisioning(tx[c])
  <2>1. tx[c].pc = "commit" BY <1>3 DEF Provisioning
  <2> QED BY <1>3, <2>1, CommitProvision
<1>4. CASE Retitling(tx[c])
  <2>1. tx[c].pc = "commit" BY <1>4 DEF Retitling
  <2> QED BY <1>4, <2>1, CommitTitle
<1>5. CASE Deleting(tx[c])
  <2>1. tx[c].pc = "commit" BY <1>5 DEF Deleting
  <2> QED BY <1>5, <2>1, CommitDelete
<1>6. CASE Checkpointing(tx[c])
  <2>1. tx[c].pc = "commit" BY <1>6 DEF Checkpointing
  <2> QED BY <1>6, <2>1, CommitCheckpoint
<1>7. CASE Binding(tx[c]) \/ Creating(tx[c]) \/ Updating(tx[c])
  <2>1. Req(c).op \in ExecutionOps BY <1>7, CommitShapes DEF ExecutionOps
  <2> QED BY <2>1, CommitExecution
<1> QED BY <1>1, <1>3, <1>4, <1>5, <1>6, <1>7 DEF CommitShape

-----------------------------------------------------------------------------
(* What a transaction relies on survives the commits of the others.        *)

(* t commits; u is another transaction.                                    *)
LEMMA BoundStaysBound ==
  ASSUME NEW t, RunsEffect(t), NEW r \in Runs, NEW cr, cr # None, BoundTo(r, cr)
  PROVE  BoundTo(r, cr)'
BY DEF RunsEffect, BoundTo, Exists

LEMMA LockedStaysBindable ==
  ASSUME NEW t, RunsEffect(t), NEW r \in Runs, r \notin t.locked
  PROVE  /\ Bindable(r) => Bindable(r)'
         /\ Exists(r) => Exists(r)'
         /\ Exists(r) => runs'[r].cr = runs[r].cr
BY DEF RunsEffect, Bindable, Exists

LEMMA ClaimStaysFree ==
  ASSUME NEW t, RunsEffect(t), NEW cr, cr # None, t.claim # cr, Owners(cr) = {}
  PROVE  (Owners(cr) = {})'
BY DEF RunsEffect, Owners, Exists

LEMMA KeyStaysFree ==
  ASSUME NEW t, RunsEffect(t), NEW k, t.fresh # None => t.req.key # k, WithKey(k) = {},
         \A r \in Runs : r # None
  PROVE  (WithKey(k) = {})'
BY DEF RunsEffect, WithKey, Exists

LEMMA ApplyingStays ==
  ASSUME NEW t, RunsEffect(t), NEW u, NEW r \in Runs, NEW cr, Applying(u, r, cr),
         u.pc = "unique" => r \notin t.locked
  PROVE  Applying(u, r, cr)'
BY BoundStaysBound, LockedStaysBindable DEF Applying

LEMMA SettledStays ==
  ASSUME NEW t, RunsEffect(t), NEW u, NEW r \in Runs, NEW cr, cr # None, Settled(u, r, cr),
         r \notin t.locked, u.claim # None => u.claim # t.claim
  PROVE  Settled(u, r, cr)'
BY BoundStaysBound, LockedStaysBindable, ClaimStaysFree DEF Settled

LEMMA OthersStaySound ==
  ASSUME NEW t, NEW u \in TxType, RunsEffect(t), BindingsEffect(t), TableInv, Sound(u),
         Apart(t, u)
  PROVE  Sound(u)'
<1>1. CASE Idle(u) BY <1>1 DEF Sound, Idle
<1>2. CASE Provisioning(u)
  <2>1. u.fresh # None => u.fresh \in Runs BY DEF TxType, TableInv, TableTypes
  <2>2. u.fresh # None => ~Exists(u.fresh)'
    BY <1>2, <2>1 DEF Provisioning, RunsEffect, Apart, Exists
  <2>3. u.fresh # None => (WithKey(u.req.key) = {})'
    BY <1>2, KeyStaysFree, LifecycleAssumption DEF Provisioning, Apart
  <2>4. Provisioning(u)' BY <1>2, <2>2, <2>3 DEF Provisioning
  <2> QED BY <2>4 DEF Sound
<1>3. CASE Binding(u)
  <2>1. u.req.run \in Runs /\ u.req.cr # None
    BY <1>3, LifecycleAssumption DEF Binding, BindRequests
  <2>2. u.pc \in {"unique", "commit"} => u.req.run \notin t.locked
    BY <1>3 DEF Binding, Apart
  <2>3. CASE u.pc \in {"apply", "updateRun", "unique"}
    <3>1. Applying(u, u.req.run, u.req.cr) BY <1>3, <2>3 DEF Binding
    <3>2. Applying(u, u.req.run, u.req.cr)' BY <2>1, <2>2, <3>1, ApplyingStays
    <3> QED BY <1>3, <2>3, <3>2 DEF Binding, Sound
  <2>4. CASE u.pc = "commit"
    <3>1. u.claim = u.req.cr /\ Bindable(u.req.run) /\ Owners(u.req.cr) = {}
      BY <1>3, <2>4 DEF Binding
    <3>2. Bindable(u.req.run)' BY <2>1, <2>2, <2>4, <3>1, LockedStaysBindable
    <3>3. (Owners(u.req.cr) = {})' BY <2>1, <3>1, ClaimStaysFree DEF Apart
    <3> QED BY <1>3, <2>4, <3>2, <3>3 DEF Binding, Sound
  <2> QED BY <1>3, <2>3, <2>4 DEF Binding
<1>4. ASSUME NEW j \in Jobs, bindings[j] # None
      PROVE  bindings'[j] # None /\ bindings'[j].run = bindings[j].run
  BY <1>4 DEF BindingsEffect
<1>5. CASE Creating(u)
  <2>1. u.req.run \in Runs /\ u.req.job \in Jobs /\ u.req.op = "create"
    BY <1>5 DEF Creating, CreateRequests
  <2>2. u.locked = {u.req.run} => u.req.run \notin t.locked BY DEF Apart
  <2>3. u.locked = {u.req.run} /\ Exists(u.req.run) => Exists(u.req.run)'
    BY <2>1, <2>2, LockedStaysBindable
  <2>4. u.locked = {u.req.run} /\ Applying(u, u.req.run, u.req.cr) => Applying(u, u.req.run, u.req.cr)'
    BY <2>1, <2>2, ApplyingStays
  <2>5. u.locked = {u.req.run} /\ u.req.cr # None /\ Settled(u, u.req.run, u.req.cr)
          => Settled(u, u.req.run, u.req.cr)'
    BY <2>1, <2>2, SettledStays DEF Apart
  <2>6. u.pc = "commit" => bindings'[u.req.job] = None
    <3>1. SUFFICES ASSUME u.pc = "commit" PROVE bindings'[u.req.job] = None OBVIOUS
    <3>2. bindings[u.req.job] = None /\ u.put = RequestedRow(u.req) BY <1>5, <3>1 DEF Creating
    <3>3. RequestedRow(u.req) \in BindingRow
      BY <1>5 DEF Creating, CreateRequests, RequestedRow, BindingRow
    <3>4. Inserting(u) BY <2>1, <3>2, <3>3, LifecycleAssumption DEF Inserting
    <3> QED BY <2>1, <3>2, <3>4 DEF BindingsEffect, Apart
  <2>7. Creating(u)'
    BY <1>4, <1>5, <2>1, <2>3, <2>4, <2>5, <2>6 DEF Creating
  <2> QED BY <2>7 DEF Sound
<1>6. CASE Updating(u)
  <2> DEFINE row == bindings[u.req.job]
  <2>1. u.req.job \in Jobs /\ row # None /\ u.job = u.req.job
    BY <1>6 DEF Updating, TerminalRequests
  <2>2. u.job # None /\ u.req.op = "terminal"
    BY <1>6, <2>1, LifecycleAssumption, OpsOfRequests DEF Updating
  <2>3. bindings'[u.req.job] = row BY <2>1, <2>2 DEF BindingsEffect, Apart
  <2>4. row.run # None => row.run \in Runs /\ row.run \notin t.locked
    <3>1. row \in BindingRow BY <2>1 DEF TableInv, TableTypes
    <3>2. u.locked = {row.run} \ {None} BY <1>6 DEF Updating
    <3> QED BY <3>1, <3>2 DEF BindingRow, Apart
  <2>5. PICK r : r = row.run OBVIOUS
  <2>6. r # None => r \in Runs /\ r \notin t.locked BY <2>4, <2>5
  <2>7. r # None /\ Applying(u, r, u.put.cr) => Applying(u, r, u.put.cr)'
    BY <2>6, ApplyingStays
  <2>8. r # None /\ u.put.cr # None /\ Settled(u, r, u.put.cr) => Settled(u, r, u.put.cr)'
    BY <2>6, SettledStays DEF Apart
  <2>9. bindings'[u.req.job].run = r BY <2>3, <2>5
  <2>10. Updating(u)' BY <1>6, <2>3, <2>5, <2>7, <2>8, <2>9 DEF Updating
  <2> QED BY <2>10 DEF Sound
<1>7. CASE Checkpointing(u)
  <2>1. u.req.job \in Jobs /\ bindings[u.req.job] # None
    BY <1>7 DEF Checkpointing, CheckpointRequests
  <2>2. Checkpointing(u)' BY <1>4, <1>7, <2>1 DEF Checkpointing
  <2> QED BY <2>2 DEF Sound
<1>8. CASE Retitling(u)
  <2>1. u.req.run \in Runs /\ u.req.run \notin t.locked
    BY <1>8 DEF Retitling, TitleRequests, Apart
  <2>2. Retitling(u)' BY <1>8, <2>1, LockedStaysBindable DEF Retitling
  <2> QED BY <2>2 DEF Sound
<1>9. CASE Deleting(u)
  <2>1. u.req.run \in Runs /\ u.req.run \notin t.locked /\ Exists(u.req.run)
    BY <1>9 DEF Deleting, DeleteRequests, Apart
  <2>2. /\ Exists(u.req.run)' /\ runs'[u.req.run].cr = runs[u.req.run].cr
        /\ Bindable(u.req.run) => Bindable(u.req.run)'
    BY <2>1, LockedStaysBindable
  <2>3. ~HasBindings(u.req.run) => ~HasBindings(u.req.run)'
    BY <2>1 DEF HasBindings, BindingsEffect
  <2>4. Deleting(u)' BY <1>9, <2>2, <2>3 DEF Deleting
  <2> QED BY <2>4 DEF Sound
<1> QED BY <1>1, <1>2, <1>3, <1>5, <1>6, <1>7, <1>8, <1>9 DEF Sound

(* A commit preserves the invariant, whatever its transaction does next.   *)
LEMMA CommittedStep ==
  ASSUME LifecycleInv, NEW c \in Clients, tx[c].pc \in {"commit", "commitLoser"},
         WriteTables(c), UNCHANGED used, NEW t \in TxType, tx' = [tx EXCEPT ![c] = t],
         Sound(t)', t.locked = {}, t.claim = None, t.fresh = None, t.put = None, t.job = None
  PROVE  LifecycleInv'
<1>1. TableInv' /\ RunsEffect(tx[c]) /\ BindingsEffect(tx[c]) BY CommitEffects
<1>2. tx' \in [Clients -> TxType'] BY DEF LifecycleInv, TxInv, TxType
<1>3. ASSUME NEW d \in Clients PROVE Sound(tx[d])'
  <2>1. CASE d = c
    <3>1. tx'[d] = t BY <2>1 DEF LifecycleInv, TxInv
    <3> QED BY <3>1
  <2>2. CASE d # c
    <3>1. PICK u : u = tx[d] OBVIOUS
    <3>2. u \in TxType /\ Sound(u) /\ Apart(tx[c], u) /\ TableInv
      BY <2>2, <3>1 DEF LifecycleInv, TxInv, TableInv
    <3>3. Sound(u)' BY <1>1, <3>2, OthersStaySound
    <3>4. tx'[d] = u BY <2>2, <3>1 DEF LifecycleInv, TxInv
    <3> QED BY <3>3, <3>4
  <2> QED BY <2>1, <2>2
<1>4. ASSUME NEW d \in Clients, NEW e \in Clients, d # e PROVE Apart(tx'[d], tx'[e])
  <2>1. \A u : Apart(t, u) /\ Apart(u, t) BY NothingHeldIsApart, ApartIsSymmetric
  <2> QED BY <1>4, <2>1 DEF LifecycleInv, TxInv
<1>5. TxInv' BY <1>2, <1>3, <1>4 DEF TxInv
<1> QED BY <1>1, <1>5 DEF LifecycleInv, TableInv

LEMMA CommitStep ==
  ASSUME LifecycleInv, NEW c \in Clients, Commit(c)
  PROVE  LifecycleInv'
<1>1. tx[c].pc = "commit" /\ WriteTables(c) /\ UNCHANGED used BY DEF Commit, At
<1>2. Req(c).op \in {"provision", "create", "checkpoint", "bind", "terminal", "title", "delete"}
  BY <1>1, CommitShapes DEF CommitShape
<1>3. SuccessCode(Req(c)) \in Nat BY <1>2 DEF SuccessCode
<1>4. PICK code \in Nat : Answer(c, code) BY <1>3 DEF Commit
<1> DEFINE t == [NoTx EXCEPT !.ans = code]
<1>5. t = [pc |-> "idle", req |-> None, seen |-> None, locked |-> {},
           job |-> None, share |-> None, claim |-> None, put |-> None,
           fresh |-> None, ans |-> code]
  BY DEF NoTx
<1>6. tx' = [tx EXCEPT ![c] = t] BY <1>4 DEF Answer
<1>7. t \in TxType BY <1>5 DEF TxType, PCs
<1>8. Sound(t)' BY <1>5 DEF Sound, Idle, NoTx
<1> HIDE DEF t
<1> QED BY <1>1, <1>5, <1>6, <1>7, <1>8, CommittedStep

(* The loser's commit leaves the winner's execution for it to read.        *)
LEMMA CommitLoserStep ==
  ASSUME LifecycleInv, NEW c \in Clients, CommitLoser(c)
  PROVE  LifecycleInv'
<1>1. tx[c].pc = "commitLoser" /\ WriteTables(c) /\ UNCHANGED used BY DEF CommitLoser, At
<1>2. Creating(tx[c]) /\ Req(c) \in Requests BY <1>1, ShapeByStatement DEF At
<1>3. PICK q : q = Req(c) OBVIOUS
<1>4. q \in CreateRequests /\ q \in Requests /\ q.job \in Jobs /\ bindings[q.job] # None
  BY <1>1, <1>2, <1>3 DEF Creating, CreateRequests, Req
<1> DEFINE t == Started(q, "reread")
<1>5. t = [pc |-> "reread", req |-> q, seen |-> None, locked |-> {},
           job |-> None, share |-> None, claim |-> None, put |-> None,
           fresh |-> None, ans |-> None]
  BY StartedTx, SMTT(60)
<1>6. tx' = [tx EXCEPT ![c] = t] BY <1>3 DEF CommitLoser
<1>7. t \in TxType BY <1>4, <1>5 DEF TxType, PCs
<1>8. bindings'[q.job] # None
  <2>1. BindingsEffect(tx[c]) BY <1>1, CommitEffects
  <2> QED BY <1>4, <2>1 DEF BindingsEffect
<1>9. Sound(t)' BY <1>4, <1>5, <1>8 DEF Sound, Creating
<1> HIDE DEF t
<1> QED BY <1>1, <1>5, <1>6, <1>7, <1>9, CommittedStep

-----------------------------------------------------------------------------
(* The theorems.                                                           *)

LEMMA InitInv == Init => LifecycleInv
<1> SUFFICES ASSUME Init PROVE LifecycleInv OBVIOUS
<1>1. \A r \in Runs : ~Exists(r) BY DEF Init, Exists
<1>2. LegacyRow \in BindingRow BY DEF LegacyRow, BindingRow
<1>3. \A j \in Jobs : bindings[j] = IF j \in Legacy THEN LegacyRow ELSE None BY DEF Init
<1>4. bindings \in [Jobs -> BindingRow \cup {None}] BY <1>2 DEF Init
<1>5. TableTypes BY <1>1, <1>4 DEF Init, TableTypes
<1>6. IdentitiesAreUnique BY <1>1 DEF IdentitiesAreUnique
<1>7. \A j \in Jobs : bindings[j] # None =>
        j \in Legacy /\ bindings[j].run = None /\ bindings[j].outcome = "running"
  BY <1>3 DEF LegacyRow
<1>8. BindingAgreesWithRun /\ BindingKeepsItsRun /\ CompletedIsComplete /\ BindingRunsExist
  BY <1>7 DEF BindingAgreesWithRun, BindingKeepsItsRun, CompletedIsComplete, BindingRunsExist
<1>9. SessionsAreLinked /\ CheckpointsFollowExecutions
  BY <1>7 DEF Init, SessionsAreLinked, CheckpointsFollowExecutions
<1>10. NoTx \in TxType BY DEF NoTx, TxType, PCs
<1>11. tx \in [Clients -> TxType] BY <1>10 DEF Init
<1>12. Sound(NoTx) BY DEF Sound, Idle, NoTx
<1>13. \A u : Apart(NoTx, u)
  <2>1. NoTx.locked = {} /\ NoTx.claim = None /\ NoTx.fresh = None /\ NoTx.put = None /\ NoTx.job = None
    BY DEF NoTx
  <2> QED BY <2>1, NothingHeldIsApart
<1>14. TxInv BY <1>11, <1>12, <1>13 DEF Init, TxInv
<1> QED BY <1>5, <1>6, <1>8, <1>9, <1>14 DEF LifecycleInv, TablesAgree

LEMMA NextInv == LifecycleInv /\ [Next]_vars => LifecycleInv'
<1> SUFFICES ASSUME LifecycleInv, [Next]_vars PROVE LifecycleInv' OBVIOUS
<1>1. ASSUME NEW c \in Clients, NEW q \in Requests, Begin(c, q) PROVE LifecycleInv'
  BY <1>1, ProvisionSelectStep, BindReadStep, CreateSelectStep, TerminalLockStep,
     TitleLockStep, DeleteLockStep, CheckpointSelectStep DEF Begin
<1>2. ASSUME NEW c \in Clients, Step(c) PROVE LifecycleInv'
  BY <1>2, ProvisionPredecessorStep, ProvisionInsertStep, ProvisionForeignKeyStep,
     ProvisionWinnerStep, ApplyPreCheckStep, ApplyUpdateStep, ApplyUniqueStep,
     CreateReplayStep, CreateLockStep, CreateInsertStep, CreateRereadStep,
     DeleteEligibleStep, DeleteRunStep, CheckpointInsertStep, CommitStep,
     CommitLoserStep DEF Step
<1>3. ASSUME NEW c \in Clients, Timeout(c) PROVE LifecycleInv' BY <1>3, TimeoutStep
<1>4. ASSUME NEW r \in Runs, LogDelivery(r) PROVE LifecycleInv' BY <1>4, LogDeliveryStep
<1>5. CASE UNCHANGED vars
  <2>1. UNCHANGED <<runs, bindings, links, logged, checkpoints, used, tx>> BY <1>5 DEF vars
  <2>2. ASSUME NEW d \in Clients PROVE Sound(tx[d])'
    <3>1. PICK u : u = tx[d] OBVIOUS
    <3>2. Sound(u) BY <3>1 DEF LifecycleInv, TxInv
    <3>3. Sound(u)' BY <3>2, <2>1, SoundIsAboutTables
    <3> QED BY <2>1, <3>1, <3>3
  <2>3. TxInv' BY <2>1, <2>2 DEF LifecycleInv, TxInv, TxType
  <2>4. (TableTypes /\ IdentitiesAreUnique /\ TablesAgree /\ BindingRunsExist)'
    BY <2>1 DEF LifecycleInv, TableTypes, IdentitiesAreUnique, TablesAgree, BindingRunsExist,
         BindingAgreesWithRun, BindingKeepsItsRun, SessionsAreLinked,
         CheckpointsFollowExecutions, CompletedIsComplete, Exists
  <2> QED BY <2>3, <2>4 DEF LifecycleInv
<1> QED BY <1>1, <1>2, <1>3, <1>4, <1>5 DEF Next

LEMMA InvAlways == Spec => []LifecycleInv
BY InitInv, NextInv, PTL DEF Spec

(* The tables and every transaction keep their types; an idle connection   *)
(* holds nothing.                                                          *)
THEOREM TypeCorrect == Spec => []TypeOK
<1>1. LifecycleInv => TypeOK
  <2> SUFFICES ASSUME LifecycleInv PROVE TypeOK OBVIOUS
  <2>1. \A c \in Clients : At(c, "idle") => tx[c] = [NoTx EXCEPT !.ans = tx[c].ans]
    BY ShapeByStatement DEF Idle
  <2> QED BY <2>1 DEF LifecycleInv, TableTypes, TxInv, TxType, TypeOK, CheckpointType
<1> QED BY <1>1, InvAlways, PTL

(* However requests interleave on however many connections, a change       *)
(* request is bound to at most one run and a key provisions at most one.   *)
THEOREM IdentitiesStayUnique == Spec => []IdentitiesAreUnique
<1>1. LifecycleInv => IdentitiesAreUnique BY DEF LifecycleInv
<1> QED BY <1>1, InvAlways, PTL

(* The committed tables agree with each other after every commit.          *)
THEOREM TablesStayConsistent == Spec => []TablesAgree
<1>1. LifecycleInv => TablesAgree BY DEF LifecycleInv
<1> QED BY <1>1, InvAlways, PTL

(* Only a commit writes a run or an execution.                             *)
LEMMA OnlyCommitsWrite ==
  ASSUME [Next]_vars
  PROVE  \/ UNCHANGED <<runs, bindings>>
         \/ \E c \in Clients : /\ tx[c].pc \in {"commit", "commitLoser"}
                               /\ WriteTables(c) /\ UNCHANGED used
<1> DEFINE Quiet == UNCHANGED <<runs, bindings>>
<1>1. ASSUME NEW c \in Clients, NEW q \in Requests, Begin(c, q) PROVE Quiet
  BY <1>1, SMTT(60) DEF Begin, ProvisionSelect, BindRead, CreateSelect, TerminalLock,
     TitleLock, DeleteLock, CheckpointSelect, tables
<1>2. ASSUME NEW c \in Clients, Step(c), ~Commit(c), ~CommitLoser(c) PROVE Quiet
  BY <1>2 DEF Step, ProvisionPredecessor, ProvisionInsert, ProvisionForeignKey,
     ProvisionWinner, ApplyPreCheck, ApplyUpdate, ApplyUnique, CreateReplay, CreateLock,
     CreateInsert, CreateReread, DeleteEligible, DeleteRun, CheckpointInsert, tables
<1>3. ASSUME NEW c \in Clients, Timeout(c) PROVE Quiet BY <1>3 DEF Timeout, tables
<1>4. ASSUME NEW r \in Runs, LogDelivery(r) PROVE Quiet BY <1>4 DEF LogDelivery
<1>5. ASSUME UNCHANGED vars PROVE Quiet BY <1>5 DEF vars
<1>6. \A c \in Clients : Commit(c) \/ CommitLoser(c) =>
        tx[c].pc \in {"commit", "commitLoser"} /\ WriteTables(c) /\ UNCHANGED used
  BY DEF Commit, CommitLoser, At
<1> HIDE DEF Quiet
<1>7. Quiet \/ \E c \in Clients : Commit(c) \/ CommitLoser(c)
  BY <1>1, <1>2, <1>3, <1>4, <1>5 DEF Next
<1> QED BY <1>6, <1>7 DEF Quiet

BoundStays == \A r \in Runs : Exists(r) /\ runs[r].cr # None
                => runs'[r] # None /\ runs'[r].cr = runs[r].cr

LEMMA BoundStep == LifecycleInv /\ [Next]_vars => BoundStays
<1> SUFFICES ASSUME LifecycleInv, [Next]_vars PROVE BoundStays OBVIOUS
<1>1. CASE UNCHANGED <<runs, bindings>> BY <1>1 DEF BoundStays, Exists
<1>2. ASSUME NEW c \in Clients, tx[c].pc \in {"commit", "commitLoser"}, WriteTables(c), UNCHANGED used
      PROVE  BoundStays
  <2>1. RunsEffect(tx[c]) BY <1>2, CommitEffects
  <2> QED BY <2>1 DEF RunsEffect, BoundStays
<1> QED BY <1>1, <1>2, OnlyCommitsWrite

(* A bound change request is final.                                        *)
THEOREM BindingIsFinal == Spec => BoundIsFinal
<1>1. LifecycleInv /\ [Next]_vars => [BoundStays]_vars BY BoundStep
<1> QED BY <1>1, InvAlways, PTL DEF Spec, BoundIsFinal, BoundStays

-----------------------------------------------------------------------------
(* The execution bindings are an execution history.                        *)

HistoryRow(row) == IF row = None THEN None ELSE [outcome |-> row.outcome, rest |-> row]

LEMMA HistoryRows ==
  ASSUME NEW row \in BindingRow \cup {None}
  PROVE  /\ HistoryRow(row) # None <=> row # None
         /\ row # None => HistoryRow(row).outcome = row.outcome
BY LifecycleAssumption DEF HistoryRow, BindingRow

LEMMA HistoryInitially == Init => History!HistoryInit
<1> SUFFICES ASSUME Init PROVE History!HistoryInit OBVIOUS
<1>1. \A j \in Jobs : bindings[j] # None => bindings[j].outcome = "running"
  BY DEF Init, LegacyRow
<1> QED BY <1>1 DEF History!HistoryInit

LEMMA HistoryStep == LifecycleInv /\ [Next]_vars => [History!HistoryNext]_(History!historyVars)
<1> SUFFICES ASSUME LifecycleInv, [Next]_vars
             PROVE  History!HistoryNext \/ UNCHANGED History!historyVars
  OBVIOUS
<1> DEFINE h  == [j \in Jobs |-> IF bindings[j] = None THEN None
                                 ELSE [outcome |-> bindings[j].outcome, rest |-> bindings[j]]]
           hn == [j \in Jobs |-> IF bindings'[j] = None THEN None
                                 ELSE [outcome |-> bindings'[j].outcome, rest |-> bindings'[j]]]
<1>1. CASE UNCHANGED <<runs, bindings>> BY <1>1 DEF History!historyVars
<1>2. ASSUME NEW c \in Clients, tx[c].pc \in {"commit", "commitLoser"}, WriteTables(c), UNCHANGED used
      PROVE  History!HistoryNext \/ UNCHANGED History!historyVars
  <2>1. TableInv' /\ BindingsEffect(tx[c]) BY <1>2, CommitEffects
  <2>2. bindings \in [Jobs -> BindingRow \cup {None}] /\ bindings' \in [Jobs -> BindingRow \cup {None}]
    BY <2>1 DEF LifecycleInv, TableInv, TableTypes
  <2>3. CASE \A j \in Jobs : bindings'[j] = bindings[j]
    <3>1. bindings' = bindings BY <2>2, <2>3
    <3> QED BY <3>1 DEF History!historyVars
  <2>4. ASSUME NEW j \in Jobs, bindings'[j] # bindings[j]
        PROVE  History!HistoryNext
    <3>1. /\ j = Req(c).job /\ Req(c).op \in ExecutionOps /\ tx[c].put # None
          /\ \A i \in Jobs \ {j} : bindings'[i] = bindings[i]
          /\ bindings'[j] # None
      <4>1. \/ Inserting(tx[c]) /\ j = tx[c].req.job /\ tx[c].put # None
            \/ tx[c].req.op = "terminal" /\ j = tx[c].job /\ tx[c].put # None
        BY <2>1, <2>4 DEF BindingsEffect
      <4>2. Req(c).op \in ExecutionOps /\ tx[c].put # None
        BY <4>1 DEF Inserting, ExecutionOps, Req
      <4>3. j = Req(c).job /\ bindings'[j] # None
        BY <1>2, <2>1, <2>4, <4>1, <4>2, ExecutionFacts DEF BindingsEffect, Req
      <4>4. \A i \in Jobs \ {j} : bindings'[i] = bindings[i]
        BY <1>2, <2>1, <4>2, <4>3, ExecutionFacts DEF BindingsEffect, Req
      <4> QED BY <4>2, <4>3, <4>4
    <3>2. bindings[j] # None => bindings[j].outcome = "running"
      <4>1. bindings[j] # None => bindings[j].outcome \notin Terminal
        BY <1>2, <3>1, ExecutionFacts
      <4> QED BY <2>2, <4>1 DEF BindingRow
    <3>3. bindings'[j] \in BindingRow BY <2>2, <3>1
    <3>4. bindings'[j].outcome \in Terminal \cup {"running"} BY <3>3 DEF BindingRow
    <3>5. /\ h[j] # None <=> bindings[j] # None
          /\ h[j] # None => h[j].outcome = "running"
          /\ hn[j] # None /\ hn[j].outcome = bindings'[j].outcome
          /\ \A i \in Jobs \ {j} : hn[i] = h[i]
      <4>1. bindings[j] \in BindingRow \cup {None} BY <2>2
      <4>2. /\ h[j] = HistoryRow(bindings[j]) /\ hn[j] = HistoryRow(bindings'[j]) BY DEF HistoryRow
      <4>3. \A i \in Jobs \ {j} : hn[i] = h[i] BY <3>1
      <4> HIDE DEF h, hn
      <4> QED BY <3>1, <3>2, <3>3, <4>1, <4>2, <4>3, HistoryRows
    <3>6. CASE h[j] = None
      <4>1. History!Record(j)
        BY <3>5, <3>6 DEF History!Record, History!OthersUntouched, History!Untouched
      <4> QED BY <4>1 DEF History!HistoryNext
    <3>7. CASE h[j] # None
      <4>1. History!Amend(j)
        BY <3>4, <3>5, <3>7
        DEF History!Amend, History!OthersUntouched, History!Untouched, History!Ended, Terminal
      <4> QED BY <4>1 DEF History!HistoryNext
    <3> QED BY <3>6, <3>7
  <2> QED BY <2>3, <2>4
<1> QED BY <1>1, <1>2, OnlyCommitsWrite

(* The lifecycle implements the execution history: an execution is         *)
(* recorded once, changes only while it runs, and is final once ended.     *)
THEOREM LifecycleImplementsHistory == Spec => LifecycleKeepsHistory
BY HistoryInitially, HistoryStep, InvAlways, PTL
   DEF Spec, LifecycleKeepsHistory, History!HistorySpec

-----------------------------------------------------------------------------
(* What callers are told.                                                  *)

LEMMA AnswerGiven ==
  ASSUME LifecycleInv, NEW c \in Clients, NEW code, Answer(c, code)
  PROVE  tx'[c].pc = "idle" /\ tx'[c].ans = code /\ \A d \in Clients \ {c} : tx'[d] = tx[d]
<1>1. [NoTx EXCEPT !.ans = code].pc = "idle" /\ [NoTx EXCEPT !.ans = code].ans = code
  BY DEF NoTx
<1> QED BY <1>1 DEF Answer, LifecycleInv, TxInv

(* A step of one connection leaves the others where they are.              *)
LEMMA OnlyOneActs ==
  ASSUME LifecycleInv, [Next]_vars, NEW d \in Clients, tx'[d] # tx[d], ~At(d, "idle")
  PROVE  Step(d) \/ Timeout(d)
<1>0. tx \in [Clients -> TxType] BY DEF LifecycleInv, TxInv
<1>1. ASSUME NEW c \in Clients, NEW q \in Requests, Begin(c, q), c # d PROVE FALSE
  BY <1>0, <1>1 DEF Begin, ProvisionSelect, BindRead, CreateSelect, TerminalLock,
     TitleLock, DeleteLock, CheckpointSelect, Answer
<1>2. ASSUME NEW c \in Clients, Step(c), c # d PROVE FALSE
  <2>1. CASE ProvisionPredecessor(c) \/ ProvisionInsert(c) \/ ProvisionForeignKey(c) \/ ProvisionWinner(c)
    BY <1>0, <1>2, <2>1, ZenonT(60) DEF ProvisionPredecessor, ProvisionInsert, ProvisionForeignKey,
       ProvisionWinner, Answer, Goto
  <2>2. CASE ApplyPreCheck(c) \/ ApplyUpdate(c) \/ ApplyUnique(c)
    <3>1. Accept(c) => tx'[d] = tx[d]
      <4>1. SUFFICES ASSUME Accept(c) PROVE tx'[d] = tx[d] OBVIOUS
      <4>2. tx[c].pc \in ApplyPCs
        BY <2>2 DEF ApplyPreCheck, ApplyUpdate, ApplyUnique, At, ApplyPCs
      <4>3. Req(c).op \in {"bind", "create", "terminal"} BY <4>2, ApplyFacts
      <4> QED BY <1>0, <1>2, <4>1, <4>3, ZenonT(60) DEF Accept, Answer, Goto
    <3> QED BY <1>0, <1>2, <2>2, <3>1 DEF ApplyPreCheck, ApplyUpdate, ApplyUnique, Answer, Goto
  <2>3. CASE CreateReplay(c) \/ CreateLock(c) \/ CreateInsert(c) \/ CreateReread(c)
    BY <1>0, <1>2, <2>3 DEF CreateReplay, CreateLock, CreateInsert, CreateReread, Answer, Goto
  <2>4. CASE DeleteEligible(c) \/ DeleteRun(c) \/ CheckpointInsert(c)
    BY <1>0, <1>2, <2>4 DEF DeleteEligible, DeleteRun, CheckpointInsert, Answer, Goto
  <2>5. CASE Commit(c) \/ CommitLoser(c)
    BY <1>0, <1>2, <2>5 DEF Commit, CommitLoser, Answer
  <2> QED BY <1>2, <2>1, <2>2, <2>3, <2>4, <2>5 DEF Step
<1>3. ASSUME NEW c \in Clients, Timeout(c), c # d PROVE FALSE
  BY <1>0, <1>3 DEF Timeout, Answer
<1>4. \A r \in Runs : ~LogDelivery(r) BY DEF LogDelivery
<1>5. \A q \in Requests : ~Begin(d, q)
  BY DEF Begin, ProvisionSelect, BindRead, CreateSelect, TerminalLock,
     TitleLock, DeleteLock, CheckpointSelect
<1>6. Next BY DEF vars
<1> QED BY <1>1, <1>2, <1>3, <1>4, <1>5, <1>6 DEF Next

(* What AnswersHold asks of a success that answers q.                      *)
Kept(q) ==
  /\ q.op = "bind" => runs'[q.run] # None /\ runs'[q.run].cr = q.cr
  /\ q.op = "create" => /\ bindings'[q.job].run = q.run
                        /\ q.cr # None => bindings'[q.job].cr = q.cr
  /\ q.op = "terminal" => bindings'[q.job].outcome = q.outcome
  /\ q.op = "checkpoint" => \E k \in checkpoints' : k.job = q.job /\ k.ref = q.ref

LEMMA AcceptAnswers ==
  ASSUME LifecycleInv, NEW c \in Clients, tx[c].pc \in {"apply", "updateRun"},
         BoundTo(RunOf(c), Wanted(c)), Accept(c), UNCHANGED tables, tx'[c].pc = "idle"
  PROVE  Kept(Req(c))
<1>1. tx[c] \in TxType /\ tx[c].pc \in ApplyPCs BY ShapeByStatement DEF ApplyPCs
<1>2. Req(c).op \in {"bind", "create", "terminal"} BY <1>1, ApplyFacts
<1>3. Req(c).op # "bind" => tx'[c].pc # "idle"
  BY <1>1, <1>2 DEF Accept, Goto, TxType, LifecycleInv, TxInv
<1>4. Req(c).op = "bind" /\ BoundTo(Req(c).run, Req(c).cr) BY <1>1, <1>2, <1>3, ApplyFacts DEF Req
<1> QED BY <1>4 DEF Kept, BoundTo, Exists, tables

LEMMA CommitAnswers ==
  ASSUME LifecycleInv, NEW c \in Clients, Commit(c)
  PROVE  Kept(Req(c))
<1> DEFINE q == Req(c)
<1>1. tx[c].pc = "commit" /\ WriteTables(c) /\ UNCHANGED used BY DEF Commit, At
<1>2. CASE q.op \in ExecutionOps
  <2>1. /\ tx[c].claim # None => runs'[RunOf(c)] # None /\ runs'[RunOf(c)].cr = tx[c].claim
        /\ tx[c].put # None => bindings'[q.job] = tx[c].put
    BY <1>1, <1>2, CommitExecution
  <2>2. CASE q.op = "bind"
    <3>1. tx[c].claim = q.cr /\ q.cr # None BY <1>1, <1>2, <2>2, ExecutionFacts
    <3>2. RunOf(c) = q.run BY <2>2 DEF RunOf
    <3> QED BY <2>1, <2>2, <3>1, <3>2 DEF Kept
  <2>3. CASE q.op = "create"
    <3>1. tx[c].put = RequestedRow(q) BY <1>1, <1>2, <2>3, ExecutionFacts
    <3>2. q \in CreateRequests BY <1>1, <2>3, CommitShapes, RequestsByOp
    <3>3. RequestedRow(q) \in BindingRow BY <3>2 DEF CreateRequests, RequestedRow, BindingRow
    <3>4. tx[c].put # None BY <3>1, <3>3, LifecycleAssumption
    <3>5. bindings'[q.job] = RequestedRow(q) BY <2>1, <3>1, <3>4
    <3> QED BY <2>3, <3>5 DEF Kept, RequestedRow
  <2>4. CASE q.op = "terminal"
    BY <1>1, <1>2, <2>1, <2>4, ExecutionFacts DEF Kept
  <2> QED BY <1>2, <2>2, <2>3, <2>4 DEF ExecutionOps
<1>3. CASE q.op = "checkpoint"
  <2>1. checkpoints' = checkpoints \cup {CheckpointRow(c)} BY <1>1, <1>3 DEF WriteTables
  <2>2. CheckpointRow(c).job = q.job /\ CheckpointRow(c).ref = q.ref BY DEF CheckpointRow
  <2> QED BY <1>3, <2>1, <2>2 DEF Kept
<1>4. CASE q.op \notin ExecutionOps \cup {"checkpoint"} BY <1>4 DEF Kept, ExecutionOps
<1> QED BY <1>2, <1>3, <1>4

LEMMA AnswerIsKept ==
  ASSUME LifecycleInv, [Next]_vars, NEW c \in Clients, Answering(c) \in {200, 201}
  PROVE  Kept(Req(c))
<1>1. ~At(c, "idle") /\ tx'[c].pc = "idle" /\ tx'[c].ans \in {200, 201}
  BY LifecycleAssumption DEF Answering
<1>2. tx'[c] # tx[c] BY <1>1 DEF At
<1>3. Step(c) \/ Timeout(c) BY <1>1, <1>2, OnlyOneActs
<1>4. \A code : Answer(c, code) => code \in {200, 201} BY <1>1, AnswerGiven
<1>5. ~Timeout(c) BY <1>4 DEF Timeout
<1>6. \A pc : Goto(c, pc) => pc = "idle"
  BY <1>1 DEF Goto, LifecycleInv, TxInv, TxType
<1>7. tx \in [Clients -> TxType] /\ Req(c) \in Requests
  BY <1>1, ShapeByStatement DEF LifecycleInv, TxInv
<1>8. CASE Req(c).op \in {"provision", "title", "delete"} BY <1>8 DEF Kept
<1>9. CASE tx[c].pc \in {"predecessor", "insertRun", "foreignKey", "winner", "eligible", "deleteRun"}
  <2>1. Provisioning(tx[c]) \/ Deleting(tx[c]) BY <1>9, ShapeByStatement
  <2>2. Req(c).op \in {"provision", "delete"}
    BY <2>1, OpsOfRequests DEF Provisioning, Deleting, Req
  <2> QED BY <1>8, <2>2
<1>10. CASE ApplyPreCheck(c)
  <2>1. tx[c].pc = "apply" /\ UNCHANGED tables BY <1>10 DEF ApplyPreCheck, At
  <2>2. Accept(c) /\ (tx[c].seen.cr = Wanted(c) \/ RunOf(c) \in Owners(Wanted(c)))
    BY <1>4, <1>6, <1>10 DEF ApplyPreCheck
  <2>3. Applying(tx[c], RunOf(c), Wanted(c)) BY <2>1, ApplyFacts DEF ApplyPCs
  <2>4. BoundTo(RunOf(c), Wanted(c)) BY <2>1, <2>2, <2>3 DEF Applying, Owners, BoundTo
  <2> QED BY <1>1, <2>1, <2>2, <2>4, AcceptAnswers
<1>11. CASE ApplyUpdate(c)
  <2>1. tx[c].pc = "updateRun" /\ UNCHANGED tables BY <1>11 DEF ApplyUpdate, At
  <2>2. Accept(c) /\ BoundTo(RunOf(c), Wanted(c))
    <3>1. ~Answer(c, 409) BY <1>4
    <3>2. tx' # [tx EXCEPT ![c].locked = @ \cup {RunOf(c)}, ![c].pc = "unique"]
      BY <1>1, <1>7 DEF TxType
    <3> QED BY <1>11, <3>1, <3>2 DEF ApplyUpdate, BoundTo
  <2> QED BY <1>1, <2>1, <2>2, AcceptAnswers
<1>12. ~ApplyUnique(c)
  <2>1. ~Answer(c, 409) BY <1>4
  <2>2. \A w : tx' # [tx EXCEPT ![c].claim = w,
                ![c].pc = IF Req(c).op = "create" THEN "insertBinding" ELSE "commit"]
    BY <1>1, <1>7 DEF TxType
  <2> QED BY <2>1, <2>2 DEF ApplyUnique
<1>13. ~CreateReplay(c) BY <1>4, <1>6 DEF CreateReplay
<1>14. ~CreateLock(c) /\ ~CreateInsert(c)
  <2>1. ~CreateLock(c)
    <3>1. ~Answer(c, 404) BY <1>4
    <3>2. \A r : tx' # [tx EXCEPT ![c].locked = {r}, ![c].seen = runs[r],
                    ![c].pc = IF Req(c).cr = None THEN "insertBinding" ELSE "apply"]
      BY <1>1, <1>7 DEF TxType
    <3> QED BY <3>1, <3>2 DEF CreateLock
  <2>2. ~CreateInsert(c)
    <3>1. \A row : tx' # [tx EXCEPT ![c].pc = "commit", ![c].put = row]
      BY <1>1, <1>7 DEF TxType
    <3> QED BY <1>6, <3>1 DEF CreateInsert
  <2> QED BY <2>1, <2>2
<1>15. CASE CreateReread(c)
  <2>1. UNCHANGED tables /\ ~_binding_conflicts_with(bindings[Req(c).job], Req(c))
    BY <1>4, <1>15 DEF CreateReread
  <2>2. Req(c).op = "create"
    <3>1. Creating(tx[c]) BY <1>15, ShapeByStatement DEF CreateReread, At
    <3> QED BY <3>1, OpsOfRequests DEF Creating, Req
  <2> QED BY <2>1, <2>2 DEF Kept, _binding_conflicts_with, PayloadMatches, Differs, tables
<1>16. CASE CheckpointInsert(c)
  <2>1. Req(c).op = "checkpoint"
    <3>1. Checkpointing(tx[c]) BY <1>16, ShapeByStatement DEF CheckpointInsert, At
    <3> QED BY <3>1, OpsOfRequests DEF Checkpointing, Req
  <2>2. tx' # [tx EXCEPT ![c].job = Req(c).job, ![c].share = tx[c].seen.run, ![c].pc = "commit"]
    BY <1>1, <1>7 DEF TxType
  <2>3. ~Answer(c, 500) BY <1>4
  <2>4. Recorded(c) # {} /\ UNCHANGED tables BY <1>16, <2>2, <2>3 DEF CheckpointInsert
  <2> QED BY <2>1, <2>4 DEF Kept, Recorded, tables
<1>17. CASE Commit(c) BY <1>17, CommitAnswers
<1>18. ~CommitLoser(c)
  <2>1. Started(Req(c), "reread").pc = "reread" BY StartedTx
  <2> QED BY <1>1, <1>7, <2>1 DEF CommitLoser
<1> QED
  BY <1>3, <1>5, <1>9, <1>10, <1>11, <1>12, <1>13, <1>14, <1>15, <1>16, <1>17, <1>18
  DEF Step, ProvisionPredecessor, ProvisionInsert, ProvisionForeignKey, ProvisionWinner,
      DeleteEligible, DeleteRun, At

AnswersKept == \A c \in Clients : Answering(c) \in {200, 201} => Kept(Req(c))

(* Every success answer is true when it is given, and a caller that was    *)
(* told its change request is bound can rely on it for good.               *)
THEOREM CallersAreToldTheTruth == Spec => AnswersStayTrue
<1>1. LifecycleInv /\ [Next]_vars => [AnswersKept]_vars
  BY AnswerIsKept DEF AnswersKept
<1>2. AnswersKept => \A c \in Clients : Answering(c) \in {200, 201} =>
       LET q == Req(c) IN
       /\ q.op = "bind" => runs'[q.run] # None /\ runs'[q.run].cr = q.cr
       /\ q.op = "create" => /\ bindings'[q.job].run = q.run
                             /\ q.cr # None => bindings'[q.job].cr = q.cr
       /\ q.op = "terminal" => bindings'[q.job].outcome = q.outcome
       /\ q.op = "checkpoint" => \E k \in checkpoints' :
                                   k.job = q.job /\ k.ref = q.ref
  BY DEF AnswersKept, Kept
<1>3. Spec => AnswersHold BY <1>1, <1>2, InvAlways, PTL DEF Spec, AnswersHold
<1> QED BY <1>3, BindingIsFinal DEF AnswersStayTrue
=============================================================================
