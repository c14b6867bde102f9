-------------------------- MODULE MaintenanceProofs --------------------------
(***************************************************************************)
(* Proofs about the jobs that look after what is already stored, each of   *)
(* them for any number of actors and rows.                                 *)
(*                                                                         *)
(* ExecutionReconciliation: the bindings implement ExecutionHistory, and   *)
(* every recorded outcome has its evidence.  HistoricalUsage: the          *)
(* corrections of old usage lose no record and, undisturbed, leave exact   *)
(* sums.  Dashboards: counts never go back, an undisturbed job leaves      *)
(* exact rows, and a silent verification means an exact summary.           *)
(* DLQSweep: no dead letter is passed over, for any partitions, records,   *)
(* batch sizes, limits and failures.                                       *)
(*                                                                         *)
(* The inductive invariants are about what an actor remembers while others *)
(* act, which is where these jobs could go wrong: they read, release, and  *)
(* write later.                                                            *)
(***************************************************************************)
EXTENDS ExecutionReconciliation, HistoricalUsage, Dashboards, DLQSweep, SumProofs, NaturalsInduction,
        WellFoundedInduction

-----------------------------------------------------------------------------
(* Reconciliation of executions.  A status a pass was told is the job's    *)
(* final one, and the binding an operator read without a lock can still be *)
(* corrected.                                                              *)

Row     == [outcome : {"running"} \cup Terminal, finished : {None, "callback", "awx"},
            complete : BOOLEAN, blamed : BOOLEAN]
Flags   == [complete : BOOLEAN, blamed : BOOLEAN]
Status  == {"running", None} \cup AwxFinal
Answers == {"unasked", "error"} \cup Status
PassPC  == {"idle", "lookup", "persist"}
FixPC   == {"idle", "correct", "done"}

ReconcileTypeOK ==
    /\ awx \in [AwxJobs -> Status]
    /\ execution \in [AwxJobs -> Row]
    /\ audit \in [AwxJobs -> Nat]
    /\ pass \in [Passes -> [pc : PassPC, listed : SUBSET AwxJobs, answer : [AwxJobs -> Answers]]]
    /\ fix \in [Operators -> [pc : FixPC, job : AwxJobs \cup {None}]]

(* A terminal status that AWX answered is final: AWX may only forget it.   *)
AnswersAreTrue == \A p \in Passes : \A j \in AwxJobs :
    pass[p].answer[j] \in AwxFinal => awx[j] \in {None, pass[p].answer[j]}

(* What an operator is about to correct is still cancelled, or another     *)
(* operator corrected it first.                                            *)
CorrectionsAreDue == \A o \in Operators : fix[o].pc = "correct" =>
    /\ fix[o].job \in AwxJobs
    /\ \/ execution[fix[o].job].outcome = "cancelled"
       \/ execution[fix[o].job].outcome = "completed" /\ audit[fix[o].job] > 0

ReconcileInv ==
    /\ ReconcileTypeOK /\ AnswersAreTrue /\ CorrectionsAreDue
    /\ CompletedHasEvidence /\ SweptOutcomesAreTrue

-----------------------------------------------------------------------------
(* The operators.                                                          *)

(* Only AWX's final statuses are outcomes.                                 *)
LEMMA OutcomeOfValues ==
    /\ OutcomeOf("successful") = "completed" /\ OutcomeOf("failed") = "failed"
    /\ OutcomeOf("canceled") = "cancelled"
    /\ \A s \in {"unasked", "error", "running", None} : OutcomeOf(s) = None
    /\ \A s \in Answers : OutcomeOf(s) \in Terminal => s \in AwxFinal
    /\ \A s \in Answers : OutcomeOf(s) \in Terminal \cup {None}
BY ReconcileAssumption DEF OutcomeOf, Answers, Status, AwxFinal, Terminal

(* The update leaves a terminal row alone; it takes the outcome and the    *)
(* time of the request or changes nothing, and completes only a row that   *)
(* has its evidence.                                                       *)
LEMMA UpdateResult ==
    ASSUME ReconcileTypeOK, NEW j \in AwxJobs, NEW o \in Terminal,
           NEW at \in {"callback", "awx"}, NEW extra \in Flags
    PROVE  /\ Update(j, o, at, extra) \in Row
           /\ execution[j].outcome \in Terminal => Update(j, o, at, extra) = execution[j]
           /\ \/ Update(j, o, at, extra) = execution[j]
              \/ /\ execution[j].outcome = "running"
                 /\ Update(j, o, at, extra).outcome = o /\ Update(j, o, at, extra).finished = at
                 /\ o = "completed" => Update(j, o, at, extra).complete
<1> DEFINE row == execution[j]
           new == [outcome |-> o, finished |-> at, complete |-> row.complete \/ extra.complete,
                   blamed |-> row.blamed \/ extra.blamed]
<1>1. row \in Row BY DEF ReconcileTypeOK
<1>2. new \in Row
  <2>1. (row.complete \/ extra.complete) \in BOOLEAN /\ (row.blamed \/ extra.blamed) \in BOOLEAN
    OBVIOUS
  <2> QED BY <2>1 DEF Row
<1>3. Update(j, o, at, extra) =
          IF row.outcome \in Terminal \/ (o = "completed" /\ (~new.complete \/ new.blamed))
          THEN row ELSE new
  BY DEF Update
<1>4. row.outcome \in {"running"} \cup Terminal BY <1>1 DEF Row
<1>5. CASE row.outcome \in Terminal BY <1>1, <1>3, <1>5
<1>6. CASE row.outcome \notin Terminal /\ o = "completed" /\ (~new.complete \/ new.blamed)
  BY <1>1, <1>3, <1>6
<1>7. CASE row.outcome \notin Terminal /\ ~ (o = "completed" /\ (~new.complete \/ new.blamed))
  <2>1. Update(j, o, at, extra) = new BY <1>3, <1>7
  <2> QED BY <1>2, <1>4, <1>7, <2>1
<1> QED BY <1>5, <1>6, <1>7

-----------------------------------------------------------------------------
(* The invariant.                                                          *)

LEMMA InitInv == ReconcileInit => ReconcileInv
<1> SUFFICES ASSUME ReconcileInit PROVE ReconcileInv
  OBVIOUS
<1>1. ReconcileTypeOK
  <2>1. awx \in [AwxJobs -> Status] BY DEF ReconcileInit, Status
  <2>2. execution \in [AwxJobs -> Row]
    BY ReconcileAssumption DEF ReconcileInit, Row
  <2>3. audit \in [AwxJobs -> Nat] BY DEF ReconcileInit
  <2>4. Ready \in [pc : PassPC, listed : SUBSET AwxJobs, answer : [AwxJobs -> Answers]]
    BY DEF Ready, PassPC, Answers
  <2>5. pass \in [Passes -> [pc : PassPC, listed : SUBSET AwxJobs, answer : [AwxJobs -> Answers]]]
    BY <2>4 DEF ReconcileInit
  <2>6. fix \in [Operators -> [pc : FixPC, job : AwxJobs \cup {None}]]
    BY DEF ReconcileInit, FixPC
  <2> QED BY <2>1, <2>2, <2>3, <2>5, <2>6 DEF ReconcileTypeOK
<1>2. AnswersAreTrue BY DEF ReconcileInit, AnswersAreTrue, Ready, AwxFinal
<1>3. CorrectionsAreDue BY DEF ReconcileInit, CorrectionsAreDue
<1>4. CompletedHasEvidence BY DEF ReconcileInit, CompletedHasEvidence
<1>5. SweptOutcomesAreTrue
  BY ReconcileAssumption DEF ReconcileInit, SweptOutcomesAreTrue
<1> QED BY <1>1, <1>2, <1>3, <1>4, <1>5 DEF ReconcileInv

(* A final status only disappears, so answers and outcomes stay true.      *)
LEMMA JobEndsInv == ReconcileInv /\ JobEnds => ReconcileInv'
<1> SUFFICES ASSUME ReconcileInv, JobEnds PROVE ReconcileInv'
  OBVIOUS
<1> USE DEF ReconcileInv
<1>1. PICK j \in AwxJobs :
        \/ awx[j] = "running" /\ \E s \in AwxFinal : awx' = [awx EXCEPT ![j] = s]
        \/ awx[j] \in AwxFinal /\ awx' = [awx EXCEPT ![j] = None]
  BY DEF JobEnds
<1>2. UNCHANGED <<execution, audit, pass, fix>> BY DEF JobEnds
<1>3. PICK s \in AwxFinal \cup {None} : awx' = [awx EXCEPT ![j] = s]
  BY <1>1
<1>4. awx'[j] = s /\ (s = None \/ awx[j] = "running")
  BY <1>1, <1>3, ReconcileAssumption DEF ReconcileTypeOK
<1>5. \A i \in AwxJobs \ {j} : awx'[i] = awx[i]
  BY <1>3 DEF ReconcileTypeOK
<1>6. ReconcileTypeOK' BY <1>2, <1>3 DEF ReconcileTypeOK, Status
<1>7. AnswersAreTrue'
  <2> SUFFICES ASSUME NEW p \in Passes, NEW i \in AwxJobs, pass[p].answer[i] \in AwxFinal
               PROVE  awx'[i] \in {None, pass[p].answer[i]}
    BY <1>2 DEF AnswersAreTrue
  <2>1. awx[i] \in {None, pass[p].answer[i]} BY DEF AnswersAreTrue
  <2>2. awx[i] # "running" BY <2>1, ReconcileAssumption DEF AwxFinal
  <2> QED BY <1>4, <1>5, <2>1, <2>2
<1>8. SweptOutcomesAreTrue'
  <2> SUFFICES ASSUME NEW i \in AwxJobs, execution[i].finished = "awx"
               PROVE  /\ awx'[i] # "running"
                      /\ awx'[i] = None \/ OutcomeOf(awx'[i]) = execution[i].outcome \/ audit[i] > 0
    BY <1>2 DEF SweptOutcomesAreTrue
  <2>1. CASE i = j
    <3>1. s = None BY <1>4, <2>1 DEF SweptOutcomesAreTrue
    <3> QED BY <1>4, <2>1, <3>1, ReconcileAssumption
  <2>2. CASE i # j BY <1>5, <2>2 DEF SweptOutcomesAreTrue
  <2> QED BY <2>1, <2>2
<1>9. CorrectionsAreDue' /\ CompletedHasEvidence'
  BY <1>2 DEF CorrectionsAreDue, CompletedHasEvidence
<1> QED BY <1>6, <1>7, <1>8, <1>9

(* A callback or a pass writes one binding, a pass only a final status of  *)
(* AWX: terminal rows stay, so that every correction that is due stays due. *)
LEMMA UpdateInv ==
    ASSUME ReconcileInv, NEW j \in AwxJobs, NEW o \in Terminal,
           NEW at \in {"callback", "awx"}, NEW extra \in Flags,
           execution' = [execution EXCEPT ![j] = Update(j, o, at, extra)],
           UNCHANGED <<awx, audit, fix>>,
           at = "awx" => awx[j] # "running" /\ (awx[j] = None \/ OutcomeOf(awx[j]) = o)
    PROVE  /\ execution' \in [AwxJobs -> Row]
           /\ CorrectionsAreDue' /\ CompletedHasEvidence' /\ SweptOutcomesAreTrue'
<1> USE DEF ReconcileInv
<1> DEFINE new == Update(j, o, at, extra)
<1>1. /\ new \in Row
      /\ execution[j].outcome \in Terminal => new = execution[j]
      /\ \/ new = execution[j]
         \/ /\ execution[j].outcome = "running"
            /\ new.outcome = o /\ new.finished = at
            /\ o = "completed" => new.complete
  BY UpdateResult
<1>2. execution \in [AwxJobs -> Row] BY DEF ReconcileTypeOK
<1> HIDE DEF new
<1>3. execution' = [execution EXCEPT ![j] = new] BY DEF new
<1>4. execution'[j] = new /\ \A i \in AwxJobs \ {j} : execution'[i] = execution[i]
  BY <1>2, <1>3
<1>5. execution' \in [AwxJobs -> Row] BY <1>1, <1>2, <1>3
<1>6. CorrectionsAreDue'
  <2> SUFFICES ASSUME NEW op \in Operators, fix[op].pc = "correct"
               PROVE  /\ fix[op].job \in AwxJobs
                      /\ \/ execution'[fix[op].job].outcome = "cancelled"
                         \/ execution'[fix[op].job].outcome = "completed" /\ audit[fix[op].job] > 0
    BY DEF CorrectionsAreDue
  <2>1. /\ fix[op].job \in AwxJobs
        /\ \/ execution[fix[op].job].outcome = "cancelled"
           \/ execution[fix[op].job].outcome = "completed" /\ audit[fix[op].job] > 0
    BY DEF CorrectionsAreDue
  <2>2. execution[fix[op].job].outcome \in Terminal BY <2>1 DEF Terminal
  <2>3. execution'[fix[op].job] = execution[fix[op].job] BY <1>1, <1>4, <2>1, <2>2
  <2> QED BY <2>1, <2>3
<1>7. CompletedHasEvidence'
  <2> SUFFICES ASSUME NEW i \in AwxJobs, execution'[i].outcome = "completed", ~execution'[i].complete
               PROVE  audit[i] > 0
    BY DEF CompletedHasEvidence
  <2>1. CASE execution'[i] = execution[i] BY <2>1 DEF CompletedHasEvidence
  <2>2. CASE execution'[i] # execution[i]
    <3>1. i = j /\ new # execution[j] BY <1>4, <2>2
    <3> QED BY <1>1, <1>4, <3>1
  <2> QED BY <2>1, <2>2
<1>8. SweptOutcomesAreTrue'
  <2> SUFFICES ASSUME NEW i \in AwxJobs, execution'[i].finished = "awx"
               PROVE  /\ awx[i] # "running"
                      /\ awx[i] = None \/ OutcomeOf(awx[i]) = execution'[i].outcome \/ audit[i] > 0
    BY DEF SweptOutcomesAreTrue
  <2>1. CASE execution'[i] = execution[i] BY <2>1 DEF SweptOutcomesAreTrue
  <2>2. CASE execution'[i] # execution[i]
    <3>1. i = j /\ new # execution[j] BY <1>4, <2>2
    <3> QED BY <1>1, <1>4, <3>1
  <2> QED BY <2>1, <2>2
<1> QED BY <1>5, <1>6, <1>7, <1>8

LEMMA CallbackInv == ReconcileInv /\ Callback => ReconcileInv'
<1> SUFFICES ASSUME ReconcileInv, Callback PROVE ReconcileInv'
  OBVIOUS
<1> DEFINE Extra(o) == [complete |-> o = "completed", blamed |-> o = "failed"]
<1>1. PICK j \in AwxJobs, o \in Terminal :
        execution' = [execution EXCEPT ![j] = Update(j, o, "callback", Extra(o))]
  BY DEF Callback
<1>2. UNCHANGED <<awx, audit, pass, fix>> BY DEF Callback
<1>3. Extra(o) \in Flags
  <2>1. (o = "completed") \in BOOLEAN /\ (o = "failed") \in BOOLEAN OBVIOUS
  <2> QED BY <2>1 DEF Flags
<1> HIDE DEF Extra
<1>4. /\ execution' \in [AwxJobs -> Row]
      /\ CorrectionsAreDue' /\ CompletedHasEvidence' /\ SweptOutcomesAreTrue'
  BY <1>1, <1>2, <1>3, UpdateInv
<1>5. ReconcileTypeOK' /\ AnswersAreTrue'
  BY <1>2, <1>4 DEF ReconcileInv, ReconcileTypeOK, AnswersAreTrue
<1> QED BY <1>4, <1>5 DEF ReconcileInv

(* Steps of a pass that write nothing.                                     *)
LEMMA PassOnlyInv ==
    ASSUME ReconcileInv, UNCHANGED <<awx, execution, audit, fix>>,
           NEW p \in Passes, NEW r \in [pc : PassPC, listed : SUBSET AwxJobs, answer : [AwxJobs -> Answers]],
           pass' = [pass EXCEPT ![p] = r],
           \A j \in AwxJobs : r.answer[j] \in AwxFinal => awx[j] \in {None, r.answer[j]}
    PROVE  ReconcileInv'
<1> USE DEF ReconcileInv
<1>1. ReconcileTypeOK' BY DEF ReconcileTypeOK
<1>2. AnswersAreTrue'
  <2> SUFFICES ASSUME NEW q \in Passes, NEW j \in AwxJobs, pass'[q].answer[j] \in AwxFinal
               PROVE  awx[j] \in {None, pass'[q].answer[j]}
    BY DEF AnswersAreTrue
  <2>1. CASE q = p BY <2>1 DEF ReconcileTypeOK
  <2>2. CASE q # p BY <2>2 DEF ReconcileTypeOK, AnswersAreTrue
  <2> QED BY <2>1, <2>2
<1>3. CorrectionsAreDue' /\ CompletedHasEvidence' /\ SweptOutcomesAreTrue'
  BY DEF CorrectionsAreDue, CompletedHasEvidence, SweptOutcomesAreTrue
<1> QED BY <1>1, <1>2, <1>3

LEMMA PersistResultInv ==
    ASSUME ReconcileInv, NEW p \in Passes, PersistResult(p)
    PROVE  ReconcileInv'
<1>1. PICK j \in pass[p].listed :
        LET o == OutcomeOf(pass[p].answer[j]) IN
        /\ execution' = IF o = None THEN execution
                        ELSE [execution EXCEPT ![j] = Update(j, o, "awx", NoExtra)]
        /\ pass' = [pass EXCEPT ![p].listed = @ \ {j}]
  BY DEF PersistResult
<1>2. UNCHANGED <<awx, audit, fix>> BY DEF PersistResult
<1>3. j \in AwxJobs /\ pass[p].answer \in [AwxJobs -> Answers]
  BY DEF ReconcileInv, ReconcileTypeOK
<1>4. /\ execution' \in [AwxJobs -> Row]
      /\ CorrectionsAreDue' /\ CompletedHasEvidence' /\ SweptOutcomesAreTrue'
  <2> DEFINE a == pass[p].answer[j]
             o == OutcomeOf(a)
  <2>1. CASE o = None
    BY <1>1, <1>2, <2>1
       DEF ReconcileInv, ReconcileTypeOK, CorrectionsAreDue, CompletedHasEvidence, SweptOutcomesAreTrue
  <2>2. CASE o # None
    <3>1. a \in Answers BY <1>3
    <3>2. o \in Terminal /\ a \in AwxFinal BY <2>2, <3>1, OutcomeOfValues
    <3>3. awx[j] \in {None, a} BY <1>3, <3>2 DEF ReconcileInv, AnswersAreTrue
    <3>4. awx[j] # "running" /\ (awx[j] = None \/ OutcomeOf(awx[j]) = o)
      BY <3>2, <3>3, ReconcileAssumption DEF AwxFinal
    <3>5. execution' = [execution EXCEPT ![j] = Update(j, o, "awx", NoExtra)] BY <1>1, <2>2
    <3>6. NoExtra \in Flags BY DEF NoExtra, Flags
    <3> QED BY <1>2, <1>3, <3>2, <3>4, <3>5, <3>6, UpdateInv
  <2> QED BY <2>1, <2>2
<1>5. /\ pass' \in [Passes -> [pc : PassPC, listed : SUBSET AwxJobs, answer : [AwxJobs -> Answers]]]
      /\ \A q \in Passes : pass'[q].answer = pass[q].answer
  BY <1>1 DEF ReconcileInv, ReconcileTypeOK
<1>6. ReconcileTypeOK' BY <1>2, <1>4, <1>5 DEF ReconcileInv, ReconcileTypeOK
<1>7. AnswersAreTrue' BY <1>2, <1>5 DEF ReconcileInv, AnswersAreTrue
<1> QED BY <1>4, <1>6, <1>7 DEF ReconcileInv

LEMMA PassStepInv ==
    ASSUME ReconcileInv, NEW p \in Passes, PassStep(p)
    PROVE  ReconcileInv'
<1> DEFINE Pass == [pc : PassPC, listed : SUBSET AwxJobs, answer : [AwxJobs -> Answers]]
<1>1. Ready \in Pass /\ \A j \in AwxJobs : Ready.answer[j] \notin AwxFinal
  BY DEF Ready, PassPC, Answers, AwxFinal
<1>2. pass[p] \in Pass BY DEF ReconcileInv, ReconcileTypeOK
<1>3. \A j \in AwxJobs : pass[p].answer[j] \in AwxFinal => awx[j] \in {None, pass[p].answer[j]}
  BY DEF ReconcileInv, AnswersAreTrue
<1>4. CASE ListRunning(p)
  <2> DEFINE r == [Ready EXCEPT !.pc = "lookup", !.listed = Listed]
  <2>1. r \in Pass /\ r.answer = Ready.answer
    BY <1>1 DEF Listed, Running, PassPC
  <2>2. pass' = [pass EXCEPT ![p] = r] /\ UNCHANGED <<awx, execution, audit, fix>>
    BY <1>4 DEF ListRunning
  <2> HIDE DEF r
  <2> QED BY <1>1, <2>1, <2>2, PassOnlyInv
<1>5. CASE LookupJob(p)
  <2>0. PICK j \in pass[p].listed : \E a \in {awx[j], "error"} :
          pass' = [pass EXCEPT ![p].answer[j] = a]
    BY <1>5 DEF LookupJob
  <2>1. PICK a \in {awx[j], "error"} : pass' = [pass EXCEPT ![p].answer[j] = a]
    BY <2>0
  <2> DEFINE r == [pass[p] EXCEPT !.answer = [@ EXCEPT ![j] = a]]
  <2>2. j \in AwxJobs /\ a \in Answers
    BY <1>2, <2>1 DEF ReconcileInv, ReconcileTypeOK, Answers
  <2>3. r \in Pass /\ r.answer = [pass[p].answer EXCEPT ![j] = a]
    BY <1>2, <2>2
  <2>4. pass' = [pass EXCEPT ![p] = r] /\ UNCHANGED <<awx, execution, audit, fix>>
    BY <1>5, <2>1 DEF LookupJob
  <2>5. \A i \in AwxJobs : r.answer[i] \in AwxFinal => awx[i] \in {None, r.answer[i]}
    BY <1>2, <1>3, <2>2, <2>3 DEF AwxFinal
  <2> HIDE DEF r
  <2> QED BY <2>3, <2>4, <2>5, PassOnlyInv
<1>6. CASE LookupsDone(p)
  <2> DEFINE r == [pass[p] EXCEPT !.pc = "persist"]
  <2>1. r \in Pass /\ r.answer = pass[p].answer BY <1>2 DEF PassPC
  <2>2. pass' = [pass EXCEPT ![p] = r] /\ UNCHANGED <<awx, execution, audit, fix>>
    BY <1>6 DEF LookupsDone
  <2> HIDE DEF r
  <2> QED BY <1>3, <2>1, <2>2, PassOnlyInv
<1>7. CASE PersistResult(p) BY <1>7, PersistResultInv
<1>8. CASE EndPass(p) BY <1>1, <1>8, PassOnlyInv DEF EndPass
<1> QED BY <1>4, <1>5, <1>6, <1>7, <1>8 DEF PassStep

(* The operator's read takes no lock, but what it read stays correctable.  *)
LEMMA ReadBindingInv ==
    ASSUME ReconcileInv, NEW o \in Operators, ReadBinding(o)
    PROVE  ReconcileInv'
<1> USE DEF ReconcileInv
<1>1. PICK j \in AwxJobs : /\ execution[j].outcome = "cancelled"
                           /\ fix' = [fix EXCEPT ![o] = [pc |-> "correct", job |-> j]]
  BY DEF ReadBinding
<1>2. UNCHANGED <<awx, execution, audit, pass>> BY DEF ReadBinding
<1>3. ReconcileTypeOK' BY <1>1, <1>2 DEF ReconcileTypeOK, FixPC
<1>4. fix'[o] = [pc |-> "correct", job |-> j] /\ \A q \in Operators \ {o} : fix'[q] = fix[q]
  BY <1>1 DEF ReconcileTypeOK
<1>5. CorrectionsAreDue' BY <1>1, <1>2, <1>4 DEF CorrectionsAreDue
<1>6. AnswersAreTrue' /\ CompletedHasEvidence' /\ SweptOutcomesAreTrue'
  BY <1>2 DEF AnswersAreTrue, CompletedHasEvidence, SweptOutcomesAreTrue
<1> QED BY <1>3, <1>5, <1>6

LEMMA CorrectInv ==
    ASSUME ReconcileInv, NEW o \in Operators, Correct(o)
    PROVE  ReconcileInv'
<1> USE DEF ReconcileInv
<1> DEFINE j == fix[o].job
<1>1. j \in AwxJobs BY DEF Correct, CorrectionsAreDue
<1>2. /\ audit' = [audit EXCEPT ![j] = @ + 1]
      /\ execution' = [execution EXCEPT ![j].outcome = "completed", ![j].blamed = FALSE]
      /\ fix' = [fix EXCEPT ![o] = [pc |-> "done", job |-> None]]
      /\ UNCHANGED <<awx, pass>>
  BY DEF Correct
<1>3. fix'[o].pc = "done" /\ \A q \in Operators \ {o} : fix'[q] = fix[q]
  BY <1>2 DEF ReconcileTypeOK
<1> HIDE DEF j
<1>4. /\ execution' \in [AwxJobs -> Row]
      /\ execution'[j].outcome = "completed" /\ execution'[j].finished = execution[j].finished
      /\ \A i \in AwxJobs \ {j} : execution'[i] = execution[i]
  <2> DEFINE r == [execution[j] EXCEPT !.outcome = "completed", !.blamed = FALSE]
  <2>1. execution \in [AwxJobs -> Row] BY DEF ReconcileTypeOK
  <2>2. execution[j] \in Row BY <1>1, <2>1
  <2>3. r.outcome = "completed" /\ r.finished = execution[j].finished BY <2>2 DEF Row
  <2>4. r \in Row BY <2>2 DEF Row, Terminal
  <2>5. execution' = [execution EXCEPT ![j] = r] BY <1>1, <1>2, <2>1 DEF Row
  <2> HIDE DEF r
  <2> QED BY <1>1, <2>1, <2>3, <2>4, <2>5
<1>5. /\ audit' \in [AwxJobs -> Nat] /\ audit'[j] > 0
      /\ \A i \in AwxJobs \ {j} : audit'[i] = audit[i]
  BY <1>1, <1>2 DEF ReconcileTypeOK
<1>6. ReconcileTypeOK' BY <1>2, <1>4, <1>5 DEF ReconcileTypeOK, FixPC
<1>7. AnswersAreTrue' BY <1>2 DEF AnswersAreTrue
<1>8. CorrectionsAreDue'
  <2> SUFFICES ASSUME NEW q \in Operators, fix'[q].pc = "correct"
               PROVE  /\ fix'[q].job \in AwxJobs
                      /\ \/ execution'[fix'[q].job].outcome = "cancelled"
                         \/ execution'[fix'[q].job].outcome = "completed" /\ audit'[fix'[q].job] > 0
    BY DEF CorrectionsAreDue
  <2>1. q # o /\ fix'[q] = fix[q] BY <1>3
  <2> QED BY <1>4, <1>5, <2>1 DEF CorrectionsAreDue
<1>9. CompletedHasEvidence' BY <1>4, <1>5 DEF CompletedHasEvidence
<1>10. SweptOutcomesAreTrue' BY <1>2, <1>4, <1>5 DEF SweptOutcomesAreTrue
<1> QED BY <1>6, <1>7, <1>8, <1>9, <1>10

LEMMA NextInv == ReconcileInv /\ [ReconcileNext]_recVars => ReconcileInv'
<1> SUFFICES ASSUME ReconcileInv, [ReconcileNext]_recVars PROVE ReconcileInv'
  OBVIOUS
<1>1. CASE UNCHANGED recVars
  BY <1>1 DEF recVars, ReconcileInv, ReconcileTypeOK, AnswersAreTrue, CorrectionsAreDue,
              CompletedHasEvidence, SweptOutcomesAreTrue
<1> QED
  BY <1>1, JobEndsInv, CallbackInv, PassStepInv, ReadBindingInv, CorrectInv DEF ReconcileNext

-----------------------------------------------------------------------------
(* The theorems.                                                           *)

(* Whatever callbacks, passes and corrections race: a completed execution  *)
(* has its session and change request or an audit row.                     *)
THEOREM CompletionsHaveEvidence == ReconcileSpec => []CompletedHasEvidence
<1>1. ReconcileInv => CompletedHasEvidence BY DEF ReconcileInv
<1> QED BY <1>1, InitInv, NextInv, PTL DEF ReconcileSpec

(* A pass that persists late, after other passes, callbacks, corrections   *)
(* and purges, still records how the AWX job really ended.                 *)
THEOREM PassesRecordTheTruth == ReconcileSpec => []SweptOutcomesAreTrue
<1>1. ReconcileInv => SweptOutcomesAreTrue BY DEF ReconcileInv
<1> QED BY <1>1, InitInv, NextInv, PTL DEF ReconcileSpec

(* Only the persist phase of a pass stamps a binding with AWX's time, and  *)
(* with the outcome AWX answered.                                          *)
LEMMA StampedByPass ==
    ASSUME ReconcileInv, ReconcileNext, NEW j \in AwxJobs,
           execution[j].finished = None, execution'[j].finished = "awx"
    PROVE  \E p \in Passes : OutcomeOf(pass[p].answer[j]) = execution'[j].outcome
<1> USE DEF ReconcileInv
<1>1. execution \in [AwxJobs -> Row] BY DEF ReconcileTypeOK
<1>2. execution'[j] # execution[j] BY ReconcileAssumption
<1>3. ~ JobEnds BY <1>2 DEF JobEnds
<1>4. ~ Callback
  <2> SUFFICES ASSUME Callback PROVE FALSE
    OBVIOUS
  <2> DEFINE Extra(o) == [complete |-> o = "completed", blamed |-> o = "failed"]
  <2>1. PICK i \in AwxJobs, o \in Terminal :
          execution' = [execution EXCEPT ![i] = Update(i, o, "callback", Extra(o))]
    BY DEF Callback
  <2>2. Extra(o) \in Flags
    <3>1. (o = "completed") \in BOOLEAN /\ (o = "failed") \in BOOLEAN OBVIOUS
    <3> QED BY <3>1 DEF Flags
  <2> HIDE DEF Extra
  <2>3. i = j /\ execution'[j] = Update(i, o, "callback", Extra(o)) BY <1>1, <1>2, <2>1
  <2>4. execution'[j].finished = "callback" BY <1>2, <2>2, <2>3, UpdateResult
  <2> QED BY <2>4
<1>5. ASSUME NEW o \in Operators, ReadBinding(o) \/ Correct(o) PROVE FALSE
  <2>1. CASE ReadBinding(o) BY <1>2, <2>1 DEF ReadBinding
  <2>2. CASE Correct(o)
    <3>1. execution' = [execution EXCEPT ![fix[o].job].outcome = "completed", ![fix[o].job].blamed = FALSE]
      BY <2>2 DEF Correct
    <3>2. execution'[j].finished = execution[j].finished BY <1>1, <3>1 DEF Row
    <3> QED BY <3>2, ReconcileAssumption
  <2> QED BY <1>5, <2>1, <2>2
<1>6. PICK p \in Passes : PassStep(p) BY <1>3, <1>4, <1>5 DEF ReconcileNext
<1>7. PersistResult(p)
  BY <1>2, <1>6 DEF PassStep, ListRunning, LookupJob, LookupsDone, EndPass
<1>8. PICK i \in pass[p].listed :
        LET o == OutcomeOf(pass[p].answer[i]) IN
        execution' = IF o = None THEN execution
                     ELSE [execution EXCEPT ![i] = Update(i, o, "awx", NoExtra)]
  BY <1>7 DEF PersistResult
<1> DEFINE o == OutcomeOf(pass[p].answer[i])
<1>9. o # None /\ i \in AwxJobs /\ pass[p].answer[i] \in Answers
  BY <1>2, <1>8 DEF ReconcileTypeOK
<1>10. o \in Terminal BY <1>9, OutcomeOfValues
<1>11. NoExtra \in Flags BY DEF NoExtra, Flags
<1>12. execution' = [execution EXCEPT ![i] = Update(i, o, "awx", NoExtra)] BY <1>8, <1>9
<1> HIDE DEF o
<1>13. i = j /\ execution'[j] = Update(i, o, "awx", NoExtra) BY <1>1, <1>2, <1>12
<1>14. execution'[j].outcome = o BY <1>2, <1>9, <1>10, <1>11, <1>13, UpdateResult
<1> QED BY <1>13, <1>14 DEF o

(* No outcome is recorded without its evidence, by a pass, a callback or   *)
(* a correction.                                                           *)
THEOREM EveryOutcomeHasEvidence == ReconcileSpec => OutcomesHaveEvidence
<1> DEFINE Stamped == \A j \in AwxJobs :
              execution[j].finished = None /\ execution'[j].finished = "awx" =>
                 \E p \in Passes : OutcomeOf(pass[p].answer[j]) = execution'[j].outcome
<1>1. ReconcileInv /\ [ReconcileNext]_recVars => [Stamped]_recVars
  BY StampedByPass
<1>2. ReconcileInv => CompletedHasEvidence /\ SweptOutcomesAreTrue BY DEF ReconcileInv
<1>3. ReconcileSpec => [][Stamped]_recVars
  <2> HIDE DEF Stamped
  <2> QED BY <1>1, InitInv, NextInv, PTL DEF ReconcileSpec
<1>4. ReconcileSpec => PassRecordsAwxFinal BY <1>3 DEF PassRecordsAwxFinal
<1> QED BY <1>4, CompletionsHaveEvidence, PassesRecordTheTruth, PTL DEF OutcomesHaveEvidence

-----------------------------------------------------------------------------
(* The refinement.  Callbacks and passes amend a running execution, the    *)
(* operator's script corrects one, and every other step stutters.          *)

LEMMA HistoryInitially == ReconcileInit => History!HistoryInit
BY DEF ReconcileInit, History!HistoryInit

(* A written binding is an amended execution, or nothing changed.          *)
LEMMA UpdateAmends ==
    ASSUME ReconcileInv, NEW j \in AwxJobs, NEW o \in Terminal,
           NEW at \in {"callback", "awx"}, NEW extra \in Flags,
           execution' = [execution EXCEPT ![j] = Update(j, o, at, extra)], UNCHANGED audit
    PROVE  History!Amend(j) \/ UNCHANGED execution
<1>1. execution \in [AwxJobs -> Row] BY DEF ReconcileInv, ReconcileTypeOK
<1> DEFINE new == Update(j, o, at, extra)
<1>2. /\ new \in Row
      /\ \/ new = execution[j]
         \/ execution[j].outcome = "running" /\ new.outcome = o
  BY UpdateResult DEF ReconcileInv
<1>3. execution' = [execution EXCEPT ![j] = new] OBVIOUS
<1> HIDE DEF new
<1>4. CASE new = execution[j] BY <1>1, <1>3, <1>4
<1>5. CASE execution[j].outcome = "running" /\ new.outcome = o
  <2> DEFINE before == [outcome |-> execution[j].outcome, rest |-> execution[j].finished]
             after  == [outcome |-> new.outcome, rest |-> new.finished]
  <2>1. before # None /\ after # None
    BY <1>1, <1>2, ReconcileAssumption DEF Row
  <2>2. before.outcome = "running" /\ after.outcome \in {"running"} \cup History!Ended
    BY <1>5 DEF History!Ended, Terminal
  <2>3. execution'[j] = new /\ \A i \in AwxJobs \ {j} : execution'[i] = execution[i]
    BY <1>1, <1>3
  <2> QED BY <2>1, <2>2, <2>3 DEF History!Amend, History!OthersUntouched, History!Untouched
<1> QED BY <1>2, <1>4, <1>5

LEMMA CorrectCorrects ==
    ASSUME ReconcileInv, NEW o \in Operators, Correct(o)
    PROVE  \E j \in AwxJobs : History!CorrectOutcome(j)
<1>0. PICK j \in AwxJobs : j = fix[o].job
  BY DEF ReconcileInv, CorrectionsAreDue, Correct
<1>1. \/ execution[j].outcome = "cancelled"
      \/ execution[j].outcome = "completed" /\ audit[j] > 0
  BY <1>0 DEF ReconcileInv, CorrectionsAreDue, Correct
<1>2. /\ audit' = [audit EXCEPT ![j] = @ + 1]
      /\ execution' = [execution EXCEPT ![j].outcome = "completed", ![j].blamed = FALSE]
  BY <1>0 DEF Correct
<1>3. execution \in [AwxJobs -> Row] BY DEF ReconcileInv, ReconcileTypeOK
<1>4. /\ execution'[j].outcome = "completed" /\ execution'[j].finished = execution[j].finished
      /\ \A i \in AwxJobs \ {j} : execution'[i] = execution[i]
  BY <1>1, <1>2, <1>3 DEF Row
<1> DEFINE h  == [i \in AwxJobs |-> [outcome |-> execution[i].outcome, rest |-> execution[i].finished]]
           hn == [i \in AwxJobs |-> [outcome |-> execution'[i].outcome, rest |-> execution'[i].finished]]
<1>5. h[j] # None BY <1>1, <1>3, ReconcileAssumption DEF Row
<1>6. hn = [h EXCEPT ![j].outcome = "completed"]
  <2> DEFINE hx == [h EXCEPT ![j].outcome = "completed"]
  <2>1. \A i \in AwxJobs : hn[i] = hx[i] BY <1>1, <1>4
  <2> QED BY <2>1
<1>7. History!CorrectOutcome(j)
  BY <1>1, <1>2, <1>5, <1>6 DEF History!CorrectOutcome, History!Correctable
<1> QED BY <1>1, <1>7

LEMMA HistoryStep ==
    ReconcileInv /\ [ReconcileNext]_recVars => [History!HistoryNext]_(History!historyVars)
<1> SUFFICES ASSUME ReconcileInv, [ReconcileNext]_recVars
             PROVE  History!HistoryNext \/ UNCHANGED History!historyVars
  OBVIOUS
<1> DEFINE Goal == History!HistoryNext \/ UNCHANGED History!historyVars
<1>0. UNCHANGED <<execution, audit>> => Goal BY DEF History!historyVars
<1>1. ASSUME NEW j \in AwxJobs, NEW o \in Terminal, NEW at \in {"callback", "awx"}, NEW extra \in Flags,
             execution' = [execution EXCEPT ![j] = Update(j, o, at, extra)], UNCHANGED audit
      PROVE  Goal
  BY <1>0, <1>1, UpdateAmends DEF History!HistoryNext
<1>2. CASE UNCHANGED recVars BY <1>0, <1>2 DEF recVars
<1>3. CASE JobEnds BY <1>0, <1>3 DEF JobEnds
<1>4. ASSUME Callback PROVE Goal
  <2> DEFINE Extra(o) == [complete |-> o = "completed", blamed |-> o = "failed"]
  <2>1. PICK i \in AwxJobs, o \in Terminal :
          execution' = [execution EXCEPT ![i] = Update(i, o, "callback", Extra(o))]
    BY <1>4 DEF Callback
  <2>2. Extra(o) \in Flags
    <3>1. (o = "completed") \in BOOLEAN /\ (o = "failed") \in BOOLEAN OBVIOUS
    <3> QED BY <3>1 DEF Flags
  <2>3. UNCHANGED audit BY <1>4 DEF Callback
  <2> HIDE DEF Extra, Goal
  <2> QED BY <1>1, <2>1, <2>2, <2>3
<1>5. ASSUME NEW p \in Passes, PassStep(p) PROVE Goal
  <2>1. CASE PersistResult(p)
    <3>1. PICK j \in pass[p].listed :
            LET o == OutcomeOf(pass[p].answer[j]) IN
            execution' = IF o = None THEN execution
                         ELSE [execution EXCEPT ![j] = Update(j, o, "awx", NoExtra)]
      BY <2>1 DEF PersistResult
    <3> DEFINE o == OutcomeOf(pass[p].answer[j])
    <3>2. UNCHANGED audit BY <2>1 DEF PersistResult
    <3>3. CASE o = None BY <1>0, <3>1, <3>2, <3>3
    <3>4. CASE o # None
      <4>1. j \in AwxJobs /\ pass[p].answer[j] \in Answers BY DEF ReconcileInv, ReconcileTypeOK
      <4>2. o \in Terminal BY <3>4, <4>1, OutcomeOfValues
      <4>3. NoExtra \in Flags BY DEF NoExtra, Flags
      <4>4. execution' = [execution EXCEPT ![j] = Update(j, o, "awx", NoExtra)] BY <3>1, <3>4
      <4> HIDE DEF o, Goal
      <4> QED BY <1>1, <3>2, <4>1, <4>2, <4>3, <4>4
    <3> QED BY <3>3, <3>4
  <2>2. CASE ~ PersistResult(p)
    BY <1>0, <1>5, <2>2 DEF PassStep, ListRunning, LookupJob, LookupsDone, EndPass
  <2> QED BY <2>1, <2>2
<1>6. ASSUME NEW o \in Operators, ReadBinding(o) PROVE Goal
  BY <1>0, <1>6 DEF ReadBinding
<1>7. ASSUME NEW o \in Operators, Correct(o) PROVE Goal
  BY <1>7, CorrectCorrects DEF History!HistoryNext
<1> QED BY <1>2, <1>3, <1>4, <1>5, <1>6, <1>7 DEF ReconcileNext

(* The sweep, the callbacks and the operator's script implement the        *)
(* execution history: a terminal outcome changes only from cancelled to    *)
(* completed, with an audit row, and the time it ended never.              *)
THEOREM ReconciliationImplementsHistory == ReconcileSpec => ReconciliationKeepsHistory
<1> QED
  BY HistoryInitially, HistoryStep, InitInv, NextInv, PTL
     DEF ReconcileSpec, ReconciliationKeepsHistory, History!HistorySpec

-----------------------------------------------------------------------------
(* Corrections of historical usage.  The earliest event of a record is     *)
(* nobody's victim; a request or a script that nobody disturbed still      *)
(* knows the tables.                                                       *)

(* What the variables are.                                                 *)
RequestPC == {"lock", "null", "delete", "sum", "write", "committed"}
ScriptPC  == {"upsert", "rows", "stale", "verify", "exit"}

RequestFields == {"pc", "scope", "victims", "nulled", "sums", "written", "calm"}

IsRequest(r) ==
    /\ DOMAIN r = RequestFields
    /\ r.pc \in RequestPC /\ r.victims \subseteq DOMAIN EventRows

IsScript(r) ==
    /\ r = [pc |-> r.pc, limit |-> r.limit, plan |-> r.plan, code |-> r.code, calm |-> r.calm]
    /\ r.pc \in ScriptPC

HistShape ==
    /\ usage = [e \in DOMAIN usage |-> usage[e]]
    /\ IsFiniteSet(DOMAIN usage) /\ DOMAIN usage \subseteq DOMAIN EventRows
    /\ rollup = [b \in DOMAIN rollup |-> rollup[b]]
    /\ admin = [a \in Admins |-> admin[a]]
    /\ \A a \in Admins : admin[a] = NoRequest \/ IsRequest(admin[a])
    /\ script = [pc |-> "idle"] \/ IsScript(script)
    /\ ingest.counted \subseteq DOMAIN EventRows

(* The earliest of the events a record had at the start.                   *)
Earliest(e) ==
    /\ e \in OldEvents
    /\ \A x \in OldEvents : EventRows[x].record = EventRows[e].record => EventRows[e].first <= EventRows[x].first

OldRecords == {EventRows[e].record : e \in OldEvents}

(* It is never deleted, since nobody ever wants to delete it; and while it *)
(* is there ingest books the record no second time.                        *)
EarliestIsKept ==
    /\ \A e \in OldEvents : Earliest(e) => e \in DOMAIN usage
    /\ \A e \in DOMAIN usage : EventRows[e].record \in OldRecords => e \in OldEvents
    /\ \A e \in ingest.counted : EventRows[e].record \notin OldRecords
    /\ \A a \in Admins : admin[a].pc # "idle" => \A e \in admin[a].victims : ~Earliest(e)

KeptInv == HistShape /\ EarliestIsKept

(* What is left without the events v, and the totals of the sessions v     *)
(* took from that have any left.                                           *)
Left(v) == [e \in DOMAIN usage \ v |-> usage[e]]
SessionsOf(v) == {EventRows[e].session : e \in v}
SumsLeft(v) == [s \in {s \in SessionsOf(v) : InSessionOf(Left(v), s) # {}} |->
                  SumOf(Left(v), InSessionOf(Left(v), s))]

(* What a request knows stays true until another transaction writes.       *)
RequestIsExact(r) ==
    r.pc # "idle" /\ r.calm =>
      /\ r.pc \in {"null", "delete", "sum", "write"} => r.victims = Victims(ScanDuplicateGroups(r.scope))
      /\ r.pc = "write" => r.sums = SumsLeft(r.victims)
      /\ r.pc = "committed" =>
           /\ ScanDuplicateGroups(r.scope) = {}
           /\ \A s \in SessionsOf(r.victims) :
                InSessionOf(usage, s) # {} => totals[s] = SumOf(usage, InSessionOf(usage, s))

RequestsAreExact == \A a \in Admins : RequestIsExact(admin[a])

(* The script alone has written the rollup since it read the events.       *)
ScriptIsExact ==
    script.pc # "idle" /\ script.calm =>
      /\ script.limit = None =>
           /\ script.pc = "rows" =>
                /\ DOMAIN script.plan =
                     {b \in DOMAIN EventAggregate : b \notin DOMAIN rollup \/ rollup[b] # EventAggregate[b]}
                /\ \A b \in DOMAIN script.plan : script.plan[b] = EventAggregate[b]
           /\ script.pc = "stale" =>
                \A b \in DOMAIN EventAggregate : b \in DOMAIN rollup /\ rollup[b] = EventAggregate[b]
           /\ script.pc = "verify" => rollup = EventAggregate
           /\ script.pc = "exit" => script.code = 0
      /\ script.pc = "exit" /\ script.code = 0 => rollup = EventAggregate

HistInv == HistShape /\ EarliestIsKept /\ RequestsAreExact /\ ScriptIsExact

-----------------------------------------------------------------------------
LEMMA SmallestNumber ==
    ASSUME NEW S, S \subseteq Nat, S # {}
    PROVE  \E x \in S : \A y \in S : x <= y
<1>1. IsWellFoundedOn(OpToRel(<, Nat), Nat) BY NatLessThanWellFounded
<1>2. PICK x \in S : \A y \in S : ~ (<<y, x>> \in OpToRel(<, Nat))
  BY <1>1, WFMin
<1>3. \A y \in S : ~ (y < x) BY <1>2 DEF OpToRel
<1> QED BY <1>3

LEMMA EarliestOf ==
    ASSUME NEW g, g \subseteq DOMAIN EventRows, g # {}
    PROVE  \E e \in g : \A x \in g : EventRows[e].first <= EventRows[x].first
<1> DEFINE firsts == {EventRows[e].first : e \in g}
<1>1. firsts \subseteq Nat /\ firsts # {} BY HistAssumption
<1>2. PICK n \in firsts : \A m \in firsts : n <= m BY <1>1, SmallestNumber
<1> QED BY <1>2

LEMMA CanonicalIsEarliest ==
    ASSUME NEW g, g \subseteq DOMAIN EventRows, g # {}
    PROVE  /\ SelectCanonical(g) \in g
           /\ \A x \in g : EventRows[SelectCanonical(g)].first <= EventRows[x].first
BY EarliestOf DEF SelectCanonical

(* A group is all events of a record in the scope.                         *)
LEMMA GroupsAreRecords ==
    ASSUME HistShape, NEW scope, NEW g \in ScanDuplicateGroups(scope)
    PROVE  /\ g \subseteq DOMAIN usage /\ g # {}
           /\ \A e, x \in g : EventRows[e].record = EventRows[x].record
<1> DEFINE rows == {e \in DOMAIN usage : /\ scope.client = None \/ EventRows[e].client = scope.client
                                         /\ EventRows[e].day \in scope.days}
<1>1. PICK x \in rows : g = {e \in rows : EventRows[e].record = EventRows[x].record}
  BY DEF ScanDuplicateGroups
<1> QED BY <1>1

(* Of whatever events of a record are left, a scan never wants the         *)
(* earliest deleted.                                                       *)
LEMMA VictimsAreLater ==
    ASSUME KeptInv, NEW scope, NEW e \in Victims(ScanDuplicateGroups(scope))
    PROVE  e \in DOMAIN usage /\ ~Earliest(e)
<1> USE DEF KeptInv
<1>1. PICK g \in ScanDuplicateGroups(scope) : e \in g \ {SelectCanonical(g)}
  BY DEF Victims
<1> DEFINE c == SelectCanonical(g)
<1>2. /\ g \subseteq DOMAIN usage /\ g # {}
      /\ \A x, y \in g : EventRows[x].record = EventRows[y].record
  BY GroupsAreRecords
<1>3. g \subseteq DOMAIN EventRows BY <1>2 DEF HistShape
<1>4. c \in g /\ EventRows[c].first <= EventRows[e].first
  BY <1>1, <1>2, <1>3, CanonicalIsEarliest
<1> HIDE DEF c
<1>5. c # e BY <1>1 DEF c
<1>6. EventRows[c].record = EventRows[e].record BY <1>1, <1>2, <1>4
<1>7. EventRows[c].first < EventRows[e].first
  BY <1>1, <1>3, <1>4, <1>5, <1>6, HistAssumption
<1>8. ASSUME Earliest(e) PROVE FALSE
  <2>1. EventRows[c].record \in OldRecords BY <1>6, <1>8 DEF Earliest, OldRecords
  <2>2. c \in OldEvents BY <1>2, <1>4, <2>1 DEF EarliestIsKept
  <2>3. EventRows[e].first <= EventRows[c].first BY <1>6, <1>8, <2>2 DEF Earliest
  <2>4. EventRows[e].first \in Nat /\ EventRows[c].first \in Nat
    BY <1>1, <1>3, <1>4, HistAssumption
  <2> QED BY <1>7, <2>3, <2>4
<1> QED BY <1>1, <1>2, <1>8

-----------------------------------------------------------------------------
(* What a group of steps does to the invariant.                            *)

(* What a request knows is about the events and the totals.                *)
LEMMA SameTables ==
    ASSUME UNCHANGED <<usage, totals>>
    PROVE  \A r : RequestIsExact(r) => RequestIsExact(r)'
<1> SUFFICES ASSUME NEW r, RequestIsExact(r) PROVE RequestIsExact(r)'
  OBVIOUS
<1>0. usage' = usage /\ totals' = totals OBVIOUS
<1>1. ScanDuplicateGroups(r.scope)' = ScanDuplicateGroups(r.scope)
  <2> DEFINE rows == {e \in DOMAIN usage : /\ r.scope.client = None \/ EventRows[e].client = r.scope.client
                                           /\ EventRows[e].day \in r.scope.days}
             groups(R) == {g \in {{e \in R : EventRows[e].record = EventRows[x].record} : x \in R} :
                             Cardinality(g) > 1}
  <2>1. rows' = rows BY <1>0
  <2>2. ScanDuplicateGroups(r.scope) = groups(rows) BY DEF ScanDuplicateGroups
  <2>3. ScanDuplicateGroups(r.scope)' = groups(rows') BY DEF ScanDuplicateGroups
  <2> HIDE DEF rows, groups
  <2> QED BY <2>1, <2>2, <2>3
<1>2. Victims(ScanDuplicateGroups(r.scope))' = Victims(ScanDuplicateGroups(r.scope))
  BY <1>1, Zenon DEF Victims, SelectCanonical
<1>3. SumsLeft(r.victims)' = SumsLeft(r.victims)
  BY <1>0, Zenon DEF SumsLeft, Left, SessionsOf, InSessionOf
<1>4. \A s : InSessionOf(usage, s)' = InSessionOf(usage, s)
  BY <1>0, Zenon DEF InSessionOf
<1> QED BY <1>0, <1>1, <1>2, <1>3, <1>4 DEF RequestIsExact, SessionsOf

LEMMA SameEvents == ASSUME UNCHANGED usage PROVE EventAggregate' = EventAggregate
<1>0. usage' = usage OBVIOUS
<1> QED BY <1>0, Zenon DEF EventAggregate, BackedBy

(* A request that only moves on itself leaves what the others know.        *)
LEMMA RequestMoves ==
    ASSUME HistInv, NEW a \in Admins, NEW r, r = NoRequest \/ IsRequest(r),
           r # NoRequest => (RequestIsExact(r) /\ \A e \in r.victims : ~Earliest(e)),
           admin' = [admin EXCEPT ![a] = r],
           UNCHANGED <<usage, totals, rollup, script, ingest>>
    PROVE  HistInv'
<1> USE DEF HistInv
<1>1. admin' = [x \in Admins |-> IF x = a THEN r ELSE admin[x]]
  BY DEF HistShape
<1>2. NoRequest.pc = "idle" BY DEF NoRequest
<1>3. \A x \in Admins : admin'[x] = NoRequest \/ IsRequest(admin'[x])
  BY <1>1 DEF HistShape
<1>4. HistShape' BY <1>1, <1>3 DEF HistShape, IsRequest, IsScript, NoRequest
<1>5. EarliestIsKept' BY <1>1, <1>2 DEF EarliestIsKept, Earliest
<1>6. RequestsAreExact'
  <2> SUFFICES ASSUME NEW x \in Admins PROVE RequestIsExact(admin[x])'
    BY DEF RequestsAreExact
  <2>1. RequestIsExact(admin'[x])
    <3>1. CASE x = a BY <1>1, <1>2, <3>1 DEF RequestIsExact
    <3>2. CASE x # a BY <1>1, <3>2 DEF RequestsAreExact
    <3> QED BY <3>1, <3>2
  <2>2. RequestIsExact(admin'[x]) => RequestIsExact(admin[x])' BY SameTables DEF RequestIsExact
  <2> QED BY <2>1, <2>2
<1>7. ScriptIsExact' BY SameEvents DEF ScriptIsExact
<1> QED BY <1>4, <1>5, <1>6, <1>7

(* A step of the script leaves what the requests know.                     *)
LEMMA ScriptMoves ==
    ASSUME HistInv, script' = [pc |-> "idle"] \/ IsScript(script'),
           rollup' = [b \in DOMAIN rollup' |-> rollup'[b]], ScriptIsExact',
           UNCHANGED <<usage, totals, admin, ingest>>
    PROVE  HistInv'
<1> USE DEF HistInv
<1>1. HistShape' BY DEF HistShape, IsRequest, IsScript, NoRequest
<1>2. EarliestIsKept' BY DEF EarliestIsKept, Earliest
<1>3. RequestsAreExact' BY SameTables DEF RequestsAreExact
<1> QED BY <1>1, <1>2, <1>3

(* What a transaction that others notice does to what they remember: they  *)
(* keep their plans, but know nothing for sure.                            *)
Noticed(x) == /\ admin'[x].pc = admin[x].pc
              /\ admin[x].pc # "idle" => admin'[x].victims = admin[x].victims /\ ~admin'[x].calm
              /\ admin'[x] = NoRequest \/ IsRequest(admin'[x])

LEMMA OthersNotice ==
    ASSUME HistInv, NEW x \in Admins,
           admin'[x] = IF admin[x].pc = "idle" THEN admin[x] ELSE [admin[x] EXCEPT !.calm = FALSE]
    PROVE  Noticed(x)
<1>1. CASE admin[x] = NoRequest BY <1>1 DEF NoRequest, Noticed
<1>2. CASE IsRequest(admin[x])
  <2>1. admin[x].pc # "idle" BY <1>2 DEF IsRequest, RequestPC
  <2>2. admin'[x] = [admin[x] EXCEPT !.calm = FALSE] BY <2>1
  <2>3. DOMAIN admin'[x] = RequestFields BY <1>2, <2>2 DEF IsRequest
  <2>4. /\ admin'[x].pc = admin[x].pc /\ admin'[x].victims = admin[x].victims
        /\ ~admin'[x].calm
    BY <1>2, <2>2 DEF IsRequest, RequestFields
  <2> QED BY <1>2, <2>3, <2>4 DEF Noticed, IsRequest
<1> QED BY <1>1, <1>2 DEF HistInv, HistShape

LEMMA ScriptNotices ==
    ASSUME HistInv, script' = IF script.pc = "idle" THEN script ELSE [script EXCEPT !.calm = FALSE]
    PROVE  /\ script' = [pc |-> "idle"] \/ IsScript(script')
           /\ script'.pc # "idle" => ~script'.calm
<1>1. CASE script = [pc |-> "idle"] BY <1>1
<1>2. CASE IsScript(script)
  <2>1. script.pc # "idle" BY <1>2 DEF IsScript, ScriptPC
  <2>2. script' = [pc |-> script.pc, limit |-> script.limit, plan |-> script.plan,
                   code |-> script.code, calm |-> FALSE]
    BY <1>2, <2>1 DEF IsScript
  <2> QED BY <1>2, <2>2 DEF IsScript
<1> QED BY <1>1, <1>2 DEF HistInv, HistShape

(* The transactions of ingest and the commit of a reconciliation change    *)
(* the tables, and everybody else notices.                                 *)
LEMMA OthersKeep ==
    ASSUME HistInv, NEW S \in SUBSET Admins, \A x \in S : Noticed(x)
    PROVE  /\ \A x \in S : admin'[x] = NoRequest \/ IsRequest(admin'[x])
           /\ \A x \in S : admin'[x].pc # "idle" => \A e \in admin'[x].victims : ~Earliest(e)
           /\ \A x \in S : RequestIsExact(admin[x])'
<1>1. \A x \in S : admin'[x].pc # "idle" => \A e \in admin'[x].victims : ~Earliest(e)
  BY DEF Noticed, HistInv, EarliestIsKept
<1>2. \A x \in S : RequestIsExact(admin[x])' BY DEF Noticed, RequestIsExact
<1> QED BY <1>1, <1>2 DEF Noticed

-----------------------------------------------------------------------------
(* The steps of a request.                                                 *)

LEMMA InitHist == HistInit => HistInv
<1> SUFFICES ASSUME HistInit PROVE HistInv
  OBVIOUS
<1>1. DOMAIN usage = OldEvents /\ (\A a \in Admins : admin[a] = NoRequest) /\ NoRequest.pc = "idle"
  BY DEF HistInit, NoRequest
<1>2. HistShape BY <1>1, HistAssumption DEF HistInit, HistShape
<1>3. EarliestIsKept BY <1>1 DEF HistInit, EarliestIsKept, Earliest
<1>4. RequestsAreExact BY <1>1 DEF RequestsAreExact, RequestIsExact
<1>5. ScriptIsExact BY DEF HistInit, ScriptIsExact
<1> QED BY <1>2, <1>3, <1>4, <1>5 DEF HistInv

LEMMA ScanStep ==
    ASSUME HistInv, NEW a \in Admins, NEW scope \in Scopes, Scan(a, scope) PROVE HistInv'
<1> DEFINE r == [pc |-> "lock", scope |-> scope, victims |-> {}, nulled |-> {},
                 sums |-> <<>>, written |-> {}, calm |-> TRUE]
<1>1. r.pc = "lock" /\ r.victims = {} /\ DOMAIN r = RequestFields BY DEF RequestFields
<1>2. admin' = [admin EXCEPT ![a] = r] /\ UNCHANGED <<usage, totals, rollup, script, ingest>>
  BY DEF Scan
<1> HIDE DEF r
<1>3. IsRequest(r) BY <1>1 DEF IsRequest, RequestPC
<1>4. RequestIsExact(r) BY <1>1 DEF RequestIsExact
<1> QED BY <1>1, <1>2, <1>3, <1>4, RequestMoves

(* A request is at work, with the fields of one.                           *)
LEMMA AtWork ==
    ASSUME HistInv, NEW a \in Admins, admin[a].pc # "idle"
    PROVE  IsRequest(admin[a]) /\ \A e \in admin[a].victims : ~Earliest(e)
BY DEF HistInv, HistShape, EarliestIsKept, NoRequest

LEMMA LockAndRescanStep ==
    ASSUME HistInv, NEW a \in Admins, LockAndRescan(a) PROVE HistInv'
<1> DEFINE victims == Victims(ScanDuplicateGroups(admin[a].scope))
           r == [admin[a] EXCEPT !.pc = "null", !.victims = victims, !.calm = TRUE]
<1>1. /\ admin[a].pc = "lock" /\ UNCHANGED <<usage, totals, rollup, script, ingest>>
      /\ admin' = [admin EXCEPT ![a] = IF victims = {} THEN NoRequest ELSE r]
  BY DEF LockAndRescan
<1>2. IsRequest(admin[a]) BY <1>1, AtWork
<1>3. victims \subseteq DOMAIN usage /\ \A e \in victims : ~Earliest(e)
  BY VictimsAreLater DEF HistInv, KeptInv
<1> HIDE DEF victims
<1>4. DOMAIN r = RequestFields BY <1>2 DEF IsRequest
<1>5. r.pc = "null" /\ r.victims = victims /\ r.scope = admin[a].scope
  BY <1>2 DEF IsRequest, RequestFields
<1> HIDE DEF r
<1>6. IsRequest(r) BY <1>3, <1>4, <1>5 DEF IsRequest, RequestPC, HistInv, HistShape
<1>7. RequestIsExact(r) BY <1>5 DEF RequestIsExact, victims
<1>8. CASE victims = {} BY <1>1, <1>8, RequestMoves
<1>9. CASE victims # {} BY <1>1, <1>3, <1>5, <1>6, <1>7, <1>9, RequestMoves
<1> QED BY <1>8, <1>9

(* Nothing of the request changes but its place, and maybe what it nulled, *)
(* summed or wrote.                                                        *)
LEMMA NullAttemptsStep ==
    ASSUME HistInv, NEW a \in Admins, NullAttempts(a) PROVE HistInv'
<1> DEFINE r == [admin[a] EXCEPT !.pc = "delete", !.nulled = attempted \cap admin[a].victims]
<1>1. admin[a].pc = "null" /\ UNCHANGED <<usage, totals, rollup, script, ingest>> BY DEF NullAttempts
<1>2. admin' = [admin EXCEPT ![a] = r] BY DEF NullAttempts, HistInv, HistShape
<1>3. IsRequest(admin[a]) /\ \A e \in admin[a].victims : ~Earliest(e) BY <1>1, AtWork
<1>4. /\ r.pc = "delete" /\ r.victims = admin[a].victims /\ r.scope = admin[a].scope
      /\ r.calm = admin[a].calm /\ DOMAIN r = RequestFields
  BY <1>3 DEF IsRequest, RequestFields
<1> HIDE DEF r
<1>5. IsRequest(r) BY <1>3, <1>4 DEF IsRequest, RequestPC
<1>6. RequestIsExact(admin[a]) BY DEF HistInv, RequestsAreExact
<1>7. RequestIsExact(r) BY <1>1, <1>4, <1>6 DEF RequestIsExact
<1> QED BY <1>1, <1>2, <1>3, <1>4, <1>5, <1>7, RequestMoves

LEMMA DeleteEventsStep ==
    ASSUME HistInv, NEW a \in Admins, DeleteEvents(a) PROVE HistInv'
<1> DEFINE r == [admin[a] EXCEPT !.pc = "sum"]
<1>1. admin[a].pc = "delete" /\ UNCHANGED <<usage, totals, rollup, script, ingest>> BY DEF DeleteEvents
<1>2. admin' = [admin EXCEPT ![a] = r] BY DEF DeleteEvents, HistInv, HistShape
<1>3. IsRequest(admin[a]) /\ \A e \in admin[a].victims : ~Earliest(e) BY <1>1, AtWork
<1>4. /\ r.pc = "sum" /\ r.victims = admin[a].victims /\ r.scope = admin[a].scope
      /\ r.calm = admin[a].calm /\ DOMAIN r = RequestFields
  BY <1>3 DEF IsRequest, RequestFields
<1> HIDE DEF r
<1>5. IsRequest(r) BY <1>3, <1>4 DEF IsRequest, RequestPC
<1>6. RequestIsExact(admin[a]) BY DEF HistInv, RequestsAreExact
<1>7. RequestIsExact(r) BY <1>1, <1>4, <1>6 DEF RequestIsExact
<1> QED BY <1>1, <1>2, <1>3, <1>4, <1>5, <1>7, RequestMoves

LEMMA SumSessionsStep ==
    ASSUME HistInv, NEW a \in Admins, SumSessions(a) PROVE HistInv'
<1> DEFINE v == admin[a].victims
           r == [admin[a] EXCEPT !.pc = "write", !.sums = SumsLeft(v)]
<1>1. admin[a].pc = "sum" /\ UNCHANGED <<usage, totals, rollup, script, ingest>> BY DEF SumSessions
<1>2. Remaining(a) = Left(v) /\ Affected(a) = SessionsOf(v)
  BY DEF Remaining, Left, Affected, SessionsOf
<1>3. admin' = [admin EXCEPT ![a].pc = "write", ![a].sums = SumsLeft(v)]
  <2> DEFINE left == {s \in Affected(a) : InSessionOf(Remaining(a), s) # {}}
             sums == [s \in left |-> SumOf(Remaining(a), InSessionOf(Remaining(a), s))]
  <2>1. admin' = [admin EXCEPT ![a].pc = "write", ![a].sums = sums] BY DEF SumSessions
  <2>2. sums = SumsLeft(v) BY <1>2, ZenonT(60) DEF SumsLeft
  <2> HIDE DEF sums
  <2> QED BY <2>1, <2>2
<1>4. admin' = [admin EXCEPT ![a] = r] BY <1>3 DEF HistInv, HistShape
<1>5. IsRequest(admin[a]) /\ \A e \in v : ~Earliest(e) BY <1>1, AtWork
<1>6. /\ r.pc = "write" /\ r.victims = v /\ r.scope = admin[a].scope /\ r.sums = SumsLeft(v)
      /\ r.calm = admin[a].calm /\ DOMAIN r = RequestFields
  BY <1>5 DEF IsRequest, RequestFields
<1> HIDE DEF r
<1>7. IsRequest(r) BY <1>5, <1>6 DEF IsRequest, RequestPC
<1>8. RequestIsExact(admin[a]) BY DEF HistInv, RequestsAreExact
<1>9. RequestIsExact(r) BY <1>1, <1>6, <1>8 DEF RequestIsExact
<1> QED BY <1>1, <1>4, <1>5, <1>6, <1>7, <1>9, RequestMoves

LEMMA WriteSessionStep ==
    ASSUME HistInv, NEW a \in Admins, NEW s, WriteSession(a, s) PROVE HistInv'
<1> DEFINE r == [admin[a] EXCEPT !.written = @ \cup {s}]
<1>1. admin[a].pc = "write" /\ UNCHANGED <<usage, totals, rollup, script, ingest>> BY DEF WriteSession
<1>2. admin' = [admin EXCEPT ![a] = r] BY DEF WriteSession, HistInv, HistShape
<1>3. IsRequest(admin[a]) /\ \A e \in admin[a].victims : ~Earliest(e) BY <1>1, AtWork
<1>4. /\ r.pc = "write" /\ r.victims = admin[a].victims /\ r.scope = admin[a].scope
      /\ r.sums = admin[a].sums /\ r.calm = admin[a].calm /\ DOMAIN r = RequestFields
  BY <1>1, <1>3 DEF IsRequest, RequestFields
<1> HIDE DEF r
<1>5. IsRequest(r) BY <1>3, <1>4 DEF IsRequest, RequestPC
<1>6. RequestIsExact(admin[a]) BY DEF HistInv, RequestsAreExact
<1>7. RequestIsExact(r) BY <1>1, <1>4, <1>6 DEF RequestIsExact
<1> QED BY <1>1, <1>2, <1>3, <1>4, <1>5, <1>7, RequestMoves

LEMMA EndStep ==
    ASSUME HistInv, NEW a \in Admins, Rollback(a) \/ AnswerRequest(a) PROVE HistInv'
<1>1. admin' = [admin EXCEPT ![a] = NoRequest] /\ UNCHANGED <<usage, totals, rollup, script, ingest>>
  BY DEF Rollback, AnswerRequest
<1> QED BY <1>1, RequestMoves

(* Without the victims of a scan, the scan finds nothing.                  *)
LEMMA NoDuplicatesLeft ==
    ASSUME HistInv, NEW scope, usage' = Left(Victims(ScanDuplicateGroups(scope)))
    PROVE  ScanDuplicateGroups(scope)' = {}
<1> DEFINE InScope(e) == /\ scope.client = None \/ EventRows[e].client = scope.client
                         /\ EventRows[e].day \in scope.days
           rows == {e \in DOMAIN usage : InScope(e)}
           rest == {e \in DOMAIN usage' : InScope(e)}
           victims == Victims(ScanDuplicateGroups(scope))
           Group(x) == {e \in rows : EventRows[e].record = EventRows[x].record}
<1>1. DOMAIN usage' = DOMAIN usage \ victims BY DEF Left
<1>2. rest = rows \ victims BY <1>1
<1> SUFFICES ASSUME NEW y \in rest,
                    Cardinality({e \in rest : EventRows[e].record = EventRows[y].record}) > 1
             PROVE  FALSE
  BY DEF ScanDuplicateGroups
<1> DEFINE h == {e \in rest : EventRows[e].record = EventRows[y].record}
           g == Group(y)
<1>3. h \subseteq g /\ y \in rows /\ y \in g BY <1>2
<1>4. IsFiniteSet(rows) BY FS_Subset DEF HistInv, HistShape
<1>5. IsFiniteSet(g) /\ Cardinality(g) \in Nat BY <1>4, FS_Subset, FS_CardinalityType
<1>6. Cardinality(h) <= Cardinality(g) /\ Cardinality(h) \in Nat
  BY <1>3, <1>5, FS_Subset, FS_CardinalityType
<1>7. g \in ScanDuplicateGroups(scope) BY <1>3, <1>5, <1>6 DEF ScanDuplicateGroups
<1>8. g \ {SelectCanonical(g)} \subseteq victims BY <1>7 DEF Victims
<1>9. h \subseteq {SelectCanonical(g)} BY <1>2, <1>3, <1>8
<1>10. /\ IsFiniteSet({SelectCanonical(g)}) /\ Cardinality({SelectCanonical(g)}) = 1
  BY FS_Singleton
<1>11. Cardinality(h) <= 1 BY <1>9, <1>10, FS_Subset, ZenonT(60)
<1> QED BY <1>6, <1>11

LEMMA CommitReconciliationStep ==
    ASSUME HistInv, NEW a \in Admins, CommitReconciliation(a) PROVE HistInv'
<1> DEFINE v == admin[a].victims
           r == [admin[a] EXCEPT !.pc = "committed"]
<1> USE DEF HistInv
<1>1. admin[a].pc = "write" /\ UNCHANGED <<rollup, ingest>> BY DEF CommitReconciliation
<1>2. usage' = Left(v) BY DEF CommitReconciliation, Remaining, Left
<1>3. IsRequest(admin[a]) /\ \A e \in v : ~Earliest(e) BY <1>1, AtWork
<1>4. /\ r.pc = "committed" /\ r.victims = v /\ r.scope = admin[a].scope
      /\ r.calm = admin[a].calm /\ DOMAIN r = RequestFields
  BY <1>3 DEF IsRequest, RequestFields
<1>5. admin' = [x \in Admins |-> IF x = a THEN r ELSE IF admin[x].pc = "idle" THEN admin[x]
                                  ELSE [admin[x] EXCEPT !.calm = FALSE]]
  BY DEF CommitReconciliation
<1>6. totals' = [s \in HistSessions |-> IF s \in DOMAIN admin[a].sums THEN admin[a].sums[s] ELSE totals[s]]
  BY DEF CommitReconciliation
<1>7. script' = IF script.pc = "idle" THEN script ELSE [script EXCEPT !.calm = FALSE]
  BY DEF CommitReconciliation
<1>8. admin'[a] = r BY <1>5
<1> HIDE DEF r
<1>9. IsRequest(r) BY <1>3, <1>4 DEF IsRequest, RequestPC
<1>10. \A x \in Admins \ {a} : Noticed(x) BY <1>5, OthersNotice
<1>11. DOMAIN usage' = DOMAIN usage \ v BY <1>2 DEF Left
<1>12. HistShape'
  <2>1. IsFiniteSet(DOMAIN usage') BY <1>11, FS_Subset DEF HistShape
  <2>2. usage' = [e \in DOMAIN usage' |-> usage'[e]] BY <1>2 DEF Left
  <2>3. \A x \in Admins : admin'[x] = NoRequest \/ IsRequest(admin'[x])
    BY <1>8, <1>9, <1>10 DEF Noticed
  <2>4. admin' = [x \in Admins |-> admin'[x]] BY <1>5
  <2>5. script' = [pc |-> "idle"] \/ IsScript(script') BY <1>7, ScriptNotices
  <2> QED BY <1>1, <1>11, <2>1, <2>2, <2>3, <2>4, <2>5 DEF HistShape, IsRequest, IsScript, NoRequest
<1>13. EarliestIsKept'
  <2>1. \A x \in Admins : admin'[x].pc # "idle" => \A e \in admin'[x].victims : ~Earliest(e)
    <3>1. \A x \in Admins \ {a} : admin'[x].pc # "idle" => \A e \in admin'[x].victims : ~Earliest(e)
      BY <1>10, OthersKeep
    <3> QED BY <1>3, <1>4, <1>8, <3>1
  <2> QED BY <1>1, <1>3, <1>11, <2>1 DEF EarliestIsKept, Earliest
<1>14. PICK sc : sc = admin[a].scope /\ sc = admin'[a].scope BY <1>4, <1>8
<1>15. ASSUME admin'[a].calm
       PROVE  /\ ScanDuplicateGroups(sc)' = {}
              /\ \A s \in SessionsOf(v) :
                   InSessionOf(usage', s) # {} => totals'[s] = SumOf(usage', InSessionOf(usage', s))
  <2>1. v = Victims(ScanDuplicateGroups(sc)) /\ admin[a].sums = SumsLeft(v)
    BY <1>1, <1>4, <1>8, <1>14, <1>15 DEF RequestsAreExact, RequestIsExact
  <2>2. usage' = Left(Victims(ScanDuplicateGroups(sc))) BY <1>2, <2>1
  <2>3. ScanDuplicateGroups(sc)' = {} BY <2>2, NoDuplicatesLeft
  <2>4. SessionsOf(v) \subseteq HistSessions BY <1>3 DEF SessionsOf, HistSessions, IsRequest
  <2>5. SumsLeft(v) = [s \in {s \in SessionsOf(v) : InSessionOf(usage', s) # {}} |->
                         SumOf(usage', InSessionOf(usage', s))]
    BY <1>2, Zenon DEF SumsLeft
  <2> QED BY <1>6, <2>1, <2>3, <2>4, <2>5
<1>16. RequestIsExact(admin[a])'
  <2>1. admin'[a].pc = "committed" /\ admin'[a].victims = v BY <1>4, <1>8
  <2> QED BY <1>14, <1>15, <2>1 DEF RequestIsExact, SessionsOf, InSessionOf
<1>17. RequestsAreExact'
  <2>1. \A x \in Admins \ {a} : RequestIsExact(admin[x])' BY <1>10, OthersKeep
  <2> QED BY <1>16, <2>1 DEF RequestsAreExact
<1>18. ScriptIsExact' BY <1>7, ScriptNotices DEF ScriptIsExact
<1> QED BY <1>12, <1>13, <1>17, <1>18

-----------------------------------------------------------------------------
(* The transactions of ingest.                                             *)

(* They keep the invariant if they keep the events and book no old record. *)
LEMMA IngestMoves ==
    ASSUME HistInv, Disturbs,
           usage' = [e \in DOMAIN usage' |-> usage'[e]], IsFiniteSet(DOMAIN usage'),
           DOMAIN usage \subseteq DOMAIN usage', DOMAIN usage' \subseteq DOMAIN EventRows,
           \A e \in DOMAIN usage' \ DOMAIN usage : EventRows[e].record \notin OldRecords,
           ingest'.counted \subseteq DOMAIN EventRows,
           \A e \in ingest'.counted : EventRows[e].record \notin OldRecords,
           rollup' = [b \in DOMAIN rollup' |-> rollup'[b]]
    PROVE  HistInv'
<1> USE DEF HistInv
<1>1. admin' = [x \in Admins |-> IF admin[x].pc = "idle" THEN admin[x] ELSE [admin[x] EXCEPT !.calm = FALSE]]
  BY DEF Disturbs
<1>2. \A x \in Admins : Noticed(x) BY <1>1, OthersNotice
<1>3. /\ \A x \in Admins : admin'[x] = NoRequest \/ IsRequest(admin'[x])
      /\ \A x \in Admins : admin'[x].pc # "idle" => \A e \in admin'[x].victims : ~Earliest(e)
      /\ \A x \in Admins : RequestIsExact(admin[x])'
  BY <1>2, OthersKeep
<1>4. /\ script' = [pc |-> "idle"] \/ IsScript(script')
      /\ script'.pc # "idle" => ~script'.calm
  BY ScriptNotices DEF Disturbs
<1>5. admin' = [x \in Admins |-> admin'[x]] BY <1>1
<1>6. HistShape' BY <1>3, <1>4, <1>5 DEF HistShape, IsRequest, IsScript, NoRequest
<1>7. EarliestIsKept' BY <1>3 DEF EarliestIsKept, Earliest
<1>8. RequestsAreExact' BY <1>3 DEF RequestsAreExact
<1>9. ScriptIsExact' BY <1>4 DEF ScriptIsExact
<1> QED BY <1>6, <1>7, <1>8, <1>9

LEMMA EarliestExists ==
    ASSUME NEW e \in OldEvents
    PROVE  \E x : Earliest(x) /\ EventRows[x].record = EventRows[e].record
<1> DEFINE g == {x \in OldEvents : EventRows[x].record = EventRows[e].record}
<1>1. g \subseteq DOMAIN EventRows /\ g # {} BY HistAssumption
<1>2. PICK x \in g : \A y \in g : EventRows[x].first <= EventRows[y].first BY <1>1, EarliestOf
<1> QED BY <1>2 DEF Earliest

(* So a booked record is still booked.                                     *)
LEMMA OldRecordsAreBooked ==
    ASSUME HistInv, NEW e \in OldEvents
    PROVE  \E x \in DOMAIN usage : EventRows[x].record = EventRows[e].record
BY EarliestExists DEF HistInv, EarliestIsKept, Earliest

LEMMA CountRecordStep ==
    ASSUME HistInv, NEW e \in DOMAIN EventRows, CountRecord(e) PROVE HistInv'
<1>1. /\ Disturbs /\ UNCHANGED <<usage, rollup>> /\ ingest'.counted = ingest.counted \cup {e}
      /\ \A x \in DOMAIN usage \cup ingest.counted : EventRows[x].record # EventRows[e].record
  BY DEF CountRecord
<1>2. EventRows[e].record \notin OldRecords BY <1>1, OldRecordsAreBooked DEF OldRecords
<1> QED BY <1>1, <1>2, IngestMoves DEF HistInv, HistShape, EarliestIsKept

LEMMA RollupIsFunction ==
    ASSUME HistInv, NEW b, NEW n
    PROVE  AddToRollup(b, n) = [x \in DOMAIN AddToRollup(b, n) |-> AddToRollup(b, n)[x]]
BY DEF AddToRollup, HistInv, HistShape

LEMMA BookEventStep ==
    ASSUME HistInv, NEW e \in DOMAIN EventRows, BookEvent(e) PROVE HistInv'
<1>1. /\ Disturbs /\ e \in ingest.counted
      /\ usage' = [x \in DOMAIN usage \cup {e} |-> IF x = e THEN EventRows[e].tokens ELSE usage[x]]
      /\ rollup' = AddToRollup(EventRows[e].bucket, EventRows[e].tokens)
  BY DEF BookEvent
<1>2. ingest' = [ingest EXCEPT !.counted = @ \ {e}] BY DEF BookEvent
<1>3. DOMAIN usage' = DOMAIN usage \cup {e} /\ usage' = [x \in DOMAIN usage' |-> usage'[x]] BY <1>1
<1>4. IsFiniteSet(DOMAIN usage') BY <1>3, FS_AddElement DEF HistInv, HistShape
<1>5. rollup' = [b \in DOMAIN rollup' |-> rollup'[b]] BY <1>1, RollupIsFunction
<1>6. EventRows[e].record \notin OldRecords BY <1>1 DEF HistInv, EarliestIsKept
<1>7. ingest'.counted \subseteq ingest.counted BY <1>2
<1> QED BY <1>1, <1>3, <1>4, <1>5, <1>6, <1>7, IngestMoves DEF HistInv, HistShape, EarliestIsKept

LEMMA MergeReplayStep ==
    ASSUME HistInv, NEW e \in DOMAIN EventRows, MergeReplay(e) PROVE HistInv'
<1>1. /\ Disturbs /\ usage' = [usage EXCEPT ![e] = @ + 1]
      /\ rollup' = AddToRollup(EventRows[e].bucket, 1)
      /\ ingest' = [ingest EXCEPT !.steps = @ + 1]
  BY DEF MergeReplay
<1>2. DOMAIN usage' = DOMAIN usage /\ usage' = [x \in DOMAIN usage' |-> usage'[x]] BY <1>1
<1>3. rollup' = [b \in DOMAIN rollup' |-> rollup'[b]] BY <1>1, RollupIsFunction
<1>4. ingest'.counted = ingest.counted BY <1>1
<1> QED BY <1>1, <1>2, <1>3, <1>4, IngestMoves DEF HistInv, HistShape, EarliestIsKept

-----------------------------------------------------------------------------
(* The rollup script.                                                      *)

LEMMA ScriptAtWork ==
    ASSUME HistInv, script.pc # "idle" PROVE IsScript(script)
BY DEF HistInv, HistShape

LEMMA CountMismatchesStep ==
    ASSUME HistInv, NEW limit, CountMismatches(limit) PROVE HistInv'
<1>1. /\ script' = [pc |-> "upsert", limit |-> limit, plan |-> <<>>, code |-> 0, calm |-> TRUE]
      /\ UNCHANGED <<usage, totals, rollup, admin, ingest>>
  BY DEF CountMismatches
<1>2. IsScript(script') BY <1>1 DEF IsScript, ScriptPC
<1>3. ScriptIsExact' BY <1>1 DEF ScriptIsExact
<1> QED BY <1>1, <1>2, <1>3, ScriptMoves DEF HistInv, HistShape

(* Unlimited, the upsert has every row that is missing or wrong.           *)
LEMMA RunBackfillStep == HistInv /\ RunBackfill => HistInv'
<1> SUFFICES ASSUME HistInv, RunBackfill PROVE HistInv'
  OBVIOUS
<1>1. script.pc = "upsert" /\ UNCHANGED <<usage, totals, rollup, admin, ingest>> BY DEF RunBackfill
<1>2. IsScript(script) BY <1>1, ScriptAtWork, SMTT(60)
<1> DEFINE g == EventAggregate
           wrong == {b \in DOMAIN g : b \notin DOMAIN rollup \/ rollup[b] # g[b]}
<1>3. PICK chosen \in SUBSET wrong :
        /\ script.limit = None => chosen = wrong
        /\ script' = [script EXCEPT !.pc = "rows", !.plan = [b \in chosen |-> g[b]]]
  BY DEF RunBackfill
<1>4. EventAggregate' = g BY <1>1, SameEvents
<1> HIDE DEF g
<1>5. /\ script'.pc = "rows" /\ script'.limit = script.limit
      /\ script'.plan = [b \in chosen |-> g[b]] /\ IsScript(script')
  BY <1>2, <1>3 DEF IsScript, ScriptPC
<1>6. script.limit = None => DOMAIN script'.plan = wrong BY <1>3, <1>5
<1>7. \A b \in DOMAIN script'.plan : script'.plan[b] = g[b] BY <1>5
<1>8. ScriptIsExact' BY <1>1, <1>4, <1>5, <1>6, <1>7 DEF ScriptIsExact
<1> QED BY <1>1, <1>5, <1>8, ScriptMoves DEF HistInv, HistShape

LEMMA UpsertRollupStep == HistInv /\ UpsertRollup => HistInv'
<1> SUFFICES ASSUME HistInv, UpsertRollup PROVE HistInv'
  OBVIOUS
<1>1. /\ script.pc = "rows" /\ script' = [script EXCEPT !.pc = "stale"]
      /\ rollup' = [b \in DOMAIN rollup \cup DOMAIN script.plan |->
                      IF b \in DOMAIN script.plan THEN script.plan[b] ELSE rollup[b]]
      /\ UNCHANGED <<usage, totals, admin, ingest>>
  BY DEF UpsertRollup
<1>2. IsScript(script) BY <1>1, ScriptAtWork
<1>3. EventAggregate' = EventAggregate BY <1>1, SameEvents
<1>4. /\ script'.pc = "stale" /\ script'.limit = script.limit /\ script'.calm = script.calm
      /\ IsScript(script')
  BY <1>1, <1>2 DEF IsScript, ScriptPC
<1>5. ASSUME script.calm, script.limit = None, NEW b \in DOMAIN EventAggregate
      PROVE  b \in DOMAIN rollup' /\ rollup'[b] = EventAggregate[b]
  <2>1. /\ DOMAIN script.plan =
             {x \in DOMAIN EventAggregate : x \notin DOMAIN rollup \/ rollup[x] # EventAggregate[x]}
        /\ \A x \in DOMAIN script.plan : script.plan[x] = EventAggregate[x]
    BY <1>1, <1>5 DEF HistInv, ScriptIsExact
  <2> QED BY <1>1, <2>1
<1>6. ScriptIsExact' BY <1>3, <1>4, <1>5 DEF ScriptIsExact
<1>7. rollup' = [b \in DOMAIN rollup' |-> rollup'[b]] BY <1>1
<1> QED BY <1>1, <1>4, <1>6, <1>7, ScriptMoves

LEMMA DeleteStaleRowsStep == HistInv /\ DeleteStaleRows => HistInv'
<1> SUFFICES ASSUME HistInv, DeleteStaleRows PROVE HistInv'
  OBVIOUS
<1>1. /\ script.pc = "stale" /\ script' = [script EXCEPT !.pc = "verify"]
      /\ rollup' = [b \in DOMAIN rollup \cap DOMAIN EventAggregate |-> rollup[b]]
      /\ UNCHANGED <<usage, totals, admin, ingest>>
  BY DEF DeleteStaleRows
<1>2. IsScript(script) BY <1>1, ScriptAtWork
<1>3. EventAggregate' = EventAggregate BY <1>1, SameEvents
<1>4. /\ script'.pc = "verify" /\ script'.limit = script.limit /\ script'.calm = script.calm
      /\ IsScript(script')
  BY <1>1, <1>2 DEF IsScript, ScriptPC
<1>5. EventAggregate = [b \in DOMAIN EventAggregate |-> EventAggregate[b]] BY DEF EventAggregate
<1>6. ASSUME script.calm, script.limit = None PROVE rollup' = EventAggregate
  <2>1. \A b \in DOMAIN EventAggregate : b \in DOMAIN rollup /\ rollup[b] = EventAggregate[b]
    BY <1>1, <1>6 DEF HistInv, ScriptIsExact
  <2> QED BY <1>1, <1>5, <2>1
<1>7. ScriptIsExact' BY <1>3, <1>4, <1>6 DEF ScriptIsExact
<1>8. rollup' = [b \in DOMAIN rollup' |-> rollup'[b]] BY <1>1
<1> QED BY <1>1, <1>4, <1>7, <1>8, ScriptMoves

(* The verification is silent exactly when the two agree.                  *)
LEMMA SilenceMeansEqual ==
    ASSUME HistInv
    PROVE  DisagreeingBuckets(EventAggregate) = {} <=> rollup = EventAggregate
<1> DEFINE g == EventAggregate
<1>1. g = [b \in DOMAIN g |-> g[b]] BY DEF EventAggregate
<1>2. rollup = [b \in DOMAIN rollup |-> rollup[b]] BY DEF HistInv, HistShape
<1> HIDE DEF g
<1>3. ASSUME DisagreeingBuckets(g) = {} PROVE rollup = g
  <2>1. \A b \in DOMAIN g \cup DOMAIN rollup : b \in DOMAIN g \cap DOMAIN rollup /\ rollup[b] = g[b]
    BY <1>3 DEF DisagreeingBuckets
  <2>2. DOMAIN g = DOMAIN rollup BY <2>1
  <2> QED BY <1>1, <1>2, <2>1, <2>2
<1>4. rollup = g => DisagreeingBuckets(g) = {} BY DEF DisagreeingBuckets
<1> QED BY <1>3, <1>4 DEF g

LEMMA VerifyRollupStep == HistInv /\ VerifyRollup => HistInv'
<1> SUFFICES ASSUME HistInv, VerifyRollup PROVE HistInv'
  OBVIOUS
<1>1. /\ script.pc = "verify" /\ UNCHANGED <<usage, totals, rollup, admin, ingest>>
      /\ script' = [script EXCEPT !.pc = "exit",
                                   !.code = IF DisagreeingBuckets(EventAggregate) = {} THEN 0 ELSE 1]
  BY DEF VerifyRollup
<1>2. IsScript(script) BY <1>1, ScriptAtWork
<1>3. EventAggregate' = EventAggregate BY <1>1, SameEvents
<1>4. /\ script'.pc = "exit" /\ script'.limit = script.limit /\ script'.calm = script.calm
      /\ script'.code = IF DisagreeingBuckets(EventAggregate) = {} THEN 0 ELSE 1
      /\ IsScript(script')
  BY <1>1, <1>2 DEF IsScript, ScriptPC
<1>5. script.calm /\ script.limit = None => rollup = EventAggregate
  BY <1>1 DEF HistInv, ScriptIsExact
<1>6. ScriptIsExact' BY <1>1, <1>3, <1>4, <1>5, SilenceMeansEqual DEF ScriptIsExact
<1> QED BY <1>1, <1>4, <1>6, ScriptMoves DEF HistInv, HistShape

LEMMA ScriptEndsStep == HistInv /\ ScriptEnds => HistInv'
<1> SUFFICES ASSUME HistInv, ScriptEnds PROVE HistInv'
  OBVIOUS
<1>1. script' = [pc |-> "idle"] /\ UNCHANGED <<usage, totals, rollup, admin, ingest>> BY DEF ScriptEnds
<1>2. ScriptIsExact' BY <1>1 DEF ScriptIsExact
<1> QED BY <1>1, <1>2, ScriptMoves DEF HistInv, HistShape

-----------------------------------------------------------------------------
LEMMA NextHist == HistInv /\ [HistNext]_histVars => HistInv'
<1> SUFFICES ASSUME HistInv, [HistNext]_histVars PROVE HistInv'
  OBVIOUS
<1>1. CASE UNCHANGED histVars
  <2>1. UNCHANGED <<usage, totals, rollup, script, admin, ingest>> BY <1>1 DEF histVars
  <2>2. ScriptIsExact' BY <2>1, SameEvents DEF ScriptIsExact, HistInv
  <2> QED BY <2>1, <2>2, ScriptMoves DEF HistInv, HistShape, IsScript
<1>2. ASSUME NEW a \in Admins, NEW scope \in Scopes, Scan(a, scope) PROVE HistInv' BY <1>2, ScanStep
<1>3. ASSUME NEW a \in Admins,
             \/ LockAndRescan(a) \/ NullAttempts(a) \/ DeleteEvents(a) \/ SumSessions(a)
             \/ CommitReconciliation(a) \/ Rollback(a) \/ AnswerRequest(a)
             \/ \E s \in HistSessions : WriteSession(a, s)
      PROVE  HistInv'
  BY <1>3, LockAndRescanStep, NullAttemptsStep, DeleteEventsStep, SumSessionsStep,
     CommitReconciliationStep, EndStep, WriteSessionStep
<1>4. ASSUME NEW e \in DOMAIN EventRows, CountRecord(e) \/ BookEvent(e) \/ MergeReplay(e)
      PROVE  HistInv'
  BY <1>4, CountRecordStep, BookEventStep, MergeReplayStep
<1>5. ASSUME NEW limit \in {None, 1}, CountMismatches(limit) PROVE HistInv' BY <1>5, CountMismatchesStep
<1>6. CASE RunBackfill \/ UpsertRollup \/ DeleteStaleRows \/ VerifyRollup \/ ScriptEnds
  BY <1>6, RunBackfillStep, UpsertRollupStep, DeleteStaleRowsStep, VerifyRollupStep, ScriptEndsStep
<1> QED BY <1>1, <1>2, <1>3, <1>4, <1>5, <1>6 DEF HistNext

(* No record that was booked is ever lost: whatever scopes reconcile at    *)
(* once, under different advisory locks and with rows that change between  *)
(* scan and delete, one event of it is left (perform_reconciliation).      *)
THEOREM RecordsStayBooked == HistSpec => []RecordsAreKept
<1>1. HistInv => RecordsAreKept BY OldRecordsAreBooked DEF RecordsAreKept
<1> QED BY <1>1, InitHist, NextHist, PTL DEF HistSpec

(* A reconciliation nobody interfered with leaves no duplicate in its      *)
(* scope and exact session totals; a backfill of the rollup nobody         *)
(* interfered with leaves the sums of the events, and says so only then.   *)
THEOREM RepairsStayExact == HistSpec => []RepairsAreExact
<1>1. HistInv => UndisturbedReconciliationIsExact
  <2> SUFFICES ASSUME HistInv, NEW a \in Admins, admin[a].pc = "committed", admin[a].calm
               PROVE  /\ ScanDuplicateGroups(admin[a].scope) = {}
                      /\ \A s \in Affected(a) :
                           InSessionOf(usage, s) # {} => totals[s] = SumOf(usage, InSessionOf(usage, s))
    BY DEF UndisturbedReconciliationIsExact
  <2>1. RequestIsExact(admin[a]) BY DEF HistInv, RequestsAreExact
  <2>2. Affected(a) = SessionsOf(admin[a].victims) BY DEF Affected, SessionsOf
  <2> QED BY <2>1, <2>2 DEF RequestIsExact
<1>2. HistInv => UndisturbedBackfillRepairs
  BY DEF HistInv, ScriptIsExact, UndisturbedBackfillRepairs
<1>3. HistInv => RepairsAreExact BY <1>1, <1>2 DEF RepairsAreExact
<1> QED BY <1>3, InitHist, NextHist, PTL DEF HistSpec

-----------------------------------------------------------------------------
(* Daily dashboards.  A bucket belongs to one job at a time; what a job    *)
(* read and what a row holds is behind the append-only events; and the     *)
(* buckets an undisturbed job is done with are exact.                      *)

JobFields == {"plan", "pc", "todo", "bucket", "query", "metrics", "undisturbed"}
JobPC == {"idle", "skipped", "discover", "next", "compute", "upsert", "verify", "ok", "mismatch",
          "error", "killed"}
Working == {"compute", "upsert"}

(* A job and what it has in hand: buckets, and the number of the query.    *)
IsJob(r) ==
    /\ DOMAIN r = JobFields /\ r.pc \in JobPC
    /\ r.plan \in Plans \/ (r.plan = NoPlan /\ r.pc = "idle")
    /\ r.pc \in {"next"} \cup Working => r.todo \subseteq Buckets /\ r.plan.kind \in {"refresh", "backfill"}
    /\ r.pc \in Working => r.bucket \in Buckets
    /\ r.pc = "compute" => r.query \in 1..Len(Queries(r.plan.table))
    /\ r.pc = "upsert" => r.query = Len(Queries(r.plan.table)) + 1

DashShape ==
    /\ facts \subseteq FactUniverse /\ IsFiniteSet(facts)
    /\ daily = [t \in Tables |-> daily[t]]
    /\ \A t \in Tables : daily[t] = [b \in Buckets |-> daily[t][b]]
    /\ dashJob = [j \in DashJobs |-> dashJob[j]]
    /\ \A j \in DashJobs : IsJob(dashJob[j])

(* At most one job works on a bucket at a time.                            *)
LocksHold ==
    /\ \A h, k \in locks : h[1] = k[1] => h[2] = k[2]
    /\ \A j \in DashJobs : dashJob[j].pc \in Working =>
         <<BucketLock(dashJob[j].plan.table, dashJob[j].bucket), j>> \in locks

(* Rows, and the metrics a job has read, are behind the events, and the    *)
(* metrics are not behind the row that they will replace.                  *)
EventColumns == {"opened", "merged", "closed"}

Behind(row, b) == \A c \in EventColumns : row[c] \in Nat /\ row[c] <= Having("event", c, b)

RowsAreBehind == \A b \in Buckets : daily["afk"][b] # None => Behind(daily["afk"][b], b)

ReadsAreBehind(r) ==
    r.plan.table = "afk" /\ r.pc \in Working /\ r.query > 2 =>
        /\ EventColumns \subseteq DOMAIN r.metrics
        /\ Behind(r.metrics, r.bucket)
        /\ daily["afk"][r.bucket] # None =>
             \A c \in EventColumns : daily["afk"][r.bucket][c] <= r.metrics[c]

(* The columns a job has read after n queries, if no fact changed.         *)
Columns(table, n, b) ==
    CASE table = "afk" /\ n = 1 -> RunsQuery(b)
      [] table = "afk" /\ n = 2 -> Joined(ChangeRequestQuery(b), RunsQuery(b))
      [] table = "afk" /\ n = 3 -> Joined(ExecutionQuery(b), Joined(ChangeRequestQuery(b), RunsQuery(b)))
      [] table = "afk" /\ n = 4 ->
           Joined(SessionQuery(b), Joined(ExecutionQuery(b), Joined(ChangeRequestQuery(b), RunsQuery(b))))
      [] n = 0 -> <<>>
      [] OTHER -> Aggregate(table, b)

(* What an undisturbed job has done: the buckets it has not yet to do are  *)
(* exact, and after the stale delete there is no disagreement.             *)
Window(plan) == {b \in CanonicalBuckets(plan.table) : InWindow(b, plan)}

JobIsExact(r) ==
    r.undisturbed /\ r.plan.kind \in {"refresh", "backfill"} =>
      /\ r.pc \in {"next"} \cup Working =>
           /\ r.todo \subseteq Window(r.plan)
           /\ \A b \in Window(r.plan) \ r.todo : daily[r.plan.table][b] = Aggregate(r.plan.table, b)
      /\ r.pc = "compute" => r.metrics = Columns(r.plan.table, r.query - 1, r.bucket)
      /\ r.pc = "upsert" => r.metrics = Aggregate(r.plan.table, r.bucket)
      /\ r.pc = "verify" => Disagreements(r.plan.table, r.plan) = {}
      /\ r.pc \in {"ok", "mismatch"} =>
           IF r.plan.kind = "backfill" THEN r.pc = "ok"
           ELSE \A b \in Window(r.plan) : daily[r.plan.table][b] = Aggregate(r.plan.table, b)

DashInv ==
    /\ DashShape /\ LocksHold /\ RowsAreBehind
    /\ \A j \in DashJobs : ReadsAreBehind(dashJob[j]) /\ JobIsExact(dashJob[j])

-----------------------------------------------------------------------------
(* The aggregation.                                                        *)

LEMMA JoinedType ==
    ASSUME NEW S, NEW T, NEW f \in [S -> Int], NEW g \in [T -> Int]
    PROVE  Joined(f, g) \in [S \cup T -> Int]
BY DEF Joined

LEMMA JoinedNothing == ASSUME NEW S, NEW f \in [S -> Int] PROVE Joined(f, <<>>) = f
BY DEF Joined

LEMMA CountType ==
    ASSUME DashShape, NEW P \in SUBSET facts PROVE Cardinality(P) \in Nat
BY FS_Subset, FS_CardinalityType DEF DashShape

LEMMA TokensType ==
    ASSUME DashShape, NEW P \in SUBSET facts, \A f \in P : f.kind = "usage"
    PROVE  Tokens(P) \in Int
<1> DEFINE g == [f \in P |-> f.tokens]
<1>1. IsFiniteSet(P) BY FS_Subset DEF DashShape
<1>2. \A f \in P : g[f] \in Int BY DashAssumption DEF DashShape
<1> HIDE DEF g
<1>3. SumFunctionOnSet(g, P) \in Int BY <1>1, <1>2, SumIsInt
<1> QED BY <1>3 DEF Tokens, g

LEMMA InIsFacts == \A t, k, b : In(t, k, b) \subseteq facts /\ \A f \in In(t, k, b) : f.kind = k
BY DEF In, Of

LEMMA HavingType == ASSUME DashShape, NEW k, NEW c, NEW b PROVE Having(k, c, b) \in Nat
<1>1. {f \in In("afk", k, b) : f.type = c} \in SUBSET facts BY InIsFacts
<1> QED BY <1>1, CountType DEF Having

(* Every query gives the integers of its columns.                          *)
LEMMA QueryTypes ==
    ASSUME DashShape, NEW b
    PROVE  /\ RunsQuery(b) \in [{"runs"} -> Int]
           /\ ChangeRequestQuery(b) \in [EventColumns -> Int]
           /\ ExecutionQuery(b) \in [{"executions", "successful", "failed", "cancelled"} -> Int]
           /\ SessionQuery(b) \in [{"sessions"} -> Int]
           /\ UsageQuery(b) \in [{"tokens"} -> Int]
           /\ UsageRecordsQuery(b) \in [UsageColumns -> Int]
<1>1. \A t, k : Cardinality(In(t, k, b)) \in Int
  <2> SUFFICES ASSUME NEW t, NEW k PROVE Cardinality(In(t, k, b)) \in Int OBVIOUS
  <2>1. In(t, k, b) \in SUBSET facts BY InIsFacts
  <2> QED BY <2>1, CountType
<1>2. \A t : Tokens(In(t, "usage", b)) \in Int
  <2> SUFFICES ASSUME NEW t PROVE Tokens(In(t, "usage", b)) \in Int OBVIOUS
  <2>1. In(t, "usage", b) \in SUBSET facts /\ \A f \in In(t, "usage", b) : f.kind = "usage" BY InIsFacts
  <2> QED BY <2>1, TokensType
<1>3. \A k, c : Having(k, c, b) \in Int BY HavingType
<1>4. ASSUME NEW n \in Int, NEW r, r = [runs |-> n] PROVE r \in [{"runs"} -> Int] BY <1>4
<1>5. ASSUME NEW n \in Int, NEW r, r = [sessions |-> n] PROVE r \in [{"sessions"} -> Int] BY <1>5
<1>6. ASSUME NEW n \in Int, NEW r, r = [tokens |-> n] PROVE r \in [{"tokens"} -> Int] BY <1>6
<1>7. RunsQuery(b) \in [{"runs"} -> Int] BY <1>1, <1>4 DEF RunsQuery
<1>8. SessionQuery(b) \in [{"sessions"} -> Int] BY <1>1, <1>5 DEF SessionQuery
<1>9. UsageQuery(b) \in [{"tokens"} -> Int] BY <1>2, <1>6 DEF UsageQuery
<1>10. ChangeRequestQuery(b) \in [EventColumns -> Int]
  BY <1>3 DEF ChangeRequestQuery, EventColumns
<1>11. ExecutionQuery(b) \in [{"executions", "successful", "failed", "cancelled"} -> Int]
  BY <1>1, <1>3 DEF ExecutionQuery
<1>12. UsageRecordsQuery(b) \in [UsageColumns -> Int]
  BY <1>1, <1>2 DEF UsageRecordsQuery, UsageColumns
<1> QED BY <1>7, <1>8, <1>9, <1>10, <1>11, <1>12

LEMMA AggregateType ==
    ASSUME DashShape, NEW t \in Tables, NEW b
    PROVE  /\ Aggregate("afk", b) \in [AfkColumns -> Int]
           /\ Aggregate("usage", b) \in [UsageColumns -> Int]
           /\ Aggregate(t, b) # None
<1> DEFINE E == {"executions", "successful", "failed", "cancelled"}
<1>1. Joined(ChangeRequestQuery(b), RunsQuery(b)) \in [EventColumns \cup {"runs"} -> Int]
  BY QueryTypes, JoinedType
<1>2. Joined(ExecutionQuery(b), Joined(ChangeRequestQuery(b), RunsQuery(b)))
        \in [E \cup (EventColumns \cup {"runs"}) -> Int]
  BY <1>1, QueryTypes, JoinedType
<1>3. Joined(SessionQuery(b), Joined(ExecutionQuery(b), Joined(ChangeRequestQuery(b), RunsQuery(b))))
        \in [{"sessions"} \cup (E \cup (EventColumns \cup {"runs"})) -> Int]
  BY <1>2, QueryTypes, JoinedType
<1>4. Aggregate("afk", b) \in [{"tokens"} \cup ({"sessions"} \cup (E \cup (EventColumns \cup {"runs"}))) -> Int]
  BY <1>3, QueryTypes, JoinedType DEF Aggregate
<1>5. {"tokens"} \cup ({"sessions"} \cup (E \cup (EventColumns \cup {"runs"}))) = AfkColumns
  BY DEF AfkColumns, EventColumns
<1>6. Aggregate("usage", b) \in [UsageColumns -> Int] BY QueryTypes DEF Aggregate
<1> QED BY <1>4, <1>5, <1>6, DashAssumption DEF Tables

LEMMA CanonicalAreBuckets ==
    ASSUME DashShape, NEW t PROVE CanonicalBuckets(t) \subseteq Buckets
<1> DEFINE Days == {f.day : f \in FactUniverse}
<1>1. \A f \in facts : f.day \in Days BY DEF DashShape
<1>2. \A f \in facts : f.kind \in {"run", "event", "binding"} => f.owner \in Owners BY DEF DashShape, Owners
<1>3. \A f \in facts : f.kind = "usage" => f.provider \in Owners BY DEF DashShape, Owners
<1>4. Buckets = Days \X Owners BY DEF Buckets
<1> HIDE DEF Days
<1>5. \A f : ReachedRuns(f) \subseteq {r \in facts : r.kind = "run"} BY DEF ReachedRuns, Of
<1>6. \A f \in facts : AfkCountsIn(f) \subseteq Buckets BY <1>1, <1>2, <1>4, <1>5 DEF AfkCountsIn
<1>7. \A f \in facts : UsageCountsIn(f) \subseteq Buckets BY <1>1, <1>3, <1>4 DEF UsageCountsIn
<1> QED BY <1>6, <1>7 DEF CanonicalBuckets, CountsIn

(* The aggregation depends on the facts alone.                             *)
LEMMA SameFacts ==
    ASSUME UNCHANGED facts
    PROVE  /\ \A t, b : Aggregate(t, b)' = Aggregate(t, b)
           /\ \A t, n, b : Columns(t, n, b)' = Columns(t, n, b)
           /\ \A t : CanonicalBuckets(t)' = CanonicalBuckets(t)
           /\ \A plan : Window(plan)' = Window(plan)
           /\ \A k, c, b : Having(k, c, b)' = Having(k, c, b)
<1>0. facts' = facts OBVIOUS
<1>1. \A k : Of(k)' = Of(k) BY <1>0, Zenon DEF Of
<1>2. \A s : Unambiguous(s)' = Unambiguous(s) BY <1>1, Zenon DEF Unambiguous
<1>3. \A f : ReachedRuns(f)' = ReachedRuns(f) BY <1>1, <1>2, Zenon DEF ReachedRuns
<1>4. \A f : AfkCountsIn(f)' = AfkCountsIn(f) BY <1>3, Zenon DEF AfkCountsIn
<1>5. \A t, f : CountsIn(t, f)' = CountsIn(t, f) BY <1>4 DEF CountsIn, UsageCountsIn
<1>6. \A t : CanonicalBuckets(t)' = CanonicalBuckets(t) BY <1>0, <1>5 DEF CanonicalBuckets
<1>7. \A t, k, b : In(t, k, b)' = In(t, k, b) BY <1>1, <1>5 DEF In
<1>8. \A k, c, b : Having(k, c, b)' = Having(k, c, b) BY <1>7, Zenon DEF Having
<1>9. \A b : /\ RunsQuery(b)' = RunsQuery(b) /\ ChangeRequestQuery(b)' = ChangeRequestQuery(b)
             /\ ExecutionQuery(b)' = ExecutionQuery(b) /\ SessionQuery(b)' = SessionQuery(b)
             /\ UsageQuery(b)' = UsageQuery(b) /\ UsageRecordsQuery(b)' = UsageRecordsQuery(b)
  BY <1>7, <1>8, Zenon DEF RunsQuery, ChangeRequestQuery, ExecutionQuery, SessionQuery, UsageQuery,
                           UsageRecordsQuery, Tokens
<1>10. \A t, b : Aggregate(t, b)' = Aggregate(t, b) BY <1>9 DEF Aggregate
<1>11. \A t, n, b : Columns(t, n, b)' = Columns(t, n, b)
  BY <1>9, <1>10 DEF Columns
<1>12. \A plan : Window(plan)' = Window(plan) BY <1>6 DEF Window, InWindow
<1> QED BY <1>6, <1>8, <1>10, <1>11, <1>12

(* What an undisturbed job knows is about the facts and the rows.          *)
LEMMA SameRows ==
    ASSUME UNCHANGED <<facts, daily>>
    PROVE  \A r : JobIsExact(r) => JobIsExact(r)'
<1> SUFFICES ASSUME NEW r, JobIsExact(r) PROVE JobIsExact(r)'
  OBVIOUS
<1>0. daily' = daily OBVIOUS
<1>1. Disagreements(r.plan.table, r.plan)' = Disagreements(r.plan.table, r.plan)
  <2>1. \A t, b : Aggregate(t, b)' = Aggregate(t, b) BY SameFacts
  <2>2. \A t : CanonicalBuckets(t)' = CanonicalBuckets(t) BY SameFacts
  <2> QED BY <1>0, <2>1, <2>2 DEF Disagreements
<1> QED BY <1>0, <1>1, SameFacts DEF JobIsExact

(* Events are only added, so that a count never falls.                     *)
EventsGrow == \A f \in facts : f.kind = "event" => f \in facts'

LEMMA HavingGrows ==
    ASSUME DashShape, DashShape', EventsGrow, NEW c, NEW b
    PROVE  /\ Having("event", c, b) \in Nat /\ Having("event", c, b)' \in Nat
           /\ Having("event", c, b) <= Having("event", c, b)'
<1> DEFINE P == {f \in In("afk", "event", b) : f.type = c}
           Q == {f \in In("afk", "event", b)' : f.type = c}
<1>1. P \subseteq Q
  <2> SUFFICES ASSUME NEW f \in P PROVE f \in Q OBVIOUS
  <2>1. /\ f \in facts /\ f.kind = "event" /\ f.type = c /\ b \in AfkCountsIn(f) /\ b[2] # None
    BY DEF In, Of, CountsIn
  <2>2. f \in facts' BY <2>1 DEF EventsGrow
  <2>3. b \in AfkCountsIn(f)' BY <2>1 DEF AfkCountsIn
  <2> QED BY <2>1, <2>2, <2>3 DEF In, Of, CountsIn
<1>2. Q \subseteq facts' BY DEF In, Of
<1>3. IsFiniteSet(Q) BY <1>2, FS_Subset DEF DashShape
<1>4. Cardinality(P) <= Cardinality(Q) /\ Cardinality(Q) \in Nat
  BY <1>1, <1>3, FS_Subset, FS_CardinalityType
<1> QED BY <1>4, HavingType DEF Having

-----------------------------------------------------------------------------
(* What a group of steps does to the invariant.                            *)

LEMMA SameReads ==
    ASSUME UNCHANGED <<facts, daily>>
    PROVE  (\A r : ReadsAreBehind(r) => ReadsAreBehind(r)') /\ (RowsAreBehind => RowsAreBehind')
<1>0. daily' = daily OBVIOUS
<1>1. \A k, c, b : Having(k, c, b)' = Having(k, c, b) BY SameFacts
<1>2. \A row, b : Behind(row, b)' <=> Behind(row, b) BY <1>1 DEF Behind
<1> QED BY <1>0, <1>2 DEF ReadsAreBehind, RowsAreBehind

(* A job that only moves on itself.                                        *)
LEMMA JobMoves ==
    ASSUME DashInv, NEW j \in DashJobs, NEW r, IsJob(r), ReadsAreBehind(r), JobIsExact(r),
           dashJob' = [dashJob EXCEPT ![j] = r], UNCHANGED <<facts, daily>>, LocksHold'
    PROVE  DashInv'
<1> USE DEF DashInv
<1>1. dashJob' = [x \in DashJobs |-> IF x = j THEN r ELSE dashJob[x]] BY DEF DashShape
<1>2. DashShape' BY <1>1 DEF DashShape, IsJob
<1>3. RowsAreBehind' BY SameReads
<1>4. ASSUME NEW x \in DashJobs PROVE ReadsAreBehind(dashJob[x])' /\ JobIsExact(dashJob[x])'
  <2>1. ReadsAreBehind(dashJob'[x]) /\ JobIsExact(dashJob'[x])
    <3>1. CASE x = j BY <1>1, <3>1
    <3>2. CASE x # j BY <1>1, <3>2
    <3> QED BY <3>1, <3>2
  <2>2. ReadsAreBehind(dashJob'[x]) => ReadsAreBehind(dashJob[x])' BY SameReads
  <2>3. JobIsExact(dashJob'[x]) => JobIsExact(dashJob[x])' BY SameRows
  <2> QED BY <2>1, <2>2, <2>3
<1> QED BY <1>2, <1>3, <1>4

(* Only its being undisturbed is taken from a job.                         *)
LEMMA Disturbed ==
    ASSUME NEW r, IsJob(r), NEW d
    PROVE  /\ IsJob([r EXCEPT !.undisturbed = d]) /\ [r EXCEPT !.undisturbed = d].undisturbed = d
           /\ \A c \in JobFields \ {"undisturbed"} : [r EXCEPT !.undisturbed = d][c] = r[c]
<1> DEFINE q == [r EXCEPT !.undisturbed = d]
<1>1. DOMAIN q = JobFields BY DEF IsJob
<1>2. q.undisturbed = d BY DEF IsJob, JobFields
<1>3. \A c \in JobFields \ {"undisturbed"} : q[c] = r[c] BY DEF IsJob
<1>4. /\ q.plan = r.plan /\ q.pc = r.pc /\ q.todo = r.todo /\ q.bucket = r.bucket
      /\ q.query = r.query /\ q.metrics = r.metrics
  BY <1>3 DEF JobFields
<1> HIDE DEF q
<1>5. IsJob(q) BY <1>1, <1>4 DEF IsJob
<1> QED BY <1>2, <1>3, <1>5 DEF q

LEMMA LocksReleased ==
    ASSUME LocksHold, NEW j \in DashJobs, locks' \subseteq locks,
           \A h \in locks : h[2] # j => h \in locks',
           dashJob'[j].pc \notin Working,
           \A x \in DashJobs \ {j} : /\ dashJob'[x].pc = dashJob[x].pc /\ dashJob'[x].plan = dashJob[x].plan
                                     /\ dashJob'[x].bucket = dashJob[x].bucket
    PROVE  LocksHold'
<1> SUFFICES ASSUME NEW x \in DashJobs, dashJob'[x].pc \in Working
             PROVE  <<BucketLock(dashJob'[x].plan.table, dashJob'[x].bucket), x>> \in locks'
  BY DEF LocksHold, BucketLock
<1>1. x # j OBVIOUS
<1>2. PICK l : l = BucketLock(dashJob[x].plan.table, dashJob[x].bucket)
  OBVIOUS
<1>3. <<l, x>> \in locks BY <1>1, <1>2 DEF LocksHold
<1>4. <<l, x>> \in locks' BY <1>1, <1>3
<1> QED BY <1>1, <1>2, <1>4 DEF BucketLock

-----------------------------------------------------------------------------
(* The writers.                                                            *)

LEMMA WriteStep ==
    ASSUME DashInv, NEW new, Write(new), new \subseteq FactUniverse, IsFiniteSet(new),
           \A f \in facts : f.kind = "event" => f \in new
    PROVE  DashInv'
<1> USE DEF DashInv
<1>1. /\ facts' = new /\ UNCHANGED <<daily, locks>>
      /\ dashJob' = [j \in DashJobs |-> [dashJob[j] EXCEPT !.undisturbed = FALSE]]
  BY DEF Write
<1>2. \A j \in DashJobs : dashJob'[j] = [dashJob[j] EXCEPT !.undisturbed = FALSE] BY <1>1
<1>3. \A j \in DashJobs : /\ IsJob(dashJob'[j]) /\ dashJob'[j].undisturbed = FALSE
                          /\ \A c \in JobFields \ {"undisturbed"} : dashJob'[j][c] = dashJob[j][c]
  <2> SUFFICES ASSUME NEW j \in DashJobs
               PROVE  /\ IsJob(dashJob'[j]) /\ dashJob'[j].undisturbed = FALSE
                      /\ \A c \in JobFields \ {"undisturbed"} : dashJob'[j][c] = dashJob[j][c]
    OBVIOUS
  <2>1. PICK r : r = dashJob[j] OBVIOUS
  <2>2. IsJob(r) /\ dashJob'[j] = [r EXCEPT !.undisturbed = FALSE] BY <1>2, <2>1 DEF DashShape
  <2> QED BY <2>1, <2>2, Disturbed
<1>4. \A j \in DashJobs : /\ dashJob'[j].plan = dashJob[j].plan /\ dashJob'[j].pc = dashJob[j].pc
                          /\ dashJob'[j].bucket = dashJob[j].bucket /\ dashJob'[j].query = dashJob[j].query
                          /\ dashJob'[j].metrics = dashJob[j].metrics
  BY <1>3 DEF JobFields
<1>5. DashShape' BY <1>1, <1>3, ZenonT(60) DEF DashShape, IsJob
<1>6. EventsGrow BY <1>1 DEF EventsGrow
<1>7. \A c, b : /\ Having("event", c, b) \in Nat /\ Having("event", c, b)' \in Nat
               /\ Having("event", c, b) <= Having("event", c, b)'
  BY <1>5, <1>6, HavingGrows
<1>8. \A row, b : Behind(row, b) => Behind(row, b)' BY <1>7 DEF Behind
<1>9. RowsAreBehind' BY <1>1, <1>8 DEF RowsAreBehind
<1>10. LocksHold' BY <1>1, <1>4 DEF LocksHold, BucketLock
<1>11. \A j \in DashJobs : ReadsAreBehind(dashJob[j])' BY <1>1, <1>4, <1>8 DEF ReadsAreBehind
<1>12. \A j \in DashJobs : JobIsExact(dashJob[j])' BY <1>3 DEF JobIsExact
<1> QED BY <1>5, <1>9, <1>10, <1>11, <1>12

LEMMA FactsStep == DashInv /\ (RecordFact \/ ReviseFact \/ RetractFact) => DashInv'
<1> SUFFICES ASSUME DashInv, RecordFact \/ ReviseFact \/ RetractFact PROVE DashInv'
  OBVIOUS
<1>0. facts \subseteq FactUniverse /\ IsFiniteSet(facts) BY DEF DashInv, DashShape
<1>1. CASE RecordFact
  <2>1. PICK f \in FactUniverse : Write(facts \cup {f}) BY <1>1 DEF RecordFact
  <2>2. IsFiniteSet(facts \cup {f}) BY <1>0, FS_AddElement
  <2> QED BY <1>0, <2>1, <2>2, WriteStep
<1>2. CASE ReviseFact
  <2>1. PICK f \in facts, g \in FactUniverse : f.kind # "event" /\ Write((facts \ {f}) \cup {g})
    BY <1>2 DEF ReviseFact
  <2>2. IsFiniteSet((facts \ {f}) \cup {g}) BY <1>0, FS_AddElement, FS_RemoveElement
  <2> QED BY <1>0, <2>1, <2>2, WriteStep
<1>3. CASE RetractFact
  <2>1. PICK f \in facts :
          /\ f.kind \in {"run", "usage"}
          /\ Write(facts \ ({f} \cup {l \in Of("link") : f.kind = "run" /\ l.run = f.id}))
    BY <1>3 DEF RetractFact
  <2> DEFINE gone == {f} \cup {l \in Of("link") : f.kind = "run" /\ l.run = f.id}
  <2>2. \A g \in gone : g.kind # "event" BY <2>1 DEF Of
  <2>3. IsFiniteSet(facts \ gone) BY <1>0, FS_Subset
  <2>4. Write(facts \ gone) BY <2>1
  <2> HIDE DEF gone
  <2> QED BY <1>0, <2>2, <2>3, <2>4, WriteStep
<1> QED BY <1>1, <1>2, <1>3

-----------------------------------------------------------------------------
(* The jobs.                                                               *)

LEMMA InitDash == DashInit => DashInv
<1> SUFFICES ASSUME DashInit PROVE DashInv
  OBVIOUS
<1>1. DOMAIN Asleep = JobFields /\ Asleep.pc = "idle" /\ Asleep.plan = NoPlan BY DEF Asleep, JobFields
<1>2. NoPlan.kind = "none" BY DEF NoPlan
<1>3. \A j \in DashJobs : dashJob[j] = Asleep BY DEF DashInit
<1>4. IsJob(Asleep) BY <1>1 DEF IsJob, JobPC, Working
<1>5. DashShape BY <1>3, <1>4, DashAssumption DEF DashInit, DashShape
<1>6. LocksHold BY <1>1, <1>3 DEF DashInit, LocksHold, Working
<1>7. RowsAreBehind BY DEF DashInit, RowsAreBehind, Tables
<1>8. ReadsAreBehind(Asleep) /\ JobIsExact(Asleep)
  BY <1>1, <1>2 DEF ReadsAreBehind, JobIsExact, Working
<1> QED BY <1>3, <1>5, <1>6, <1>7, <1>8 DEF DashInv

(* A job that is at no bucket needs only the fields of a job.              *)
LEMMA Resting ==
    ASSUME NEW r, r.pc \notin Working PROVE ReadsAreBehind(r)
BY DEF ReadsAreBehind

LEMMA StartRefreshStep ==
    ASSUME DashInv, NEW j \in DashJobs, StartRefresh(j) PROVE DashInv'
<1>1. PICK plan \in {p \in Plans : p.kind = "refresh"} :
        dashJob' = [dashJob EXCEPT ![j] =
          [Asleep EXCEPT !.plan = plan, !.pc = IF Free(RefreshLock) THEN "discover" ELSE "skipped"]]
  BY DEF StartRefresh
<1>2. /\ locks' = IF Free(RefreshLock) THEN locks \cup {<<RefreshLock, j>>} ELSE locks
      /\ UNCHANGED <<facts, daily>>
  BY DEF StartRefresh
<1> DEFINE r == [Asleep EXCEPT !.plan = plan, !.pc = IF Free(RefreshLock) THEN "discover" ELSE "skipped"]
<1>3. DOMAIN r = JobFields /\ r.plan = plan /\ r.pc \in {"discover", "skipped"}
  BY DEF Asleep, JobFields
<1>4. dashJob' = [dashJob EXCEPT ![j] = r] BY <1>1
<1> HIDE DEF r
<1>5. IsJob(r) BY <1>3 DEF IsJob, JobPC, Working
<1>6. ReadsAreBehind(r) BY <1>3, Resting DEF Working
<1>7. JobIsExact(r) BY <1>3 DEF JobIsExact, Working
<1>8. dashJob' = [x \in DashJobs |-> IF x = j THEN r ELSE dashJob[x]]
  BY <1>4 DEF DashInv, DashShape
<1>9. \A x \in DashJobs : dashJob'[x].pc \in Working => dashJob'[x] = dashJob[x]
  BY <1>3, <1>8 DEF Working
<1>10. \A h, k \in locks' : h[1] = k[1] => h[2] = k[2]
  <2>1. CASE Free(RefreshLock) BY <1>2, <2>1 DEF DashInv, LocksHold, Free
  <2>2. CASE ~Free(RefreshLock) BY <1>2, <2>2 DEF DashInv, LocksHold
  <2> QED BY <2>1, <2>2
<1>11. locks \subseteq locks' BY <1>2
<1>12. LocksHold' BY <1>9, <1>10, <1>11 DEF DashInv, LocksHold, BucketLock
<1> QED BY <1>2, <1>4, <1>5, <1>6, <1>7, <1>12, JobMoves

(* The locks of a step that takes none and after which the job is at no    *)
(* bucket.                                                                 *)
LEMMA LocksKept ==
    ASSUME DashInv, NEW j \in DashJobs, NEW r, dashJob' = [dashJob EXCEPT ![j] = r], r.pc \notin Working,
           locks' \subseteq locks, \A h \in locks : h[2] # j => h \in locks'
    PROVE  LocksHold'
<1>1. dashJob' = [x \in DashJobs |-> IF x = j THEN r ELSE dashJob[x]] BY DEF DashInv, DashShape
<1>2. dashJob'[j].pc \notin Working BY <1>1
<1>3. \A x \in DashJobs \ {j} : dashJob'[x] = dashJob[x] BY <1>1
<1> QED BY <1>2, <1>3, LocksReleased DEF DashInv

LEMMA StartBackfillStep ==
    ASSUME DashInv, NEW j \in DashJobs, StartBackfill(j) PROVE DashInv'
<1>1. PICK plan \in {p \in Plans : p.kind # "refresh"} :
        dashJob' = [dashJob EXCEPT ![j] = [Asleep EXCEPT !.plan = plan, !.pc = "discover"]]
  BY DEF StartBackfill
<1>2. UNCHANGED <<facts, daily, locks>> BY DEF StartBackfill
<1> DEFINE r == [Asleep EXCEPT !.plan = plan, !.pc = "discover"]
<1>3. DOMAIN r = JobFields /\ r.plan = plan /\ r.pc = "discover" BY DEF Asleep, JobFields
<1>4. dashJob' = [dashJob EXCEPT ![j] = r] BY <1>1
<1> HIDE DEF r
<1>5. IsJob(r) BY <1>3 DEF IsJob, JobPC, Working
<1>6. ReadsAreBehind(r) BY <1>3, Resting DEF Working
<1>7. JobIsExact(r) BY <1>3 DEF JobIsExact, Working
<1>8. LocksHold' BY <1>2, <1>3, <1>4, LocksKept DEF Working
<1> QED BY <1>2, <1>4, <1>5, <1>6, <1>7, <1>8, JobMoves

LEMMA DiscoverStep ==
    ASSUME DashInv, NEW j \in DashJobs, Discover(j) PROVE DashInv'
<1>1. PICK job : job = dashJob[j] OBVIOUS
<1> DEFINE W == {b \in CanonicalBuckets(job.plan.table) : InWindow(b, job.plan)}
<1>2. PICK pc : /\ job.plan.kind = "verify" => pc \in {"ok", "mismatch"}
                /\ job.plan.kind # "verify" => pc = "next"
                /\ dashJob' = [dashJob EXCEPT ![j].todo = W, ![j].pc = pc]
  <2>1. CASE job.plan.kind # "verify" BY <1>1, <2>1 DEF Discover
  <2>2. CASE job.plan.kind = "verify" BY <1>1, <2>2 DEF Discover
  <2> QED BY <2>1, <2>2
<1>3. job.pc = "discover" /\ UNCHANGED <<facts, daily, locks>> BY <1>1 DEF Discover
<1>4. IsJob(job) BY <1>1 DEF DashInv, DashShape
<1> DEFINE r == [job EXCEPT !.todo = W, !.pc = pc]
<1>5. dashJob' = [dashJob EXCEPT ![j] = r] BY <1>1, <1>2 DEF DashInv, DashShape
<1>6. DOMAIN r = JobFields /\ r.pc = pc /\ r.todo = W /\ r.plan = job.plan
  BY <1>4 DEF IsJob, JobFields
<1> HIDE DEF r
<1>7. W \subseteq Buckets BY CanonicalAreBuckets DEF DashInv
<1>8. job.plan \in Plans /\ job.plan.kind \in {"refresh", "backfill", "verify"}
  BY <1>3, <1>4, DashAssumption DEF IsJob
<1>9. IsJob(r) BY <1>2, <1>6, <1>7, <1>8 DEF IsJob, JobPC, Working
<1>10. r.pc \notin Working BY <1>2, <1>6, <1>8 DEF Working
<1>11. ReadsAreBehind(r) BY <1>10, Resting
<1>12. JobIsExact(r) BY <1>2, <1>6, <1>8 DEF JobIsExact, Working, Window
<1>13. LocksHold' BY <1>3, <1>5, <1>10, LocksKept
<1> QED BY <1>3, <1>5, <1>9, <1>11, <1>12, <1>13, JobMoves

(* Distinct buckets of a table have distinct locks.                        *)
LEMMA LocksAreDistinct ==
    ASSUME NEW b \in Buckets, NEW d \in Buckets, NEW t, BucketLock(t, b) = BucketLock(t, d)
    PROVE  b = d
BY DEF BucketLock, Buckets

LEMMA LockBucketStep ==
    ASSUME DashInv, NEW j \in DashJobs, LockBucket(j) PROVE DashInv'
<1>1. PICK job : job = dashJob[j] OBVIOUS
<1>2. job.pc = "next" /\ UNCHANGED <<facts, daily>> BY <1>1 DEF LockBucket
<1>3. PICK b \in job.todo :
        /\ Free(BucketLock(job.plan.table, b))
        /\ locks' = locks \cup {<<BucketLock(job.plan.table, b), j>>}
        /\ dashJob' = [dashJob EXCEPT ![j].bucket = b, ![j].query = 1, ![j].metrics = <<>>, ![j].pc = "compute"]
  BY <1>1 DEF LockBucket
<1> DEFINE r == [job EXCEPT !.bucket = b, !.query = 1, !.metrics = <<>>, !.pc = "compute"]
<1>4. dashJob' = [dashJob EXCEPT ![j] = r] BY <1>1, <1>3 DEF DashInv, DashShape
<1>5. IsJob(job) BY <1>1 DEF DashInv, DashShape
<1>6. /\ DOMAIN r = JobFields /\ r.pc = "compute" /\ r.todo = job.todo /\ r.plan = job.plan
      /\ r.bucket = b /\ r.query = 1 /\ r.metrics = <<>> /\ r.undisturbed = job.undisturbed
  BY <1>5 DEF IsJob, JobFields
<1> HIDE DEF r
<1>7. job.todo \subseteq Buckets /\ job.plan.kind \in {"refresh", "backfill"} BY <1>2, <1>5 DEF IsJob, Working
<1>8. 1 \in 1..Len(Queries(job.plan.table)) BY DEF Queries
<1>9. IsJob(r) BY <1>2, <1>3, <1>5, <1>6, <1>7, <1>8 DEF IsJob, JobPC, Working
<1>10. ReadsAreBehind(r) BY <1>6 DEF ReadsAreBehind
<1>11. JobIsExact(r)
  <2>1. JobIsExact(job) BY <1>1 DEF DashInv
  <2>2. Columns(job.plan.table, 0, b) = <<>> BY DEF Columns
  <2> QED BY <1>2, <1>6, <1>7, <2>1, <2>2 DEF JobIsExact, Working
<1>12. dashJob' = [x \in DashJobs |-> IF x = j THEN r ELSE dashJob[x]]
  BY <1>4 DEF DashInv, DashShape
<1>13. PICK l : l = BucketLock(job.plan.table, b) /\ l = BucketLock(dashJob'[j].plan.table, dashJob'[j].bucket)
  BY <1>6, <1>12
<1>14. \A h, k \in locks' : h[1] = k[1] => h[2] = k[2]
  <2>1. \A h \in locks : h[1] # l BY <1>3, <1>13 DEF Free
  <2>2. locks' = locks \cup {<<l, j>>} BY <1>3, <1>13
  <2> QED BY <2>1, <2>2 DEF DashInv, LocksHold
<1>15. <<l, j>> \in locks' /\ locks \subseteq locks' BY <1>3, <1>13
<1>16. \A x \in DashJobs \ {j} : dashJob'[x] = dashJob[x] BY <1>12
<1>17. LocksHold' BY <1>13, <1>14, <1>15, <1>16 DEF DashInv, LocksHold, BucketLock
<1> QED BY <1>2, <1>4, <1>9, <1>10, <1>11, <1>17, JobMoves

(* The n-th query of a recomputation adds the n-th columns.                *)
LEMMA QueryAdds ==
    ASSUME DashShape, NEW t \in Tables, NEW n \in 1..Len(Queries(t)), NEW b
    PROVE  Joined(Query(t, Queries(t)[n], b), Columns(t, n - 1, b)) =
             IF n = Len(Queries(t)) THEN Aggregate(t, b) ELSE Columns(t, n, b)
<1>1. CASE t = "afk"
  <2>1. Queries(t) = <<"runs", "events", "bindings", "links", "usage">> /\ Len(Queries(t)) = 5
    BY <1>1 DEF Queries
  <2>2. /\ Query(t, "runs", b) = RunsQuery(b) /\ Query(t, "events", b) = ChangeRequestQuery(b)
        /\ Query(t, "bindings", b) = ExecutionQuery(b) /\ Query(t, "links", b) = SessionQuery(b)
        /\ Query(t, "usage", b) = UsageQuery(b)
    BY DEF Query
  <2>3. n \in {1, 2, 3, 4, 5} BY <2>1
  <2>4. CASE n = 1
    <3>1. Joined(RunsQuery(b), <<>>) = RunsQuery(b) BY QueryTypes, JoinedNothing
    <3>2. Columns(t, 0, b) = <<>> /\ Columns(t, 1, b) = RunsQuery(b) BY <1>1 DEF Columns
    <3> QED BY <2>1, <2>2, <2>4, <3>1, <3>2
  <2>5. CASE n = 2 BY <1>1, <2>1, <2>2, <2>5 DEF Columns
  <2>6. CASE n = 3 BY <1>1, <2>1, <2>2, <2>6 DEF Columns
  <2>7. CASE n = 4
    <3>1. Columns(t, 4, b) = Joined(SessionQuery(b), Columns(t, 3, b)) BY <1>1 DEF Columns
    <3> QED BY <2>1, <2>2, <2>7, <3>1
  <2>8. CASE n = 5 BY <1>1, <2>1, <2>2, <2>8 DEF Columns, Aggregate
  <2> QED BY <2>3, <2>4, <2>5, <2>6, <2>7, <2>8
<1>2. CASE t = "usage"
  <2>1. Queries(t) = <<"records">> /\ Len(Queries(t)) = 1 /\ n = 1 BY <1>2 DEF Queries
  <2>2. Query(t, "records", b) = UsageRecordsQuery(b) BY DEF Query
  <2>3. Joined(UsageRecordsQuery(b), <<>>) = UsageRecordsQuery(b) BY QueryTypes, JoinedNothing
  <2>4. Columns(t, 0, b) = <<>> BY <1>2 DEF Columns
  <2> QED BY <1>2, <2>1, <2>2, <2>3, <2>4 DEF Aggregate
<1> QED BY <1>1, <1>2 DEF Tables

(* The second query of the first table counts the events; the later ones   *)
(* leave its columns.                                                      *)
LEMMA QueryReads ==
    ASSUME NEW b, NEW m
    PROVE  LET q == Joined(Query("afk", Queries("afk")[2], b), m)
           IN  EventColumns \subseteq DOMAIN q /\ \A c \in EventColumns : q[c] = Having("event", c, b)
<1> DEFINE k == Query("afk", Queries("afk")[2], b)
<1>1. k = ChangeRequestQuery(b) BY DEF Query, Queries
<1>2. DOMAIN k = EventColumns /\ \A c \in EventColumns : k[c] = Having("event", c, b)
  BY <1>1 DEF ChangeRequestQuery, EventColumns
<1> HIDE DEF k
<1>3. EventColumns \subseteq DOMAIN Joined(k, m) /\ \A c \in EventColumns : Joined(k, m)[c] = k[c]
  BY <1>2 DEF Joined
<1> QED BY <1>2, <1>3 DEF k

LEMMA QueryKeeps ==
    ASSUME NEW n \in {3, 4, 5}, NEW b, NEW m, EventColumns \subseteq DOMAIN m
    PROVE  LET q == Joined(Query("afk", Queries("afk")[n], b), m)
           IN  EventColumns \subseteq DOMAIN q /\ \A c \in EventColumns : q[c] = m[c]
<1> DEFINE k == Query("afk", Queries("afk")[n], b)
<1>1. Queries("afk") = <<"runs", "events", "bindings", "links", "usage">> BY DEF Queries
<1>2. /\ Query("afk", "bindings", b) = ExecutionQuery(b) /\ Query("afk", "links", b) = SessionQuery(b)
      /\ Query("afk", "usage", b) = UsageQuery(b)
  BY DEF Query
<1>3. k \in {ExecutionQuery(b), SessionQuery(b), UsageQuery(b)} BY <1>1, <1>2
<1>4. DOMAIN k \cap EventColumns = {}
  BY <1>3 DEF ExecutionQuery, SessionQuery, UsageQuery, EventColumns
<1> HIDE DEF k
<1>5. EventColumns \subseteq DOMAIN Joined(k, m) /\ \A c \in EventColumns : Joined(k, m)[c] = m[c]
  BY <1>4 DEF Joined
<1> QED BY <1>5 DEF k

(* An error, the end of a job and its death: the locks go, and the others  *)
(* notice nothing.                                                         *)
LEMMA GotoStep ==
    ASSUME DashInv, NEW j \in DashJobs, NEW pc \in JobPC \ ({"next"} \cup Working), dashJob[j].pc # "idle",
           Goto(j, pc), UNCHANGED <<facts, daily>>,
           locks' \subseteq locks, \A h \in locks : h[2] # j => h \in locks',
           \A r : /\ r.undisturbed = dashJob[j].undisturbed /\ r.plan = dashJob[j].plan /\ r.pc = pc
                  => JobIsExact(r)
    PROVE  DashInv'
<1>1. PICK job : job = dashJob[j] OBVIOUS
<1>2. IsJob(job) BY <1>1 DEF DashInv, DashShape
<1> DEFINE r == [job EXCEPT !.pc = pc]
<1>3. dashJob' = [dashJob EXCEPT ![j] = r] BY <1>1 DEF Goto, DashInv, DashShape
<1>4. DOMAIN r = JobFields /\ r.pc = pc /\ r.plan = job.plan /\ r.undisturbed = job.undisturbed
  BY <1>2 DEF IsJob, JobFields
<1> HIDE DEF r
<1>5. IsJob(r) BY <1>1, <1>2, <1>4 DEF IsJob, Working
<1>6. ReadsAreBehind(r) BY <1>4, Resting
<1>7. JobIsExact(r) BY <1>1, <1>4
<1>8. LocksHold' BY <1>3, <1>4, LocksKept
<1> QED BY <1>3, <1>5, <1>6, <1>7, <1>8, JobMoves

LEMMA ComputeStep ==
    ASSUME DashInv, NEW j \in DashJobs, Compute(j) PROVE DashInv'
<1>1. PICK job : job = dashJob[j] OBVIOUS
<1>2. PICK t : t = job.plan.table OBVIOUS
<1>3. job.pc = "compute" /\ UNCHANGED <<facts, daily>> BY <1>1 DEF Compute
<1>4. IsJob(job) /\ ReadsAreBehind(job) /\ JobIsExact(job) BY <1>1 DEF DashInv, DashShape
<1>5. /\ t \in Tables /\ job.query \in 1..Len(Queries(t)) /\ job.bucket \in Buckets
      /\ job.plan.kind \in {"refresh", "backfill"}
  BY <1>2, <1>3, <1>4, DashAssumption DEF IsJob, Working
<1>6. CASE Goto(j, "error") /\ locks' = {h \in locks : h[2] # j}
  <2>1. "error" \in JobPC \ ({"next"} \cup Working) BY DEF JobPC, Working
  <2>2. \A r : r.pc = "error" => JobIsExact(r) BY DEF JobIsExact, Working
  <2> QED BY <1>1, <1>3, <1>6, <2>1, <2>2, GotoStep
<1> DEFINE q == Query(t, Queries(t)[job.query], job.bucket)
           pc == IF job.query = Len(Queries(t)) THEN "upsert" ELSE "compute"
           r == [job EXCEPT !.metrics = Joined(q, job.metrics), !.query = job.query + 1, !.pc = pc]
<1>7. CASE /\ dashJob' = [dashJob EXCEPT ![j].metrics = Joined(q, job.metrics), ![j].query = job.query + 1,
                                        ![j].pc = pc]
           /\ UNCHANGED locks
  <2>1. dashJob' = [dashJob EXCEPT ![j] = r] BY <1>1, <1>7 DEF DashInv, DashShape
  <2>2. /\ DOMAIN r = JobFields /\ r.pc = pc /\ r.plan = job.plan /\ r.undisturbed = job.undisturbed
        /\ r.todo = job.todo /\ r.bucket = job.bucket /\ r.query = job.query + 1
        /\ r.metrics = Joined(q, job.metrics)
    BY <1>4 DEF IsJob, JobFields
  <2> HIDE DEF r, q
  <2>3. Len(Queries(t)) \in Nat BY DEF Queries
  <2>4. IsJob(r) BY <1>2, <1>3, <1>4, <1>5, <2>2, <2>3 DEF IsJob, JobPC, Working
  <2>5. ReadsAreBehind(r)
    <3> SUFFICES ASSUME t = "afk", job.query + 1 > 2
                 PROVE  /\ EventColumns \subseteq DOMAIN r.metrics
                        /\ Behind(r.metrics, job.bucket)
                        /\ daily["afk"][job.bucket] # None =>
                             \A c \in EventColumns : daily["afk"][job.bucket][c] <= r.metrics[c]
      BY <1>2, <2>2 DEF ReadsAreBehind
    <3>1. r.metrics = Joined(Query("afk", Queries("afk")[job.query], job.bucket), job.metrics)
      BY <2>2 DEF q
    <3>2. Len(Queries("afk")) = 5 BY DEF Queries
    <3>3. CASE job.query = 2
      <4>1. r.metrics = Joined(Query("afk", Queries("afk")[2], job.bucket), job.metrics) BY <3>1, <3>3
      <4>2. EventColumns \subseteq DOMAIN r.metrics /\ \A c \in EventColumns : r.metrics[c] = Having("event", c, job.bucket)
        BY <4>1, QueryReads
      <4>3. \A c \in EventColumns : Having("event", c, job.bucket) \in Nat BY HavingType DEF DashInv
      <4> QED BY <1>5, <4>2, <4>3 DEF Behind, DashInv, RowsAreBehind
    <3>4. CASE job.query > 2
      <4>1. /\ EventColumns \subseteq DOMAIN job.metrics /\ Behind(job.metrics, job.bucket)
            /\ daily["afk"][job.bucket] # None =>
                 \A c \in EventColumns : daily["afk"][job.bucket][c] <= job.metrics[c]
        BY <1>2, <1>3, <1>4, <3>4 DEF ReadsAreBehind, Working
      <4>2. job.query \in {3, 4, 5}
        <5>1. job.query \in 1..5 BY <1>5, <3>2
        <5> QED BY <3>4, <5>1
      <4>3. EventColumns \subseteq DOMAIN r.metrics /\ \A c \in EventColumns : r.metrics[c] = job.metrics[c]
        BY <3>1, <4>1, <4>2, QueryKeeps
      <4> QED BY <4>1, <4>3 DEF Behind
    <3> QED BY <1>5, <3>3, <3>4
  <2>6. JobIsExact(r)
    <3> SUFFICES ASSUME job.undisturbed PROVE JobIsExact(r) BY <2>2 DEF JobIsExact
    <3>1. /\ job.todo \subseteq Window(job.plan)
          /\ \A b \in Window(job.plan) \ job.todo : daily[t][b] = Aggregate(t, b)
          /\ job.metrics = Columns(t, job.query - 1, job.bucket)
      BY <1>2, <1>3, <1>4, <1>5 DEF JobIsExact, Working
    <3>2. r.metrics = IF job.query = Len(Queries(t)) THEN Aggregate(t, job.bucket)
                      ELSE Columns(t, job.query, job.bucket)
      BY <1>5, <2>2, <3>1, QueryAdds DEF DashInv, q
    <3>3. (job.query + 1) - 1 = job.query BY <1>5
    <3> QED BY <1>2, <2>2, <3>1, <3>2, <3>3 DEF JobIsExact, Working
  <2>7. LocksHold'
    <3>0. locks' = locks BY <1>7
    <3>1. dashJob' = [x \in DashJobs |-> IF x = j THEN r ELSE dashJob[x]]
      BY <2>1 DEF DashInv, DashShape
    <3>2. \A x \in DashJobs : /\ dashJob'[x].plan = dashJob[x].plan /\ dashJob'[x].bucket = dashJob[x].bucket
                              /\ dashJob'[x].pc \in Working => dashJob[x].pc \in Working
      BY <1>1, <1>3, <2>2, <3>1 DEF Working
    <3>3. \A x \in DashJobs : dashJob'[x].pc \in Working =>
            <<BucketLock(dashJob'[x].plan.table, dashJob'[x].bucket), x>> \in locks'
      BY <3>0, <3>2 DEF DashInv, LocksHold
    <3>4. \A h, k \in locks' : h[1] = k[1] => h[2] = k[2] BY <3>0 DEF DashInv, LocksHold
    <3> QED BY <3>3, <3>4 DEF LocksHold, BucketLock
  <2> QED BY <1>3, <2>1, <2>4, <2>5, <2>6, <2>7, JobMoves
<1> QED BY <1>1, <1>2, <1>6, <1>7 DEF Compute

(* The row is replaced under the lock of its bucket, so that no other job  *)
(* holds older metrics of it.                                              *)
LEMMA UpsertBucketStep ==
    ASSUME DashInv, NEW j \in DashJobs, UpsertBucket(j)
    PROVE  /\ DashInv'
           /\ \A b \in Buckets : daily["afk"][b] # None =>
                \A c \in EventColumns : daily'["afk"][b][c] >= daily["afk"][b][c]
<1>1. PICK job, t, b : job = dashJob[j] /\ t = job.plan.table /\ b = job.bucket OBVIOUS
<1>2. job.pc = "upsert" /\ UNCHANGED facts BY <1>1 DEF UpsertBucket
<1>3. IsJob(job) /\ ReadsAreBehind(job) /\ JobIsExact(job) BY <1>1 DEF DashInv, DashShape
<1>4. /\ t \in Tables /\ b \in Buckets /\ job.plan.kind \in {"refresh", "backfill"}
      /\ job.todo \subseteq Buckets
  BY <1>1, <1>2, <1>3, DashAssumption DEF IsJob, Working
<1>5. \A c \in EventColumns, d \in Buckets : daily["afk"][d] # None => daily["afk"][d][c] \in Nat
  BY DEF DashInv, RowsAreBehind, Behind
<1>6. CASE Goto(j, "error") /\ locks' = {h \in locks : h[2] # j} /\ UNCHANGED daily
  <2>1. "error" \in JobPC \ ({"next"} \cup Working) BY DEF JobPC, Working
  <2>2. \A r : r.pc = "error" => JobIsExact(r) BY DEF JobIsExact, Working
  <2>3. DashInv' BY <1>1, <1>2, <1>6, <2>1, <2>2, GotoStep
  <2> QED BY <1>5, <1>6, <2>3
<1> DEFINE r == [job EXCEPT !.todo = job.todo \ {b}, !.pc = "next"]
<1>7. CASE /\ daily' = [daily EXCEPT ![t][b] = job.metrics]
           /\ locks' = locks \ {<<BucketLock(t, b), j>>}
           /\ dashJob' = [i \in DashJobs |-> IF i = j THEN r ELSE [dashJob[i] EXCEPT !.undisturbed = FALSE]]
  <2>0. DashShape /\ LocksHold /\ RowsAreBehind BY DEF DashInv
  <2>1. /\ DOMAIN r = JobFields /\ r.pc = "next" /\ r.plan = job.plan /\ r.undisturbed = job.undisturbed
        /\ r.todo = job.todo \ {b} /\ dashJob'[j] = r
    BY <1>3, <1>7 DEF IsJob, JobFields
  <2>2. \A x \in DashJobs \ {j} :
          /\ IsJob(dashJob'[x]) /\ dashJob'[x].undisturbed = FALSE
          /\ \A c \in JobFields \ {"undisturbed"} : dashJob'[x][c] = dashJob[x][c]
    <3> SUFFICES ASSUME NEW x \in DashJobs \ {j}
                 PROVE  /\ IsJob(dashJob'[x]) /\ dashJob'[x].undisturbed = FALSE
                        /\ \A c \in JobFields \ {"undisturbed"} : dashJob'[x][c] = dashJob[x][c]
      OBVIOUS
    <3>1. PICK q : q = dashJob[x] OBVIOUS
    <3>2. IsJob(q) /\ dashJob'[x] = [q EXCEPT !.undisturbed = FALSE] BY <1>7, <2>0, <3>1 DEF DashShape
    <3> QED BY <3>1, <3>2, Disturbed
  <2>3. \A x \in DashJobs \ {j} :
          /\ dashJob'[x].plan = dashJob[x].plan /\ dashJob'[x].pc = dashJob[x].pc
          /\ dashJob'[x].bucket = dashJob[x].bucket /\ dashJob'[x].query = dashJob[x].query
          /\ dashJob'[x].metrics = dashJob[x].metrics
    BY <2>2 DEF JobFields
  <2> HIDE DEF r
  <2>4. daily' = [s \in Tables |-> [d \in Buckets |-> IF s = t /\ d = b THEN job.metrics ELSE daily[s][d]]]
    BY <1>4, <1>7, <2>0 DEF DashShape
  <2>5. IsJob(r)
    <3>1. job.plan \in Plans BY <1>2, <1>3 DEF IsJob
    <3> QED BY <1>4, <2>1, <3>1 DEF IsJob, JobPC, Working
  <2>6. DashShape'
    <3>1. dashJob' = [x \in DashJobs |-> dashJob'[x]] BY <1>7
    <3>2. \A x \in DashJobs : IsJob(dashJob'[x]) BY <2>1, <2>2, <2>5
    <3>3. daily' = [s \in Tables |-> daily'[s]] /\ \A s \in Tables : daily'[s] = [d \in Buckets |-> daily'[s][d]]
      BY <2>4
    <3> QED BY <1>2, <2>0, <3>1, <3>2, <3>3 DEF DashShape, IsJob
  <2>7. LocksHold'
    <3>1. \A h \in locks : h[2] # j => h \in locks' BY <1>7
    <3>2. locks' \subseteq locks BY <1>7
    <3>3. dashJob'[j].pc \notin Working BY <2>1 DEF Working
    <3> QED BY <2>0, <2>3, <3>1, <3>2, <3>3, LocksReleased
  <2>8. t = "afk" =>
          /\ Behind(job.metrics, b)
          /\ daily["afk"][b] # None => \A c \in EventColumns : daily["afk"][b][c] <= job.metrics[c]
    <3>1. t = "afk" => job.query > 2 BY <1>1, <1>2, <1>3 DEF IsJob, Queries
    <3> QED BY <1>1, <1>2, <1>3, <3>1 DEF ReadsAreBehind, Working
  <2>9. \A k, c, d : Having(k, c, d)' = Having(k, c, d) BY <1>2, SameFacts
  <2>10. \A row, d : Behind(row, d)' <=> Behind(row, d) BY <2>9 DEF Behind
  <2>11. RowsAreBehind' BY <2>0, <2>4, <2>8, <2>10 DEF RowsAreBehind, Tables
  <2>12. \A x \in DashJobs : ReadsAreBehind(dashJob[x])'
    <3> SUFFICES ASSUME NEW x \in DashJobs, dashJob'[x].plan.table = "afk", dashJob'[x].pc \in Working,
                        dashJob'[x].query > 2
                 PROVE  /\ EventColumns \subseteq DOMAIN dashJob'[x].metrics
                        /\ Behind(dashJob[x].metrics, dashJob[x].bucket)'
                        /\ daily'["afk"][dashJob'[x].bucket] # None =>
                             \A c \in EventColumns :
                               daily'["afk"][dashJob'[x].bucket][c] <= dashJob'[x].metrics[c]
      BY DEF ReadsAreBehind
    <3>1. x # j BY <2>1 DEF Working
    <3>2. PICK d : d = dashJob[x].bucket /\ d = dashJob'[x].bucket BY <2>3, <3>1
    <3>3. d \in Buckets BY <2>0, <2>3, <3>1, <3>2 DEF DashShape, IsJob
    <3>4. t = "afk" => d # b
      <4> SUFFICES ASSUME t = "afk", d = b PROVE FALSE OBVIOUS
      <4>1. PICK l : l = BucketLock("afk", b) OBVIOUS
      <4>2. <<l, x>> \in locks BY <2>0, <2>3, <3>1, <3>2, <4>1 DEF LocksHold
      <4>3. <<l, j>> \in locks BY <1>1, <1>2, <2>0, <4>1 DEF LocksHold, Working
      <4> QED BY <2>0, <3>1, <4>2, <4>3 DEF LocksHold
    <3>5. daily'["afk"][d] = daily["afk"][d] BY <2>4, <3>3, <3>4 DEF Tables
    <3>6. ReadsAreBehind(dashJob[x]) BY DEF DashInv
    <3>7. /\ EventColumns \subseteq DOMAIN dashJob[x].metrics /\ Behind(dashJob[x].metrics, d)
          /\ daily["afk"][d] # None => \A c \in EventColumns : daily["afk"][d][c] <= dashJob[x].metrics[c]
      BY <2>3, <3>1, <3>2, <3>6 DEF ReadsAreBehind
    <3>8. PICK m : m = dashJob[x].metrics /\ m = dashJob'[x].metrics BY <2>3, <3>1
    <3>9. Behind(dashJob[x].metrics, dashJob[x].bucket)' BY <2>9, <3>2, <3>7, <3>8 DEF Behind
    <3> QED BY <3>2, <3>5, <3>7, <3>8, <3>9
  <2>13. \A x \in DashJobs \ {j} : JobIsExact(dashJob[x])' BY <2>2 DEF JobIsExact
  <2>14. JobIsExact(dashJob[j])'
    <3> SUFFICES ASSUME job.undisturbed
                 PROVE  /\ job.todo \ {b} \subseteq Window(job.plan)'
                        /\ \A d \in Window(job.plan)' \ (job.todo \ {b}) : daily'[t][d] = Aggregate(t, d)'
      BY <1>1, <2>1 DEF JobIsExact, Working
    <3>1. Window(job.plan)' = Window(job.plan) /\ \A d : Aggregate(t, d)' = Aggregate(t, d)
      BY <1>2, SameFacts
    <3>2. /\ job.todo \subseteq Window(job.plan) /\ job.metrics = Aggregate(t, b)
          /\ \A d \in Window(job.plan) \ job.todo : daily[t][d] = Aggregate(t, d)
      BY <1>1, <1>2, <1>3, <1>4 DEF JobIsExact, Working
    <3>3. Window(job.plan) \subseteq Buckets BY <2>0, CanonicalAreBuckets DEF Window
    <3> QED BY <1>4, <2>4, <3>1, <3>2, <3>3
  <2>15. DashInv' BY <2>6, <2>7, <2>11, <2>12, <2>13, <2>14 DEF DashInv
  <2>16. ASSUME NEW d \in Buckets, daily["afk"][d] # None, NEW c \in EventColumns
         PROVE  daily'["afk"][d][c] >= daily["afk"][d][c]
    <3>1. CASE t = "afk" /\ d = b
      <4>1. daily'["afk"][d] = job.metrics BY <2>4, <2>16, <3>1 DEF Tables
      <4>2. daily["afk"][d][c] <= job.metrics[c] /\ job.metrics[c] \in Nat BY <2>8, <2>16, <3>1 DEF Behind
      <4> QED BY <1>5, <2>16, <4>1, <4>2
    <3>2. CASE ~ (t = "afk" /\ d = b)
      <4>1. daily'["afk"][d] = daily["afk"][d] BY <2>4, <2>16, <3>2 DEF Tables
      <4> QED BY <1>5, <2>16, <4>1
    <3> QED BY <3>1, <3>2
  <2> QED BY <2>15, <2>16
<1> QED BY <1>1, <1>6, <1>7 DEF UpsertBucket

LEMMA EndRefreshStep ==
    ASSUME DashInv, NEW j \in DashJobs, EndRefresh(j) PROVE DashInv'
<1>1. PICK job : job = dashJob[j] OBVIOUS
<1>2. /\ job.pc = "next" /\ job.todo = {} /\ job.plan.kind = "refresh" /\ Goto(j, "ok")
      /\ locks' = locks \ {<<RefreshLock, j>>} /\ UNCHANGED <<facts, daily>>
  BY <1>1 DEF EndRefresh
<1>3. "ok" \in JobPC \ ({"next"} \cup Working) BY DEF JobPC, Working
<1>4. \A h \in locks : h[2] # j => h \in locks' BY <1>2
<1>5. JobIsExact(job) BY <1>1 DEF DashInv
<1>6. \A r : r.undisturbed = job.undisturbed /\ r.plan = job.plan /\ r.pc = "ok" => JobIsExact(r)
  BY <1>2, <1>5 DEF JobIsExact, Working
<1>7. locks' \subseteq locks BY <1>2
<1> QED BY <1>1, <1>2, <1>3, <1>4, <1>6, <1>7, GotoStep

LEMMA VerifyStep ==
    ASSUME DashInv, NEW j \in DashJobs, Verify(j) PROVE DashInv'
<1>1. PICK job : job = dashJob[j] OBVIOUS
<1>2. PICK pc : /\ pc = IF Disagreements(job.plan.table, job.plan) = {} THEN "ok" ELSE "mismatch"
                /\ Goto(j, pc)
  BY <1>1 DEF Verify
<1>3. job.pc = "verify" /\ UNCHANGED <<facts, daily, locks>> BY <1>1 DEF Verify
<1>4. pc \in JobPC \ ({"next"} \cup Working) BY <1>2 DEF JobPC, Working
<1>5. JobIsExact(job) /\ IsJob(job) BY <1>1 DEF DashInv, DashShape
<1>6. ASSUME NEW r, r.undisturbed = job.undisturbed, r.plan = job.plan, r.pc = pc PROVE JobIsExact(r)
  <2> SUFFICES ASSUME job.undisturbed, job.plan.kind \in {"refresh", "backfill"}
               PROVE  IF job.plan.kind = "backfill" THEN pc = "ok"
                      ELSE \A b \in Window(job.plan) : daily[job.plan.table][b] = Aggregate(job.plan.table, b)
    BY <1>2, <1>6 DEF JobIsExact, Working
  <2>1. Disagreements(job.plan.table, job.plan) = {} BY <1>3, <1>5 DEF JobIsExact
  <2>2. \A b \in Window(job.plan) : daily[job.plan.table][b] = Aggregate(job.plan.table, b)
    <3>1. Window(job.plan) \subseteq Buckets BY CanonicalAreBuckets DEF Window, DashInv
    <3> QED BY <2>1, <3>1 DEF Disagreements, Window
  <2> QED BY <1>2, <2>1, <2>2
<1> QED BY <1>1, <1>2, <1>3, <1>4, <1>6, GotoStep

LEMMA KillJobStep ==
    ASSUME DashInv, NEW j \in DashJobs, KillJob(j) PROVE DashInv'
<1>1. /\ dashJob[j].pc \in {"next", "compute", "upsert"} /\ Goto(j, "killed")
      /\ locks' = {h \in locks : h[2] # j} /\ UNCHANGED <<facts, daily>>
  BY DEF KillJob
<1>2. "killed" \in JobPC \ ({"next"} \cup Working) BY DEF JobPC, Working
<1>3. \A r : r.pc = "killed" => JobIsExact(r) BY DEF JobIsExact, Working
<1> QED BY <1>1, <1>2, <1>3, GotoStep

(* The stale delete of an undisturbed backfill ends the disagreements; a   *)
(* job whose row it takes away notices.                                    *)
LEMMA DeleteStaleStep ==
    ASSUME DashInv, NEW j \in DashJobs, DeleteStale(j)
    PROVE  /\ DashInv'
           /\ \A b \in Buckets : daily'["afk"][b] # None => daily'["afk"][b] = daily["afk"][b]
<1>1. PICK job, t, gone : job = dashJob[j] /\ t = job.plan.table /\ gone = StaleRows(t, job.plan) OBVIOUS
<1>2. /\ job.pc = "next" /\ job.todo = {} /\ job.plan.kind = "backfill"
      /\ daily' = [daily EXCEPT ![t] = [b \in Buckets |-> IF b \in gone THEN None ELSE @[b]]]
      /\ UNCHANGED <<facts, locks>>
  BY <1>1 DEF DeleteStale
<1> DEFINE r == [job EXCEPT !.pc = "verify"]
<1>3. dashJob' = [i \in DashJobs |-> IF i = j THEN r ELSE [dashJob[i] EXCEPT !.undisturbed = @ /\ gone = {}]]
  BY <1>1 DEF DeleteStale
<1>4. DashShape /\ LocksHold /\ RowsAreBehind BY DEF DashInv
<1>5. IsJob(job) /\ JobIsExact(job) BY <1>1, <1>4 DEF DashInv, DashShape
<1>6. job.plan \in Plans /\ t \in Tables BY <1>1, <1>2, <1>5, DashAssumption DEF IsJob
<1>7. /\ DOMAIN r = JobFields /\ r.pc = "verify" /\ r.plan = job.plan /\ r.undisturbed = job.undisturbed
      /\ dashJob'[j] = r
  BY <1>3, <1>5 DEF IsJob, JobFields
<1> HIDE DEF r
<1>8. \A x \in DashJobs \ {j} :
        /\ IsJob(dashJob'[x]) /\ dashJob'[x].undisturbed = (dashJob[x].undisturbed /\ gone = {})
        /\ \A c \in JobFields \ {"undisturbed"} : dashJob'[x][c] = dashJob[x][c]
  <2> SUFFICES ASSUME NEW x \in DashJobs \ {j}
               PROVE  /\ IsJob(dashJob'[x]) /\ dashJob'[x].undisturbed = (dashJob[x].undisturbed /\ gone = {})
                      /\ \A c \in JobFields \ {"undisturbed"} : dashJob'[x][c] = dashJob[x][c]
    OBVIOUS
  <2>1. PICK q : q = dashJob[x] OBVIOUS
  <2>2. PICK d : d = (q.undisturbed /\ gone = {}) OBVIOUS
  <2>3. IsJob(q) BY <1>4, <2>1 DEF DashShape
  <2>4. dashJob'[x] = [q EXCEPT !.undisturbed = d] BY <1>3, <2>1, <2>2
  <2> QED BY <2>1, <2>2, <2>3, <2>4, Disturbed
<1>9. \A x \in DashJobs \ {j} :
        /\ dashJob'[x].plan = dashJob[x].plan /\ dashJob'[x].pc = dashJob[x].pc
        /\ dashJob'[x].todo = dashJob[x].todo
        /\ dashJob'[x].bucket = dashJob[x].bucket /\ dashJob'[x].query = dashJob[x].query
        /\ dashJob'[x].metrics = dashJob[x].metrics
  BY <1>8 DEF JobFields
<1>10. daily' = [s \in Tables |-> [d \in Buckets |-> IF s = t /\ d \in gone THEN None ELSE daily[s][d]]]
  BY <1>2, <1>4, <1>6 DEF DashShape
<1>11. DashShape'
  <2>1. IsJob(r) BY <1>6, <1>7 DEF IsJob, JobPC, Working
  <2>2. dashJob' = [x \in DashJobs |-> dashJob'[x]] BY <1>3
  <2>3. \A x \in DashJobs : IsJob(dashJob'[x]) BY <1>7, <1>8, <2>1
  <2>4. daily' = [s \in Tables |-> daily'[s]] /\ \A s \in Tables : daily'[s] = [d \in Buckets |-> daily'[s][d]]
    BY <1>10
  <2> QED BY <1>2, <1>4, <2>2, <2>3, <2>4 DEF DashShape, IsJob
<1>12. LocksHold'
  <2>1. dashJob'[j].pc \notin Working BY <1>7 DEF Working
  <2> QED BY <1>2, <1>4, <1>9, <2>1, LocksReleased
<1>13. \A k, c, d : Having(k, c, d)' = Having(k, c, d) BY <1>2, SameFacts
<1>14. \A row, d : Behind(row, d)' <=> Behind(row, d) BY <1>13 DEF Behind
<1>15. \A b \in Buckets : daily'["afk"][b] # None => daily'["afk"][b] = daily["afk"][b]
  BY <1>10 DEF Tables
<1>16. RowsAreBehind' BY <1>4, <1>14, <1>15 DEF RowsAreBehind
<1>17. \A x \in DashJobs : ReadsAreBehind(dashJob[x])'
  <2>1. ReadsAreBehind(dashJob[j])' BY <1>7 DEF ReadsAreBehind, Working
  <2>2. ASSUME NEW x \in DashJobs \ {j} PROVE ReadsAreBehind(dashJob[x])'
    <3>1. ReadsAreBehind(dashJob[x]) /\ IsJob(dashJob[x]) BY <1>4 DEF DashInv, DashShape
    <3>2. dashJob[x].pc \in Working => dashJob[x].bucket \in Buckets BY <3>1 DEF IsJob
    <3> QED BY <1>9, <1>13, <1>15, <3>1, <3>2 DEF ReadsAreBehind, Behind
  <2> QED BY <2>1, <2>2
<1>18. JobIsExact(dashJob[j])'
  <2> SUFFICES ASSUME job.undisturbed PROVE Disagreements(t, job.plan)' = {}
    BY <1>1, <1>2, <1>7 DEF JobIsExact, Working
  <2>1. \A b \in Window(job.plan) : daily[t][b] = Aggregate(t, b)
    BY <1>1, <1>2, <1>5 DEF JobIsExact
  <2>2. \A b : Aggregate(t, b) # None BY <1>4, <1>6, AggregateType
  <2>3. /\ CanonicalBuckets(t)' = CanonicalBuckets(t)
        /\ \A b : Aggregate(t, b)' = Aggregate(t, b)
    BY <1>2, SameFacts
  <2>4. ASSUME NEW b \in Buckets, InWindow(b, job.plan)
        PROVE  IF b \in CanonicalBuckets(t) THEN daily'[t][b] = Aggregate(t, b) ELSE daily'[t][b] = None
    <3>1. CASE b \in CanonicalBuckets(t)
      <4>1. b \notin gone BY <1>1, <3>1 DEF StaleRows
      <4>2. b \in Window(job.plan) BY <1>1, <2>4, <3>1 DEF Window
      <4> QED BY <1>6, <1>10, <2>1, <3>1, <4>1, <4>2
    <3>2. CASE b \notin CanonicalBuckets(t)
      <4>1. daily[t][b] # None => b \in gone BY <1>1, <2>4, <3>2 DEF StaleRows
      <4> QED BY <1>6, <1>10, <3>2, <4>1
    <3> QED BY <3>1, <3>2
  <2>5. \A b \in Buckets : InWindow(b, job.plan) =>
          /\ (daily'[t][b] # None) = (b \in CanonicalBuckets(t)')
          /\ b \in CanonicalBuckets(t)' => daily'[t][b] = Aggregate(t, b)'
    BY <2>2, <2>3, <2>4
  <2> QED BY <2>5 DEF Disagreements, InWindow
<1>19. ASSUME NEW x \in DashJobs \ {j} PROVE JobIsExact(dashJob[x])'
  <2>1. CASE gone # {} BY <1>8, <2>1 DEF JobIsExact
  <2>2. CASE gone = {}
    <3>1. daily' = daily BY <1>4, <1>10, <2>2 DEF DashShape
    <3>2. \A q : JobIsExact(q) => JobIsExact(q)' BY <1>2, <3>1, SameRows
    <3>3. JobIsExact(dashJob[x]) BY DEF DashInv
    <3>4. JobIsExact(dashJob'[x])
      <4>1. dashJob'[x].undisturbed => dashJob[x].undisturbed BY <1>8
      <4> QED BY <1>9, <3>3, <4>1 DEF JobIsExact
    <3> QED BY <3>2, <3>4
  <2> QED BY <2>1, <2>2
<1>20. DashInv' BY <1>11, <1>12, <1>16, <1>17, <1>18, <1>19 DEF DashInv
<1> QED BY <1>15, <1>20

-----------------------------------------------------------------------------
LEMMA NextDash ==
    DashInv /\ [DashNext]_dashVars =>
      /\ DashInv'
      /\ \A b \in Buckets : daily["afk"][b] # None /\ daily'["afk"][b] # None =>
           \A c \in EventColumns : daily'["afk"][b][c] >= daily["afk"][b][c]
<1> DEFINE Counted == \A b \in Buckets : daily["afk"][b] # None /\ daily'["afk"][b] # None =>
                        \A c \in EventColumns : daily'["afk"][b][c] >= daily["afk"][b][c]
<1> SUFFICES ASSUME DashInv, [DashNext]_dashVars PROVE DashInv' /\ Counted
  OBVIOUS
<1>0. \A b \in Buckets : daily["afk"][b] # None => \A c \in EventColumns : daily["afk"][b][c] \in Nat
  BY DEF DashInv, RowsAreBehind, Behind
<1>1. (\A b \in Buckets : daily'["afk"][b] # None => daily'["afk"][b] = daily["afk"][b]) => Counted
  BY <1>0
<1>2. UNCHANGED daily => Counted BY <1>1
<1> HIDE DEF Counted
<1>3. CASE UNCHANGED dashVars
  <2>1. UNCHANGED <<facts, daily, dashJob, locks>> BY <1>3 DEF dashVars
  <2>2. DashShape' /\ LocksHold' BY <2>1 DEF DashInv, DashShape, IsJob, LocksHold, BucketLock
  <2>3. RowsAreBehind' BY <2>1, SameReads DEF DashInv
  <2>4. \A j \in DashJobs : ReadsAreBehind(dashJob[j])' BY <2>1, SameReads DEF DashInv
  <2>5. \A j \in DashJobs : JobIsExact(dashJob[j])' BY <2>1, SameRows DEF DashInv
  <2> QED BY <1>2, <2>1, <2>2, <2>3, <2>4, <2>5 DEF DashInv
<1>4. CASE RecordFact \/ ReviseFact \/ RetractFact
  <2>1. UNCHANGED daily BY <1>4 DEF RecordFact, ReviseFact, RetractFact, Write
  <2> QED BY <1>2, <1>4, <2>1, FactsStep
<1>5. ASSUME NEW j \in DashJobs,
             \/ StartRefresh(j) \/ StartBackfill(j) \/ Discover(j) \/ LockBucket(j) \/ Compute(j)
             \/ EndRefresh(j) \/ Verify(j) \/ KillJob(j)
      PROVE  DashInv' /\ Counted
  <2>1. UNCHANGED daily
    BY <1>5 DEF StartRefresh, StartBackfill, Discover, LockBucket, Compute, EndRefresh, Verify, KillJob
  <2>2. StartRefresh(j) \/ StartBackfill(j) => DashInv' BY StartRefreshStep, StartBackfillStep
  <2>3. Discover(j) \/ LockBucket(j) => DashInv' BY DiscoverStep, LockBucketStep
  <2>4. Compute(j) \/ EndRefresh(j) => DashInv' BY ComputeStep, EndRefreshStep
  <2>5. Verify(j) \/ KillJob(j) => DashInv' BY VerifyStep, KillJobStep
  <2> QED BY <1>2, <1>5, <2>1, <2>2, <2>3, <2>4, <2>5, ZenonT(60)
<1>6. ASSUME NEW j \in DashJobs, UpsertBucket(j) PROVE DashInv' /\ Counted
  BY <1>6, UpsertBucketStep DEF Counted
<1>7. ASSUME NEW j \in DashJobs, DeleteStale(j) PROVE DashInv' /\ Counted
  BY <1>1, <1>7, DeleteStaleStep
<1>8. DashInv' /\ Counted BY <1>3, <1>4, <1>5, <1>6, <1>7 DEF DashNext
<1> QED BY <1>8 DEF Counted

(* When the verification of a window is silent, every row of a period is   *)
(* the aggregate of its bucket, and so is their sum.                       *)
LEMMA SilenceMeansExact == DashInv => VerifiedSummaryIsExact
<1> SUFFICES ASSUME DashInv, NEW plan \in {dashJob[j].plan : j \in DashJobs},
                    Disagreements(plan.table, plan) = {},
                    NEW b \in CanonicalBuckets(plan.table), InWindow(b, plan),
                    NEW c \in DOMAIN Aggregate(plan.table, b)
             PROVE  (IF plan.table = "afk" THEN AfkSummary(plan, Month(b[1]), b[2], c)
                                           ELSE UsageSummary(plan, Month(b[1]), b[2], c)) =
                    LET period == {d \in CanonicalBuckets(plan.table) :
                                     InWindow(d, plan) /\ Month(d[1]) = Month(b[1]) /\ d[2] = b[2]}
                    IN  SumFunctionOnSet([d \in period |-> Aggregate(plan.table, d)[c]], period)
  BY Zenon DEF VerifiedSummaryIsExact
<1> DEFINE t == plan.table
           period == {d \in CanonicalBuckets(t) : InWindow(d, plan) /\ Month(d[1]) = Month(b[1]) /\ d[2] = b[2]}
           rows == {d \in Buckets : /\ InWindow(d, plan) /\ daily[t][d] # None
                                    /\ Month(d[1]) = Month(b[1]) /\ d[2] = b[2]}
<1>1. CanonicalBuckets(t) \subseteq Buckets BY CanonicalAreBuckets DEF DashInv
<1>2. \A d \in Buckets : InWindow(d, plan) =>
        /\ (daily[t][d] # None) = (d \in CanonicalBuckets(t))
        /\ d \in CanonicalBuckets(t) => daily[t][d] = Aggregate(t, d)
  BY DEF Disagreements
<1>3. rows = period BY <1>1, <1>2
<1>4. b \in rows BY <1>3
<1>5. \A d \in period : daily[t][d][c] = Aggregate(t, d)[c] BY <1>1, <1>2
<1>6. [d \in rows |-> daily[t][d][c]] = [d \in period |-> Aggregate(t, d)[c]] BY <1>3, <1>5
<1>7. PeriodSum(t, plan, Month(b[1]), b[2], c) = SumFunctionOnSet([d \in rows |-> daily[t][d][c]], rows)
  BY <1>4 DEF PeriodSum
<1>8. PICK j \in DashJobs : plan = dashJob[j].plan OBVIOUS
<1>9. t \in Tables BY <1>8, DashAssumption DEF NoPlan, Tables, DashInv, DashShape, IsJob
<1>10. (IF plan.table = "afk" THEN AfkSummary(plan, Month(b[1]), b[2], c)
                              ELSE UsageSummary(plan, Month(b[1]), b[2], c)) =
         PeriodSum(t, plan, Month(b[1]), b[2], c)
  <2>1. CASE t = "afk" BY <2>1 DEF AfkSummary
  <2>2. CASE t = "usage" BY <2>2 DEF UsageSummary
  <2> QED BY <1>9, <2>1, <2>2 DEF Tables
<1> QED BY <1>3, <1>6, <1>7, <1>10

(* What a dashboard has counted it never takes back while the row exists:  *)
(* of two recomputations of a bucket, whatever jobs overlap or are killed, *)
(* the later never has the older counts (upsert_bucket under the bucket's  *)
(* advisory lock).                                                         *)
THEOREM CountsNeverGoBack == DashSpec => CountedStaysCounted
<1>1. DashInv /\ [DashNext]_dashVars =>
        [\A b \in Buckets : daily["afk"][b] # None /\ daily'["afk"][b] # None =>
            \A c \in {"opened", "merged", "closed"} : daily'["afk"][b][c] >= daily["afk"][b][c]]_dashVars
  BY NextDash DEF EventColumns
<1>2. DashInv /\ [DashNext]_dashVars => DashInv' BY NextDash
<1> QED BY <1>1, <1>2, InitDash, PTL DEF DashSpec, CountedStaysCounted

(* An undisturbed refresh leaves every bucket of its window exact, an      *)
(* undisturbed backfill verifies, and a silent verification means that     *)
(* the monthly figures are those of the canonical tables.                  *)
THEOREM DashboardsStayExact == DashSpec => []DashboardsAreExact
<1>1. DashInv => UndisturbedJobAgrees
  <2> SUFFICES ASSUME DashInv, NEW j \in DashJobs, dashJob[j].undisturbed,
                      dashJob[j].pc \in {"ok", "mismatch"}
               PROVE  /\ dashJob[j].plan.kind = "refresh" =>
                           \A b \in CanonicalBuckets(dashJob[j].plan.table) :
                              InWindow(b, dashJob[j].plan) =>
                                daily[dashJob[j].plan.table][b] = Aggregate(dashJob[j].plan.table, b)
                      /\ dashJob[j].plan.kind = "backfill" => dashJob[j].pc = "ok"
    BY DEF UndisturbedJobAgrees
  <2>1. JobIsExact(dashJob[j]) BY DEF DashInv
  <2> QED BY <2>1 DEF JobIsExact, Window
<1>2. DashInv => DashboardsAreExact BY <1>1, SilenceMeansExact DEF DashboardsAreExact
<1>3. DashInv /\ [DashNext]_dashVars => DashInv' BY NextDash
<1> QED BY <1>2, <1>3, InitDash, PTL DEF DashSpec

-----------------------------------------------------------------------------
(* The sweep of dead letters.  A chunk is committed to its first retained  *)
(* offset or to one past what it consumed, so the property depends on what *)
(* lies below the position of a write sweep: it was escalated, retained or *)
(* corrupt, or it belongs to the chunk at hand; and of the chunk,          *)
(* everything but what is still to be published was dealt with before the  *)
(* sweep comes to commit.                                                  *)

USE SweepAssumption

Dealt(m) == m \in escalated \cup retained \/ Record(m).kind = "corrupt"

RecordType == [kind : Kinds, at : 0 .. MaxClock]

(* The part of TypeOK the argument needs.                                  *)
SweepTypes ==
    /\ clock \in 0 .. MaxClock
    /\ log \in [Partitions -> Seq(RecordType)]
    /\ committed \in [Partitions -> Nat] /\ position \in [Partitions -> Nat]
    /\ batch \in Seq(Messages) /\ pending \subseteq DOMAIN batch
    /\ stage \in {"idle", "collect", "publish", "commit"}

(* Nothing is read or committed that was not written.                      *)
OffsetsAreWritten == \A p \in Partitions :
    Len(log[p]) <= MaxRecords /\ committed[p] <= Len(log[p]) /\ position[p] <= Len(log[p])

(* The chunk lies below the position.                                      *)
ChunkIsRead == \A i \in DOMAIN batch : batch[i][2] < position[batch[i][1]]

ReadIsDealtWith == stage # "idle" /\ ~dry_run =>
    \A m \in Written : m[2] < position[m[1]] => Dealt(m) \/ m \in Consumed

ChunkIsDealtWith == stage \in {"publish", "commit"} =>
    /\ ~dry_run
    /\ \A i \in DOMAIN batch : Dealt(batch[i]) \/ i \in pending
    /\ stage = "commit" => pending = {}

SweepInv ==
    /\ SweepTypes /\ OffsetsAreWritten /\ ChunkIsRead
    /\ ReadIsDealtWith /\ ChunkIsDealtWith /\ NoUnexaminedRecordPassed

-----------------------------------------------------------------------------
(* Smallest and largest elements.                                          *)

LEMMA SmallestExists ==
    ASSUME NEW S, S \subseteq Nat, S # {}
    PROVE  \E x \in S : \A y \in S : x <= y
<1> DEFINE R == OpToRel(<, Nat)
<1>1. IsWellFoundedOn(R, Nat) BY NatLessThanWellFounded
<1>2. PICK x \in S : \A y \in S : ~ (<<y, x>> \in R)
  <2> HIDE DEF R
  <2> QED BY <1>1, WFMin
<1>3. ASSUME NEW y \in S PROVE x <= y
  <2>1. x \in Nat /\ y \in Nat OBVIOUS
  <2>2. y < x => <<y, x>> \in R BY <2>1 DEF OpToRel
  <2>3. ~ (y < x) BY <1>2, <2>2
  <2> QED BY <2>1, <2>3
<1> QED BY <1>3

LEMMA MinInSet ==
    ASSUME NEW S, S \subseteq Nat, S # {}
    PROVE  Min(S) \in S
BY SmallestExists DEF Min

LEMMA MaxInSet ==
    ASSUME NEW S, S \subseteq Nat, S # {}, NEW b \in Nat, \A x \in S : x <= b
    PROVE  Max(S) \in S
<1> DEFINE D == {b - x : x \in S}
<1>1. D \subseteq Nat
  <2> SUFFICES ASSUME NEW x \in S PROVE b - x \in Nat
    OBVIOUS
  <2>1. x \in Nat /\ x <= b OBVIOUS
  <2> QED BY <2>1
<1>2. D # {} OBVIOUS
<1>3. PICK d \in D : \A e \in D : d <= e
  <2> HIDE DEF D
  <2> QED BY <1>1, <1>2, SmallestExists
<1>4. PICK x \in S : d = b - x OBVIOUS
<1>5. ASSUME NEW y \in S PROVE x >= y
  <2>1. x \in Nat /\ y \in Nat OBVIOUS
  <2>2. b - x <= b - y BY <1>3, <1>4
  <2> QED BY <2>1, <2>2
<1> QED BY <1>5 DEF Max

-----------------------------------------------------------------------------
(* What a step leaves true.                                                *)

LEMMA MessageParts ==
    ASSUME NEW m \in Messages
    PROVE  m[1] \in Partitions /\ m[2] \in Nat /\ m[2] < MaxRecords /\ m = <<m[1], m[2]>>
BY DEF Messages

(* A chunk is made of written records.                                     *)
LEMMA ConsumedIsWritten ==
    ASSUME SweepInv, NEW i \in DOMAIN batch
    PROVE  /\ batch[i] \in Messages /\ batch[i] \in Written /\ batch[i] \in Consumed
           /\ batch[i][2] < position[batch[i][1]]
<1>1. batch[i] \in Messages BY DEF SweepInv, SweepTypes
<1>2. batch[i][2] < position[batch[i][1]] BY DEF SweepInv, ChunkIsRead
<1>3. position[batch[i][1]] <= Len(log[batch[i][1]]) /\ position[batch[i][1]] \in Nat
  BY <1>1, MessageParts DEF SweepInv, OffsetsAreWritten, SweepTypes
<1>4. Len(log[batch[i][1]]) \in Nat BY <1>1, MessageParts DEF SweepInv, SweepTypes
<1>5. batch[i] \in Written BY <1>1, <1>2, <1>3, <1>4, MessageParts DEF Written
<1> QED BY <1>1, <1>2, <1>5 DEF Consumed

(* The topics and the history only grow; the dead-letter topic stays as it *)
(* is while the sweep takes a step.                                        *)
Grows == UNCHANGED log /\ escalated \subseteq escalated' /\ retained \subseteq retained'

LEMMA DealtGrows ==
    ASSUME Grows, NEW m, Dealt(m)
    PROVE  Dealt(m)'
BY DEF Grows, Dealt, Record

LEMMA PassedStays ==
    ASSUME SweepInv, Grows, UNCHANGED committed
    PROVE  NoUnexaminedRecordPassed'
<1> SUFFICES ASSUME NEW m \in Written, m[2] < committed[m[1]]
             PROVE  Dealt(m)'
  BY DEF NoUnexaminedRecordPassed, Dealt, Written, Grows
<1>1. Dealt(m) BY DEF SweepInv, NoUnexaminedRecordPassed, Dealt
<1> QED BY <1>1, DealtGrows

(* When the sweep has returned only what it committed matters.             *)
LEMMA ReturnInv ==
    ASSUME SweepInv, UNCHANGED clock, Grows, Return, NoUnexaminedRecordPassed',
           committed' \in [Partitions -> Nat],
           \A p \in Partitions : committed'[p] <= Len(log[p])
    PROVE  SweepInv'
<1>1. /\ stage' = "idle" /\ position' = [p \in Partitions |-> 0] /\ batch' = <<>> /\ pending' = {}
      /\ UNCHANGED <<clock, log>>
  BY DEF Return, Grows
<1>2. SweepTypes' BY <1>1 DEF SweepInv, SweepTypes
<1>3. \A p \in Partitions : Len(log[p]) \in Nat BY DEF SweepInv, SweepTypes
<1>4. OffsetsAreWritten' BY <1>1, <1>3 DEF SweepInv, OffsetsAreWritten
<1>5. ChunkIsRead' BY <1>1 DEF ChunkIsRead
<1>6. ReadIsDealtWith' /\ ChunkIsDealtWith' BY <1>1 DEF ReadIsDealtWith, ChunkIsDealtWith
<1> QED BY <1>2, <1>4, <1>5, <1>6 DEF SweepInv

(* The next chunk begins where everything below the position was dealt     *)
(* with, in a write sweep.                                                 *)
LEMMA NextChunkInv ==
    ASSUME SweepInv, UNCHANGED clock, Grows, NextChunk, NoUnexaminedRecordPassed',
           committed' \in [Partitions -> Nat],
           \A p \in Partitions : committed'[p] <= Len(log[p]),
           ~dry_run => \A m \in Written : m[2] < position[m[1]] => Dealt(m)
    PROVE  SweepInv'
<1>1. CASE Return BY <1>1, ReturnInv
<1>2. CASE /\ stage' = "collect" /\ batch' = <<>> /\ pending' = {}
           /\ UNCHANGED <<dry_run, now, position>>
  <2>1. SweepTypes' BY <1>2 DEF SweepInv, SweepTypes, Grows
  <2>2. OffsetsAreWritten' BY <1>2 DEF SweepInv, OffsetsAreWritten, Grows
  <2>3. ChunkIsRead' BY <1>2 DEF ChunkIsRead
  <2>4. ChunkIsDealtWith' BY <1>2 DEF ChunkIsDealtWith
  <2>5. ReadIsDealtWith'
    <3> SUFFICES ASSUME ~dry_run, NEW m \in Written, m[2] < position[m[1]]
                 PROVE  Dealt(m)'
      BY <1>2 DEF ReadIsDealtWith, Written, Grows
    <3> QED BY DealtGrows
  <2> QED BY <2>1, <2>2, <2>3, <2>4, <2>5 DEF SweepInv
<1> QED BY <1>1, <1>2 DEF NextChunk

-----------------------------------------------------------------------------
(* The actions.                                                            *)

LEMMA SweepInitInv == Init => SweepInv
<1> SUFFICES ASSUME Init PROVE SweepInv
  OBVIOUS
<1>1. SweepTypes BY DEF Init, SweepTypes
<1>2. OffsetsAreWritten BY DEF Init, OffsetsAreWritten
<1>3. ChunkIsRead /\ ReadIsDealtWith /\ ChunkIsDealtWith
  BY DEF Init, ChunkIsRead, ReadIsDealtWith, ChunkIsDealtWith
<1>4. NoUnexaminedRecordPassed
  <2> SUFFICES ASSUME NEW m \in Written, m[2] < committed[m[1]] PROVE FALSE
    BY DEF NoUnexaminedRecordPassed
  <2>1. m \in Messages BY DEF Written
  <2>2. committed[m[1]] = 0 BY <2>1, MessageParts DEF Init
  <2> QED BY <2>1, <2>2, MessageParts
<1> QED BY <1>1, <1>2, <1>3, <1>4 DEF SweepInv

LEMMA TickInv == SweepInv /\ Tick => SweepInv'
<1> SUFFICES ASSUME SweepInv, Tick PROVE SweepInv'
  OBVIOUS
<1>1. UNCHANGED <<log, committed, escalated, stage, dry_run, position, batch, pending, retained>>
  BY DEF Tick, sweep
<1>2. SweepTypes' BY <1>1 DEF SweepInv, SweepTypes, Tick
<1> QED
  BY <1>1, <1>2 DEF SweepInv, OffsetsAreWritten, ChunkIsRead, ReadIsDealtWith, ChunkIsDealtWith,
                    NoUnexaminedRecordPassed, Dealt, Record, Consumed, Written

(* A new record lies past every offset that was read or committed.         *)
LEMMA DeadLetterInv ==
    ASSUME SweepInv, NEW q \in Partitions, NEW k \in Kinds, build_dlq_payload(q, k)
    PROVE  SweepInv'
<1> DEFINE r == [kind |-> k, at |-> clock]
<1>1. /\ log' = [log EXCEPT ![q] = Append(@, r)] /\ Len(log[q]) < MaxRecords
      /\ UNCHANGED <<clock, committed, escalated, stage, dry_run, position, batch, pending, retained>>
  BY DEF build_dlq_payload, sweep
<1>2. r \in RecordType BY DEF SweepInv, SweepTypes, RecordType
<1> HIDE DEF r
<1>3. log \in [Partitions -> Seq(RecordType)] BY DEF SweepInv, SweepTypes
<1>4. log' \in [Partitions -> Seq(RecordType)] BY <1>1, <1>2, <1>3
<1>5. \A p \in Partitions :
        /\ Len(log[p]) \in Nat /\ Len(log'[p]) \in Nat
        /\ Len(log[p]) <= Len(log'[p]) /\ Len(log'[p]) <= MaxRecords
        /\ \A j \in 1 .. Len(log[p]) : log'[p][j] = log[p][j]
  <2> SUFFICES ASSUME NEW p \in Partitions
               PROVE  /\ Len(log[p]) \in Nat /\ Len(log'[p]) \in Nat
                      /\ Len(log[p]) <= Len(log'[p]) /\ Len(log'[p]) <= MaxRecords
                      /\ \A j \in 1 .. Len(log[p]) : log'[p][j] = log[p][j]
    OBVIOUS
  <2>1. log[p] \in Seq(RecordType) /\ Len(log[p]) \in Nat BY <1>3
  <2>2. Len(log[p]) <= MaxRecords BY DEF SweepInv, OffsetsAreWritten
  <2>3. CASE p = q
    <3>1. log'[p] = Append(log[p], r) BY <1>1, <1>3, <2>3
    <3> QED BY <1>1, <1>2, <2>1, <2>3, <3>1
  <2>4. CASE p # q
    <3>1. log'[p] = log[p] BY <1>1, <1>3, <2>4
    <3> QED BY <2>1, <2>2, <3>1
  <2> QED BY <2>3, <2>4
<1>6. SweepTypes' BY <1>1, <1>4 DEF SweepInv, SweepTypes
<1>7. OffsetsAreWritten'
  BY <1>1, <1>5 DEF SweepInv, SweepTypes, OffsetsAreWritten
<1>8. ChunkIsRead' BY <1>1 DEF SweepInv, ChunkIsRead
<1>9. \A m \in Written : Dealt(m) => Dealt(m)'
  <2> SUFFICES ASSUME NEW m \in Written, Dealt(m) PROVE Dealt(m)'
    OBVIOUS
  <2>1. m \in Messages /\ m[2] < Len(log[m[1]]) BY DEF Written
  <2>2. m[1] \in Partitions /\ m[2] \in Nat BY <2>1, MessageParts
  <2>3. m[2] + 1 \in 1 .. Len(log[m[1]]) BY <1>5, <2>1, <2>2
  <2>4. Record(m)' = Record(m) BY <1>5, <2>2, <2>3 DEF Record
  <2> QED BY <1>1, <2>4 DEF Dealt
<1>10. ASSUME NEW m \in Written', m \notin Written
       PROVE  ~ (m[2] < position[m[1]]) /\ ~ (m[2] < committed[m[1]])
  <2>1. m \in Messages BY DEF Written
  <2>2. m[1] \in Partitions /\ m[2] \in Nat BY <2>1, MessageParts
  <2>3. ~ (m[2] < Len(log[m[1]])) BY <1>10, <2>1 DEF Written
  <2>4. committed[m[1]] <= Len(log[m[1]]) /\ position[m[1]] <= Len(log[m[1]])
    BY <2>2 DEF SweepInv, OffsetsAreWritten
  <2>5. committed[m[1]] \in Nat /\ position[m[1]] \in Nat BY <2>2 DEF SweepInv, SweepTypes
  <2> QED BY <1>5, <2>2, <2>3, <2>4, <2>5
<1>11. NoUnexaminedRecordPassed'
  <2> SUFFICES ASSUME NEW m \in Written', m[2] < committed[m[1]] PROVE Dealt(m)'
    BY <1>1 DEF NoUnexaminedRecordPassed, Dealt
  <2>1. m \in Written BY <1>10
  <2>2. Dealt(m) BY <2>1 DEF SweepInv, NoUnexaminedRecordPassed, Dealt
  <2> QED BY <1>9, <2>1, <2>2
<1>12. ReadIsDealtWith'
  <2> SUFFICES ASSUME stage # "idle", ~dry_run, NEW m \in Written', m[2] < position[m[1]]
               PROVE  Dealt(m)' \/ m \in Consumed
    BY <1>1 DEF ReadIsDealtWith, Consumed
  <2>1. m \in Written BY <1>10
  <2>2. Dealt(m) \/ m \in Consumed BY <2>1 DEF SweepInv, ReadIsDealtWith
  <2> QED BY <1>9, <2>1, <2>2
<1>13. ChunkIsDealtWith'
  <2> SUFFICES ASSUME stage \in {"publish", "commit"}
               PROVE  /\ ~dry_run
                      /\ \A i \in DOMAIN batch : Dealt(batch[i])' \/ i \in pending
                      /\ stage = "commit" => pending = {}
    BY <1>1 DEF ChunkIsDealtWith
  <2>1. ASSUME NEW i \in DOMAIN batch PROVE Dealt(batch[i])' \/ i \in pending
    <3>1. PICK m \in Written : m = batch[i] BY ConsumedIsWritten
    <3>2. Dealt(m) \/ i \in pending BY <3>1 DEF SweepInv, ChunkIsDealtWith
    <3>3. Dealt(m)' \/ i \in pending BY <1>9, <3>2
    <3> QED BY <1>1, <3>1, <3>3 DEF Dealt, Record
  <2> QED BY <2>1 DEF SweepInv, ChunkIsDealtWith
<1> QED BY <1>6, <1>7, <1>8, <1>11, <1>12, <1>13 DEF SweepInv

(* A sweep begins at the committed offsets.                                *)
LEMMA StartInv ==
    ASSUME SweepInv, NEW dry \in BOOLEAN, NEW limit \in Limits, sweep_dlq(dry, limit)
    PROVE  SweepInv'
<1>1. /\ stage' = "collect" /\ position' = committed /\ batch' = <<>> /\ pending' = {}
      /\ UNCHANGED <<clock, log, committed, escalated, retained>>
  BY DEF sweep_dlq
<1>2. SweepTypes' BY <1>1 DEF SweepInv, SweepTypes
<1>3. OffsetsAreWritten' BY <1>1 DEF SweepInv, OffsetsAreWritten
<1>4. ChunkIsRead' /\ ChunkIsDealtWith' BY <1>1 DEF ChunkIsRead, ChunkIsDealtWith
<1>5. NoUnexaminedRecordPassed' BY <1>1, PassedStays DEF Grows
<1>6. ReadIsDealtWith'
  BY <1>1, <1>5 DEF ReadIsDealtWith, NoUnexaminedRecordPassed, Dealt
<1> QED BY <1>2, <1>3, <1>4, <1>5, <1>6 DEF SweepInv

LEMMA CollectInv ==
    ASSUME SweepInv, NEW q \in Partitions, Collect(q)
    PROVE  SweepInv'
<1>1. PICK o \in Nat : o = position[q] BY DEF SweepInv, SweepTypes
<1>2. /\ stage = "collect" /\ o < Len(log[q])
      /\ batch' = Append(batch, <<q, o>>)
      /\ position' = [position EXCEPT ![q] = o + 1]
      /\ UNCHANGED <<clock, log, committed, escalated, stage, dry_run, pending, retained>>
  BY <1>1 DEF Collect
<1>3. /\ batch \in Seq(Messages) /\ position \in [Partitions -> Nat]
      /\ log \in [Partitions -> Seq(RecordType)] /\ Len(log[q]) \in Nat /\ Len(log[q]) <= MaxRecords
  BY DEF SweepInv, SweepTypes, OffsetsAreWritten
<1>4. <<q, o>> \in Messages BY <1>2, <1>3 DEF Messages
<1>5. /\ position' \in [Partitions -> Nat] /\ position'[q] = o + 1
      /\ \A p \in Partitions \ {q} : position'[p] = position[p]
  BY <1>2, <1>3
<1>6. /\ batch' \in Seq(Messages) /\ DOMAIN batch \subseteq DOMAIN batch'
      /\ \A i \in DOMAIN batch : batch'[i] = batch[i]
      /\ \A i \in DOMAIN batch' : i \notin DOMAIN batch => batch'[i] = <<q, o>>
      /\ \E i \in DOMAIN batch' : batch'[i] = <<q, o>>
  <2>1. Len(batch) \in Nat /\ DOMAIN batch = 1 .. Len(batch) BY <1>3
  <2>2. /\ batch' \in Seq(Messages) /\ Len(batch') = Len(batch) + 1
        /\ DOMAIN batch' = 1 .. Len(batch) + 1
    BY <1>2, <1>3, <1>4
  <2>3. batch'[Len(batch) + 1] = <<q, o>> BY <1>2, <1>3, <1>4
  <2>4. \A i \in DOMAIN batch : batch'[i] = batch[i] BY <1>2, <1>3, <1>4, <2>1
  <2> QED BY <2>1, <2>2, <2>3, <2>4
<1>7. SweepTypes' BY <1>2, <1>5, <1>6 DEF SweepInv, SweepTypes
<1>8. OffsetsAreWritten' BY <1>1, <1>2, <1>3, <1>5 DEF SweepInv, OffsetsAreWritten
<1>9. ChunkIsRead'
  <2> SUFFICES ASSUME NEW i \in DOMAIN batch' PROVE batch'[i][2] < position'[batch'[i][1]]
    BY DEF ChunkIsRead
  <2>1. CASE i \in DOMAIN batch
    <3>1. PICK m \in Messages : m = batch[i] /\ m[2] < position[m[1]] BY <2>1, ConsumedIsWritten
    <3>2. m[1] \in Partitions /\ m[2] \in Nat BY MessageParts
    <3>3. position[m[1]] \in Nat /\ position'[m[1]] \in Nat /\ position[m[1]] <= position'[m[1]]
      <4>1. CASE m[1] = q BY <1>1, <1>5, <4>1
      <4>2. CASE m[1] # q BY <1>3, <1>5, <3>2, <4>2
      <4> QED BY <4>1, <4>2
    <3>4. m[2] < position'[m[1]] BY <3>1, <3>2, <3>3
    <3> QED BY <1>6, <2>1, <3>1, <3>4
  <2>2. CASE i \notin DOMAIN batch BY <1>1, <1>5, <1>6, <2>2
  <2> QED BY <2>1, <2>2
<1>10. ChunkIsDealtWith' BY <1>2 DEF ChunkIsDealtWith
<1>11. NoUnexaminedRecordPassed' BY <1>2, PassedStays DEF Grows
<1>12. ReadIsDealtWith'
  <2> SUFFICES ASSUME ~dry_run, NEW m \in Written, m[2] < position'[m[1]]
               PROVE  Dealt(m)' \/ m \in Consumed'
    BY <1>2 DEF ReadIsDealtWith, Written
  <2>1. m \in Messages BY DEF Written
  <2>2. m[1] \in Partitions /\ m[2] \in Nat /\ m = <<m[1], m[2]>> BY <2>1, MessageParts
  <2>3. CASE m[2] < position[m[1]]
    <3>1. Dealt(m) \/ m \in Consumed BY <1>2, <2>3 DEF SweepInv, ReadIsDealtWith
    <3>2. CASE Dealt(m) BY <1>2, <3>2, DealtGrows DEF Grows
    <3>3. CASE m \in Consumed BY <1>6, <3>3 DEF Consumed
    <3> QED BY <3>1, <3>2, <3>3
  <2>4. CASE ~ (m[2] < position[m[1]])
    <3>1. m[1] = q /\ m[2] = o BY <1>1, <1>3, <1>5, <2>2, <2>4, SMTT(60)
    <3> QED BY <1>6, <2>2, <3>1 DEF Consumed
  <2> QED BY <2>3, <2>4
<1> QED BY <1>7, <1>8, <1>9, <1>10, <1>11, <1>12 DEF SweepInv

(* Classification: what is neither expired nor corrupt is retained.        *)
LEMMA RunInv ==
    ASSUME SweepInv, run_dlq_sweep
    PROVE  SweepInv'
<1>1. /\ stage = "collect" /\ retained' = retained \cup Retained
      /\ UNCHANGED <<clock, log, committed, escalated>>
  BY DEF run_dlq_sweep
<1>2. Grows /\ NoUnexaminedRecordPassed' BY <1>1, PassedStays DEF Grows
<1>3. /\ committed' \in [Partitions -> Nat]
      /\ \A p \in Partitions : committed'[p] <= Len(log[p])
  BY <1>1 DEF SweepInv, SweepTypes, OffsetsAreWritten
<1>4. CASE Return BY <1>1, <1>2, <1>3, <1>4, ReturnInv
<1>5. CASE dry_run /\ NextChunk BY <1>1, <1>2, <1>3, <1>5, NextChunkInv
<1>6. CASE /\ ~dry_run /\ stage' = "publish" /\ pending' = Expired
           /\ UNCHANGED <<dry_run, now, remaining, position, batch>>
  <2>1. SweepTypes' BY <1>1, <1>6 DEF SweepInv, SweepTypes, Expired
  <2>2. OffsetsAreWritten' /\ ChunkIsRead'
    BY <1>1, <1>6 DEF SweepInv, OffsetsAreWritten, ChunkIsRead
  <2>3. ReadIsDealtWith'
    <3> SUFFICES ASSUME NEW m \in Written, m[2] < position[m[1]]
                 PROVE  Dealt(m)' \/ m \in Consumed
      BY <1>1, <1>6 DEF ReadIsDealtWith, Written, Consumed
    <3>1. Dealt(m) \/ m \in Consumed BY <1>1, <1>6 DEF SweepInv, ReadIsDealtWith
    <3> QED BY <1>2, <3>1, DealtGrows
  <2>4. ChunkIsDealtWith'
    <3> SUFFICES ASSUME NEW i \in DOMAIN batch PROVE Dealt(batch[i])' \/ i \in Expired
      BY <1>6 DEF ChunkIsDealtWith
    <3>1. CASE is_dlq_expired(Record(batch[i]), now) BY <3>1 DEF Expired
    <3>2. CASE Record(batch[i]).kind = "corrupt" BY <1>1, <1>6, <3>2 DEF Dealt, Record
    <3>3. CASE Record(batch[i]).kind # "corrupt" /\ ~ is_dlq_expired(Record(batch[i]), now)
      <4>1. batch[i] \in Retained BY <3>3, ConsumedIsWritten DEF Retained
      <4> QED BY <1>1, <1>6, <4>1 DEF Dealt
    <3> QED BY <3>1, <3>2, <3>3
  <2> QED BY <1>2, <2>1, <2>2, <2>3, <2>4 DEF SweepInv
<1> QED BY <1>4, <1>5, <1>6 DEF run_dlq_sweep

LEMMA PublishInv == SweepInv /\ Publish => SweepInv'
<1> SUFFICES ASSUME SweepInv, Publish PROVE SweepInv'
  OBVIOUS
<1>1. /\ stage = "publish"
      /\ UNCHANGED <<clock, log, committed, dry_run, position, batch, retained>>
      /\ escalated \subseteq escalated'
  BY DEF Publish
<1>2. Grows /\ NoUnexaminedRecordPassed' BY <1>1, PassedStays DEF Grows
<1>3. stage' \in {"publish", "commit"} /\ pending' \subseteq pending
  BY <1>1 DEF Publish
<1>4. SweepTypes' BY <1>1, <1>3 DEF SweepInv, SweepTypes
<1>5. OffsetsAreWritten' /\ ChunkIsRead'
  BY <1>1 DEF SweepInv, OffsetsAreWritten, ChunkIsRead
<1>6. ReadIsDealtWith'
  <2> SUFFICES ASSUME ~dry_run, NEW m \in Written, m[2] < position[m[1]]
               PROVE  Dealt(m)' \/ m \in Consumed
    BY <1>1 DEF ReadIsDealtWith, Written, Consumed
  <2>1. Dealt(m) \/ m \in Consumed BY <1>1 DEF SweepInv, ReadIsDealtWith
  <2> QED BY <1>2, <2>1, DealtGrows
<1>7. ChunkIsDealtWith'
  <2>1. ~dry_run' /\ (stage' = "commit" => pending' = {})
    BY <1>1 DEF SweepInv, ChunkIsDealtWith, Publish
  <2>2. ASSUME NEW i \in DOMAIN batch PROVE Dealt(batch[i])' \/ i \in pending'
    <3>1. PICK m : m = batch[i] OBVIOUS
    <3>2. Dealt(m) \/ i \in pending BY <1>1, <3>1 DEF SweepInv, ChunkIsDealtWith
    <3>3. CASE Dealt(m)
      <4>1. Dealt(m)' BY <1>2, <3>3, DealtGrows
      <4> QED BY <1>1, <3>1, <4>1 DEF Dealt, Record
    <3>4. CASE i \in pending /\ i \notin pending'
      <4>1. i = Min(pending) /\ escalated' = escalated \cup {batch[i]} BY <3>4 DEF Publish
      <4> QED BY <1>1, <4>1 DEF Dealt
    <3> QED BY <3>2, <3>3, <3>4
  <2> QED BY <1>1, <2>1, <2>2 DEF ChunkIsDealtWith
<1> QED BY <1>2, <1>4, <1>5, <1>6, <1>7 DEF SweepInv

(* The offsets of a chunk lie at or below the position, where everything   *)
(* was dealt with when the sweep comes to commit.                          *)
LEMMA CommitOffsets ==
    ASSUME SweepInv, NEW p \in Partitions
    PROVE  /\ _compute_dlq_commit_offsets[p] \in Nat
           /\ \/ _compute_dlq_commit_offsets[p] = committed[p]
              \/ _compute_dlq_commit_offsets[p] <= position[p]
<1> DEFINE kept == {m[2] : m \in {r \in Retained : r[1] = p}}
           seen == {m[2] : m \in {r \in Consumed : r[1] = p}}
           c == CASE seen = {} -> committed[p]
                  [] kept # {} -> Min(kept)
                  [] OTHER -> Max(seen) + 1
<1>1. _compute_dlq_commit_offsets[p] = c BY DEF _compute_dlq_commit_offsets
<1>2. position[p] \in Nat /\ committed[p] \in Nat BY DEF SweepInv, SweepTypes
<1>3. ASSUME NEW o \in seen PROVE o \in Nat /\ o < position[p]
  <2>1. PICK m \in Consumed : m[1] = p /\ m[2] = o OBVIOUS
  <2>2. PICK i \in DOMAIN batch : batch[i] = m BY DEF Consumed
  <2>3. m \in Messages /\ m[2] < position[m[1]] BY <2>2, ConsumedIsWritten
  <2> QED BY <2>1, <2>3, MessageParts
<1>4. kept \subseteq seen BY DEF Retained
<1> HIDE DEF kept, seen
<1>5. CASE seen = {} BY <1>1, <1>2, <1>4, <1>5
<1>6. CASE seen # {} /\ kept # {}
  <2>1. c = Min(kept) BY <1>6
  <2>2. kept \subseteq Nat BY <1>3, <1>4
  <2>3. Min(kept) \in seen BY <1>4, <1>6, <2>2, MinInSet
  <2> HIDE DEF c
  <2>4. Min(kept) \in Nat /\ Min(kept) < position[p] BY <1>3, <2>3
  <2> QED BY <1>1, <1>2, <2>1, <2>4
<1>7. CASE seen # {} /\ kept = {}
  <2>1. c = Max(seen) + 1 BY <1>7
  <2>2. seen \subseteq Nat /\ \A x \in seen : x <= position[p] BY <1>2, <1>3
  <2>3. Max(seen) \in seen BY <1>2, <1>7, <2>2, MaxInSet
  <2> HIDE DEF c
  <2>4. Max(seen) \in Nat /\ Max(seen) < position[p] BY <1>3, <2>3
  <2> QED BY <1>1, <1>2, <2>1, <2>4
<1> QED BY <1>5, <1>6, <1>7

LEMMA CommitIsSafe ==
    ASSUME SweepInv, stage = "commit", UNCHANGED <<log, escalated, retained>>,
           committed' = _compute_dlq_commit_offsets
    PROVE  /\ NoUnexaminedRecordPassed' /\ committed' \in [Partitions -> Nat]
           /\ \A p \in Partitions : committed'[p] <= Len(log[p])
           /\ \A m \in Written : m[2] < position[m[1]] => Dealt(m)
<1>1. \A m \in Written : m[2] < position[m[1]] => Dealt(m)
  <2> SUFFICES ASSUME NEW m \in Written, m[2] < position[m[1]] PROVE Dealt(m)
    OBVIOUS
  <2>1. Dealt(m) \/ m \in Consumed BY DEF SweepInv, ReadIsDealtWith, ChunkIsDealtWith
  <2>2. CASE m \in Consumed
    <3>1. PICK i \in DOMAIN batch : batch[i] = m BY <2>2 DEF Consumed
    <3> QED BY <3>1 DEF SweepInv, ChunkIsDealtWith
  <2> QED BY <2>1, <2>2
<1>2. committed' \in [Partitions -> Nat]
  <2>1. committed' = [p \in Partitions |-> _compute_dlq_commit_offsets[p]]
    BY DEF _compute_dlq_commit_offsets
  <2> QED BY <2>1, CommitOffsets
<1>3. ASSUME NEW p \in Partitions PROVE committed'[p] <= Len(log[p])
  <2>1. committed[p] <= Len(log[p]) /\ position[p] <= Len(log[p])
    BY DEF SweepInv, OffsetsAreWritten
  <2>2. Len(log[p]) \in Nat /\ committed[p] \in Nat /\ position[p] \in Nat /\ committed'[p] \in Nat
    BY <1>2 DEF SweepInv, SweepTypes
  <2>3. committed'[p] = committed[p] \/ committed'[p] <= position[p] BY CommitOffsets
  <2> QED BY <2>1, <2>2, <2>3
<1>4. NoUnexaminedRecordPassed'
  <2> SUFFICES ASSUME NEW m \in Written, m[2] < committed'[m[1]] PROVE Dealt(m)
    BY DEF NoUnexaminedRecordPassed, Dealt, Written, Record
  <2>1. m \in Messages BY DEF Written
  <2>2. m[1] \in Partitions /\ m[2] \in Nat BY <2>1, MessageParts
  <2>3. CASE committed'[m[1]] = committed[m[1]]
    BY <2>3 DEF SweepInv, NoUnexaminedRecordPassed, Dealt
  <2>4. CASE committed'[m[1]] <= position[m[1]]
    <3>1. committed'[m[1]] \in Nat /\ position[m[1]] \in Nat
      BY <1>2, <2>2 DEF SweepInv, SweepTypes
    <3>2. m[2] < position[m[1]] BY <2>2, <2>4, <3>1
    <3> QED BY <1>1, <3>2
  <2> QED BY <2>2, <2>3, <2>4, CommitOffsets
<1> QED BY <1>1, <1>2, <1>3, <1>4

LEMMA CommitInv == SweepInv /\ Commit => SweepInv'
<1> SUFFICES ASSUME SweepInv, Commit PROVE SweepInv'
  OBVIOUS
<1>1. /\ stage = "commit" /\ committed' = _compute_dlq_commit_offsets /\ NextChunk
      /\ UNCHANGED <<clock, log, escalated, retained>>
  BY DEF Commit
<1>2. Grows BY <1>1 DEF Grows
<1> QED BY <1>1, <1>2, CommitIsSafe, NextChunkInv

LEMMA SweepFailsInv == SweepInv /\ SweepFails => SweepInv'
<1> SUFFICES ASSUME SweepInv, SweepFails PROVE SweepInv'
  OBVIOUS
<1>1. Return /\ UNCHANGED <<clock, log, retained>> BY DEF SweepFails
<1>2. CASE UNCHANGED committed /\ escalated \subseteq escalated'
  <2>1. Grows BY <1>1, <1>2 DEF Grows
  <2>2. NoUnexaminedRecordPassed' BY <1>2, <2>1, PassedStays
  <2>3. /\ committed' \in [Partitions -> Nat]
        /\ \A p \in Partitions : committed'[p] <= Len(log[p])
    BY <1>2 DEF SweepInv, SweepTypes, OffsetsAreWritten
  <2> QED BY <1>1, <2>1, <2>2, <2>3, ReturnInv
<1>3. CASE stage = "commit" /\ committed' = _compute_dlq_commit_offsets /\ UNCHANGED escalated
  <2>1. Grows BY <1>1, <1>3 DEF Grows
  <2> QED BY <1>1, <1>3, <2>1, CommitIsSafe, ReturnInv
<1> QED BY <1>2, <1>3 DEF SweepFails

LEMMA SweepNextInv == SweepInv /\ [Next]_vars => SweepInv'
<1> SUFFICES ASSUME SweepInv, [Next]_vars PROVE SweepInv'
  OBVIOUS
<1>1. CASE UNCHANGED vars
  BY <1>1 DEF vars, SweepInv, SweepTypes, OffsetsAreWritten, ChunkIsRead, ReadIsDealtWith,
              ChunkIsDealtWith, NoUnexaminedRecordPassed, Dealt, Record, Consumed, Written
<1> QED
  BY <1>1, TickInv, DeadLetterInv, StartInv, CollectInv, RunInv, PublishInv, CommitInv, SweepFailsInv
     DEF Next

(* The sweep's group never commits past a record that is neither on the    *)
(* escalation topic nor classified, for any chunks, limits, dry runs and   *)
(* records arriving meanwhile, whatever fails between reading, publishing  *)
(* and committing.                                                         *)
THEOREM SweepPassesOnlyExamined == Spec => []NoUnexaminedRecordPassed
<1>1. SweepInv => NoUnexaminedRecordPassed BY DEF SweepInv
<1> QED BY <1>1, SweepInitInv, SweepNextInv, PTL DEF Spec
=============================================================================
