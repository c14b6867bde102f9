------------------------------- MODULE DLQSweep -------------------------------
(***************************************************************************)
(* The operator's sweep of the dead-letter topic (app/consumer/            *)
(* dlq_sweep.py, sweep_dlq): records older than the operational maximum    *)
(* are published to the escalation topic, and the sweep group's offsets    *)
(* are committed after every chunk so that younger records are read again  *)
(* by a later run.                                                         *)
(*                                                                         *)
(* Time is counted in days.  The AFK consumer goes on dead-lettering while *)
(* a sweep runs.  Removal by the topic's own Kafka retention is left out.  *)
(***************************************************************************)
EXTENDS Integers, Sequences, FiniteSetsExt

CONSTANTS Partitions,     \* partitions of the dead-letter topic
          Kinds,          \* which records arrive: "dated", "unknown", "corrupt"
          MaxRecords,     \* records per partition (bound)
          MaxClock,       \* last day (bound)
          MaxFaults,      \* failures injected (bound)
          BatchSize,      \* --batch-size
          Limits,         \* the values --limit may take
          MaxAgeDays      \* GATEWAY_RETENTION_DLQ_MAX_AGE_DAYS

NoLimit == -1

ASSUME SweepAssumption ==
    /\ BatchSize \in Nat \ {0}
    /\ Limits \subseteq (Nat \ {0}) \cup {NoLimit}
    /\ MaxAgeDays \in Nat /\ MaxRecords \in Nat /\ MaxClock \in Nat /\ MaxFaults \in Nat

VARIABLES
    clock,      \* today
    log,        \* log[p]: the dead-letter records, [kind, at]
    committed,  \* committed[p]: the sweep group's committed offset
    escalated,  \* records <<p, o>> on the escalation topic (equal content collapses)
    stage,      \* "idle", "collect", "publish" or "commit"
    dry_run,    \* argument of the sweep in progress
    now,        \* its time stamp, taken once at the start
    remaining,  \* its scan budget, NoLimit for none
    position,   \* position[p]: next offset its consumer returns
    batch,      \* messages <<p, o>> of the chunk, in the order consumed
    pending,    \* indexes in batch of the escalations still to publish
    retained,   \* history: records some chunk classified "retain"
    faults

vars == <<clock, log, committed, escalated, stage, dry_run, now, remaining,
          position, batch, pending, retained, faults>>
sweep == <<stage, dry_run, now, remaining, position, batch, pending>>

Init ==
    /\ clock = 0
    /\ log = [p \in Partitions |-> <<>>]
    /\ committed = [p \in Partitions |-> 0]
    /\ escalated = {}
    /\ stage = "idle" /\ dry_run = FALSE /\ now = 0 /\ remaining = NoLimit
    /\ position = [p \in Partitions |-> 0]
    /\ batch = <<>> /\ pending = {}
    /\ retained = {}
    /\ faults = 0

Fault == faults < MaxFaults /\ faults' = faults + 1

Record(m) == log[m[1]][m[2] + 1]
Consumed == {batch[i] : i \in DOMAIN batch}

(* is_dlq_expired, for a value that is a JSON object: strictly older than  *)
(* the maximum; a record of unknown age is kept.                           *)
is_dlq_expired(r, today) == r.kind = "dated" /\ today - r.at > MaxAgeDays

(* The objects of the chunk; a corrupt value is skipped by                 *)
(* _collect_dlq_batch, and only counts for the offsets.                    *)
Expired == {i \in DOMAIN batch : is_dlq_expired(Record(batch[i]), now)}
Retained == {m \in Consumed : Record(m).kind # "corrupt" /\ ~is_dlq_expired(Record(m), now)}
Scanned == Cardinality({i \in DOMAIN batch : Record(batch[i]).kind # "corrupt"})

(* _compute_dlq_commit_offsets: the first retained offset of a partition,  *)
(* else one past the last consumed one; untouched partitions are left out. *)
_compute_dlq_commit_offsets ==
    [p \in Partitions |->
        LET kept == {m[2] : m \in {r \in Retained : r[1] = p}}
            seen == {m[2] : m \in {r \in Consumed : r[1] = p}}
        IN CASE seen = {} -> committed[p]
             [] kept # {} -> Min(kept)
             [] OTHER -> Max(seen) + 1]

Take == IF remaining = NoLimit \/ BatchSize < remaining THEN BatchSize ELSE remaining

-----------------------------------------------------------------------------
Tick ==
    /\ clock < MaxClock
    /\ clock' = clock + 1
    /\ UNCHANGED <<log, committed, escalated, sweep, retained, faults>>

(* build_dlq_payload stamps the record with the day it is dead-lettered;   *)
(* records written by older builds carry no usable stamp.                  *)
build_dlq_payload(p, kind) ==
    /\ Len(log[p]) < MaxRecords
    /\ log' = [log EXCEPT ![p] = Append(@, [kind |-> kind, at |-> clock])]
    /\ UNCHANGED <<clock, committed, escalated, sweep, retained, faults>>

sweep_dlq(dry, limit) ==
    /\ stage = "idle"
    /\ stage' = "collect"
    /\ dry_run' = dry /\ remaining' = limit
    /\ now' = clock
    /\ position' = committed
    /\ batch' = <<>> /\ pending' = {}
    /\ UNCHANGED <<clock, log, committed, escalated, retained, faults>>

(* One message of _collect_dlq_batch.                                      *)
Collect(p) ==
    /\ stage = "collect" /\ Len(batch) < Take
    /\ position[p] < Len(log[p])
    /\ batch' = Append(batch, <<p, position[p]>>)
    /\ position' = [position EXCEPT ![p] = @ + 1]
    /\ UNCHANGED <<clock, log, committed, escalated, stage, dry_run, now, remaining,
                   pending, retained, faults>>

(* The sweep returns, its Kafka clients closed and its locals gone.        *)
Return ==
    /\ stage' = "idle" /\ dry_run' = FALSE /\ now' = 0 /\ remaining' = NoLimit
    /\ position' = [p \in Partitions |-> 0]
    /\ batch' = <<>> /\ pending' = {}

\* Mutant: the sweep gives up after a chunk with nothing to escalate.
NextChunk_StopsEarly ==
    LET left == IF remaining = NoLimit THEN NoLimit ELSE remaining - Scanned IN
    IF Len(batch) < Take \/ left = 0 \/ Expired = {}
    THEN Return
    ELSE /\ stage' = "collect" /\ remaining' = left /\ batch' = <<>> /\ pending' = {}
         /\ UNCHANGED <<dry_run, now, position>>

(* After a chunk: the loop goes on while the chunk was full and the scan   *)
(* budget, which corrupt messages do not use up, is not spent.             *)
NextChunk ==
    LET left == IF remaining = NoLimit THEN NoLimit ELSE remaining - Scanned IN
    IF Len(batch) < Take \/ left = 0
    THEN Return
    ELSE /\ stage' = "collect" /\ remaining' = left /\ batch' = <<>> /\ pending' = {}
         /\ UNCHANGED <<dry_run, now, position>>

(* The chunk is complete, or the one-second wait for a message ran out,    *)
(* with a slow broker even though messages are there.  run_dlq_sweep       *)
(* classifies the chunk; a dry run neither publishes nor commits.          *)
run_dlq_sweep ==
    /\ stage = "collect"
    /\ IF Len(batch) = Take \/ \A p \in Partitions : position[p] = Len(log[p])
       THEN UNCHANGED faults ELSE Fault
    /\ retained' = retained \cup Retained
    /\ CASE batch = <<>> -> Return
         [] batch # <<>> /\ dry_run -> NextChunk
         [] OTHER -> /\ stage' = "publish" /\ pending' = Expired
                     /\ UNCHANGED <<dry_run, now, remaining, position, batch>>
    /\ UNCHANGED <<clock, log, committed, escalated>>

Publish ==
    /\ stage = "publish"
    /\ IF pending = {}
       THEN stage' = "commit" /\ UNCHANGED <<escalated, pending>>
       ELSE /\ escalated' = escalated \cup {batch[Min(pending)]}
            /\ pending' = pending \ {Min(pending)}
            /\ UNCHANGED stage
    /\ UNCHANGED <<clock, log, committed, dry_run, now, remaining, position, batch,
                   retained, faults>>

Commit ==
    /\ stage = "commit"
    /\ committed' = _compute_dlq_commit_offsets
    /\ NextChunk
    /\ UNCHANGED <<clock, log, escalated, retained, faults>>

\* Mutant: a failed escalation is logged and the sweep goes on.
SweepFails_Swallowed ==
    /\ stage = "publish" /\ pending # {} /\ Fault
    /\ pending' = pending \ {Min(pending)}
    /\ UNCHANGED <<clock, log, committed, escalated, stage, dry_run, now, remaining,
                   position, batch, retained>>

(* A send, a commit or the process fails and the exception ends the sweep. *)
(* The call that failed may have reached the broker.                       *)
SweepFails ==
    /\ stage # "idle" /\ Fault
    /\ \/ stage = "publish" /\ pending # {}
          /\ escalated' = escalated \cup {batch[Min(pending)]} /\ UNCHANGED committed
       \/ stage = "commit"
          /\ committed' = _compute_dlq_commit_offsets /\ UNCHANGED escalated
       \/ UNCHANGED <<escalated, committed>>
    /\ Return
    /\ UNCHANGED <<clock, log, retained>>

Next ==
    \/ Tick
    \/ \E p \in Partitions : Collect(p) \/ \E k \in Kinds : build_dlq_payload(p, k)
    \/ \E dry \in BOOLEAN, limit \in Limits : sweep_dlq(dry, limit)
    \/ run_dlq_sweep \/ Publish \/ Commit \/ SweepFails

Spec == Init /\ [][Next]_vars

(* Days pass, a started sweep runs, and the operator runs an unlimited     *)
(* write sweep again and again (with --limit alone, records of unknown age *)
(* at the head of a partition use up the scan budget of every run).        *)
Fairness ==
    /\ WF_vars(Tick)
    /\ \A p \in Partitions : WF_vars(Collect(p))
    /\ WF_vars(run_dlq_sweep) /\ WF_vars(Publish) /\ WF_vars(Commit)
    /\ SF_vars(sweep_dlq(FALSE, NoLimit))

FairSpec == Spec /\ Fairness

-----------------------------------------------------------------------------
Messages == {<<p, o>> : p \in Partitions, o \in 0 .. MaxRecords - 1}
Written == {m \in Messages : m[2] < Len(log[m[1]])}

TypeOK ==
    /\ clock \in 0 .. MaxClock
    /\ log \in [Partitions -> Seq([kind : Kinds, at : 0 .. MaxClock])]
    /\ committed \in [Partitions -> 0 .. MaxRecords]
    /\ position \in [Partitions -> 0 .. MaxRecords]
    /\ escalated \subseteq Written /\ retained \subseteq Written
    /\ batch \in Seq(Messages) /\ Consumed \subseteq Written /\ pending \subseteq DOMAIN batch
    /\ stage \in {"idle", "collect", "publish", "commit"}
    /\ dry_run \in BOOLEAN /\ now \in 0 .. clock
    /\ remaining \in Nat \cup {NoLimit}
    /\ faults \in 0 .. MaxFaults

(* The sweep never commits past a record it has neither escalated nor      *)
(* classified, whatever fails between reading, publishing and committing:  *)
(* an expired record is on the escalation topic before its offset goes.    *)
NoUnexaminedRecordPassed ==
    \A m \in Written : m[2] < committed[m[1]] =>
        m \in escalated \cup retained \/ Record(m).kind = "corrupt"

(* Every record with a readable stamp is escalated in the end, once it is  *)
(* older than the maximum, as long as the operator keeps sweeping, unless  *)
(* the sweep retained it earlier and then committed past it.               *)
EventuallyEscalated ==
    \A m \in Messages :
        m \in Written /\ is_dlq_expired(Record(m), MaxClock)
            ~> m \in escalated \/ (m \in retained /\ m[2] < committed[m[1]])
=============================================================================
