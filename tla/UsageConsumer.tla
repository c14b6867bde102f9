---------------------------- MODULE UsageConsumer ----------------------------
(***************************************************************************)
(* The usage-record consumer (app/consumer/consumer.py): one process reads *)
(* opencode-usage, POSTs every record to the Gateway's /ingest, and        *)
(* commits with an argument-less commit(), which commits the client's      *)
(* position in every assigned partition.                                   *)
(*                                                                         *)
(* The broker and the Gateway's answers are modelled from how the code     *)
(* uses them.  The deployment runs one replica, so one process is modelled; *)
(* a rebalance gives its partitions back at the committed offset.          *)
(***************************************************************************)
EXTENDS Naturals

CONSTANTS Partitions,  \* the partitions of the topic
          MaxOffset,   \* the highest offset the producer writes (bound)
          Kind,        \* Kind[p][o] \in {"valid", "invalid", "null"}
          MaxRetries,  \* _MAX_RETRIES: POST attempts per delivery
          MaxFaults    \* how many failures the environment injects (bound)

Offset == 0 .. MaxOffset

ASSUME UsageAssumption ==
    /\ MaxOffset \in Nat /\ MaxRetries \in Nat \ {0} /\ MaxFaults \in Nat
    /\ Kind \in [Partitions -> [Offset -> {"valid", "invalid", "null"}]]

VARIABLES
    end,        \* end[p]: number of messages written so far
    committed,  \* committed[p]: the group's committed offset
    dlq,        \* records <<p, o>> on the dead-letter topic
    ingested,   \* records <<p, o>> the Gateway has stored
    stage,      \* "down", "poll", "post", "dlq" or "commit"
    running,    \* self._running
    position,   \* position[p]: next offset the Kafka client returns
    inflight,   \* <<p, o>> of the message in process, <<>> when there is none
    attempt,    \* POST attempts made for it
    abandoned,  \* history: <<p, o, why>>, messages _process_message gave up
    faults      \* failures injected so far

vars == <<end, committed, dlq, ingested, stage, running, position, inflight,
          attempt, abandoned, faults>>

Init ==
    /\ end = [p \in Partitions |-> 0]
    /\ committed = [p \in Partitions |-> 0]
    /\ dlq = {} /\ ingested = {}
    /\ stage = "down" /\ running = FALSE
    /\ position = [p \in Partitions |-> 0]
    /\ inflight = <<>> /\ attempt = 0
    /\ abandoned = {}
    /\ faults = 0

Fault == faults < MaxFaults /\ faults' = faults + 1

\* The message is done with, in whatever way: run() polls on.
PollOn == stage' = "poll" /\ inflight' = <<>> /\ attempt' = 0

GiveUp(msg, why) == abandoned' = abandoned \cup {<<msg[1], msg[2], why>>}

-----------------------------------------------------------------------------
Produce(p) ==
    /\ end[p] <= MaxOffset
    /\ end' = [end EXCEPT ![p] = @ + 1]
    /\ UNCHANGED <<committed, dlq, ingested, stage, running, position, inflight,
                   attempt, abandoned, faults>>

\* Mutant: auto_offset_reset is "latest".
start_Latest ==
    /\ stage = "down"
    /\ stage' = "poll" /\ running' = TRUE
    /\ position' = end
    /\ UNCHANGED <<end, committed, dlq, ingested, inflight, attempt, abandoned, faults>>

start ==
    /\ stage = "down"
    /\ stage' = "poll" /\ running' = TRUE
    /\ position' = committed
    /\ UNCHANGED <<end, committed, dlq, ingested, inflight, attempt, abandoned, faults>>

_signal_handler ==
    /\ running /\ Fault
    /\ running' = FALSE
    /\ UNCHANGED <<end, committed, dlq, ingested, stage, position, inflight,
                   attempt, abandoned>>

(* run() leaves its loop between messages; stop() commits nothing.         *)
stop ==
    /\ stage = "poll" /\ ~running
    /\ stage' = "down"
    /\ UNCHANGED <<end, committed, dlq, ingested, running, position, inflight,
                   attempt, abandoned, faults>>

Crash ==
    /\ stage # "down" /\ Fault
    /\ stage' = "down" /\ running' = FALSE /\ inflight' = <<>> /\ attempt' = 0
    /\ UNCHANGED <<end, committed, dlq, ingested, position, abandoned>>

(* A rebalance, or _recreate_consumer after a KafkaError of the poll: the  *)
(* client reads on from the committed offsets.                             *)
Rebalance ==
    /\ stage # "down" /\ Fault
    /\ position' = committed
    /\ UNCHANGED <<end, committed, dlq, ingested, stage, running, inflight,
                   attempt, abandoned>>

-----------------------------------------------------------------------------
(* _process_message.  An undecodable or misshapen record goes to the DLQ.  *)
(* On a null value the handler of the decode error decodes the null again, *)
(* and run() logs the exception and skips the message.                     *)
Poll(p) ==
    /\ stage = "poll" /\ running /\ position[p] < end[p]
    /\ LET o == position[p] IN
       /\ position' = [position EXCEPT ![p] = o + 1]
       /\ CASE Kind[p][o] = "null" ->
                 /\ GiveUp(<<p, o>>, "raised")
                 /\ PollOn
            [] Kind[p][o] = "invalid" ->
                 /\ stage' = "dlq" /\ inflight' = <<p, o>> /\ attempt' = 0
                 /\ UNCHANGED abandoned
            [] Kind[p][o] = "valid" ->
                 /\ stage' = "post" /\ inflight' = <<p, o>> /\ attempt' = 0
                 /\ UNCHANGED abandoned
    /\ UNCHANGED <<end, committed, dlq, ingested, running, faults>>

Post2xx ==
    /\ stage = "post"
    /\ ingested' = ingested \cup {inflight}
    /\ stage' = "commit"
    /\ UNCHANGED <<end, committed, dlq, running, position, inflight, attempt,
                   abandoned, faults>>

\* Mutant: a rejected record is committed without being dead-lettered.
Post4xx_NoDLQ ==
    /\ stage = "post" /\ Fault
    /\ stage' = "commit"
    /\ UNCHANGED <<end, committed, dlq, ingested, running, position, inflight,
                   attempt, abandoned>>

Post4xx ==
    /\ stage = "post" /\ Fault
    /\ stage' = "dlq"
    /\ UNCHANGED <<end, committed, dlq, ingested, running, position, inflight,
                   attempt, abandoned>>

(* A 5xx answer or a network error; after a network error the Gateway may  *)
(* have stored the record.  The last attempt returns without committing.   *)
Post5xxOrNetworkError ==
    /\ stage = "post" /\ Fault
    /\ \/ ingested' = ingested \cup {inflight}
       \/ UNCHANGED ingested
    /\ IF attempt < MaxRetries - 1
       THEN /\ attempt' = attempt + 1
            /\ UNCHANGED <<stage, inflight, abandoned>>
       ELSE /\ GiveUp(inflight, "retries")
            /\ PollOn
    /\ UNCHANGED <<end, committed, dlq, running, position>>

SendToDLQOk ==
    /\ stage = "dlq"
    /\ dlq' = dlq \cup {inflight}
    /\ stage' = "commit"
    /\ UNCHANGED <<end, committed, ingested, running, position, inflight,
                   attempt, abandoned, faults>>

(* _send_to_dlq logs a KafkaError and returns, so the commit follows.      *)
SendToDLQError ==
    /\ stage = "dlq" /\ Fault
    /\ GiveUp(inflight, "dlq")
    /\ stage' = "commit"
    /\ UNCHANGED <<end, committed, dlq, ingested, running, position, inflight, attempt>>

(* commit() without arguments: the position of every assigned partition.   *)
_commit ==
    /\ stage = "commit"
    /\ committed' = position
    /\ PollOn
    /\ UNCHANGED <<end, dlq, ingested, running, position, abandoned, faults>>

(* run() logs and skips whatever commit() raises, a KafkaError included.   *)
CommitError ==
    /\ stage = "commit" /\ Fault
    /\ committed' = position \/ UNCHANGED committed
    /\ PollOn
    /\ UNCHANGED <<end, dlq, ingested, running, position, abandoned>>

Next ==
    \/ \E p \in Partitions : Produce(p) \/ Poll(p)
    \/ start \/ _signal_handler \/ stop \/ Crash \/ Rebalance
    \/ Post2xx \/ Post4xx \/ Post5xxOrNetworkError
    \/ SendToDLQOk \/ SendToDLQError \/ _commit \/ CommitError

Spec == Init /\ [][Next]_vars

(* The event loop takes every step that is ready, the Gateway answers in   *)
(* the end, and Kubernetes restarts a stopped pod.                         *)
Fairness ==
    /\ WF_vars(start) /\ WF_vars(stop)
    /\ \A p \in Partitions : WF_vars(Poll(p))
    /\ WF_vars(Post2xx) /\ WF_vars(SendToDLQOk) /\ WF_vars(_commit)

FairSpec == Spec /\ Fairness

-----------------------------------------------------------------------------
TypeOK ==
    /\ end \in [Partitions -> 0 .. MaxOffset + 1]
    /\ committed \in [Partitions -> 0 .. MaxOffset + 1]
    /\ position \in [Partitions -> 0 .. MaxOffset + 1]
    /\ dlq \subseteq Partitions \X Offset
    /\ ingested \subseteq Partitions \X Offset
    /\ abandoned \subseteq Partitions \X Offset \X {"retries", "dlq", "raised"}
    /\ stage \in {"down", "poll", "post", "dlq", "commit"}
    /\ running \in BOOLEAN
    /\ inflight \in (Partitions \X Offset) \cup {<<>>}
    /\ stage \in {"post", "dlq", "commit"} <=> inflight # <<>>
    /\ attempt \in Nat
    /\ faults \in 0 .. MaxFaults

Handled(p, o) == <<p, o>> \in dlq \cup ingested
GivenUp(p, o) == \E a \in abandoned : a[1] = p /\ a[2] = o

(* Crashes, restarts, rebalances and lost commit answers by themselves     *)
(* lose no record: what is committed past without being stored or          *)
(* dead-lettered was given up by _process_message itself (retries used up, *)
(* DLQ publish failed, or an exception).                                   *)
OnlyAbandonedRecordsAreSkipped ==
    \A p \in Partitions : \A o \in Offset :
        o < committed[p] => Handled(p, o) \/ GivenUp(p, o)

(* Once failures stop, every record the producer wrote is stored,          *)
(* dead-lettered or given up: no record stays unread (run).                *)
EveryRecordIsProcessed ==
    \A p \in Partitions : \A o \in Offset :
        o < end[p] ~> Handled(p, o) \/ GivenUp(p, o)
=============================================================================
