----------------------------- MODULE AFKConsumer -----------------------------
(***************************************************************************)
(* The AFK outcome consumer (app/consumer/afk_consumer.py): processes of   *)
(* one Kafka consumer group read the normalized-events topic, write each   *)
(* event to Postgres in one transaction, send what cannot be written to    *)
(* the dead-letter topic, and commit offsets by hand.                      *)
(*                                                                         *)
(* A process handles one message at a time.  Every await of                *)
(* _process_message is a point where another process, the broker or a      *)
(* failure can step in, so the stages between awaits are the actions here. *)
(* The broker, and Postgres' unique constraints, are modelled from how the *)
(* code uses them.                                                         *)
(***************************************************************************)
EXTENDS NormalizedEvent, Integers

CONSTANTS Consumers,   \* the processes that may join the consumer group
          Partitions,  \* the partitions of the topic
          MaxOffset,   \* the highest offset the producer writes (bound)
          Stream,      \* Stream[p][o]: the message the producer writes there
          MaxRetries,  \* afk_outcomes_max_retries: persistence attempts
          MaxFaults    \* how many failures the environment injects (bound)

Offset == 0 .. MaxOffset
None == -1  \* a key absent from a dict of the consumer

ASSUME ConstantsAssumption ==
    /\ MaxOffset \in Nat
    /\ MaxRetries \in Nat
    /\ MaxFaults \in Nat

VARIABLES
    \* ---- the broker
    end,          \* end[p]: number of messages written to p so far
    committed,    \* committed[p]: the group's committed offset (next to read)
    owner,        \* owner[p]: the process p is assigned to, or None
    dlq,          \* the records <<p, o>> published to the dead-letter topic
    \* ---- Postgres
    delivery_log, \* UNIQUE (provider, delivery_id)
    events,       \* engineering_events, by its identity UNIQUE
    \* ---- each process
    stage,        \* stage[c]: where the process is (see Stage)
    running,      \* self._running
    position,     \* position[c][p]: next offset the Kafka client returns
    committable,  \* self._committable[tp], None when absent
    blocked,      \* self._blocked[tp], None when absent
    inflight,     \* self._in_flight: the message processed, or NoMessage
    \* ---- the environment
    faults        \* failures injected so far

broker  == <<end, committed, owner, dlq>>
db      == <<delivery_log, events>>
process == <<stage, running, position, committable, blocked, inflight>>
vars    == <<end, committed, owner, dlq, delivery_log, events, stage, running,
             position, committable, blocked, inflight, faults>>

Stage == {"down", "poll", "persist", "dlq", "commit"}
Busy == {"persist", "dlq", "commit"}
InFlight == [p : Partitions, o : Offset, attempt : Nat]
NoMessage == [p |-> None, o |-> None, attempt |-> 0]

MessageOf(c) == Stream[inflight[c].p][inflight[c].o]
DeliveryKey(m) == <<m.provider, m.delivery_id>>

Init ==
    /\ end = [p \in Partitions |-> 0]
    /\ committed = [p \in Partitions |-> 0]
    /\ owner = [p \in Partitions |-> None]
    /\ dlq = {}
    /\ delivery_log = {}
    /\ events = {}
    /\ stage = [c \in Consumers |-> "down"]
    /\ running = [c \in Consumers |-> FALSE]
    /\ position = [c \in Consumers |-> [p \in Partitions |-> 0]]
    /\ committable = [c \in Consumers |-> [p \in Partitions |-> None]]
    /\ blocked = [c \in Consumers |-> [p \in Partitions |-> None]]
    /\ inflight = [c \in Consumers |-> NoMessage]
    /\ faults = 0

-----------------------------------------------------------------------------
(* The commit frontier.                                                    *)

(* _mark_committable, as the pair of new dict entries for the message's    *)
(* partition: an open gap freezes the frontier until the blocked offset    *)
(* itself succeeds; otherwise it moves only to the next consecutive offset. *)
Unblocked(b, o) == IF b = o THEN None ELSE b
\* Mutant: the frontier ignores an open gap.
Advanced_IgnoresGap(k, b, o) == IF k = None \/ o = k + 1 THEN o ELSE k

Advanced(k, b, o) ==
    IF (b = None \/ b = o) /\ (k = None \/ o = k + 1) THEN o ELSE k

MarkCommittable(c) ==
    LET p == inflight[c].p  o == inflight[c].o IN
    /\ committable' = [committable EXCEPT ![c][p] = Advanced(@, blocked[c][p], o)]
    /\ blocked' = [blocked EXCEPT ![c][p] = Unblocked(@, o)]

(* _mark_blocked keeps the lowest failed offset.                           *)
LowestBlocked(b, o) == IF b = None \/ o < b THEN o ELSE b

(* _commit: the offset sent for a partition whose frontier is k and whose  *)
(* blocked offset is b; None when the partition is left out.               *)
CommitOffset(k, b) ==
    IF k = None THEN None
    ELSE IF b # None /\ k >= b
    THEN IF b - 1 < 0 THEN None ELSE b
    ELSE k + 1

ToCommit(c) == {p \in Partitions : CommitOffset(committable[c][p], blocked[c][p]) # None}

\* Mutant: an argument-less commit(), which commits the client's position.
CommitFrontier_Position(c) ==
    [p \in Partitions |-> IF p \in ToCommit(c) THEN position[c][p] ELSE committed[p]]

CommitFrontier(c) ==
    [p \in Partitions |-> IF p \in ToCommit(c)
                          THEN CommitOffset(committable[c][p], blocked[c][p])
                          ELSE committed[p]]

Fault == faults < MaxFaults /\ faults' = faults + 1

-----------------------------------------------------------------------------
(* The broker (external).                                                  *)

Produce(p) ==
    /\ end[p] <= MaxOffset
    /\ end' = [end EXCEPT ![p] = @ + 1]
    /\ UNCHANGED <<committed, owner, dlq, db, process, faults>>

(* A rebalance assigns p to a live member, which reads on from the         *)
(* committed offset: the first assignment, one that moves p from another   *)
(* member, or one that gives it back to the same member.  The consumer     *)
(* registers no rebalance listener, so its dicts stay as they are.         *)
Assign(c, p) ==
    /\ stage[c] # "down"
    /\ IF owner[p] = None THEN UNCHANGED faults ELSE Fault
    /\ owner' = [owner EXCEPT ![p] = c]
    /\ position' = [d \in Consumers |->
                      [position[d] EXCEPT ![p] = IF d = c THEN committed[p] ELSE 0]]
    /\ UNCHANGED <<end, committed, dlq, db, stage, running, committable, blocked, inflight>>

(* The client is closed: the broker frees its partitions.                  *)
LeaveGroup(c) ==
    /\ owner' = [p \in Partitions |-> IF owner[p] = c THEN None ELSE owner[p]]
    /\ position' = [position EXCEPT ![c] = [p \in Partitions |-> 0]]

-----------------------------------------------------------------------------
(* Process lifecycle.                                                      *)

start(c) ==
    /\ stage[c] = "down"
    /\ stage' = [stage EXCEPT ![c] = "poll"]
    /\ running' = [running EXCEPT ![c] = TRUE]
    /\ committable' = [committable EXCEPT ![c] = [p \in Partitions |-> None]]
    /\ blocked' = [blocked EXCEPT ![c] = [p \in Partitions |-> None]]
    /\ UNCHANGED <<broker, db, position, inflight, faults>>

(* SIGTERM or SIGINT: the message in flight is drained first.              *)
_signal_handler(c) ==
    /\ running[c] /\ Fault
    /\ running' = [running EXCEPT ![c] = FALSE]
    /\ UNCHANGED <<broker, db, stage, position, committable, blocked, inflight>>

(* run() has left its loop and stop() closes the Kafka client.             *)
stop(c) ==
    /\ stage[c] = "poll" /\ ~running[c]
    /\ stage' = [stage EXCEPT ![c] = "down"]
    /\ LeaveGroup(c)
    /\ UNCHANGED <<end, committed, dlq, db, running, committable, blocked,
                   inflight, faults>>

\* Mutant: self._in_flight is not reset.
Forget_Kept(c) == UNCHANGED inflight

Forget(c) == inflight' = [inflight EXCEPT ![c] = NoMessage]

(* The process dies at any point; also the end of run() when               *)
(* _recreate_consumer has used up its attempts and raises.                 *)
Crash(c) ==
    /\ stage[c] # "down" /\ Fault
    /\ stage' = [stage EXCEPT ![c] = "down"]
    /\ running' = [running EXCEPT ![c] = FALSE]
    /\ LeaveGroup(c)
    /\ Forget(c)
    /\ UNCHANGED <<end, committed, dlq, db, committable, blocked>>

(* _recreate_consumer, after a KafkaError: a fresh client and empty dicts. *)
(* While shutting down the code leaves the loop instead, and stop() closes *)
(* the client; the dicts stay as they are.                                 *)
RecreateConsumer(c) ==
    /\ stage' = [stage EXCEPT ![c] = IF running[c] THEN "poll" ELSE "down"]
    /\ LeaveGroup(c)
    /\ IF running[c]
       THEN /\ committable' = [committable EXCEPT ![c] = [p \in Partitions |-> None]]
            /\ blocked' = [blocked EXCEPT ![c] = [p \in Partitions |-> None]]
       ELSE UNCHANGED <<committable, blocked>>
    /\ Forget(c)
    /\ UNCHANGED running

(* The generic handler of run(): open a gap at the message and poll on.    *)
MarkBlocked(c) ==
    /\ stage' = [stage EXCEPT ![c] = "poll"]
    /\ blocked' = [blocked EXCEPT ![c][inflight[c].p] = LowestBlocked(@, inflight[c].o)]
    /\ Forget(c)
    /\ UNCHANGED <<running, position, committable, owner>>

(* The poll fails with a KafkaError outside any message.                   *)
PollError(c) ==
    /\ stage[c] = "poll" /\ running[c] /\ Fault
    /\ RecreateConsumer(c)
    /\ UNCHANGED <<end, committed, dlq, db>>

-----------------------------------------------------------------------------
(* _process_message.                                                       *)

(* run() takes the next message; the client's position moves past it at    *)
(* once.  Decoding, validation and mapping await nothing, and a message    *)
(* that makes them raise ends in the generic handler of run().             *)
Poll(c, p) ==
    /\ stage[c] = "poll" /\ running[c]
    /\ owner[p] = c /\ position[c][p] < end[p]
    /\ LET o == position[c][p]  route == Route(Stream[p][o]) IN
       /\ position' = [position EXCEPT ![c][p] = o + 1]
       /\ inflight' = [inflight EXCEPT ![c] = IF route = "raise" THEN NoMessage
                            ELSE [p |-> p, o |-> o, attempt |-> 0]]
       /\ stage' = [stage EXCEPT ![c] = IF route = "raise" THEN "poll" ELSE route]
       /\ blocked' = IF route = "raise"
                     THEN [blocked EXCEPT ![c][p] = LowestBlocked(@, o)]
                     ELSE blocked
    /\ UNCHANGED <<broker, db, running, committable, faults>>

(* _persist: delivery_log and engineering_events in one transaction, both  *)
(* conflict-ignore.                                                        *)
record_event(m) ==
    /\ delivery_log' = delivery_log \cup {DeliveryKey(m)}
    /\ events' = events \cup {map_normalized_event(m)}

PersistOk(c) ==
    /\ stage[c] = "persist"
    /\ record_event(MessageOf(c))
    /\ stage' = [stage EXCEPT ![c] = "commit"]
    /\ MarkCommittable(c)
    /\ UNCHANGED <<broker, running, position, inflight, faults>>

(* A database error.  The transaction may have committed all the same, the *)
(* acknowledgement being what was lost.  The last attempt goes to the DLQ. *)
PersistError(c) ==
    /\ stage[c] = "persist" /\ Fault
    /\ record_event(MessageOf(c)) \/ UNCHANGED db
    /\ IF inflight[c].attempt < MaxRetries - 1
       THEN /\ inflight' = [inflight EXCEPT ![c].attempt = @ + 1]
            /\ UNCHANGED stage
       ELSE /\ stage' = [stage EXCEPT ![c] = "dlq"]
            /\ UNCHANGED inflight
    /\ UNCHANGED <<broker, running, position, committable, blocked>>

PublishDLQ(c) == dlq' = dlq \cup {<<inflight[c].p, inflight[c].o>>}

SendToDLQOk(c) ==
    /\ stage[c] = "dlq"
    /\ PublishDLQ(c)
    /\ stage' = [stage EXCEPT ![c] = "commit"]
    /\ MarkCommittable(c)
    /\ UNCHANGED <<end, committed, owner, db, running, position, inflight, faults>>

\* Mutant: a failed publish is logged and the message committed.
SendToDLQError_Swallowed(c) ==
    /\ stage[c] = "dlq" /\ Fault
    /\ stage' = [stage EXCEPT ![c] = "commit"]
    /\ MarkCommittable(c)
    /\ UNCHANGED <<broker, db, running, position, inflight>>

(* send_and_wait fails: a KafkaError is re-raised and the consumer is      *)
(* recreated; any other exception opens a gap.  The record may be on the   *)
(* topic when only the answer was lost.                                    *)
SendToDLQError(c) ==
    /\ stage[c] = "dlq" /\ Fault
    /\ PublishDLQ(c) \/ UNCHANGED dlq
    /\ \/ RecreateConsumer(c)
       \/ MarkBlocked(c)
    /\ UNCHANGED <<end, committed, db>>

(* The broker takes a commit only for partitions assigned to the process.  *)
MayCommit(c) == \A p \in ToCommit(c) : owner[p] = c

CommitOk(c) ==
    /\ stage[c] = "commit"
    /\ MayCommit(c)
    /\ committed' = CommitFrontier(c)
    /\ stage' = [stage EXCEPT ![c] = "poll"]
    /\ Forget(c)
    /\ UNCHANGED <<end, owner, dlq, db, running, position, committable, blocked, faults>>

(* A commit for a partition that is no longer assigned always fails; any   *)
(* other failure is a fault, and may have reached the broker.              *)
CommitError(c) ==
    /\ stage[c] = "commit"
    /\ IF MayCommit(c) THEN Fault ELSE UNCHANGED faults
    /\ \/ MayCommit(c) /\ committed' = CommitFrontier(c)
       \/ UNCHANGED committed
    /\ \/ RecreateConsumer(c)
       \/ MayCommit(c) /\ MarkBlocked(c)
    /\ UNCHANGED <<end, dlq, db>>

-----------------------------------------------------------------------------
Next ==
    \/ \E p \in Partitions : Produce(p)
    \/ \E c \in Consumers, p \in Partitions : Assign(c, p) \/ Poll(c, p)
    \/ \E c \in Consumers :
          \/ start(c) \/ _signal_handler(c) \/ stop(c) \/ Crash(c) \/ PollError(c)
          \/ PersistOk(c) \/ PersistError(c)
          \/ SendToDLQOk(c) \/ SendToDLQError(c)
          \/ CommitOk(c) \/ CommitError(c)

Spec == Init /\ [][Next]_vars

(* The event loop runs every step that is ready, the broker assigns free   *)
(* partitions, and Kubernetes restarts a stopped pod.                      *)
Fairness ==
    /\ \A c \in Consumers : WF_vars(start(c)) /\ WF_vars(stop(c))
    /\ \A p \in Partitions :
          WF_vars(\E c \in Consumers : owner[p] = None /\ Assign(c, p))
    /\ \A c \in Consumers : \A p \in Partitions : WF_vars(Poll(c, p))
    /\ \A c \in Consumers : /\ WF_vars(PersistOk(c))
                             /\ WF_vars(SendToDLQOk(c))
                             /\ WF_vars(CommitOk(c) \/ CommitError(c))

FairSpec == Spec /\ Fairness

-----------------------------------------------------------------------------
TypeOK ==
    /\ end \in [Partitions -> 0 .. MaxOffset + 1]
    /\ committed \in [Partitions -> 0 .. MaxOffset + 1]
    /\ owner \in [Partitions -> Consumers \cup {None}]
    /\ dlq \subseteq Partitions \X Offset
    /\ stage \in [Consumers -> Stage]
    /\ running \in [Consumers -> BOOLEAN]
    /\ position \in [Consumers -> [Partitions -> 0 .. MaxOffset + 1]]
    /\ committable \in [Consumers -> [Partitions -> Offset \cup {None}]]
    /\ blocked \in [Consumers -> [Partitions -> Offset \cup {None}]]
    /\ inflight \in [Consumers -> InFlight \cup {NoMessage}]
    /\ \A c \in Consumers : stage[c] \in Busy <=> inflight[c] # NoMessage
    /\ faults \in 0 .. MaxFaults

(* A message has been dealt with when it is a valid event that is in       *)
(* Postgres, or its record is on the dead-letter topic.                    *)
Handled(p, o) ==
    \/ <<p, o>> \in dlq
    \/ /\ Route(Stream[p][o]) = "persist"
       /\ DeliveryKey(Stream[p][o]) \in delivery_log
       /\ map_normalized_event(Stream[p][o]) \in events

(* The committed offset never passes a message that is neither stored nor  *)
(* dead-lettered, whatever crashes, rebalances, lost answers and failures  *)
(* come between: a committed message is never read again, so it would be   *)
(* lost (_commit, _mark_committable, _mark_blocked).                       *)
NoMessageSkipped ==
    \A p \in Partitions : \A o \in Offset : o < committed[p] => Handled(p, o)

(* What the dicts of every process promise about one of its partitions:    *)
(* the frontier, else the blocked offset, else what the client has read,   *)
(* has only handled messages below it.                                     *)
FrontierSound(c, p) ==
    LET k == committable[c][p]  b == blocked[c][p]
        mine == stage[c] \in Busy /\ inflight[c].p = p
    IN /\ k # None => \A o \in 0 .. k : Handled(p, o)
       /\ k = None /\ b # None => \A o \in 0 .. b - 1 : Handled(p, o)
       /\ k = None /\ b = None =>
            /\ mine => \A o \in 0 .. inflight[c].o - 1 : Handled(p, o)
            /\ \A o \in 0 .. position[c][p] - 1 :
                  \/ Handled(p, o)
                  \/ mine /\ stage[c] # "commit" /\ inflight[c].o = o

(* No process ever holds a frontier that covers an unhandled message, not  *)
(* even one whose partition has moved away or whose commit is still to     *)
(* come: whichever commit reaches the broker next is safe                  *)
(* (_mark_committable, _mark_blocked, _recreate_consumer).                 *)
FrontiersSound ==
    \A c \in Consumers : \A p \in Partitions : FrontierSound(c, p)

(* Once failures stop, every message the producer wrote is stored or       *)
(* dead-lettered, unless an unexpected exception left its partition        *)
(* blocked (run, _process_message).                                        *)
EventuallyHandled ==
    \A p \in Partitions : \A o \in Offset :
        o < end[p] ~> Handled(p, o) \/ \E c \in Consumers : blocked[c][p] # None
=============================================================================
