-------------------------- MODULE AFKConsumerProofs --------------------------
(***************************************************************************)
(* Proofs about AFKConsumer for any number of processes, partitions and    *)
(* messages, any stream, and any number of retries and failures.           *)
(*                                                                         *)
(* NoMessageSkipped is not inductive: a commit is safe because of what the *)
(* dicts of the committing process hold, and those because of what the     *)
(* client has read before.  The inductive invariant adds FrontiersSound    *)
(* and the facts that a stopped process has no position and that only      *)
(* valid events are written to the database.                               *)
(***************************************************************************)
EXTENDS AFKConsumer, TLAPS

USE ConstantsAssumption DEF None

-----------------------------------------------------------------------------
(* Type correctness.                                                       *)

(* The offset _commit sends for a partition is a legal committed offset.   *)
LEMMA CommitOffsetType ==
    ASSUME NEW k \in Offset \cup {None}, NEW b \in Offset \cup {None},
           CommitOffset(k, b) # None
    PROVE  CommitOffset(k, b) \in 0 .. MaxOffset + 1
BY DEF CommitOffset, Offset

LEMMA CommitFrontierType ==
    ASSUME TypeOK, NEW c \in Consumers
    PROVE  CommitFrontier(c) \in [Partitions -> 0 .. MaxOffset + 1]
BY CommitOffsetType, ZenonT(60) DEF CommitFrontier, ToCommit, TypeOK

(* _mark_committable and _mark_blocked keep the dicts' types.              *)
LEMMA DictTypes ==
    ASSUME NEW k \in Offset \cup {None}, NEW b \in Offset \cup {None}, NEW o \in Offset
    PROVE  /\ Advanced(k, b, o) \in Offset \cup {None}
           /\ Unblocked(b, o) \in Offset \cup {None}
           /\ LowestBlocked(b, o) \in Offset \cup {None}
BY DEF Advanced, Unblocked, LowestBlocked

(* A process that is busy has a message of some partition.                 *)
LEMMA BusyMessage ==
    ASSUME TypeOK, NEW c \in Consumers, stage[c] \in Busy
    PROVE  /\ inflight[c] \in InFlight
           /\ inflight[c].p \in Partitions
           /\ inflight[c].o \in Offset
BY DEF TypeOK, InFlight, NoMessage

LEMMA MarkCommittableType ==
    ASSUME TypeOK, NEW c \in Consumers, stage[c] \in Busy, MarkCommittable(c)
    PROVE  /\ committable' \in [Consumers -> [Partitions -> Offset \cup {None}]]
           /\ blocked' \in [Consumers -> [Partitions -> Offset \cup {None}]]
<1> DEFINE p == inflight[c].p
           o == inflight[c].o
<1>1. p \in Partitions /\ o \in Offset BY BusyMessage
<1> HIDE DEF p, o
<1>a. /\ committable[c][p] \in Offset \cup {None}
      /\ blocked[c][p] \in Offset \cup {None}
  BY <1>1 DEF TypeOK
<1>2. /\ Advanced(committable[c][p], blocked[c][p], o) \in Offset \cup {None}
      /\ Unblocked(blocked[c][p], o) \in Offset \cup {None}
  BY <1>1, <1>a, DictTypes
<1>3. /\ committable' = [committable EXCEPT ![c][p] =
                            Advanced(committable[c][p], blocked[c][p], o)]
      /\ blocked' = [blocked EXCEPT ![c][p] = Unblocked(blocked[c][p], o)]
  BY DEF MarkCommittable, p, o
<1> QED BY <1>1, <1>2, <1>3 DEF TypeOK

LEMMA MarkBlockedType ==
    ASSUME TypeOK, NEW c \in Consumers, stage[c] \in Busy, MarkBlocked(c)
    PROVE  blocked' \in [Consumers -> [Partitions -> Offset \cup {None}]]
<1> DEFINE p == inflight[c].p
           o == inflight[c].o
<1>1. p \in Partitions /\ o \in Offset BY BusyMessage
<1> HIDE DEF p, o
<1>a. blocked[c][p] \in Offset \cup {None}
  BY <1>1 DEF TypeOK
<1>2. LowestBlocked(blocked[c][p], o) \in Offset \cup {None}
  BY <1>1, <1>a, DictTypes
<1>3. blocked' = [blocked EXCEPT ![c][p] = LowestBlocked(blocked[c][p], o)]
  BY DEF MarkBlocked, p, o
<1> QED BY <1>1, <1>2, <1>3 DEF TypeOK

LEMMA LeaveGroupType ==
    ASSUME TypeOK, NEW c \in Consumers, LeaveGroup(c)
    PROVE  /\ owner' \in [Partitions -> Consumers \cup {None}]
           /\ position' \in [Consumers -> [Partitions -> 0 .. MaxOffset + 1]]
BY DEF TypeOK, LeaveGroup

LEMMA RecreateConsumerType ==
    ASSUME TypeOK, NEW c \in Consumers, RecreateConsumer(c)
    PROVE  /\ owner' \in [Partitions -> Consumers \cup {None}]
           /\ position' \in [Consumers -> [Partitions -> 0 .. MaxOffset + 1]]
           /\ stage' \in [Consumers -> Stage]
           /\ running' = running
           /\ committable' \in [Consumers -> [Partitions -> Offset \cup {None}]]
           /\ blocked' \in [Consumers -> [Partitions -> Offset \cup {None}]]
           /\ inflight' \in [Consumers -> InFlight \cup {NoMessage}]
           /\ \A d \in Consumers : stage'[d] \in Busy <=> inflight'[d] # NoMessage
<1>1. /\ owner' \in [Partitions -> Consumers \cup {None}]
      /\ position' \in [Consumers -> [Partitions -> 0 .. MaxOffset + 1]]
  BY LeaveGroupType DEF RecreateConsumer
<1>2. /\ committable' \in [Consumers -> [Partitions -> Offset \cup {None}]]
      /\ blocked' \in [Consumers -> [Partitions -> Offset \cup {None}]]
  <2>1. [p \in Partitions |-> None] \in [Partitions -> Offset \cup {None}]
    OBVIOUS
  <2>2. CASE running[c]
    BY <2>1, <2>2 DEF RecreateConsumer, TypeOK
  <2>3. CASE ~running[c]
    BY <2>3 DEF RecreateConsumer, TypeOK
  <2> QED BY <2>2, <2>3
<1>3. /\ stage' \in [Consumers -> Stage]
      /\ inflight' \in [Consumers -> InFlight \cup {NoMessage}]
      /\ \A d \in Consumers : stage'[d] \in Busy <=> inflight'[d] # NoMessage
  BY DEF RecreateConsumer, Forget, TypeOK, Stage, Busy
<1> QED BY <1>1, <1>2, <1>3 DEF RecreateConsumer

LEMMA InitTypeOK == Init => TypeOK
BY DEF Init, TypeOK, Stage, Busy, Offset

LEMMA NextTypeOK == TypeOK /\ [Next]_vars => TypeOK'
<1> SUFFICES ASSUME TypeOK, [Next]_vars PROVE TypeOK'
  OBVIOUS
<1> USE DEF Stage, Busy
<1>1. ASSUME NEW p \in Partitions, Produce(p) PROVE TypeOK'
  BY <1>1 DEF TypeOK, Produce, db, process
<1>2. ASSUME NEW c \in Consumers, NEW p \in Partitions, Assign(c, p) PROVE TypeOK'
  BY <1>2 DEF TypeOK, Assign, Fault, db
<1>3. ASSUME NEW c \in Consumers, NEW p \in Partitions, Poll(c, p) PROVE TypeOK'
  <2> DEFINE o == position[c][p]
             route == Route(Stream[p][o])
  <2>1. o \in Offset BY <1>3 DEF TypeOK, Poll, Offset
  <2>2. route \in {"persist", "dlq", "raise"} BY DEF Route
  <2>a. blocked[c][p] \in Offset \cup {None} BY DEF TypeOK
  <2>3. LowestBlocked(blocked[c][p], o) \in Offset \cup {None}
    BY <2>1, <2>a, DictTypes
  <2>4. [p |-> p, o |-> o, attempt |-> 0] \in InFlight
    BY <2>1 DEF InFlight
  <2>5. [p |-> p, o |-> o, attempt |-> 0] # NoMessage
    BY <2>1 DEF NoMessage, Offset
  <2>6. position' = [position EXCEPT ![c][p] = o + 1]
    BY <1>3 DEF Poll
  <2>7. inflight' = [inflight EXCEPT ![c] = IF route = "raise" THEN NoMessage
                            ELSE [p |-> p, o |-> o, attempt |-> 0]]
    BY <1>3 DEF Poll
  <2>8. stage' = [stage EXCEPT ![c] = IF route = "raise" THEN "poll" ELSE route]
    BY <1>3 DEF Poll
  <2>9. blocked' = IF route = "raise"
                   THEN [blocked EXCEPT ![c][p] = LowestBlocked(blocked[c][p], o)]
                   ELSE blocked
    BY <1>3 DEF Poll
  <2>10. /\ stage[c] = "poll" /\ inflight[c] = NoMessage
         /\ UNCHANGED <<end, committed, owner, dlq, running, committable, faults>>
    BY <1>3 DEF Poll, broker, TypeOK
  <2> HIDE DEF o, route
  <2> QED BY <2>1, <2>2, <2>3, <2>4, <2>5, <2>6, <2>7, <2>8, <2>9, <2>10 DEF TypeOK, Offset
<1>4. ASSUME NEW c \in Consumers, start(c) PROVE TypeOK'
  BY <1>4 DEF TypeOK, start, broker, db
<1>5. ASSUME NEW c \in Consumers, _signal_handler(c) PROVE TypeOK'
  BY <1>5 DEF TypeOK, _signal_handler, Fault, broker, db
<1>6. ASSUME NEW c \in Consumers, stop(c) PROVE TypeOK'
  BY <1>6, LeaveGroupType DEF TypeOK, stop, db
<1>7. ASSUME NEW c \in Consumers, Crash(c) PROVE TypeOK'
  BY <1>7, LeaveGroupType DEF TypeOK, Crash, Forget, Fault, db
<1>8. ASSUME NEW c \in Consumers, PollError(c) PROVE TypeOK'
  BY <1>8, RecreateConsumerType DEF TypeOK, PollError, Fault, db
<1>9. ASSUME NEW c \in Consumers, PersistOk(c) PROVE TypeOK'
  BY <1>9, MarkCommittableType DEF TypeOK, PersistOk, broker
<1>10. ASSUME NEW c \in Consumers, PersistError(c) PROVE TypeOK'
  <2>1. inflight[c] \in InFlight BY <1>10, BusyMessage DEF PersistError
  <2>2. [inflight[c] EXCEPT !.attempt = @ + 1] \in InFlight \ {NoMessage}
    BY <2>1 DEF InFlight, NoMessage, Offset
  <2>3. /\ inflight' \in [Consumers -> InFlight \cup {NoMessage}]
        /\ \A d \in Consumers : inflight'[d] # NoMessage <=> inflight[d] # NoMessage
    BY <1>10, <2>1, <2>2, ZenonT(60) DEF PersistError, TypeOK
  <2>4. /\ stage' \in [Consumers -> Stage]
        /\ \A d \in Consumers : stage'[d] \in Busy <=> stage[d] \in Busy
    BY <1>10 DEF PersistError, TypeOK
  <2>5. faults' \in 0 .. MaxFaults BY <1>10 DEF PersistError, Fault, TypeOK
  <2> QED BY <1>10, <2>3, <2>4, <2>5 DEF TypeOK, PersistError, broker
<1>11. ASSUME NEW c \in Consumers, SendToDLQOk(c) PROVE TypeOK'
  <2>1. <<inflight[c].p, inflight[c].o>> \in Partitions \X Offset
    BY <1>11, BusyMessage DEF SendToDLQOk
  <2> QED BY <1>11, <2>1, MarkCommittableType DEF TypeOK, SendToDLQOk, PublishDLQ
<1>12. ASSUME NEW c \in Consumers, SendToDLQError(c) PROVE TypeOK'
  <2>1. <<inflight[c].p, inflight[c].o>> \in Partitions \X Offset
    BY <1>12, BusyMessage DEF SendToDLQError
  <2>2. dlq' \subseteq Partitions \X Offset /\ faults' \in 0 .. MaxFaults
    BY <1>12, <2>1 DEF SendToDLQError, PublishDLQ, Fault, TypeOK
  <2>3. CASE RecreateConsumer(c)
    BY <1>12, <2>2, <2>3, RecreateConsumerType DEF TypeOK, SendToDLQError
  <2>4. CASE MarkBlocked(c)
    <3>1. blocked' \in [Consumers -> [Partitions -> Offset \cup {None}]]
      BY <1>12, <2>4, MarkBlockedType DEF SendToDLQError
    <3> QED BY <1>12, <2>2, <2>4, <3>1 DEF TypeOK, SendToDLQError, MarkBlocked, Forget
  <2> QED BY <1>12, <2>3, <2>4 DEF SendToDLQError
<1>13. ASSUME NEW c \in Consumers, CommitOk(c) PROVE TypeOK'
  BY <1>13, CommitFrontierType DEF TypeOK, CommitOk, Forget
<1>14. ASSUME NEW c \in Consumers, CommitError(c) PROVE TypeOK'
  <2>1. committed' \in [Partitions -> 0 .. MaxOffset + 1] /\ faults' \in 0 .. MaxFaults
    BY <1>14, CommitFrontierType DEF CommitError, Fault, TypeOK
  <2>2. CASE RecreateConsumer(c)
    BY <1>14, <2>1, <2>2, RecreateConsumerType DEF TypeOK, CommitError
  <2>3. CASE MarkBlocked(c)
    <3>1. blocked' \in [Consumers -> [Partitions -> Offset \cup {None}]]
      BY <1>14, <2>3, MarkBlockedType DEF CommitError
    <3> QED BY <1>14, <2>1, <2>3, <3>1 DEF TypeOK, CommitError, MarkBlocked, Forget
  <2> QED BY <1>14, <2>2, <2>3 DEF CommitError
<1>15. CASE UNCHANGED vars
  BY <1>15 DEF TypeOK, vars
<1> QED
  BY <1>1, <1>2, <1>3, <1>4, <1>5, <1>6, <1>7, <1>8, <1>9, <1>10, <1>11, <1>12,
     <1>13, <1>14, <1>15 DEF Next

(* The state of the broker, of Postgres' clients and of every process      *)
(* keeps its type, whatever fails.                                         *)
THEOREM TypeCorrect == Spec => []TypeOK
BY InitTypeOK, NextTypeOK, PTL DEF Spec

-----------------------------------------------------------------------------
(* No message is skipped.                                                  *)

DownHasNoPosition ==
    \A c \in Consumers : stage[c] = "down" =>
        \A p \in Partitions : position[c][p] = 0

(* Only a message that passed validation and mapping is being stored.      *)
OnlyEventsStored ==
    \A c \in Consumers : stage[c] = "persist" => Route(MessageOf(c)) = "persist"

IInv == /\ TypeOK /\ NoMessageSkipped /\ FrontiersSound
        /\ DownHasNoPosition /\ OnlyEventsStored

(* The topics and tables only grow, so a handled message stays handled.    *)
LEMMA Grows ==
    ASSUME TypeOK, [Next]_vars
    PROVE  dlq \subseteq dlq' /\ delivery_log \subseteq delivery_log' /\ events \subseteq events'
<1>1. CASE UNCHANGED vars BY <1>1 DEF vars
<1>2. ASSUME NEW p \in Partitions, Produce(p)
      PROVE  UNCHANGED <<dlq, delivery_log, events>>
  BY <1>2 DEF Produce, db
<1>3. ASSUME NEW c \in Consumers, NEW p \in Partitions, Assign(c, p) \/ Poll(c, p)
      PROVE  UNCHANGED <<dlq, delivery_log, events>>
  BY <1>3 DEF Assign, Poll, broker, db
<1>4. ASSUME NEW c \in Consumers,
             \/ start(c) \/ _signal_handler(c) \/ stop(c) \/ Crash(c) \/ PollError(c)
             \/ CommitOk(c) \/ CommitError(c)
      PROVE  UNCHANGED <<dlq, delivery_log, events>>
  BY <1>4 DEF start, _signal_handler, stop, Crash, PollError, CommitOk, CommitError,
              broker, db
<1>5. ASSUME NEW c \in Consumers,
             PersistOk(c) \/ PersistError(c) \/ SendToDLQOk(c) \/ SendToDLQError(c)
      PROVE  dlq \subseteq dlq' /\ delivery_log \subseteq delivery_log' /\ events \subseteq events'
  BY <1>5 DEF PersistOk, PersistError, SendToDLQOk, SendToDLQError, record_event,
              PublishDLQ, broker, db
<1> QED BY <1>1, <1>2, <1>3, <1>4, <1>5 DEF Next

LEMMA HandledStays ==
    ASSUME TypeOK, [Next]_vars, NEW p, NEW o, Handled(p, o)
    PROVE  Handled(p, o)'
BY Grows DEF Handled

(* A step that leaves a partition's dict entries alone keeps them sound    *)
(* when the message in flight stays the same or is dropped after it was    *)
(* marked, and the client only reads on from handled messages.             *)
LEMMA SoundKept ==
    ASSUME TypeOK, [Next]_vars, NEW d \in Consumers, NEW r \in Partitions,
           FrontierSound(d, r), TypeOK',
           committable'[d][r] = committable[d][r],
           blocked'[d][r] = blocked[d][r],
           \/ stage'[d] \notin Busy
           \/ /\ stage[d] \in Busy /\ stage'[d] # "commit"
              /\ inflight'[d].p = inflight[d].p /\ inflight'[d].o = inflight[d].o
           \/ stage'[d] = stage[d] /\ inflight'[d] = inflight[d],
           \/ /\ position'[d][r] = position[d][r]
              /\ \/ stage[d] \notin Busy \ {"commit"}
                 \/ /\ stage'[d] \in Busy \ {"commit"}
                    /\ inflight'[d].p = inflight[d].p /\ inflight'[d].o = inflight[d].o
           \/ \A o \in 0 .. position'[d][r] - 1 : Handled(r, o)
    PROVE  FrontierSound(d, r)'
<1> DEFINE k == committable[d][r]
           b == blocked[d][r]
           H(o) == Handled(r, o)
           mine == stage[d] \in Busy /\ inflight[d].p = r
<1>1. \A o : Handled(r, o) => Handled(r, o)' BY HandledStays
<1>2. ASSUME k # None PROVE FrontierSound(d, r)'
  BY <1>1, <1>2 DEF FrontierSound
<1>3. ASSUME k = None, b # None PROVE FrontierSound(d, r)'
  BY <1>1, <1>3 DEF FrontierSound
<1>4. ASSUME k = None, b = None PROVE FrontierSound(d, r)'
  <2>1. /\ mine => \A o \in 0 .. inflight[d].o - 1 : Handled(r, o)
        /\ \A o \in 0 .. position[d][r] - 1 :
              \/ Handled(r, o)
              \/ mine /\ stage[d] # "commit" /\ inflight[d].o = o
    BY <1>4 DEF FrontierSound
  <2>2. mine' => \A o \in 0 .. inflight'[d].o - 1 : Handled(r, o)'
    BY <1>1, <2>1
  <2>3. \A o \in 0 .. position'[d][r] - 1 :
              \/ Handled(r, o)'
              \/ mine' /\ stage'[d] # "commit" /\ inflight'[d].o = o
    BY <1>1, <2>1 DEF Busy
  <2> QED BY <1>4, <2>2, <2>3 DEF FrontierSound
<1> QED BY <1>2, <1>3, <1>4

(* A process that has just started, or whose client was recreated, has     *)
(* read nothing and promises nothing.                                      *)
LEMMA SoundFresh ==
    ASSUME NEW d \in Consumers, NEW r \in Partitions,
           committable'[d][r] = None, blocked'[d][r] = None,
           position'[d][r] = 0, stage'[d] \notin Busy
    PROVE  FrontierSound(d, r)'
BY DEF FrontierSound

(* _mark_committable, once the message in flight is handled.               *)
LEMMA SoundMarked ==
    ASSUME TypeOK, [Next]_vars, NEW d \in Consumers, NEW r \in Partitions,
           FrontierSound(d, r), stage[d] \in {"persist", "dlq"}, MarkCommittable(d),
           stage'[d] = "commit", inflight'[d] = inflight[d], position' = position,
           Handled(inflight[d].p, inflight[d].o)'
    PROVE  FrontierSound(d, r)'
<1> DEFINE p == inflight[d].p
           o == inflight[d].o
           k == committable[d][r]
           b == blocked[d][r]
<1>1. \A i : Handled(r, i) => Handled(r, i)' BY HandledStays
<1>2. p \in Partitions /\ o \in Nat BY BusyMessage DEF Busy, Offset
<1>3. k \in Nat \cup {None} /\ b \in Nat \cup {None} BY DEF TypeOK, Offset
<1>4. CASE r # p
  <2>1. committable'[d][r] = k /\ blocked'[d][r] = b
    BY <1>2, <1>4 DEF MarkCommittable, TypeOK
  <2> QED BY <1>1, <1>4, <2>1 DEF FrontierSound
<1>5. CASE r = p
  <2>1. committable'[d][r] = Advanced(k, b, o) /\ blocked'[d][r] = Unblocked(b, o)
    BY <1>2, <1>5 DEF MarkCommittable, TypeOK
  <2>2. Handled(r, o)' BY <1>5
  <2>3. CASE k # None
    <3>1. \A i \in 0 .. k : Handled(r, i)' BY <1>1, <2>3 DEF FrontierSound
    <3>2. Advanced(k, b, o) = k \/ (Advanced(k, b, o) = k + 1 /\ o = k + 1)
      BY <2>3 DEF Advanced
    <3>3. \A i \in 0 .. Advanced(k, b, o) : Handled(r, i)'
      BY <1>3, <2>2, <2>3, <3>1, <3>2
    <3> QED BY <1>3, <2>1, <2>3, <3>2, <3>3 DEF FrontierSound
  <2>4. CASE k = None /\ (b = None \/ b = o)
    <3>1. \A i \in 0 .. o - 1 : Handled(r, i)'
      BY <1>1, <1>2, <1>5, <2>4 DEF FrontierSound, Busy
    <3>2. Advanced(k, b, o) = o BY <2>4 DEF Advanced
    <3>3. \A i \in 0 .. o : Handled(r, i)' BY <1>2, <2>2, <3>1
    <3> QED BY <1>2, <2>1, <3>2, <3>3 DEF FrontierSound
  <2>5. CASE k = None /\ b # None /\ b # o
    <3>1. Advanced(k, b, o) = None /\ Unblocked(b, o) = b
      BY <2>5 DEF Advanced, Unblocked
    <3>2. \A i \in 0 .. b - 1 : Handled(r, i)' BY <1>1, <2>5 DEF FrontierSound
    <3> QED BY <2>1, <2>5, <3>1, <3>2 DEF FrontierSound
  <2> QED BY <2>3, <2>4, <2>5
<1> QED BY <1>4, <1>5

(* _mark_blocked with an offset below which everything is handled, when    *)
(* the dicts are empty: the generic handler of run().                      *)
LEMMA SoundBlocked ==
    ASSUME TypeOK, [Next]_vars, NEW d \in Consumers, NEW r \in Partitions,
           FrontierSound(d, r), NEW o \in Nat,
           committable'[d][r] = committable[d][r],
           blocked'[d][r] = LowestBlocked(blocked[d][r], o),
           committable[d][r] = None /\ blocked[d][r] = None =>
               \A i \in 0 .. o - 1 : Handled(r, i)
    PROVE  FrontierSound(d, r)'
<1> DEFINE k == committable[d][r]
           b == blocked[d][r]
<1>1. \A i : Handled(r, i) => Handled(r, i)' BY HandledStays
<1>2. k \in Nat \cup {None} /\ b \in Nat \cup {None} BY DEF TypeOK, Offset
<1>3. LowestBlocked(b, o) # None BY <1>2 DEF LowestBlocked
<1>4. CASE k # None BY <1>1, <1>4 DEF FrontierSound
<1>5. CASE k = None
  <2>1. \A i \in 0 .. LowestBlocked(b, o) - 1 : Handled(r, i)
    BY <1>2, <1>5 DEF FrontierSound, LowestBlocked
  <2> QED BY <1>1, <1>3, <1>5, <2>1 DEF FrontierSound
<1> QED BY <1>4, <1>5

LEMMA SoundMarkBlocked ==
    ASSUME TypeOK, [Next]_vars, NEW d \in Consumers, NEW r \in Partitions,
           FrontierSound(d, r), stage[d] \in Busy, MarkBlocked(d)
    PROVE  FrontierSound(d, r)'
<1> DEFINE p == inflight[d].p
           o == inflight[d].o
<1>1. p \in Partitions /\ o \in Nat BY BusyMessage DEF Offset
<1>2. position' = position /\ committable' = committable /\ stage'[d] = "poll"
  BY DEF MarkBlocked, TypeOK
<1>3. CASE r = p
  <2>1. blocked'[d][r] = LowestBlocked(blocked[d][r], o)
    BY <1>1, <1>3 DEF MarkBlocked, TypeOK
  <2>2. committable[d][r] = None /\ blocked[d][r] = None =>
            \A i \in 0 .. o - 1 : Handled(r, i)
    BY <1>3 DEF FrontierSound
  <2> QED BY <1>1, <1>2, <2>1, <2>2, SoundBlocked
<1>4. CASE r # p
  <2>1. blocked'[d][r] = blocked[d][r]
    BY <1>1, <1>4 DEF MarkBlocked, TypeOK
  <2>2. \A i : Handled(r, i) => Handled(r, i)' BY HandledStays
  <2> QED BY <1>2, <1>4, <2>1, <2>2 DEF FrontierSound, Busy
<1> QED BY <1>3, <1>4

(* A commit sends no offset above an unhandled message.                    *)
LEMMA CommitFrontierSafe ==
    ASSUME TypeOK, NoMessageSkipped, FrontiersSound, NEW c \in Consumers,
           NEW p \in Partitions, NEW o \in Offset, o < CommitFrontier(c)[p]
    PROVE  Handled(p, o)
<1> DEFINE k == committable[c][p]
           b == blocked[c][p]
<1>1. CASE p \notin ToCommit(c)
  BY <1>1 DEF CommitFrontier, NoMessageSkipped
<1>2. CASE p \in ToCommit(c)
  <2>1. o < CommitOffset(k, b) /\ CommitOffset(k, b) # None
    BY <1>2 DEF CommitFrontier, ToCommit
  <2>2. k \in Nat /\ b \in Nat \cup {None}
    BY <2>1 DEF CommitOffset, TypeOK, Offset
  <2>3. o \in 0 .. k BY <2>1, <2>2 DEF CommitOffset, Offset
  <2> QED BY <2>2, <2>3 DEF FrontiersSound, FrontierSound
<1> QED BY <1>1, <1>2

LEMMA InitIInv == Init => IInv
<1> SUFFICES ASSUME Init PROVE IInv OBVIOUS
<1>1. TypeOK BY InitTypeOK
<1>2. NoMessageSkipped BY DEF Init, NoMessageSkipped, Offset
<1>3. FrontiersSound BY DEF Init, FrontiersSound, FrontierSound, Busy
<1>4. DownHasNoPosition BY DEF Init, DownHasNoPosition
<1>5. OnlyEventsStored BY DEF Init, OnlyEventsStored
<1> QED BY <1>1, <1>2, <1>3, <1>4, <1>5 DEF IInv

(* Only a commit moves the committed offsets, to the frontier of a process. *)
LEMMA NextNoMessageSkipped ==
    ASSUME IInv, [Next]_vars PROVE NoMessageSkipped'
<1> USE DEF IInv
<1>1. committed' = committed \/ \E c \in Consumers : committed' = CommitFrontier(c)
  BY DEF Next, vars, Produce, Assign, Poll, start, _signal_handler, stop, Crash,
         PollError, PersistOk, PersistError, SendToDLQOk, SendToDLQError, CommitOk,
         CommitError, broker
<1>2. \A p \in Partitions : \A o \in Offset : o < committed'[p] => Handled(p, o)
  BY <1>1, CommitFrontierSafe DEF NoMessageSkipped
<1> QED BY <1>2, HandledStays DEF NoMessageSkipped

LEMMA LeaveGroupPosition ==
    ASSUME TypeOK, NEW c \in Consumers, LeaveGroup(c)
    PROVE  /\ \A p \in Partitions : position'[c][p] = 0
           /\ \A d \in Consumers \ {c} : position'[d] = position[d]
BY DEF LeaveGroup, TypeOK

LEMMA NextDownHasNoPosition ==
    ASSUME IInv, [Next]_vars PROVE DownHasNoPosition'
<1> USE DEF IInv
<1>1. CASE UNCHANGED vars BY <1>1 DEF vars, DownHasNoPosition
<1>2. ASSUME NEW p \in Partitions, Produce(p) PROVE DownHasNoPosition'
  BY <1>2 DEF Produce, process, DownHasNoPosition
<1>3. ASSUME NEW c \in Consumers, NEW p \in Partitions, Assign(c, p)
      PROVE  DownHasNoPosition'
  BY <1>3 DEF Assign, DownHasNoPosition, TypeOK
<1>4. ASSUME NEW c \in Consumers, NEW p \in Partitions, Poll(c, p)
      PROVE  DownHasNoPosition'
  <2>1. /\ \A d \in Consumers \ {c} : stage'[d] = stage[d] /\ position'[d] = position[d]
        /\ stage'[c] # "down"
    BY <1>4 DEF Poll, TypeOK, Route
  <2> QED BY <2>1 DEF DownHasNoPosition
<1>a. ASSUME NEW c \in Consumers, LeaveGroup(c),
             \A d \in Consumers \ {c} : stage'[d] = stage[d]
      PROVE  DownHasNoPosition'
  BY <1>a, LeaveGroupPosition DEF DownHasNoPosition
<1>5. ASSUME NEW c \in Consumers, stop(c) \/ Crash(c) PROVE DownHasNoPosition'
  BY <1>a, <1>5 DEF stop, Crash, TypeOK
<1>6. ASSUME NEW c \in Consumers, RecreateConsumer(c) PROVE DownHasNoPosition'
  BY <1>a, <1>6 DEF RecreateConsumer, TypeOK
<1>7. ASSUME NEW c \in Consumers, MarkBlocked(c) PROVE DownHasNoPosition'
  BY <1>7 DEF MarkBlocked, DownHasNoPosition, TypeOK
<1>8. ASSUME NEW c \in Consumers,
             \/ start(c) \/ _signal_handler(c) \/ PersistOk(c) \/ PersistError(c)
             \/ SendToDLQOk(c) \/ CommitOk(c)
      PROVE  DownHasNoPosition'
  BY <1>8 DEF start, _signal_handler, PersistOk, PersistError, SendToDLQOk, CommitOk,
              DownHasNoPosition, TypeOK
<1> QED
  BY <1>1, <1>2, <1>3, <1>4, <1>5, <1>6, <1>7, <1>8
  DEF Next, PollError, SendToDLQError, CommitError

(* Only Poll starts to store a message, and a retry keeps the message.     *)
LEMMA NextOnlyEventsStored ==
    ASSUME IInv, [Next]_vars PROVE OnlyEventsStored'
<1> USE DEF IInv
<1> SUFFICES ASSUME NEW d \in Consumers, stage'[d] = "persist"
             PROVE  Route(Stream[inflight'[d].p][inflight'[d].o]) = "persist"
  BY DEF OnlyEventsStored, MessageOf
<1> DEFINE Same == /\ stage[d] = "persist"
                   /\ inflight'[d].p = inflight[d].p /\ inflight'[d].o = inflight[d].o
<1>0. CASE Same BY <1>0 DEF OnlyEventsStored, MessageOf
<1>1. CASE UNCHANGED vars BY <1>0, <1>1 DEF vars
<1>2. ASSUME NEW p \in Partitions, Produce(p) PROVE Same
  BY <1>2 DEF Produce, process
<1>3. ASSUME NEW c \in Consumers, NEW p \in Partitions, Assign(c, p) PROVE Same
  BY <1>3 DEF Assign
<1>4. ASSUME NEW c \in Consumers, NEW p \in Partitions, Poll(c, p)
      PROVE  Route(Stream[inflight'[d].p][inflight'[d].o]) = "persist"
  <2>1. CASE d # c
    <3>1. Same BY <1>4, <2>1 DEF Poll, TypeOK
    <3> QED BY <1>0, <3>1
  <2>2. CASE d = c
    <3> DEFINE o == position[c][p]
               route == Route(Stream[p][o])
    <3>1. stage'[c] = IF route = "raise" THEN "poll" ELSE route
      BY <1>4 DEF Poll, TypeOK
    <3>2. route = "persist" BY <2>2, <3>1
    <3>3. inflight'[c] = [p |-> p, o |-> o, attempt |-> 0]
      BY <1>4, <3>2 DEF Poll, TypeOK
    <3> QED BY <2>2, <3>2, <3>3
  <2> QED BY <2>1, <2>2
<1>5. ASSUME NEW c \in Consumers, start(c) \/ _signal_handler(c) \/ stop(c) \/ Crash(c)
      PROVE  Same
  BY <1>5 DEF start, _signal_handler, stop, Crash, Forget, TypeOK
<1>6. ASSUME NEW c \in Consumers, RecreateConsumer(c) \/ MarkBlocked(c) PROVE Same
  BY <1>6 DEF RecreateConsumer, MarkBlocked, Forget, TypeOK
<1>7. ASSUME NEW c \in Consumers, PersistOk(c) \/ SendToDLQOk(c) \/ CommitOk(c) PROVE Same
  BY <1>7 DEF PersistOk, SendToDLQOk, CommitOk, Forget, TypeOK
<1>8. ASSUME NEW c \in Consumers, PersistError(c) PROVE Same
  <2>1. inflight[c] \in InFlight BY <1>8, BusyMessage DEF PersistError, Busy
  <2>2. inflight'[c].p = inflight[c].p /\ inflight'[c].o = inflight[c].o
    BY <1>8, <2>1 DEF PersistError, TypeOK, InFlight
  <2>3. d # c => inflight'[d] = inflight[d] BY <1>8 DEF PersistError, TypeOK
  <2>4. stage[d] = "persist" BY <1>8 DEF PersistError, TypeOK
  <2> QED BY <2>2, <2>3, <2>4
<1> HIDE DEF Same
<1> QED
  BY <1>0, <1>1, <1>2, <1>3, <1>4, <1>5, <1>6, <1>7, <1>8
  DEF Next, PollError, SendToDLQError, CommitError

(* A fresh client, with or without its dicts emptied.                      *)
LEMMA RecreateSound ==
    ASSUME IInv, [Next]_vars, TypeOK', NEW c \in Consumers, RecreateConsumer(c)
    PROVE  FrontiersSound'
<1> USE DEF IInv
<1> SUFFICES ASSUME NEW d \in Consumers, NEW r \in Partitions PROVE FrontierSound(d, r)'
  BY DEF FrontiersSound
<1>1. FrontierSound(d, r) BY DEF FrontiersSound
<1>2. /\ \A p \in Partitions : position'[c][p] = 0
      /\ \A e \in Consumers \ {c} : position'[e] = position[e]
  BY LeaveGroupPosition DEF RecreateConsumer
<1>3. CASE d # c
  <2>1. /\ stage'[d] = stage[d] /\ inflight'[d] = inflight[d]
        /\ position'[d][r] = position[d][r]
        /\ committable'[d][r] = committable[d][r] /\ blocked'[d][r] = blocked[d][r]
    BY <1>2, <1>3 DEF RecreateConsumer, Forget, TypeOK
  <2> QED BY <1>1, <2>1, SoundKept
<1>4. CASE d = c /\ running[c]
  <2>1. /\ committable'[d][r] = None /\ blocked'[d][r] = None
        /\ position'[d][r] = 0 /\ stage'[d] \notin Busy
    BY <1>2, <1>4 DEF RecreateConsumer, TypeOK, Busy
  <2> QED BY <2>1, SoundFresh
<1>5. CASE d = c /\ ~running[c]
  <2>1. /\ committable'[d][r] = committable[d][r] /\ blocked'[d][r] = blocked[d][r]
        /\ position'[d][r] = 0 /\ stage'[d] \notin Busy
    BY <1>2, <1>5 DEF RecreateConsumer, TypeOK, Busy
  <2> QED BY <1>1, <2>1, SoundKept
<1> QED BY <1>3, <1>4, <1>5

LEMMA MarkBlockedSound ==
    ASSUME IInv, [Next]_vars, TypeOK', NEW c \in Consumers, stage[c] \in Busy, MarkBlocked(c)
    PROVE  FrontiersSound'
<1> USE DEF IInv
<1> SUFFICES ASSUME NEW d \in Consumers, NEW r \in Partitions PROVE FrontierSound(d, r)'
  BY DEF FrontiersSound
<1>1. FrontierSound(d, r) BY DEF FrontiersSound
<1>2. CASE d = c BY <1>1, <1>2, SoundMarkBlocked
<1>3. CASE d # c
  <2>1. /\ stage'[d] = stage[d] /\ inflight'[d] = inflight[d]
        /\ position'[d][r] = position[d][r]
        /\ committable'[d][r] = committable[d][r] /\ blocked'[d][r] = blocked[d][r]
    BY <1>3 DEF MarkBlocked, Forget, TypeOK
  <2> QED BY <1>1, <2>1, SoundKept
<1> QED BY <1>2, <1>3

LEMMA NextFrontiersSound ==
    ASSUME IInv, [Next]_vars PROVE FrontiersSound'
<1> USE DEF IInv
<1>0. TypeOK' BY NextTypeOK
<1> DEFINE Kept(d, r) ==
        /\ stage'[d] = stage[d] /\ inflight'[d] = inflight[d]
        /\ position'[d][r] = position[d][r]
        /\ committable'[d][r] = committable[d][r] /\ blocked'[d][r] = blocked[d][r]
<1>1. ASSUME NEW d \in Consumers, NEW r \in Partitions PROVE FrontierSound(d, r)
  BY DEF FrontiersSound
<1>2. ASSUME NEW d \in Consumers, NEW r \in Partitions, Kept(d, r)
      PROVE  FrontierSound(d, r)'
  BY <1>0, <1>1, <1>2, SoundKept
<1>3. CASE UNCHANGED vars BY <1>2, <1>3 DEF vars, FrontiersSound
<1>4. ASSUME NEW p \in Partitions, Produce(p) PROVE FrontiersSound'
  BY <1>2, <1>4 DEF Produce, process, FrontiersSound
<1>5. ASSUME NEW c \in Consumers, NEW p \in Partitions, Assign(c, p)
      PROVE  FrontiersSound'
  <2> SUFFICES ASSUME NEW d \in Consumers, NEW r \in Partitions
               PROVE  FrontierSound(d, r)'
    BY DEF FrontiersSound
  <2>1. UNCHANGED <<stage, inflight, committable, blocked>> BY <1>5 DEF Assign
  <2>2. position'[d][r] \in {position[d][r], 0, committed[r]}
    BY <1>5 DEF Assign, TypeOK
  <2>3. CASE position'[d][r] = position[d][r] BY <1>2, <2>1, <2>3
  <2>4. CASE position'[d][r] = 0 BY <1>0, <1>1, <2>1, <2>4, SoundKept
  <2>5. CASE position'[d][r] = committed[r]
    <3>1. \A o \in 0 .. committed[r] - 1 : Handled(r, o)
      BY SMTT(60) DEF NoMessageSkipped, TypeOK, Offset
    <3> QED BY <1>0, <1>1, <2>1, <2>5, <3>1, SoundKept
  <2> QED BY <2>2, <2>3, <2>4, <2>5
<1>6. ASSUME NEW c \in Consumers, NEW p \in Partitions, Poll(c, p)
      PROVE  FrontiersSound'
  <2> SUFFICES ASSUME NEW d \in Consumers, NEW r \in Partitions
               PROVE  FrontierSound(d, r)'
    BY DEF FrontiersSound
  <2> DEFINE o == position[c][p]
             route == Route(Stream[p][o])
  <2>1. CASE d # c
    <3>1. Kept(d, r) BY <1>6, <2>1 DEF Poll, TypeOK
    <3> QED BY <1>2, <3>1
  <2>2. /\ stage[c] = "poll" /\ stage[c] \notin Busy
        /\ committable' = committable
        /\ \A q \in Partitions \ {p} : position'[c][q] = position[c][q]
        /\ position'[c][p] = o + 1
        /\ \A q \in Partitions \ {p} : blocked'[c][q] = blocked[c][q]
    BY <1>6 DEF Poll, TypeOK, Busy
  <2>3. committable[c][p] = None /\ blocked[c][p] = None =>
            \A i \in 0 .. o - 1 : Handled(p, i)
    BY <1>1, <2>2 DEF FrontierSound
  <2>4. o \in Nat BY DEF TypeOK
  <2>5. \A i : Handled(r, i) => Handled(r, i)' BY HandledStays
  <2>6. CASE d = c /\ route = "raise"
    <3>1. stage'[c] = "poll" /\ stage'[c] \notin Busy
      BY <1>6, <2>6 DEF Poll, TypeOK, Busy
    <3>2. CASE r = p
      <4>1. blocked'[c][p] = LowestBlocked(blocked[c][p], o)
        BY <1>6, <2>6 DEF Poll, TypeOK
      <4> HIDE DEF o
      <4> QED BY <1>1, <2>2, <2>3, <2>4, <2>6, <3>2, <4>1, SoundBlocked
    <3>3. CASE r # p BY <1>0, <1>1, <2>2, <2>6, <3>1, <3>3, SoundKept
    <3> QED BY <3>2, <3>3
  <2>7. CASE d = c /\ route # "raise"
    <3>1. /\ inflight'[c].p = p /\ inflight'[c].o = o
          /\ stage'[c] \in Busy /\ stage'[c] # "commit"
          /\ blocked' = blocked
      BY <1>6, <2>7 DEF Poll, TypeOK, Busy, Route
    <3> HIDE DEF o, route
    <3>2. CASE r = p
      <4>1. FrontierSound(c, p) BY <1>1
      <4>2. \A i \in 0 .. o : i \in 0 .. o - 1 \/ i = o BY <2>4
      <4>3. position'[c][p] - 1 = o BY <2>2, <2>4
      <4> QED BY <2>2, <2>3, <2>5, <2>7, <3>1, <3>2, <4>1, <4>2, <4>3 DEF FrontierSound
    <3>3. CASE r # p
      <4>1. FrontierSound(c, r) BY <1>1
      <4> QED BY <2>2, <2>5, <2>7, <3>1, <3>3, <4>1 DEF FrontierSound
    <3> QED BY <3>2, <3>3
  <2> QED BY <2>1, <2>6, <2>7
<1>7. ASSUME NEW c \in Consumers, start(c) PROVE FrontiersSound'
  <2> SUFFICES ASSUME NEW d \in Consumers, NEW r \in Partitions
               PROVE  FrontierSound(d, r)'
    BY DEF FrontiersSound
  <2>1. CASE d # c
    <3>1. Kept(d, r) BY <1>7, <2>1 DEF start, TypeOK
    <3> QED BY <1>2, <3>1
  <2>2. CASE d = c
    <3>1. /\ committable'[c][r] = None /\ blocked'[c][r] = None
          /\ position'[c][r] = 0 /\ stage'[c] \notin Busy
      BY <1>7 DEF start, TypeOK, DownHasNoPosition, Busy
    <3> QED BY <2>2, <3>1, SoundFresh
  <2> QED BY <2>1, <2>2
<1>8. ASSUME NEW c \in Consumers, _signal_handler(c) PROVE FrontiersSound'
  BY <1>2, <1>8 DEF _signal_handler, FrontiersSound
<1>9. ASSUME NEW c \in Consumers, stop(c) \/ Crash(c) PROVE FrontiersSound'
  <2> SUFFICES ASSUME NEW d \in Consumers, NEW r \in Partitions
               PROVE  FrontierSound(d, r)'
    BY DEF FrontiersSound
  <2>1. /\ position'[c][r] = 0
        /\ d # c => position'[d] = position[d]
    BY <1>9, LeaveGroupPosition DEF stop, Crash
  <2>2. CASE d # c
    <3>1. Kept(d, r) BY <1>9, <2>1, <2>2 DEF stop, Crash, Forget, TypeOK
    <3> QED BY <1>2, <3>1
  <2>3. CASE d = c
    <3>1. /\ committable'[c][r] = committable[c][r] /\ blocked'[c][r] = blocked[c][r]
          /\ stage'[c] \notin Busy
      BY <1>9 DEF stop, Crash, TypeOK, Busy
    <3> QED BY <1>0, <1>1, <2>1, <2>3, <3>1, SoundKept
  <2> QED BY <2>2, <2>3
<1>10. ASSUME NEW c \in Consumers, PollError(c) PROVE FrontiersSound'
  BY <1>0, <1>10, RecreateSound DEF PollError
<1>11. ASSUME NEW c \in Consumers, PersistOk(c) \/ SendToDLQOk(c) PROVE FrontiersSound'
  <2> SUFFICES ASSUME NEW d \in Consumers, NEW r \in Partitions
               PROVE  FrontierSound(d, r)'
    BY DEF FrontiersSound
  <2>1. CASE d # c
    <3>1. Kept(d, r)
      BY <1>11, <2>1 DEF PersistOk, SendToDLQOk, MarkCommittable, TypeOK
    <3> QED BY <1>2, <3>1
  <2>2. CASE d = c
    <3>1. /\ stage[c] \in {"persist", "dlq"} /\ MarkCommittable(c) /\ stage'[c] = "commit"
          /\ inflight' = inflight /\ position' = position
      BY <1>11 DEF PersistOk, SendToDLQOk, TypeOK
    <3>2. Handled(inflight[c].p, inflight[c].o)'
      BY <1>11, <3>1 DEF PersistOk, SendToDLQOk, PublishDLQ, record_event, MessageOf,
                         Handled, OnlyEventsStored
    <3> QED BY <1>1, <2>2, <3>1, <3>2, SoundMarked
  <2> QED BY <2>1, <2>2
<1>12. ASSUME NEW c \in Consumers, PersistError(c) PROVE FrontiersSound'
  <2> SUFFICES ASSUME NEW d \in Consumers, NEW r \in Partitions
               PROVE  FrontierSound(d, r)'
    BY DEF FrontiersSound
  <2>1. CASE d # c
    <3>1. Kept(d, r) BY <1>12, <2>1 DEF PersistError, TypeOK
    <3> QED BY <1>2, <3>1
  <2>2. CASE d = c
    <3>1. inflight[c] \in InFlight BY <1>12, BusyMessage DEF PersistError, Busy
    <3>2. inflight'[c].p = inflight[c].p /\ inflight'[c].o = inflight[c].o
      BY <1>12, <3>1 DEF PersistError, TypeOK, InFlight
    <3>3. /\ stage[c] \in Busy /\ stage'[c] \in Busy /\ stage'[c] # "commit"
          /\ UNCHANGED <<position, committable, blocked>>
      BY <1>12 DEF PersistError, TypeOK, Busy
    <3> QED BY <1>0, <1>1, <2>2, <3>2, <3>3, SoundKept
  <2> QED BY <2>1, <2>2
<1>13. ASSUME NEW c \in Consumers, SendToDLQError(c) PROVE FrontiersSound'
  BY <1>0, <1>13, RecreateSound, MarkBlockedSound DEF SendToDLQError, Busy
<1>14. ASSUME NEW c \in Consumers, CommitOk(c) PROVE FrontiersSound'
  <2> SUFFICES ASSUME NEW d \in Consumers, NEW r \in Partitions
               PROVE  FrontierSound(d, r)'
    BY DEF FrontiersSound
  <2>1. CASE d # c
    <3>1. Kept(d, r) BY <1>14, <2>1 DEF CommitOk, Forget, TypeOK
    <3> QED BY <1>2, <3>1
  <2>2. CASE d = c
    <3>1. /\ stage[c] = "commit" /\ stage'[c] \notin Busy
          /\ UNCHANGED <<position, committable, blocked>>
      BY <1>14 DEF CommitOk, TypeOK, Busy
    <3> QED BY <1>0, <1>1, <2>2, <3>1, SoundKept
  <2> QED BY <2>1, <2>2
<1>15. ASSUME NEW c \in Consumers, CommitError(c) PROVE FrontiersSound'
  BY <1>0, <1>15, RecreateSound, MarkBlockedSound DEF CommitError, Busy
<1> QED
  BY <1>3, <1>4, <1>5, <1>6, <1>7, <1>8, <1>9, <1>10, <1>11, <1>12, <1>13, <1>14,
     <1>15 DEF Next

LEMMA NextIInv == IInv /\ [Next]_vars => IInv'
BY NextTypeOK, NextNoMessageSkipped, NextFrontiersSound, NextDownHasNoPosition,
   NextOnlyEventsStored DEF IInv

(* However the processes interleave, fail, restart and pass partitions on, *)
(* the committed offset never passes a message that is neither stored nor  *)
(* dead-lettered (_commit).                                                *)
THEOREM CommitNeverSkips == Spec => []NoMessageSkipped
<1>1. IInv => NoMessageSkipped BY DEF IInv
<1> QED BY <1>1, InitIInv, NextIInv, PTL DEF Spec

(* The dicts of every process, stale ones included, only ever promise      *)
(* handled messages (_mark_committable, _mark_blocked).                    *)
THEOREM DictsSound == Spec => []FrontiersSound
<1>1. IInv => FrontiersSound BY DEF IInv
<1> QED BY <1>1, InitIInv, NextIInv, PTL DEF Spec
=============================================================================
