------------------------- MODULE UsageConsumerProofs -------------------------
(***************************************************************************)
(* Proofs about UsageConsumer for any partitions, any stream of records    *)
(* and any number of retries and failures.                                 *)
(*                                                                         *)
(* commit() sends the client's positions, so the property depends on what  *)
(* lies below a position: everything was dealt with, except the message    *)
(* that is being posted or dead-lettered.  That is ReadIsDealtWith, and    *)
(* with TypeOK it makes the property inductive.                            *)
(***************************************************************************)
EXTENDS UsageConsumer, TLAPS

USE UsageAssumption

Done(p, o) == Handled(p, o) \/ GivenUp(p, o)

(* What a running client has read was dealt with or is in flight, and what *)
(* is about to be committed was dealt with.                                *)
ReadIsDealtWith ==
    stage # "down" =>
        \A p \in Partitions : \A o \in Offset : o < position[p] =>
            Done(p, o) \/ (stage \in {"post", "dlq"} /\ inflight = <<p, o>>)

IInv == TypeOK /\ ReadIsDealtWith /\ OnlyAbandonedRecordsAreSkipped

-----------------------------------------------------------------------------
(* Type correctness.                                                       *)

LEMMA InitTypeOK == Init => TypeOK
<1> SUFFICES ASSUME Init PROVE TypeOK
  OBVIOUS
<1>1. 0 \in 0 .. MaxOffset + 1 /\ 0 \in 0 .. MaxFaults /\ 0 \in Nat
  OBVIOUS
<1>2. running \in BOOLEAN BY Zenon DEF Init
<1>3. stage \in {"post", "dlq", "commit"} <=> inflight # <<>> BY DEF Init
<1> QED BY <1>1, <1>2, <1>3 DEF Init, TypeOK

(* The two outcomes of a commit and the ends of a message keep the types.  *)
LEMMA NextTypeOK == TypeOK /\ [Next]_vars => TypeOK'
<1> SUFFICES ASSUME TypeOK, [Next]_vars PROVE TypeOK'
  OBVIOUS
<1> USE DEF Fault
<1>0. inflight # <<>> => inflight \in Partitions \X Offset
  BY DEF TypeOK
<1>1. ASSUME NEW p \in Partitions, Produce(p) PROVE TypeOK'
  BY <1>1, SMTT(60) DEF TypeOK, Produce
<1>2. ASSUME NEW p \in Partitions, Poll(p) PROVE TypeOK'
  <2> DEFINE o == position[p]
  <2>1. o \in Offset BY <1>2 DEF TypeOK, Poll, Offset
  <2>2. <<p, o>> \in Partitions \X Offset /\ <<p, o>> # <<>> BY <2>1
  <2>3. /\ position' = [position EXCEPT ![p] = o + 1]
        /\ UNCHANGED <<end, committed, dlq, ingested, running, faults>>
    BY <1>2 DEF Poll
  <2>4. position' \in [Partitions -> 0 .. MaxOffset + 1]
    BY <2>1, <2>3 DEF TypeOK, Offset
  <2>5. Kind[p][o] \in {"valid", "invalid", "null"} BY <2>1
  <2>6. CASE Kind[p][o] = "null"
    <3>1. abandoned' = abandoned \cup {<<p, o, "raised">>} /\ PollOn
      BY <1>2, <2>6 DEF Poll, GiveUp
    <3> QED BY <2>1, <2>3, <2>4, <3>1, SMTT(60) DEF TypeOK, PollOn
  <2>7. CASE Kind[p][o] = "invalid"
    <3>1. /\ stage' = "dlq" /\ inflight' = <<p, o>> /\ attempt' = 0
          /\ UNCHANGED abandoned
      BY <1>2, <2>7 DEF Poll
    <3> QED BY <2>2, <2>3, <2>4, <3>1 DEF TypeOK
  <2>8. CASE Kind[p][o] = "valid"
    <3>1. /\ stage' = "post" /\ inflight' = <<p, o>> /\ attempt' = 0
          /\ UNCHANGED abandoned
      BY <1>2, <2>8 DEF Poll
    <3> QED BY <2>2, <2>3, <2>4, <3>1 DEF TypeOK
  <2> QED BY <2>5, <2>6, <2>7, <2>8
<1>3. CASE start BY <1>3 DEF TypeOK, start
<1>4. CASE _signal_handler
  <2>1. faults' \in 0 .. MaxFaults BY <1>4 DEF TypeOK, _signal_handler
  <2>2. running' \in BOOLEAN BY <1>4, Zenon DEF _signal_handler
  <2> QED BY <1>4, <2>1, <2>2 DEF TypeOK, _signal_handler
<1>5. CASE stop BY <1>5 DEF TypeOK, stop
<1>6. CASE Crash
  <2>1. faults' \in 0 .. MaxFaults BY <1>6 DEF TypeOK, Crash
  <2>2. running' \in BOOLEAN BY <1>6, Zenon DEF Crash
  <2> QED BY <1>6, <2>1, <2>2 DEF TypeOK, Crash
<1>7. CASE Rebalance BY <1>7 DEF TypeOK, Rebalance
<1>8. CASE Post2xx BY <1>0, <1>8 DEF TypeOK, Post2xx
<1>9. CASE Post4xx BY <1>9, SMTT(60) DEF TypeOK, Post4xx
<1>10. CASE Post5xxOrNetworkError
  <2>1. inflight \in Partitions \X Offset BY <1>0, <1>10 DEF TypeOK, Post5xxOrNetworkError
  <2>2. <<inflight[1], inflight[2], "retries">> \in Partitions \X Offset \X {"retries", "dlq", "raised"}
    BY <2>1
  <2>3. CASE attempt < MaxRetries - 1
    BY <1>10, <2>1, <2>3 DEF TypeOK, Post5xxOrNetworkError
  <2>4. CASE ~ (attempt < MaxRetries - 1)
    BY <1>10, <2>1, <2>2, <2>4 DEF TypeOK, Post5xxOrNetworkError, GiveUp, PollOn
  <2> QED BY <2>3, <2>4
<1>11. CASE SendToDLQOk BY <1>0, <1>11 DEF TypeOK, SendToDLQOk
<1>12. CASE SendToDLQError
  <2>1. inflight \in Partitions \X Offset BY <1>0, <1>12 DEF TypeOK, SendToDLQError
  <2>2. <<inflight[1], inflight[2], "dlq">> \in Partitions \X Offset \X {"retries", "dlq", "raised"}
    BY <2>1
  <2> QED BY <1>12, <2>2 DEF TypeOK, SendToDLQError, GiveUp
<1>13. CASE _commit BY <1>13 DEF TypeOK, _commit, PollOn
<1>14. CASE CommitError BY <1>14, SMTT(60) DEF TypeOK, CommitError, PollOn
<1>15. CASE UNCHANGED vars BY <1>15 DEF TypeOK, vars
<1> QED
  BY <1>1, <1>2, <1>3, <1>4, <1>5, <1>6, <1>7, <1>8, <1>9, <1>10, <1>11, <1>12, <1>13,
     <1>14, <1>15 DEF Next

-----------------------------------------------------------------------------
(* Nothing is skipped silently.                                            *)

(* The topics, the tables and the history of what was given up only grow.  *)
LEMMA DoneStays ==
    ASSUME TypeOK, [Next]_vars, NEW p, NEW o, Done(p, o)
    PROVE  Done(p, o)'
<1> DEFINE Grows == dlq \subseteq dlq' /\ ingested \subseteq ingested' /\ abandoned \subseteq abandoned'
<1>1. CASE UNCHANGED vars BY <1>1 DEF vars, Done, Handled, GivenUp
<1>2. ASSUME NEW q \in Partitions, Produce(q) PROVE Grows
  BY <1>2 DEF Produce
<1>3. ASSUME NEW q \in Partitions, Poll(q) PROVE Grows
  <2> DEFINE k == Kind[q][position[q]]
  <2>1. UNCHANGED <<dlq, ingested>> BY <1>3 DEF Poll
  <2>2. k \in {"valid", "invalid", "null"} BY <1>3 DEF TypeOK, Poll, Offset
  <2>3. CASE k = "null" BY <1>3, <2>1, <2>3 DEF Poll, GiveUp
  <2>4. CASE k = "invalid" BY <1>3, <2>1, <2>4 DEF Poll
  <2>5. CASE k = "valid" BY <1>3, <2>1, <2>5 DEF Poll
  <2> QED BY <2>2, <2>3, <2>4, <2>5
<1>4. ASSUME start \/ _signal_handler \/ stop \/ Crash \/ Rebalance PROVE Grows
  BY <1>4 DEF start, _signal_handler, stop, Crash, Rebalance
<1>5. ASSUME Post2xx \/ Post4xx \/ Post5xxOrNetworkError PROVE Grows
  BY <1>5 DEF Post2xx, Post4xx, Post5xxOrNetworkError, GiveUp
<1>6. ASSUME SendToDLQOk \/ SendToDLQError \/ _commit \/ CommitError PROVE Grows
  BY <1>6 DEF SendToDLQOk, SendToDLQError, _commit, CommitError, GiveUp
<1>7. Grows => Done(p, o)' BY DEF Done, Handled, GivenUp
<1> QED BY <1>1, <1>2, <1>3, <1>4, <1>5, <1>6, <1>7 DEF Next

(* What a step gives up it has dealt with.                                 *)
LEMMA GivenUpIsDone ==
    ASSUME NEW p, NEW o, NEW why, <<p, o, why>> \in abandoned'
    PROVE  Done(p, o)'
<1> DEFINE given == <<p, o, why>>
<1>1. given \in abandoned' /\ given[1] = p /\ given[2] = o OBVIOUS
<1> QED BY <1>1 DEF Done, GivenUp

(* Steps that commit nothing leave the records below the committed offset  *)
(* dealt with.                                                             *)
LEMMA CommittedStays ==
    ASSUME IInv, [Next]_vars, UNCHANGED committed
    PROVE  OnlyAbandonedRecordsAreSkipped'
<1> SUFFICES ASSUME NEW p \in Partitions, NEW o \in Offset, o < committed[p]
             PROVE  Done(p, o)'
  BY DEF OnlyAbandonedRecordsAreSkipped, Done
<1>1. Done(p, o) BY DEF IInv, OnlyAbandonedRecordsAreSkipped, Done
<1> QED BY <1>1, DoneStays DEF IInv

(* Steps that read nothing and neither take up nor drop a message leave    *)
(* what was read dealt with or in flight.                                  *)
LEMMA ReadStays ==
    ASSUME IInv, [Next]_vars, UNCHANGED <<position, inflight>>,
           stage' # "down" => stage # "down",
           stage \in {"post", "dlq"} /\ stage' # "down" =>
               \/ stage' \in {"post", "dlq"}
               \/ inflight \in dlq' \cup ingested'
               \/ \E a \in abandoned' : a[1] = inflight[1] /\ a[2] = inflight[2]
    PROVE  ReadIsDealtWith'
<1> SUFFICES ASSUME stage' # "down",
                    NEW p \in Partitions, NEW o \in Offset, o < position[p]
             PROVE  Done(p, o)' \/ (stage' \in {"post", "dlq"} /\ inflight = <<p, o>>)
  BY DEF ReadIsDealtWith
<1>1. Done(p, o) \/ (stage \in {"post", "dlq"} /\ inflight = <<p, o>>)
  BY DEF IInv, ReadIsDealtWith
<1>2. CASE Done(p, o) BY <1>2, DoneStays DEF IInv
<1>3. CASE stage \in {"post", "dlq"} /\ inflight = <<p, o>>
  BY <1>3 DEF Done, Handled, GivenUp
<1> QED BY <1>1, <1>2, <1>3

(* A new assignment reads on from the committed offsets, below which       *)
(* everything was dealt with.                                              *)
LEMMA ReadFromCommitted ==
    ASSUME IInv, [Next]_vars, UNCHANGED committed, position' = committed
    PROVE  ReadIsDealtWith'
<1>1. OnlyAbandonedRecordsAreSkipped' BY CommittedStays
<1> QED BY <1>1 DEF ReadIsDealtWith, OnlyAbandonedRecordsAreSkipped, Done

(* The whole of what was read is dealt with while a commit is due, and     *)
(* stays so whatever commit() answers.                                     *)
LEMMA CommitIsSafe ==
    ASSUME IInv, [Next]_vars, _commit \/ CommitError
    PROVE  ReadIsDealtWith' /\ OnlyAbandonedRecordsAreSkipped'
<1>1. \A p \in Partitions : \A o \in Offset : o < position[p] => Done(p, o)'
  <2> SUFFICES ASSUME NEW p \in Partitions, NEW o \in Offset, o < position[p]
               PROVE  Done(p, o)'
    OBVIOUS
  <2>1. Done(p, o) BY DEF IInv, ReadIsDealtWith, _commit, CommitError
  <2> QED BY <2>1, DoneStays DEF IInv
<1>2. UNCHANGED position BY DEF _commit, CommitError
<1>3. ReadIsDealtWith' BY <1>1, <1>2 DEF ReadIsDealtWith
<1>4. CASE committed' = position BY <1>1, <1>3, <1>4 DEF OnlyAbandonedRecordsAreSkipped, Done
<1>5. CASE UNCHANGED committed BY <1>3, <1>5, CommittedStays
<1> QED BY <1>3, <1>4, <1>5 DEF _commit, CommitError

(* Poll moves one position past one message, which is now in flight or,    *)
(* for a null value, was given up; what was read before was dealt with.    *)
LEMMA PollIsSafe ==
    ASSUME IInv, [Next]_vars, NEW q \in Partitions, Poll(q)
    PROVE  ReadIsDealtWith'
<1>0. TypeOK BY DEF IInv
<1>1. PICK k \in Offset : k = position[q] BY <1>0 DEF TypeOK, Poll, Offset
<1>2. /\ stage = "poll"
      /\ position' = [position EXCEPT ![q] = k + 1]
  BY <1>1 DEF Poll
<1>3. (stage' \in {"post", "dlq"} /\ inflight' = <<q, k>>) \/ Done(q, k)'
  <2>1. Kind[q][k] \in {"valid", "invalid", "null"} BY <1>1
  <2>2. CASE Kind[q][k] = "null"
    <3>1. abandoned' = abandoned \cup {<<q, k, "raised">>} BY <1>1, <2>2 DEF Poll, GiveUp
    <3> QED BY <3>1, GivenUpIsDone
  <2>3. CASE Kind[q][k] = "invalid" BY <1>1, <2>3 DEF Poll
  <2>4. CASE Kind[q][k] = "valid" BY <1>1, <2>4 DEF Poll
  <2> QED BY <2>1, <2>2, <2>3, <2>4
<1> SUFFICES ASSUME NEW p \in Partitions, NEW o \in Offset, o < position'[p]
             PROVE  Done(p, o)' \/ (stage' \in {"post", "dlq"} /\ inflight' = <<p, o>>)
  BY DEF ReadIsDealtWith
<1>4. CASE o < position[p]
  <2>1. Done(p, o) BY <1>2, <1>4 DEF IInv, ReadIsDealtWith
  <2> QED BY <2>1, DoneStays DEF IInv
<1>5. CASE ~ (o < position[p])
  <2>1. p = q /\ o = k
    <3>1. position \in [Partitions -> 0 .. MaxOffset + 1] BY <1>0 DEF TypeOK
    <3>2. p = q BY <1>2, <1>5, <3>1
    <3> QED BY <1>1, <1>2, <1>5, <3>1, <3>2 DEF Offset
  <2> QED BY <1>3, <2>1
<1> QED BY <1>4, <1>5

LEMMA NextIInv == IInv /\ [Next]_vars => IInv'
<1> SUFFICES ASSUME IInv, [Next]_vars PROVE IInv'
  OBVIOUS
<1>0. TypeOK' BY NextTypeOK DEF IInv
<1> SUFFICES ReadIsDealtWith' /\ OnlyAbandonedRecordsAreSkipped'
  BY <1>0 DEF IInv
<1>1. CASE UNCHANGED vars
  BY <1>1, ReadStays, CommittedStays DEF vars
<1>2. ASSUME NEW p \in Partitions, Produce(p) PROVE ReadIsDealtWith' /\ OnlyAbandonedRecordsAreSkipped'
  BY <1>2, ReadStays, CommittedStays DEF Produce
<1>3. ASSUME NEW p \in Partitions, Poll(p) PROVE ReadIsDealtWith' /\ OnlyAbandonedRecordsAreSkipped'
  <2>1. UNCHANGED committed BY <1>3 DEF Poll
  <2> QED BY <1>3, <2>1, PollIsSafe, CommittedStays
<1>4. CASE start \/ Rebalance
  <2>1. UNCHANGED committed /\ position' = committed BY <1>4 DEF start, Rebalance
  <2> QED BY <2>1, ReadFromCommitted, CommittedStays
<1>5. CASE stop \/ Crash
  <2>1. stage' = "down" /\ UNCHANGED committed BY <1>5 DEF stop, Crash
  <2> QED BY <2>1, CommittedStays DEF ReadIsDealtWith
<1>6. CASE _signal_handler
  BY <1>6, ReadStays, CommittedStays DEF _signal_handler
<1>7. CASE Post2xx
  BY <1>7, ReadStays, CommittedStays DEF Post2xx
<1>8. CASE Post4xx
  BY <1>8, ReadStays, CommittedStays DEF Post4xx
<1>9. CASE Post5xxOrNetworkError
  <2>1. UNCHANGED <<committed, position>> /\ stage = "post"
    BY <1>9 DEF Post5xxOrNetworkError
  <2>2. OnlyAbandonedRecordsAreSkipped' BY <2>1, CommittedStays
  <2>3. CASE attempt < MaxRetries - 1
    <3>1. UNCHANGED <<stage, inflight>> BY <1>9, <2>3 DEF Post5xxOrNetworkError
    <3> QED BY <2>1, <2>2, <3>1, ReadStays
  <2>4. CASE ~ (attempt < MaxRetries - 1)
    <3>1. abandoned' = abandoned \cup {<<inflight[1], inflight[2], "retries">>}
      BY <1>9, <2>4 DEF Post5xxOrNetworkError, GiveUp
    <3> SUFFICES ASSUME NEW p \in Partitions, NEW o \in Offset, o < position[p]
                 PROVE  Done(p, o)'
      BY <2>1, <2>2 DEF ReadIsDealtWith
    <3>2. Done(p, o) \/ inflight = <<p, o>> BY <2>1 DEF IInv, ReadIsDealtWith
    <3>3. CASE Done(p, o) BY <3>3, DoneStays DEF IInv
    <3>4. CASE inflight = <<p, o>> BY <3>1, <3>4, GivenUpIsDone
    <3> QED BY <3>2, <3>3, <3>4
  <2> QED BY <2>3, <2>4
<1>10. CASE SendToDLQOk
  BY <1>10, ReadStays, CommittedStays DEF SendToDLQOk
<1>11. CASE SendToDLQError
  <2>1. abandoned' = abandoned \cup {<<inflight[1], inflight[2], "dlq">>}
    BY <1>11 DEF SendToDLQError, GiveUp
  <2> DEFINE given == <<inflight[1], inflight[2], "dlq">>
  <2>2. given \in abandoned' /\ given[1] = inflight[1] /\ given[2] = inflight[2]
    BY <2>1
  <2> QED BY <1>11, <2>2, ReadStays, CommittedStays DEF SendToDLQError
<1>12. CASE _commit \/ CommitError BY <1>12, CommitIsSafe
<1> QED
  BY <1>1, <1>2, <1>3, <1>4, <1>5, <1>6, <1>7, <1>8, <1>9, <1>10, <1>11, <1>12 DEF Next

(* The consumer's state is well typed, and a message is in flight exactly  *)
(* while it is posted, dead-lettered or committed.                         *)
THEOREM TypeCorrect == Spec => []TypeOK
<1>1. Init => TypeOK BY InitTypeOK
<1>2. TypeOK /\ [Next]_vars => TypeOK' BY NextTypeOK
<1> QED BY <1>1, <1>2, PTL DEF Spec

(* Whatever crashes, signals, rebalances, recreations and lost commit      *)
(* answers happen in between, a record below the committed offset that was *)
(* neither stored nor dead-lettered was given up by _process_message.      *)
THEOREM CommitSkipsOnlyAbandoned == Spec => []OnlyAbandonedRecordsAreSkipped
<1>1. Init => IInv
  <2>1. Init => ReadIsDealtWith BY DEF Init, ReadIsDealtWith
  <2>2. Init => OnlyAbandonedRecordsAreSkipped
    BY DEF Init, OnlyAbandonedRecordsAreSkipped, Offset
  <2> QED BY <2>1, <2>2, InitTypeOK DEF IInv
<1>2. IInv /\ [Next]_vars => IInv' BY NextIInv
<1>3. IInv => OnlyAbandonedRecordsAreSkipped BY DEF IInv
<1> QED BY <1>1, <1>2, <1>3, PTL DEF Spec
=============================================================================
