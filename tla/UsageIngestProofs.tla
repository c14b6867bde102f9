------------------------- MODULE UsageIngestProofs -------------------------
(***************************************************************************)
(* Proofs about UsageIngest.  The inductive invariant IngestInv adds to    *)
(* the typing of the tables what the booking of a record relies on: a      *)
(* request that reached the canonical booking has its legacy record, with  *)
(* the tokens it delivers, stored; an event's record is stored for the     *)
(* session the event is counted in; and the tables are finite, so that     *)
(* sums over them mean something (SumProofs).                              *)
(***************************************************************************)
EXTENDS UsageIngest, SumProofs

-----------------------------------------------------------------------------
(* The inductive invariant.                                                *)

\* What a request in progress has established before its next statement.
Sound(w) ==
    /\ worker[w].pc # "idle" => worker[w].todo # <<>>
    /\ worker[w].pc \in {"process", "lookup", "canonical"} => Valid(Head1(w))
    /\ worker[w].pc \in {"lookup", "canonical"} =>
         /\ records[worker[w].source, Head1(w).rec] # None
         /\ records[worker[w].source, Head1(w).rec].tokens = Head1(w).tokens

RequestsAreSound == \A w \in Workers : Sound(w)

TablesAreFinite ==
    /\ IsFiniteSet(EventKeys)
    /\ \A s \in Sources : IsFiniteSet(Mine(s))

\* The accounts agree with one another.
Balanced == TablesAreFinite /\ SessionsTrackUsage /\ RollupIsSumOfEvents

IngestInv == TypeOK /\ RequestsAreSound /\ Balanced /\ AnsweredMeansCounted

-----------------------------------------------------------------------------
(* The requests: what a step does to the one it serves and to the others.  *)

Stages == {"resolve", "gate", "overlap", "cross", "process", "lookup", "canonical", "answered"}
Answers == {None, "accepted", "duplicate", "updated", "conflict", "rejected"}

\* The step serves the request of w and no other.
Serves(w) == \A v \in Workers \ {w} : worker'[v] = worker[v]

\* The request of w goes on with the same record.
GoesOn(w, pc) ==
    /\ worker'[w] \in Busy
    /\ worker'[w].pc = pc
    /\ worker'[w].source = worker[w].source
    /\ worker'[w].identity = worker[w].identity
    /\ worker'[w].todo = worker[w].todo

WorkerTypes ==
    /\ worker \in [Workers -> {Free} \cup Busy]
    /\ \A w \in Workers :
         worker[w].pc \notin {"idle", "resolve"} => worker[w].identity \in Sources

TableTypes ==
    /\ records \in [Sources \X Records -> Nullable(RecordRow)]
    /\ sessions \in [Sources -> Nullable(SessionRow)]
    /\ events \in [Sources \X Records -> Nullable(EventRow)]
    /\ rollup \in [Buckets -> [Fields -> Int]]

IdentityTypes ==
    /\ parent \in [Sources -> Sources \cup {None, Unknown}]
    /\ quarantine \in Seq([identity : Sources, cleared : BOOLEAN])
    /\ resolving \subseteq (DOMAIN quarantine) \X Sources

LEMMA TypesTogether == TypeOK <=> IdentityTypes /\ TableTypes /\ WorkerTypes
BY DEF TypeOK, IdentityTypes, TableTypes, WorkerTypes

LEMMA BusyWorker ==
    ASSUME WorkerTypes, NEW w \in Workers, worker[w].pc # "idle"
    PROVE  worker[w] \in Busy
BY DEF WorkerTypes, Free

LEMMA BusyFields ==
    ASSUME NEW b \in Busy
    PROVE  /\ b.pc \in Stages /\ b.pc # "idle" /\ b.source \in Sources
           /\ b.identity \in Nullable(Sources)
           /\ b.todo \in Seq(Delivery) /\ b.costOnly \in BOOLEAN
           /\ b.counted \in BOOLEAN /\ b.ans \in Answers
BY DEF Busy, Stages, Answers

LEMMA StepEffect ==
    ASSUME WorkerTypes, NEW w \in Workers, worker[w] \in Busy, NEW p \in Stages,
           Step(w, p)
    PROVE  /\ worker' \in [Workers -> {Free} \cup Busy]
           /\ Serves(w) /\ GoesOn(w, p)
<1> DEFINE b == [worker[w] EXCEPT !.pc = p]
<1>1. worker' = [worker EXCEPT ![w] = b] BY DEF Step
<1>2. /\ b \in Busy /\ b.pc = p /\ b.source = worker[w].source
      /\ b.identity = worker[w].identity /\ b.todo = worker[w].todo
    BY DEF Busy, Stages
<1> HIDE DEF b
<1> QED BY <1>1, <1>2 DEF WorkerTypes, Serves, GoesOn

LEMMA AnswerEffect ==
    ASSUME WorkerTypes, NEW w \in Workers, worker[w] \in Busy, NEW a \in Answers,
           NEW c \in BOOLEAN, Answer(w, a, c)
    PROVE  /\ worker' \in [Workers -> {Free} \cup Busy]
           /\ Serves(w) /\ GoesOn(w, "answered")
           /\ worker'[w].ans = a /\ worker'[w].counted = c
<1> DEFINE b1 == [worker[w] EXCEPT !.pc = "answered"]
<1> DEFINE b2 == [b1 EXCEPT !.ans = a]
<1> DEFINE b3 == [b2 EXCEPT !.counted = c]
<1>1. worker' = [worker EXCEPT ![w] = b3] BY DEF Answer, WorkerTypes
<1>2. /\ b1 \in Busy /\ b1.pc = "answered" /\ b1.source = worker[w].source
      /\ b1.identity = worker[w].identity /\ b1.todo = worker[w].todo
    BY DEF Busy, Stages
<1> HIDE DEF b1
<1>3. /\ b2 \in Busy /\ b2.pc = "answered" /\ b2.source = worker[w].source
      /\ b2.identity = worker[w].identity /\ b2.todo = worker[w].todo /\ b2.ans = a
    BY <1>2 DEF Busy, Answers
<1> HIDE DEF b2
<1>4. /\ b3 \in Busy /\ b3.pc = "answered" /\ b3.source = worker[w].source
      /\ b3.identity = worker[w].identity /\ b3.todo = worker[w].todo /\ b3.ans = a
      /\ b3.counted = c
    BY <1>3 DEF Busy
<1> HIDE DEF b3
<1> QED BY <1>1, <1>4 DEF WorkerTypes, Serves, GoesOn

\* The part of AnsweredMeansCounted about one request.
Counted(w) ==
    /\ worker[w].pc = "answered"
    /\ worker[w].counted
    /\ worker[w].ans \in {"accepted", "duplicate", "updated"}
    => events[worker[w].identity, Head1(w).rec] # None

\* No stored record loses its tokens and no event disappears.
RecordsKept ==
    \A sr \in Sources \X Records : records[sr] # None =>
        records'[sr] # None /\ records'[sr].tokens = records[sr].tokens
EventsKept == \A ir \in Sources \X Records : events[ir] # None => events'[ir] # None

LEMMA HeadType ==
    ASSUME WorkerTypes, NEW w \in Workers, Sound(w), worker[w].pc # "idle"
    PROVE  /\ worker[w] \in Busy /\ Head1(w) \in Delivery /\ Head1(w).rec \in Records
           /\ worker[w].source \in Sources
           /\ worker[w].pc # "resolve" => worker[w].identity \in Sources
<1>1. worker[w] \in Busy BY BusyWorker
<1>2. worker[w].todo \in Seq(Delivery) /\ worker[w].source \in Sources BY <1>1, BusyFields
<1>3. worker[w].todo # <<>> BY DEF Sound
<1>4. Head1(w) \in Delivery BY <1>2, <1>3 DEF Head1
<1>5. Head1(w).rec \in Records BY <1>4 DEF Delivery
<1> QED BY <1>1, <1>2, <1>4, <1>5 DEF WorkerTypes

\* The requests a step does not serve are untouched by what it writes.
LEMMA OthersStaySound ==
    ASSUME WorkerTypes, RequestsAreSound, AnsweredMeansCounted, RecordsKept, EventsKept,
           NEW w \in Workers, Serves(w), NEW v \in Workers, v # w
    PROVE  /\ Sound(v)' /\ Counted(v)'
           /\ worker'[v].pc \notin {"idle", "resolve"} => worker'[v].identity \in Sources
<1>1. worker'[v] = worker[v] BY DEF Serves
<1>2. Head1(v)' = Head1(v) BY <1>1 DEF Head1
<1>3. Sound(v) BY DEF RequestsAreSound
<1>4. Counted(v) BY DEF AnsweredMeansCounted, Counted
<1>5. worker[v].pc # "idle" =>
        /\ <<worker[v].source, Head1(v).rec>> \in Sources \X Records
        /\ worker[v].pc # "resolve" =>
             <<worker[v].identity, Head1(v).rec>> \in Sources \X Records
    BY <1>3, HeadType
<1>6. Sound(v)' BY <1>1, <1>2, <1>3, <1>5 DEF Sound, RecordsKept
<1>7. Counted(v)' BY <1>1, <1>2, <1>4, <1>5 DEF Counted, EventsKept
<1> QED BY <1>1, <1>6, <1>7 DEF WorkerTypes

\* It is enough to look at the request the step serves.
LEMMA OneRequest ==
    ASSUME WorkerTypes, RequestsAreSound, AnsweredMeansCounted, RecordsKept, EventsKept,
           NEW w \in Workers, Serves(w),
           worker' \in [Workers -> {Free} \cup Busy],
           worker'[w].pc \notin {"idle", "resolve"} => worker'[w].identity \in Sources,
           Sound(w)', Counted(w)'
    PROVE  WorkerTypes' /\ RequestsAreSound' /\ AnsweredMeansCounted'
<1>1. \A v \in Workers :
        /\ Sound(v)' /\ Counted(v)'
        /\ worker'[v].pc \notin {"idle", "resolve"} => worker'[v].identity \in Sources
    BY OthersStaySound
<1>2. AnsweredMeansCounted' BY <1>1 DEF AnsweredMeansCounted, Counted
<1>3. RequestsAreSound' BY <1>1 DEF RequestsAreSound
<1>4. WorkerTypes' BY <1>1 DEF WorkerTypes
<1> QED BY <1>2, <1>3, <1>4

LEMMA QuietKeeps ==
    ASSUME UNCHANGED accounts
    PROVE  /\ RecordsKept /\ EventsKept
           /\ TableTypes => TableTypes'
           /\ Balanced => Balanced'
<1>1. records' = records /\ sessions' = sessions /\ events' = events /\ rollup' = rollup
    BY DEF accounts
<1>2. RecordsKept /\ EventsKept BY <1>1 DEF RecordsKept, EventsKept
<1>3. TableTypes => TableTypes' BY <1>1 DEF TableTypes
<1>4. EventKeys' = EventKeys BY <1>1 DEF EventKeys
<1>5. \A s : Mine(s)' = Mine(s) /\ Booked(s)' = Booked(s) BY <1>1, <1>4 DEF Mine, Booked
<1>6. \A s : BookedOnce(s)' <=> BookedOnce(s) BY <1>5 DEF BookedOnce
<1>7. \A s : UsageOf(s)' = UsageOf(s) BY <1>1, <1>5 DEF UsageOf
<1>8. TablesAreFinite => TablesAreFinite' BY <1>4, <1>5 DEF TablesAreFinite
<1>9. SessionsTrackUsage => SessionsTrackUsage'
    BY <1>1, <1>5, <1>6, <1>7 DEF SessionsTrackUsage
<1>10. RollupIsSumOfEvents => RollupIsSumOfEvents'
    BY <1>1, <1>4 DEF RollupIsSumOfEvents, Amount
<1> QED BY <1>2, <1>3, <1>8, <1>9, <1>10 DEF Balanced

-----------------------------------------------------------------------------
(* The steps that write no account.                                        *)

LEMMA QuietStep ==
    ASSUME IngestInv, UNCHANGED accounts, IdentityTypes',
           NEW w \in Workers, Serves(w),
           worker' \in [Workers -> {Free} \cup Busy],
           worker'[w].pc \notin {"idle", "resolve"} => worker'[w].identity \in Sources,
           Sound(w)', Counted(w)'
    PROVE  IngestInv'
<1>1. /\ IdentityTypes /\ TableTypes /\ WorkerTypes
      /\ RequestsAreSound /\ Balanced /\ AnsweredMeansCounted
    BY TypesTogether DEF IngestInv
<1>2. RecordsKept /\ EventsKept /\ TableTypes' /\ Balanced' BY <1>1, QuietKeeps
<1>3. WorkerTypes' /\ RequestsAreSound' /\ AnsweredMeansCounted' BY <1>1, <1>2, OneRequest
<1>4. TypeOK' BY <1>2, <1>3 DEF TypeOK, IdentityTypes, TableTypes, WorkerTypes
<1> QED BY <1>2, <1>3, <1>4 DEF IngestInv

LEMMA FreeEffect ==
    ASSUME WorkerTypes, NEW w \in Workers, worker' = [worker EXCEPT ![w] = Free]
    PROVE  /\ worker' \in [Workers -> {Free} \cup Busy] /\ Serves(w)
           /\ worker'[w].pc \notin {"idle", "resolve"} => worker'[w].identity \in Sources
           /\ Sound(w)' /\ Counted(w)'
<1>1. worker'[w] = Free /\ worker'[w].pc = "idle" BY DEF WorkerTypes, Free
<1>2. Sound(w)' BY <1>1 DEF Sound
<1>3. Counted(w)' BY <1>1 DEF Counted
<1> QED BY <1>1, <1>2, <1>3 DEF WorkerTypes, Serves

\* What an invariant state says about the request a step serves.
LEMMA InvFacts ==
    ASSUME IngestInv, NEW w \in Workers
    PROVE  /\ IdentityTypes /\ TableTypes /\ WorkerTypes /\ Balanced
           /\ Sound(w) /\ Counted(w)
           /\ worker[w].pc # "idle" =>
                /\ worker[w] \in Busy /\ Head1(w) \in Delivery /\ Head1(w).rec \in Records
                /\ worker[w].source \in Sources
                /\ worker[w].pc # "resolve" => worker[w].identity \in Sources
<1>1. /\ IdentityTypes /\ TableTypes /\ WorkerTypes
      /\ RequestsAreSound /\ Balanced /\ AnsweredMeansCounted
    BY TypesTogether DEF IngestInv
<1>2. Sound(w) /\ Counted(w) BY <1>1 DEF RequestsAreSound, AnsweredMeansCounted, Counted
<1> QED BY <1>1, <1>2, HeadType

LEMMA BeginKeeps ==
    ASSUME IngestInv, NEW w \in Workers, Begin(w) PROVE IngestInv'
<1>1. WorkerTypes /\ IdentityTypes BY InvFacts
<1>2. PICK q \in Requests :
        /\ \E k \in DOMAIN q.batch : Valid(q.batch[k])
        /\ worker' = [worker EXCEPT ![w] =
              [pc |-> "resolve", source |-> q.source, identity |-> None,
               todo |-> q.batch, costOnly |-> FALSE, ans |-> None, counted |-> TRUE]]
    BY DEF Begin
<1>3. q.source \in Sources /\ q.batch \in Seq(Delivery) BY IngestAssumption
<1>4. q.batch # <<>> BY <1>2, <1>3
<1> DEFINE b == [pc |-> "resolve", source |-> q.source, identity |-> None,
                 todo |-> q.batch, costOnly |-> FALSE, ans |-> None, counted |-> TRUE]
<1>5. b \in Busy /\ b.pc = "resolve" /\ b.todo = q.batch BY <1>3 DEF Busy, Nullable
<1>6. worker' = [worker EXCEPT ![w] = b] BY <1>2
<1> HIDE DEF b
<1>7. worker' \in [Workers -> {Free} \cup Busy] /\ Serves(w) /\ worker'[w] = b
    BY <1>1, <1>5, <1>6 DEF WorkerTypes, Serves
<1>8. Sound(w)' BY <1>4, <1>5, <1>7 DEF Sound
<1>9. Counted(w)' BY <1>5, <1>7 DEF Counted
<1>10. UNCHANGED accounts /\ UNCHANGED identities BY DEF Begin
<1>11. IdentityTypes' BY <1>1, <1>10 DEF IdentityTypes, identities
<1> QED BY <1>5, <1>7, <1>8, <1>9, <1>10, <1>11, QuietStep

LEMMA ResolveKeeps ==
    ASSUME IngestInv, NEW w \in Workers, ResolveCanonicalIdentity(w) PROVE IngestInv'
<1>1. WorkerTypes /\ IdentityTypes /\ Sound(w) BY InvFacts
<1>2. worker[w].pc = "resolve" /\ UNCHANGED accounts /\ UNCHANGED <<quarantine, resolving>>
    BY DEF ResolveCanonicalIdentity
<1>3. worker[w] \in Busy /\ worker[w].source \in Sources BY <1>2, InvFacts
<1>4. CASE parent[worker[w].source] = Unknown
  <2>1. /\ parent' = [parent EXCEPT ![worker[w].source] = None]
        /\ worker' = [worker EXCEPT ![w] = Free]
      BY <1>4 DEF ResolveCanonicalIdentity
  <2>2. IdentityTypes' BY <1>1, <1>2, <1>3, <2>1 DEF IdentityTypes
  <2> QED BY <1>1, <1>2, <2>1, <2>2, FreeEffect, QuietStep
<1>5. CASE parent[worker[w].source] # Unknown
  <2> DEFINE i == Canonical(worker[w].source)
  <2> DEFINE b1 == [worker[w] EXCEPT !.identity = i]
  <2> DEFINE b2 == [b1 EXCEPT !.pc = "gate"]
  <2>1. worker' = [worker EXCEPT ![w] = b2] /\ parent' = parent
      BY <1>1, <1>5 DEF ResolveCanonicalIdentity, WorkerTypes
  <2>2. i \in Sources BY <1>1, <1>3, <1>5 DEF Canonical, IdentityTypes
  <2> HIDE DEF i
  <2>3. b1 \in Busy /\ b1.identity = i /\ b1.todo = worker[w].todo
      BY <1>3, <2>2 DEF Busy, Nullable
  <2> HIDE DEF b1
  <2>4. b2 \in Busy /\ b2.identity = i /\ b2.todo = worker[w].todo /\ b2.pc = "gate"
      BY <2>3 DEF Busy
  <2> HIDE DEF b2
  <2>5. worker' \in [Workers -> {Free} \cup Busy] /\ Serves(w) /\ worker'[w] = b2
      BY <1>1, <2>1, <2>4 DEF WorkerTypes, Serves
  <2>6. Sound(w)' BY <1>1, <1>2, <2>4, <2>5 DEF Sound
  <2>7. Counted(w)' BY <2>4, <2>5 DEF Counted
  <2>8. IdentityTypes' BY <1>1, <1>2, <2>1 DEF IdentityTypes
  <2> QED BY <1>2, <2>2, <2>4, <2>5, <2>6, <2>7, <2>8, QuietStep
<1> QED BY <1>4, <1>5

\* A step to the next statement of the same record, or to an answer that
\* promises nothing.
LEMMA QuietStepTo ==
    ASSUME IngestInv, UNCHANGED accounts, IdentityTypes',
           NEW w \in Workers, worker[w].pc \notin {"idle", "resolve"},
           NEW p \in Stages \ {"answered"}, Step(w, p),
           p \in {"process", "lookup", "canonical"} => Valid(Head1(w)),
           p \in {"lookup", "canonical"} => worker[w].pc \in {"lookup", "canonical"}
    PROVE  IngestInv'
<1>1. WorkerTypes /\ Sound(w) /\ worker[w] \in Busy /\ worker[w].identity \in Sources
    BY InvFacts
<1>2. worker' \in [Workers -> {Free} \cup Busy] /\ Serves(w) /\ GoesOn(w, p)
    BY <1>1, StepEffect
<1>3. Head1(w)' = Head1(w) BY <1>2 DEF Head1, GoesOn
<1>4. records' = records BY DEF accounts
<1>5. Sound(w)' BY <1>1, <1>2, <1>3, <1>4 DEF Sound, GoesOn, Valid
<1>6. Counted(w)' BY <1>2 DEF Counted, GoesOn
<1> QED BY <1>1, <1>2, <1>5, <1>6, QuietStep DEF GoesOn

LEMMA QuietAnswer ==
    ASSUME IngestInv, UNCHANGED accounts, IdentityTypes',
           NEW w \in Workers, worker[w].pc \notin {"idle", "resolve"},
           NEW a \in Answers, NEW c \in BOOLEAN, Answer(w, a, c),
           c /\ a \in {"accepted", "duplicate", "updated"} =>
               events[worker[w].identity, Head1(w).rec] # None
    PROVE  IngestInv'
<1>1. WorkerTypes /\ Sound(w) /\ worker[w] \in Busy /\ worker[w].identity \in Sources
    BY InvFacts
<1>2. /\ worker' \in [Workers -> {Free} \cup Busy] /\ Serves(w) /\ GoesOn(w, "answered")
      /\ worker'[w].ans = a /\ worker'[w].counted = c
    BY <1>1, AnswerEffect
<1>3. Head1(w)' = Head1(w) BY <1>2 DEF Head1, GoesOn
<1>4. records' = records /\ events' = events BY DEF accounts
<1>5. Sound(w)' BY <1>1, <1>2 DEF Sound, GoesOn
<1>6. Counted(w)' BY <1>2, <1>3, <1>4 DEF Counted, GoesOn
<1> QED BY <1>1, <1>2, <1>5, <1>6, QuietStep DEF GoesOn

LEMMA GateKeeps ==
    ASSUME IngestInv, NEW w \in Workers, Gate(w) PROVE IngestInv'
<1>1. WorkerTypes /\ IdentityTypes BY InvFacts
<1>2. worker[w].pc = "gate" /\ UNCHANGED accounts /\ UNCHANGED identities BY DEF Gate
<1>3. IdentityTypes' BY <1>1, <1>2 DEF IdentityTypes, identities
<1>4. CASE worker' = [worker EXCEPT ![w] = Free]
    BY <1>1, <1>2, <1>3, <1>4, FreeEffect, QuietStep
<1>5. CASE Step(w, "overlap") BY <1>2, <1>3, <1>5, QuietStepTo DEF Stages
<1> QED BY <1>4, <1>5 DEF Gate

LEMMA CheckBatchOverlapKeeps ==
    ASSUME IngestInv, NEW w \in Workers, CheckBatchOverlap(w) PROVE IngestInv'
<1>1. WorkerTypes /\ IdentityTypes BY InvFacts
<1>2. worker[w].pc = "overlap" /\ UNCHANGED accounts /\ UNCHANGED <<parent, resolving>>
    BY DEF CheckBatchOverlap
<1>3. worker[w].identity \in Sources BY <1>2, InvFacts
<1>4. CASE /\ quarantine' = Append(quarantine, [identity |-> worker[w].identity,
                                                cleared |-> FALSE])
           /\ worker' = [worker EXCEPT ![w] = Free]
  <2>1. IdentityTypes' BY <1>1, <1>2, <1>3, <1>4 DEF IdentityTypes
  <2> QED BY <1>1, <1>2, <1>4, <2>1, FreeEffect, QuietStep
<1>5. CASE Step(w, "cross") /\ UNCHANGED quarantine
  <2>1. IdentityTypes' BY <1>1, <1>2, <1>5 DEF IdentityTypes
  <2> QED BY <1>2, <1>5, <2>1, QuietStepTo DEF Stages
<1> QED BY <1>4, <1>5 DEF CheckBatchOverlap

LEMMA CrossIdentityCheckKeeps ==
    ASSUME IngestInv, NEW w \in Workers, CrossIdentityCheck(w) PROVE IngestInv'
<1>1. IdentityTypes BY InvFacts
<1>2. worker[w].pc = "cross" /\ UNCHANGED accounts /\ UNCHANGED identities
    BY DEF CrossIdentityCheck
<1>3. IdentityTypes' BY <1>1, <1>2 DEF IdentityTypes, identities
<1>4. CASE Answer(w, "rejected", TRUE) BY <1>2, <1>3, <1>4, QuietAnswer DEF Answers
<1>5. CASE Answer(w, "conflict", TRUE) BY <1>2, <1>3, <1>5, QuietAnswer DEF Answers
<1>6. CASE Valid(Head1(w)) /\ Step(w, "process")
    BY <1>2, <1>3, <1>6, QuietStepTo DEF Stages
<1> QED BY <1>4, <1>5, <1>6 DEF CrossIdentityCheck

LEMMA ProcessDivergentKeeps ==
    ASSUME IngestInv, NEW w \in Workers, ProcessDivergent(w) PROVE IngestInv'
<1> DEFINE s == worker[w].source
           d == Head1(w)
<1>1. WorkerTypes /\ IdentityTypes /\ Sound(w) BY InvFacts
<1>2. /\ worker[w].pc = "process" /\ UNCHANGED accounts /\ UNCHANGED identities
      /\ records[s, d.rec] # None
    BY DEF ProcessDivergent
<1>3. worker[w] \in Busy /\ worker[w].identity \in Sources BY <1>2, InvFacts
<1>4. IdentityTypes' BY <1>1, <1>2 DEF IdentityTypes, identities
<1>5. CASE Answer(w, "conflict", TRUE) BY <1>2, <1>4, <1>5, QuietAnswer DEF Answers
<1>6. CASE /\ records[s, d.rec].tokens = d.tokens
           /\ worker' = [worker EXCEPT ![w].pc = "canonical", ![w].costOnly = TRUE]
  <2> DEFINE b1 == [worker[w] EXCEPT !.pc = "canonical"]
             b2 == [b1 EXCEPT !.costOnly = TRUE]
  <2>1. worker' = [worker EXCEPT ![w] = b2] BY <1>1, <1>6 DEF WorkerTypes
  <2>2. /\ b1 \in Busy /\ b1.pc = "canonical" /\ b1.source = s
        /\ b1.identity = worker[w].identity /\ b1.todo = worker[w].todo
      BY <1>3 DEF Busy
  <2> HIDE DEF b1
  <2>3. /\ b2 \in Busy /\ b2.pc = "canonical" /\ b2.source = s
        /\ b2.identity = worker[w].identity /\ b2.todo = worker[w].todo
      BY <2>2 DEF Busy
  <2> HIDE DEF b2
  <2>4. worker' \in [Workers -> {Free} \cup Busy] /\ Serves(w) /\ worker'[w] = b2
      BY <1>1, <2>1, <2>3 DEF WorkerTypes, Serves
  <2>5. Head1(w)' = Head1(w) BY <2>3, <2>4 DEF Head1
  <2>6. records' = records BY <1>2 DEF accounts
  <2>7. Sound(w)' BY <1>1, <1>2, <1>6, <2>3, <2>4, <2>5, <2>6 DEF Sound, Valid
  <2>8. Counted(w)' BY <2>3, <2>4 DEF Counted
  <2> QED BY <1>2, <1>3, <1>4, <2>3, <2>4, <2>7, <2>8, QuietStep
<1> QED BY <1>5, <1>6 DEF ProcessDivergent

LEMMA LookupKeeps ==
    ASSUME IngestInv, NEW w \in Workers, Lookup(w) PROVE IngestInv'
<1>1. IdentityTypes /\ Sound(w) BY InvFacts
<1>2. worker[w].pc = "lookup" /\ UNCHANGED accounts /\ UNCHANGED identities
    BY DEF Lookup
<1>3. IdentityTypes' BY <1>1, <1>2 DEF IdentityTypes, identities
<1>4. CASE events[worker[w].identity, Head1(w).rec] # None /\ Answer(w, "accepted", TRUE)
    BY <1>2, <1>3, <1>4, QuietAnswer DEF Answers
<1>5. CASE Step(w, "canonical")
    BY <1>1, <1>2, <1>3, <1>5, QuietStepTo DEF Stages, Sound
<1> QED BY <1>4, <1>5 DEF Lookup

LEMMA RecordFailsKeeps ==
    ASSUME IngestInv, NEW w \in Workers, RecordFails(w) \/ CanonicalFails(w)
    PROVE  IngestInv'
<1>1. IdentityTypes BY InvFacts
<1>2. /\ worker[w].pc \in {"cross", "process", "canonical"}
      /\ UNCHANGED accounts /\ UNCHANGED identities
    BY DEF RecordFails, CanonicalFails
<1>3. IdentityTypes' BY <1>1, <1>2 DEF IdentityTypes, identities
<1>4. PICK a \in Answers : Answer(w, a, FALSE) BY DEF RecordFails, CanonicalFails, Answers
<1> QED BY <1>2, <1>3, <1>4, QuietAnswer

LEMMA RequestDiesKeeps ==
    ASSUME IngestInv, NEW w \in Workers, RequestDies(w) PROVE IngestInv'
<1>1. WorkerTypes /\ IdentityTypes BY InvFacts
<1>2. /\ worker' = [worker EXCEPT ![w] = Free]
      /\ UNCHANGED accounts /\ UNCHANGED identities
    BY DEF RequestDies
<1>3. IdentityTypes' BY <1>1, <1>2 DEF IdentityTypes, identities
<1> QED BY <1>1, <1>2, <1>3, FreeEffect, QuietStep

LEMMA NextRecordKeeps ==
    ASSUME IngestInv, NEW w \in Workers, NextRecord(w) PROVE IngestInv'
<1>1. WorkerTypes /\ IdentityTypes /\ Sound(w) BY InvFacts
<1>2. worker[w].pc = "answered" /\ UNCHANGED accounts /\ UNCHANGED identities
    BY DEF NextRecord
<1>3. IdentityTypes' BY <1>1, <1>2 DEF IdentityTypes, identities
<1>4. worker[w] \in Busy /\ worker[w].identity \in Sources BY <1>2, InvFacts
<1>5. CASE worker' = [worker EXCEPT ![w] = Free]
    BY <1>1, <1>2, <1>3, <1>5, FreeEffect, QuietStep
<1>6. CASE /\ Len(worker[w].todo) # 1
           /\ worker' = [worker EXCEPT ![w].pc = "cross", ![w].todo = Tail(@),
                             ![w].costOnly = FALSE, ![w].ans = None, ![w].counted = TRUE]
  <2> DEFINE rest == Tail(worker[w].todo)
             b1 == [worker[w] EXCEPT !.pc = "cross"]
             b2 == [b1 EXCEPT !.todo = rest]
             b3 == [b2 EXCEPT !.costOnly = FALSE]
             b4 == [b3 EXCEPT !.ans = None]
             b5 == [b4 EXCEPT !.counted = TRUE]
  <2>1. worker' = [worker EXCEPT ![w] = b5]
    <3>1. b1.todo = worker[w].todo BY <1>4 DEF Busy
    <3> QED BY <1>1, <1>6, <3>1 DEF WorkerTypes
  <2>2. rest \in Seq(Delivery) /\ rest # <<>>
    <3>1. worker[w].todo \in Seq(Delivery) /\ worker[w].todo # <<>>
        BY <1>1, <1>2, <1>4, BusyFields DEF Sound
    <3>2. PICK t \in Seq(Delivery) : t = worker[w].todo BY <3>1
    <3>3. Len(t) \in Nat /\ Len(t) # 0 /\ Len(t) # 1 BY <1>6, <3>1, <3>2
    <3>4. Tail(t) \in Seq(Delivery) /\ Len(Tail(t)) = Len(t) - 1 BY <3>3
    <3>5. PICK u \in Seq(Delivery) : u = Tail(t) BY <3>4
    <3>6. Len(u) # 0 BY <3>3, <3>4, <3>5
    <3>7. u # <<>> BY <3>6
    <3> QED BY <3>2, <3>5, <3>7
  <2> HIDE DEF rest
  <2>3. b1 \in Busy /\ b1.pc = "cross" /\ b1.identity = worker[w].identity
      BY <1>4 DEF Busy
  <2> HIDE DEF b1
  <2>4. b2 \in Busy /\ b2.pc = "cross" /\ b2.identity = worker[w].identity /\ b2.todo = rest
      BY <2>2, <2>3 DEF Busy
  <2> HIDE DEF b2
  <2>5. b3 \in Busy /\ b3.pc = "cross" /\ b3.identity = worker[w].identity /\ b3.todo = rest
      BY <2>4 DEF Busy
  <2> HIDE DEF b3
  <2>6. b4 \in Busy /\ b4.pc = "cross" /\ b4.identity = worker[w].identity /\ b4.todo = rest
      BY <2>5 DEF Busy
  <2> HIDE DEF b4
  <2>7. b5 \in Busy /\ b5.pc = "cross" /\ b5.identity = worker[w].identity /\ b5.todo = rest
      BY <2>6 DEF Busy
  <2> HIDE DEF b5
  <2>8. worker' \in [Workers -> {Free} \cup Busy] /\ Serves(w) /\ worker'[w] = b5
      BY <1>1, <2>1, <2>7 DEF WorkerTypes, Serves
  <2>9. Sound(w)' BY <2>2, <2>7, <2>8 DEF Sound
  <2>10. Counted(w)' BY <2>7, <2>8 DEF Counted
  <2> QED BY <1>2, <1>3, <1>4, <2>7, <2>8, <2>9, <2>10, QuietStep
<1> QED BY <1>5, <1>6 DEF NextRecord

LEMMA ResolutionKeeps ==
    ASSUME IngestInv, NEW k \in DOMAIN quarantine, NEW j \in Sources,
           CheckResolution(k, j) \/ ResolveIdentity(k, j)
    PROVE  IngestInv'
<1>1. /\ IdentityTypes /\ TableTypes /\ WorkerTypes
      /\ RequestsAreSound /\ Balanced /\ AnsweredMeansCounted
    BY TypesTogether DEF IngestInv
<1>2. UNCHANGED accounts /\ worker' = worker BY DEF CheckResolution, ResolveIdentity
<1>3. records' = records /\ events' = events BY <1>2 DEF accounts
<1>4. IdentityTypes'
  <2>1. CASE CheckResolution(k, j) BY <1>1, <2>1 DEF IdentityTypes, CheckResolution
  <2>2. CASE ResolveIdentity(k, j)
    <3>1. quarantine[k] \in [identity : Sources, cleared : BOOLEAN]
      <4> DEFINE Q == [identity : Sources, cleared : BOOLEAN]
      <4>1. quarantine \in Seq(Q) BY <1>1 DEF IdentityTypes
      <4> HIDE DEF Q
      <4>2. quarantine[k] \in Q BY <4>1
      <4> QED BY <4>2 DEF Q
    <3> DEFINE row == [quarantine[k] EXCEPT !.cleared = TRUE]
    <3>2. row \in [identity : Sources, cleared : BOOLEAN] BY <3>1
    <3>3. quarantine' = [quarantine EXCEPT ![k] = row] BY <2>2 DEF ResolveIdentity
    <3> HIDE DEF row
    <3>4. /\ quarantine' \in Seq([identity : Sources, cleared : BOOLEAN])
          /\ DOMAIN quarantine' = DOMAIN quarantine
        BY <1>1, <3>2, <3>3 DEF IdentityTypes
    <3>5. parent' \in [Sources -> Sources \cup {None, Unknown}]
        BY <1>1, <2>2, <3>1 DEF IdentityTypes, ResolveIdentity
    <3> QED BY <1>1, <2>2, <3>4, <3>5 DEF IdentityTypes, ResolveIdentity
  <2> QED BY <2>1, <2>2
<1>5. TableTypes' /\ Balanced' BY <1>1, <1>2, QuietKeeps
<1>6. WorkerTypes' BY <1>1, <1>2 DEF WorkerTypes
<1>7. RequestsAreSound' BY <1>1, <1>2, <1>3 DEF RequestsAreSound, Sound, Head1, Valid
<1>8. AnsweredMeansCounted' BY <1>1, <1>2, <1>3 DEF AnsweredMeansCounted, Head1
<1>9. TypeOK' BY <1>4, <1>5, <1>6 DEF TypeOK, IdentityTypes, TableTypes, WorkerTypes
<1> QED BY <1>5, <1>7, <1>8, <1>9 DEF IngestInv

-----------------------------------------------------------------------------
(* The accounts: one session, one rollup row at a time.                    *)

\* The summands of UsageOf and of a rollup field, by record and by event.
RecordTokens(s) == [r \in Mine(s) |-> records[s, r].tokens]
Corrections(s) == [ir \in Booked(s) |-> events[ir].tokens - records[s, ir[2]].tokens]
InBucket(b) == {x \in EventKeys : events[x].bucket = b}
Amounts(b, f) == [ir \in InBucket(b) |-> Amount(events[ir][f])]

\* The parts of SessionsTrackUsage and RollupIsSumOfEvents about one row.
SessionTracks(s) ==
    /\ \A ir \in Booked(s) : ir[2] \in Mine(s)
    /\ IF Mine(s) = {} THEN sessions[s] = None
       ELSE /\ sessions[s] # None
            /\ sessions[s].messages = Cardinality(Mine(s))
            /\ sessions[s].tokens >= UsageOf(s)
            /\ BookedOnce(s) => sessions[s].tokens = UsageOf(s)
RollupSums(b, f) == rollup[b][f] = SumFunctionOnSet(Amounts(b, f), InBucket(b))

SumsOf(s) == SumFunctionOnSet(RecordTokens(s), Mine(s))
           + SumFunctionOnSet(Corrections(s), Booked(s))

LEMMA UsageIsSums ==
    ASSUME NEW s
    PROVE  UsageOf(s) = SumsOf(s) /\ UsageOf(s)' = SumsOf(s)'
<1>1. /\ DOMAIN RecordTokens(s) = Mine(s) /\ DOMAIN Corrections(s) = Booked(s)
      /\ DOMAIN RecordTokens(s)' = Mine(s)' /\ DOMAIN Corrections(s)' = Booked(s)'
    BY DEF RecordTokens, Corrections
<1>2. /\ UsageOf(s) = SumFunction(RecordTokens(s)) + SumFunction(Corrections(s))
      /\ UsageOf(s)' = SumFunction(RecordTokens(s)') + SumFunction(Corrections(s)')
    BY DEF UsageOf, RecordTokens, Corrections
<1> QED BY <1>1, <1>2 DEF SumFunction, SumsOf

RowsBalance ==
    /\ TablesAreFinite
    /\ \A s \in Sources : SessionTracks(s)
    /\ \A b \in Buckets, f \in Fields : RollupSums(b, f)

LEMMA BalancedRows == Balanced <=> RowsBalance
<1>1. SessionsTrackUsage <=> \A s \in Sources : SessionTracks(s)
    BY DEF SessionsTrackUsage, SessionTracks
<1>2. ASSUME NEW b, NEW f
      PROVE  SumFunction([ir \in {x \in EventKeys : events[x].bucket = b} |->
                              Amount(events[ir][f])])
             = SumFunctionOnSet(Amounts(b, f), InBucket(b))
  <2>1. DOMAIN Amounts(b, f) = InBucket(b) BY DEF Amounts
  <2>2. SumFunction([ir \in {x \in EventKeys : events[x].bucket = b} |->
                         Amount(events[ir][f])]) = SumFunction(Amounts(b, f))
      BY DEF Amounts, InBucket
  <2> QED BY <2>1, <2>2 DEF SumFunction
<1>3. RollupIsSumOfEvents <=> \A b \in Buckets, f \in Fields : RollupSums(b, f)
    BY <1>2, ZenonT(60) DEF RollupIsSumOfEvents, RollupSums
<1> QED BY <1>1, <1>3 DEF Balanced, RowsBalance

LEMMA BalancedRowsNext == Balanced' <=> RowsBalance'
BY BalancedRows, PTL

\* Rows have the types the sums need.
LEMMA Summands ==
    ASSUME TableTypes, TablesAreFinite, NEW s \in Sources, SessionTracks(s)
    PROVE  /\ IsFiniteSet(Mine(s)) /\ IsFiniteSet(Booked(s))
           /\ \A r \in Mine(s) : RecordTokens(s)[r] \in Nat
           /\ \A ir \in Booked(s) :
                /\ events[ir] \in EventRow /\ events[ir].tokens \in Nat
                /\ ir[2] \in Mine(s) /\ records[s, ir[2]].tokens \in Nat
                /\ Corrections(s)[ir] = events[ir].tokens - records[s, ir[2]].tokens
                /\ Corrections(s)[ir] \in Int
           /\ UsageOf(s) \in Int
<1>1. IsFiniteSet(Mine(s)) BY DEF TablesAreFinite
<1>2. Booked(s) \subseteq EventKeys BY DEF Booked
<1>3. IsFiniteSet(Booked(s)) BY <1>2, FS_Subset DEF TablesAreFinite
<1>4. ASSUME NEW r \in Mine(s)
      PROVE  RecordTokens(s)[r] = records[s, r].tokens /\ records[s, r].tokens \in Nat
  <2>1. r \in Records /\ records[s, r] # None BY DEF Mine
  <2>2. records[s, r] \in RecordRow BY <2>1 DEF TableTypes, Nullable
  <2> QED BY <2>2 DEF RecordTokens, RecordRow
<1>5. ASSUME NEW ir \in Booked(s)
      PROVE  /\ events[ir] \in EventRow /\ events[ir].tokens \in Nat
             /\ ir[2] \in Mine(s) /\ records[s, ir[2]].tokens \in Nat
             /\ Corrections(s)[ir] = events[ir].tokens - records[s, ir[2]].tokens
             /\ Corrections(s)[ir] \in Int
  <2>1. ir \in Sources \X Records /\ events[ir] # None BY DEF Booked, EventKeys
  <2>2. events[ir] \in EventRow BY <2>1 DEF TableTypes, Nullable
  <2>3. events[ir].tokens \in Nat BY <2>2 DEF EventRow
  <2>4. ir[2] \in Mine(s) BY DEF SessionTracks
  <2>5. records[s, ir[2]].tokens \in Nat BY <1>4, <2>4
  <2>6. Corrections(s)[ir] = events[ir].tokens - records[s, ir[2]].tokens
      BY DEF Corrections
  <2>7. \A m, n \in Nat : m - n \in Int OBVIOUS
  <2>8. Corrections(s)[ir] \in Int BY <2>3, <2>5, <2>6, <2>7
  <2> QED BY <2>2, <2>3, <2>4, <2>5, <2>6, <2>8
<1>6. SumFunctionOnSet(RecordTokens(s), Mine(s)) \in Int
  <2>1. ASSUME NEW r \in Mine(s) PROVE RecordTokens(s)[r] \in Int
    <3>1. PICK n \in Nat : n = RecordTokens(s)[r] BY <1>4
    <3> QED BY <3>1
  <2> QED BY <1>1, <2>1, SumIsInt
<1>7. SumFunctionOnSet(Corrections(s), Booked(s)) \in Int
  <2>1. \A ir \in Booked(s) : Corrections(s)[ir] \in Int BY <1>5
  <2> QED BY <1>3, <2>1, SumIsInt
<1>8. UsageOf(s) \in Int BY <1>6, <1>7, UsageIsSums DEF SumsOf
<1> QED BY <1>1, <1>3, <1>4, <1>5, <1>8

\* A session whose records and events keep their tokens is not moved.
LEMMA SessionUnmoved ==
    ASSUME NEW s \in Sources, SessionTracks(s),
           Mine(s)' = Mine(s), Booked(s)' = Booked(s),
           \A r \in Mine(s) : records'[s, r].tokens = records[s, r].tokens,
           \A ir \in Booked(s) : events'[ir].tokens = events[ir].tokens,
           Mine(s) = {} => sessions'[s] = sessions[s],
           Mine(s) # {} => /\ sessions'[s] # None
                           /\ sessions'[s].messages = sessions[s].messages
                           /\ sessions'[s].tokens = sessions[s].tokens
    PROVE  SessionTracks(s)'
<1>1. RecordTokens(s)' = RecordTokens(s) BY DEF RecordTokens
<1>2. \A ir \in Booked(s) : ir[2] \in Mine(s) BY DEF SessionTracks
<1>3. Corrections(s)' = Corrections(s) BY <1>2 DEF Corrections
<1>4. UsageOf(s)' = UsageOf(s)
  <2>1. SumsOf(s)' = SumsOf(s) BY <1>1, <1>3 DEF SumsOf
  <2> QED BY <2>1, UsageIsSums
<1>5. BookedOnce(s)' <=> BookedOnce(s) BY DEF BookedOnce
<1> QED BY <1>2, <1>4, <1>5 DEF SessionTracks

\* A rollup row whose events keep their values is not moved.
LEMMA RollupUnmoved ==
    ASSUME NEW b \in Buckets, NEW f \in Fields, RollupSums(b, f),
           InBucket(b)' = InBucket(b),
           \A ir \in InBucket(b) : Amount(events'[ir][f]) = Amount(events[ir][f]),
           rollup'[b][f] = rollup[b][f]
    PROVE  RollupSums(b, f)'
<1>1. Amounts(b, f)' = Amounts(b, f) BY DEF Amounts, Amount
<1> QED BY <1>1 DEF RollupSums

\* The steps that write accounts: what is left to show once the accounts are
\* known to balance again.
LEMMA AccountStep ==
    ASSUME IngestInv, UNCHANGED identities, TableTypes', RowsBalance',
           RecordsKept, EventsKept,
           NEW w \in Workers, Serves(w),
           worker' \in [Workers -> {Free} \cup Busy],
           worker'[w].pc \notin {"idle", "resolve"} => worker'[w].identity \in Sources,
           Sound(w)', Counted(w)'
    PROVE  IngestInv'
<1>1. IdentityTypes /\ WorkerTypes /\ RequestsAreSound /\ AnsweredMeansCounted
    BY TypesTogether DEF IngestInv
<1>2. IdentityTypes' BY <1>1 DEF IdentityTypes, identities
<1>3. WorkerTypes' /\ RequestsAreSound' /\ AnsweredMeansCounted' BY <1>1, OneRequest
<1>4. TypeOK' BY <1>2, <1>3 DEF TypeOK, IdentityTypes, TableTypes, WorkerTypes
<1> QED BY <1>3, <1>4, BalancedRowsNext DEF IngestInv

\* A stored amount is a number, a missing one counts as 0.
LEMMA AmountFacts ==
    /\ \A x \in Int : Amount(x) = x
    /\ Amount(None) = 0
    /\ \A x \in Nullable(Int) : Amount(x) \in Int
    /\ \A x \in Nullable(Nat) : Amount(x) \in Nat
BY IngestAssumption DEF Amount, Nullable

\* What the validation of a delivery leaves.
LEMMA ValidFields ==
    ASSUME NEW d \in Delivery, Valid(d)
    PROVE  /\ d.tokens \in Nat /\ d.cache \in Nullable(Nat) /\ d.cost \in Nullable(Int)
           /\ d.text \in Nullable(Texts) /\ Amount(d.cache) \in Nat
           /\ d.rec \in Records /\ d.bucket \in Nullable(Buckets)
<1>1. /\ d.tokens \in Int /\ d.cache \in Nullable(Int) /\ d.cost \in Nullable(Int)
      /\ d.text \in Nullable(Texts) /\ d.rec \in Records /\ d.bucket \in Nullable(Buckets)
    BY DEF Delivery
<1>2. d.tokens >= 0 /\ Amount(d.cache) >= 0 BY DEF Valid
<1> QED BY <1>1, <1>2, AmountFacts DEF Nullable

-----------------------------------------------------------------------------
(* The legacy booking.                                                     *)

\* The first delivery of a record: one more row, one more message.
FirstRow(d) == [tokens |-> d.tokens, cache |-> d.cache, cost |-> d.cost, text |-> d.text]

FirstBooked(s, d, r) ==
    /\ records[<<s, r>>] = None
    /\ records' = [records EXCEPT ![<<s, r>>] = FirstRow(d)]
    /\ sessions' = [sessions EXCEPT ![s] = ResolveSession(s, d)]
    /\ UNCHANGED <<events, rollup>>

LEMMA FirstBooking ==
    ASSUME TableTypes, RowsBalance, NEW s \in Sources, NEW d \in Delivery, Valid(d),
           NEW r, r = d.rec, FirstBooked(s, d, r)
    PROVE  /\ TableTypes' /\ RowsBalance' /\ RecordsKept /\ EventsKept
           /\ records'[<<s, r>>] # None /\ records'[<<s, r>>].tokens = d.tokens
<1> DEFINE row == FirstRow(d)
<1>1. TableTypes OBVIOUS
<1>2. /\ records[<<s, r>>] = None
      /\ records' = [records EXCEPT ![<<s, r>>] = row]
      /\ sessions' = [sessions EXCEPT ![s] = ResolveSession(s, d)]
      /\ UNCHANGED <<events, rollup>>
    BY DEF FirstBooked
<1>3. d \in Delivery /\ r \in Records /\ s \in Sources BY DEF Delivery
<1>4. Valid(d) OBVIOUS
<1>5. RowsBalance OBVIOUS
<1>6. /\ d.tokens \in Nat /\ d.cache \in Nullable(Nat) /\ d.cost \in Nullable(Int)
      /\ d.text \in Nullable(Texts) /\ Amount(d.cache) \in Nat
    BY <1>3, <1>4, ValidFields
<1>7. row \in RecordRow /\ row.tokens = d.tokens /\ row # None
    BY <1>6, IngestAssumption DEF RecordRow, FirstRow
<1> DEFINE was == sessions[s]
           now == ResolveSession(s, d)
<1>8. was \in Nullable(SessionRow) BY <1>1, <1>3 DEF TableTypes
<1>9. /\ now \in SessionRow
      /\ was = None => now.messages = 1 /\ now.tokens = d.tokens
      /\ was # None => /\ was \in SessionRow
                       /\ now.messages = was.messages + 1
                       /\ now.tokens = was.tokens + d.tokens
  <2>1. CASE was = None BY <1>6, <2>1 DEF ResolveSession, SessionRow
  <2>2. CASE was # None
    <3>1. /\ was \in SessionRow /\ was.messages \in Nat /\ was.tokens \in Nat
          /\ was.cache \in Nat /\ was.cost \in Nullable(Int)
        BY <1>8, <2>2 DEF Nullable, SessionRow
    <3>2. Amount(was.cost) \in Int /\ Amount(d.cost) \in Int BY <1>6, <3>1, AmountFacts
    <3>3. now = [messages |-> was.messages + 1, tokens |-> was.tokens + d.tokens,
                 cache |-> was.cache + Amount(d.cache),
                 cost |-> Amount(was.cost) + Amount(d.cost)]
        BY <2>2 DEF ResolveSession
    <3>4. /\ was.messages + 1 \in Nat /\ was.tokens + d.tokens \in Nat
          /\ was.cache + Amount(d.cache) \in Nat
          /\ Amount(was.cost) + Amount(d.cost) \in Nullable(Int)
        BY <1>6, <3>1, <3>2 DEF Nullable
    <3> QED BY <2>2, <3>1, <3>3, <3>4 DEF SessionRow
  <2> QED BY <2>1, <2>2
<1>10. /\ <<s, r>> \in Sources \X Records
       /\ records' \in [Sources \X Records -> Nullable(RecordRow)]
       /\ records'[<<s, r>>] = row
       /\ \A sr \in Sources \X Records : sr # <<s, r>> => records'[sr] = records[sr]
  <2> HIDE DEF row
  <2> QED BY <1>1, <1>2, <1>3, <1>7 DEF TableTypes, Nullable
<1>11. /\ sessions' \in [Sources -> Nullable(SessionRow)]
       /\ sessions'[s] = now /\ now # None
       /\ \A t \in Sources : t # s => sessions'[t] = sessions[t]
  <2>1. sessions' = [sessions EXCEPT ![s] = now] BY <1>2
  <2> HIDE DEF now
  <2> QED BY <1>1, <1>3, <1>9, <2>1, IngestAssumption DEF TableTypes, Nullable
<1> HIDE DEF row, now
<1>12. TableTypes' BY <1>1, <1>2, <1>10, <1>11 DEF TableTypes
<1>13. RecordsKept /\ EventsKept BY <1>2, <1>10 DEF RecordsKept, EventsKept
<1>14. EventKeys' = EventKeys BY <1>2 DEF EventKeys
<1>15. \A t : Booked(t)' = Booked(t) BY <1>2, <1>14 DEF Booked
<1>16. ASSUME NEW t \in Sources, t # s PROVE Mine(t)' = Mine(t) /\ SessionTracks(t)'
  <2>1. \A q \in Records : records'[t, q] = records[t, q] BY <1>10, <1>16
  <2>2. Mine(t)' = Mine(t) BY <2>1 DEF Mine
  <2>3. SessionTracks(t) BY <1>5 DEF RowsBalance
  <2>4. \A q \in Mine(t) : records'[t, q].tokens = records[t, q].tokens BY <2>1 DEF Mine
  <2>5. \A ir \in Booked(t) : events'[ir].tokens = events[ir].tokens BY <1>2
  <2>6. sessions'[t] = sessions[t] BY <1>11, <1>16
  <2>7. Mine(t) # {} => sessions[t] # None BY <2>3 DEF SessionTracks
  <2> QED BY <1>15, <2>2, <2>3, <2>4, <2>5, <2>6, <2>7, SessionUnmoved
<1>17. r \notin Mine(s) /\ Mine(s)' = Mine(s) \cup {r}
  <2>1. r \notin Mine(s) BY <1>2 DEF Mine
  <2>2. \A q \in Records : q # r => records'[s, q] = records[s, q] BY <1>3, <1>10
  <2>3. records'[s, r] # None BY <1>7, <1>10
  <2> QED BY <1>3, <2>1, <2>2, <2>3 DEF Mine
<1>18. TablesAreFinite'
  <2>1. TablesAreFinite BY <1>5 DEF RowsBalance
  <2>2. IsFiniteSet(Mine(s)') BY <1>3, <1>17, <2>1, FS_AddElement DEF TablesAreFinite
  <2> QED BY <1>14, <1>16, <2>1, <2>2 DEF TablesAreFinite
<1>19. SessionTracks(s)'
  <2>1. SessionTracks(s) /\ TablesAreFinite BY <1>3, <1>5 DEF RowsBalance
  <2>2. /\ IsFiniteSet(Mine(s)) /\ \A q \in Mine(s) : RecordTokens(s)[q] \in Nat
        /\ \A ir \in Booked(s) : ir[2] \in Mine(s)
        /\ UsageOf(s) \in Int
      BY <1>1, <1>3, <2>1, Summands
  <2>3. \A q \in Mine(s) : records'[s, q] = records[s, q] BY <1>3, <1>10, <1>17 DEF Mine
  <2>4. Corrections(s)' = Corrections(s)
    <3>1. events' = events BY <1>2
    <3>2. \A ir \in Booked(s) : records'[s, ir[2]] = records[s, ir[2]] BY <2>2, <2>3
    <3> QED BY <1>15, <3>1, <3>2 DEF Corrections
  <2>5. ASSUME NEW q \in Mine(s)
        PROVE  RecordTokens(s)[q] \in Int /\ RecordTokens(s)'[q] = RecordTokens(s)[q]
    <3>1. PICK n \in Nat : n = RecordTokens(s)[q] BY <2>2
    <3>2. q \in Mine(s)' BY <1>17
    <3>3. RecordTokens(s)'[q] = RecordTokens(s)[q] BY <2>3, <3>2 DEF RecordTokens
    <3> QED BY <3>1, <3>3
  <2>6. RecordTokens(s)'[r] = d.tokens BY <1>7, <1>10, <1>17 DEF RecordTokens
  <2>7. SumFunctionOnSet(RecordTokens(s)', Mine(s) \cup {r})
          = SumFunctionOnSet(RecordTokens(s), Mine(s)) + d.tokens
    <3>1. PICK e : e = RecordTokens(s)' OBVIOUS
    <3>2. e[r] \in Int /\ e[r] = d.tokens BY <1>6, <2>6, <3>1
    <3>3. \A q \in Mine(s) : RecordTokens(s)[q] \in Int /\ e[q] = RecordTokens(s)[q]
        BY <2>5, <3>1
    <3>4. SumFunctionOnSet(e, Mine(s) \cup {r})
            = SumFunctionOnSet(RecordTokens(s), Mine(s)) + e[r]
      <4>1. PICK f, M : f = RecordTokens(s) /\ M = Mine(s) OBVIOUS
      <4>2. IsFiniteSet(M) /\ r \notin M BY <1>17, <2>2, <4>1
      <4>3. \A q \in M : f[q] \in Int BY <3>3, <4>1
      <4>4. \A q \in M : e[q] = f[q] BY <3>3, <4>1
      <4>5. PICK n \in Int : n = e[r] BY <3>2
      <4>6. PICK T : T = M \cup {r} OBVIOUS
      <4>7. SumFunctionOnSet(e, T) = SumFunctionOnSet(f, M) + n
          BY <4>2, <4>3, <4>4, <4>5, <4>6, SumGrows
      <4> QED BY <4>1, <4>5, <4>6, <4>7
    <3> QED BY <3>1, <3>2, <3>4
  <2>8. UsageOf(s)' = UsageOf(s) + d.tokens
    <3>1. SumFunctionOnSet(RecordTokens(s), Mine(s)) \in Int BY <2>2, <2>5, SumIsInt
    <3>2. SumFunctionOnSet(Corrections(s), Booked(s)) \in Int
      <4>1. /\ IsFiniteSet(Booked(s))
            /\ \A ir \in Booked(s) : Corrections(s)[ir] \in Int
          BY <1>1, <1>3, <2>1, Summands
      <4> QED BY <4>1, SumIsInt
    <3>3. SumsOf(s)' = (SumFunctionOnSet(RecordTokens(s), Mine(s)) + d.tokens)
                     + SumFunctionOnSet(Corrections(s), Booked(s))
        BY <1>15, <1>17, <2>4, <2>7 DEF SumsOf
    <3>4. SumsOf(s)' = SumsOf(s) + d.tokens BY <1>6, <3>1, <3>2, <3>3 DEF SumsOf
    <3> QED BY <3>4, UsageIsSums
  <2>9. BookedOnce(s)' <=> BookedOnce(s) BY <1>15 DEF BookedOnce
  <2>10. Mine(s)' # {} BY <1>17
  <2>11. Cardinality(Mine(s)') = Cardinality(Mine(s)) + 1
    <3>1. PICK M : M = Mine(s) OBVIOUS
    <3>2. Cardinality(M \cup {r}) = Cardinality(M) + 1 BY <1>17, <2>2, <3>1, FS_AddElement
    <3> QED BY <1>17, <3>1, <3>2
  <2>12. CASE Mine(s) = {}
    <3>1. was = None BY <2>1, <2>12 DEF SessionTracks
    <3>2. now.messages = 1 /\ now.tokens = d.tokens BY <1>9, <3>1
    <3>3. Cardinality(Mine(s)') = 1 BY <2>11, <2>12, FS_EmptySet
    <3>4. Booked(s) = {} BY <2>2, <2>12
    <3>5. UsageOf(s) = 0
      <4>1. SumFunctionOnSet(RecordTokens(s), Mine(s)) = 0 BY <2>12, SumOfNothing
      <4>2. SumFunctionOnSet(Corrections(s), Booked(s)) = 0 BY <3>4, SumOfNothing
      <4> QED BY <4>1, <4>2, UsageIsSums DEF SumsOf
    <3>6. UsageOf(s)' = d.tokens BY <1>6, <2>8, <3>5
    <3> QED BY <1>6, <1>11, <1>15, <2>2, <2>10, <3>2, <3>3, <3>4, <3>6 DEF SessionTracks
  <2>13. CASE Mine(s) # {}
    <3>1. /\ was.messages = Cardinality(Mine(s))
          /\ was.tokens >= UsageOf(s)
          /\ BookedOnce(s) => was.tokens = UsageOf(s)
        BY <2>1, <2>13 DEF SessionTracks
    <3>2. was # None
      <4>1. Cardinality(Mine(s)) \in Nat BY <2>2, FS_CardinalityType
      <4> QED BY <2>1, <2>13 DEF SessionTracks
    <3>3. was \in SessionRow /\ was.tokens \in Nat BY <1>9, <3>2 DEF SessionRow
    <3>4. now.messages = Cardinality(Mine(s)') BY <1>9, <2>11, <3>1, <3>2
    <3>5. now.tokens = was.tokens + d.tokens BY <1>9, <3>2
    <3>6. now.tokens >= UsageOf(s)' BY <1>6, <2>2, <2>8, <3>1, <3>3, <3>5
    <3>7. BookedOnce(s)' => now.tokens = UsageOf(s)' BY <2>8, <2>9, <3>1, <3>5
    <3>8. \A ir \in Booked(s)' : ir[2] \in Mine(s)' BY <1>15, <1>17, <2>2
    <3> QED BY <1>11, <2>10, <3>4, <3>6, <3>7, <3>8 DEF SessionTracks
  <2> QED BY <2>12, <2>13
<1>20. ASSUME NEW b \in Buckets, NEW f \in Fields PROVE RollupSums(b, f)'
  <2>1. RollupSums(b, f) BY <1>5 DEF RowsBalance
  <2>2. InBucket(b)' = InBucket(b) BY <1>2, <1>14 DEF InBucket
  <2> QED BY <1>2, <2>1, <2>2, RollupUnmoved
<1>21. RowsBalance' BY <1>16, <1>18, <1>19, <1>20 DEF RowsBalance
<1> QED BY <1>7, <1>10, <1>12, <1>13, <1>21

LEMMA ProcessWinnerKeeps ==
    ASSUME IngestInv, NEW w \in Workers, ProcessWinner(w) PROVE IngestInv'
<1>1. TableTypes /\ WorkerTypes /\ Balanced /\ Sound(w) BY InvFacts
<1>2. RowsBalance BY <1>1, BalancedRows
<1>3. worker[w].pc = "process" BY DEF ProcessWinner
<1>4. /\ worker[w] \in Busy /\ Head1(w) \in Delivery /\ worker[w].source \in Sources
      /\ worker[w].identity \in Sources /\ Head1(w).rec \in Records
    BY <1>3, InvFacts
<1>5. PICK d \in Delivery, s \in Sources, r \in Records :
        d = Head1(w) /\ s = worker[w].source /\ r = d.rec
    BY <1>4
<1>6. Valid(d) BY <1>1, <1>3, <1>5 DEF Sound
<1>7. FirstBooked(s, d, r) /\ Step(w, "canonical") /\ UNCHANGED identities
    BY <1>5 DEF ProcessWinner, FirstRow, FirstBooked
<1>8. /\ TableTypes' /\ RowsBalance' /\ RecordsKept /\ EventsKept
      /\ records'[<<s, r>>] # None /\ records'[<<s, r>>].tokens = d.tokens
    BY <1>1, <1>2, <1>5, <1>6, <1>7, FirstBooking
<1>9. worker' \in [Workers -> {Free} \cup Busy] /\ Serves(w) /\ GoesOn(w, "canonical")
    BY <1>1, <1>4, <1>7, StepEffect DEF Stages
<1>10. Head1(w)' = d BY <1>5, <1>9 DEF Head1, GoesOn
<1>11. Sound(w)'
    BY <1>1, <1>3, <1>5, <1>6, <1>8, <1>9, <1>10 DEF Sound, GoesOn, Valid
<1>12. Counted(w)' BY <1>9 DEF Counted, GoesOn
<1> QED BY <1>4, <1>7, <1>8, <1>9, <1>11, <1>12, AccountStep DEF GoesOn

\* A replay with the same values fills what the row lacks.
Refilled(s, d, r) ==
    /\ records[<<s, r>>] # None
    /\ records' = [records EXCEPT ![<<s, r>>].cache = Fill(@, d.cache),
                                  ![<<s, r>>].text = Fill(@, d.text)]
    /\ sessions' = [sessions EXCEPT ![s].cache =
           @ + (IF records[<<s, r>>].cache = None THEN Amount(d.cache) ELSE 0)]
    /\ UNCHANGED <<events, rollup>>

LEMMA Refilling ==
    ASSUME TableTypes, RowsBalance, NEW s \in Sources, NEW d \in Delivery, Valid(d),
           NEW r \in Records, Refilled(s, d, r)
    PROVE  /\ TableTypes' /\ RowsBalance' /\ RecordsKept /\ EventsKept
           /\ records'[<<s, r>>] # None
           /\ records'[<<s, r>>].tokens = records[<<s, r>>].tokens
<1> DEFINE old == records[<<s, r>>]
           b1 == [old EXCEPT !.cache = Fill(old.cache, d.cache)]
           row == [b1 EXCEPT !.text = Fill(old.text, d.text)]
           was == sessions[s]
           more == IF old.cache = None THEN Amount(d.cache) ELSE 0
           now == [was EXCEPT !.cache = was.cache + more]
<1>1. <<s, r>> \in Sources \X Records /\ old \in RecordRow /\ old # None
    BY DEF TableTypes, Refilled, Nullable
<1>2. /\ old.cache \in Nullable(Nat) /\ old.text \in Nullable(Texts)
      /\ d.cache \in Nullable(Nat) /\ d.text \in Nullable(Texts) /\ Amount(d.cache) \in Nat
    BY <1>1, ValidFields DEF RecordRow
<1>3. /\ b1 \in RecordRow /\ b1.tokens = old.tokens /\ b1.text = old.text
  <2>1. Fill(old.cache, d.cache) \in Nullable(Nat) BY <1>2 DEF Fill
  <2> QED BY <1>1, <2>1 DEF RecordRow
<1>4. records' = [records EXCEPT ![<<s, r>>] = row]
    BY <1>1, <1>3 DEF Refilled, TableTypes
<1>5. row \in RecordRow /\ row.tokens = old.tokens
  <2>1. Fill(old.text, d.text) \in Nullable(Texts) BY <1>2 DEF Fill
  <2> HIDE DEF b1
  <2> QED BY <1>3, <2>1 DEF RecordRow
<1> HIDE DEF row
<1>6. /\ records' \in [Sources \X Records -> Nullable(RecordRow)]
      /\ records'[<<s, r>>] = row /\ row # None
      /\ \A sr \in Sources \X Records : sr # <<s, r>> => records'[sr] = records[sr]
    BY <1>1, <1>4, <1>5, IngestAssumption DEF TableTypes, Nullable
<1>7. TablesAreFinite /\ (\A t \in Sources : SessionTracks(t)) BY DEF RowsBalance
<1>8. was \in SessionRow /\ was # None
  <2>1. r \in Mine(s) BY <1>1 DEF Mine
  <2>2. was # None BY <1>7, <2>1 DEF SessionTracks
  <2> QED BY <2>2 DEF TableTypes, Nullable
<1>9. sessions' = [sessions EXCEPT ![s] = now] BY DEF Refilled, TableTypes
<1>10. now \in SessionRow /\ now.messages = was.messages /\ now.tokens = was.tokens
  <2>1. more \in Nat BY <1>2
  <2> HIDE DEF more
  <2>2. was.cache \in Nat BY <1>8 DEF SessionRow
  <2>3. was.cache + more \in Nat BY <2>1, <2>2
  <2> QED BY <1>8, <2>3 DEF SessionRow
<1> HIDE DEF now
<1>11. /\ sessions' \in [Sources -> Nullable(SessionRow)]
       /\ sessions'[s] = now /\ now # None
       /\ \A t \in Sources : t # s => sessions'[t] = sessions[t]
    BY <1>9, <1>10, IngestAssumption DEF TableTypes, Nullable
<1>12. events' = events /\ rollup' = rollup BY DEF Refilled
<1>13. TableTypes' BY <1>6, <1>11, <1>12 DEF TableTypes
<1>14. RecordsKept /\ EventsKept BY <1>5, <1>6, <1>12 DEF RecordsKept, EventsKept
<1>15. EventKeys' = EventKeys BY <1>12 DEF EventKeys
<1>16. ASSUME NEW t \in Sources PROVE Mine(t)' = Mine(t) /\ SessionTracks(t)'
  <2>1. \A q \in Records : records'[t, q] # None <=> records[t, q] # None BY <1>1, <1>6
  <2>2. Mine(t)' = Mine(t) BY <2>1 DEF Mine
  <2>3. SessionTracks(t) BY <1>7
  <2>4. \A q \in Mine(t) : records'[t, q].tokens = records[t, q].tokens
      BY <1>5, <1>6 DEF Mine
  <2>5. Booked(t)' = Booked(t) BY <1>12, <1>15 DEF Booked
  <2>6. Mine(t) = {} => sessions[t] = None BY <2>3 DEF SessionTracks
  <2>7. Mine(t) # {} => sessions[t] # None BY <2>3 DEF SessionTracks
  <2>8. t = s => Mine(t) # {} BY <1>1 DEF Mine
  <2>9. Mine(t) = {} => sessions'[t] = sessions[t] BY <1>11, <2>8
  <2>10. Mine(t) # {} => /\ sessions'[t] # None
                         /\ sessions'[t].messages = sessions[t].messages
                         /\ sessions'[t].tokens = sessions[t].tokens
      BY <1>10, <1>11, <2>7
  <2>11. \A ir \in Booked(t) : events'[ir].tokens = events[ir].tokens BY <1>12
  <2> QED BY <2>2, <2>3, <2>4, <2>5, <2>9, <2>10, <2>11, SessionUnmoved
<1>17. TablesAreFinite' BY <1>7, <1>15, <1>16 DEF TablesAreFinite
<1>18. ASSUME NEW b \in Buckets, NEW f \in Fields PROVE RollupSums(b, f)'
  <2>1. RollupSums(b, f) BY DEF RowsBalance
  <2>2. InBucket(b)' = InBucket(b) BY <1>12, <1>15 DEF InBucket
  <2> QED BY <1>12, <2>1, <2>2, RollupUnmoved
<1>19. RowsBalance' BY <1>16, <1>17, <1>18 DEF RowsBalance
<1> QED BY <1>5, <1>6, <1>13, <1>14, <1>19

LEMMA ProcessIdenticalKeeps ==
    ASSUME IngestInv, NEW w \in Workers, ProcessIdentical(w) PROVE IngestInv'
<1>1. TableTypes /\ WorkerTypes /\ Balanced /\ Sound(w) BY InvFacts
<1>2. RowsBalance BY <1>1, BalancedRows
<1>3. worker[w].pc = "process" BY DEF ProcessIdentical
<1>4. /\ worker[w] \in Busy /\ Head1(w) \in Delivery /\ worker[w].source \in Sources
      /\ worker[w].identity \in Sources /\ Head1(w).rec \in Records
    BY <1>3, InvFacts
<1>5. PICK d \in Delivery, s \in Sources, r \in Records :
        d = Head1(w) /\ s = worker[w].source /\ r = d.rec
    BY <1>4
<1>6. Valid(d) BY <1>1, <1>3, <1>5 DEF Sound
<1>7. /\ Refilled(s, d, r) /\ records[<<s, r>>].tokens = d.tokens
      /\ Step(w, "lookup") /\ UNCHANGED identities
    BY <1>5 DEF ProcessIdentical, Refilled
<1>8. /\ TableTypes' /\ RowsBalance' /\ RecordsKept /\ EventsKept
      /\ records'[<<s, r>>] # None
      /\ records'[<<s, r>>].tokens = records[<<s, r>>].tokens
    BY <1>1, <1>2, <1>5, <1>6, <1>7, Refilling
<1>9. worker' \in [Workers -> {Free} \cup Busy] /\ Serves(w) /\ GoesOn(w, "lookup")
    BY <1>1, <1>4, <1>7, StepEffect DEF Stages
<1>10. Head1(w)' = d BY <1>5, <1>9 DEF Head1, GoesOn
<1>11. Sound(w)'
    BY <1>1, <1>3, <1>5, <1>6, <1>7, <1>8, <1>9, <1>10 DEF Sound, GoesOn, Valid
<1>12. Counted(w)' BY <1>9 DEF Counted, GoesOn
<1> QED BY <1>4, <1>7, <1>8, <1>9, <1>11, <1>12, AccountStep DEF GoesOn

-----------------------------------------------------------------------------
(* The canonical booking: the event and its rollup row.                    *)

\* compute_delta and merge: the stored amounts move by the delta.
LEMMA DeltaFacts ==
    ASSUME NEW e \in EventRow, NEW new,
           new.tokens \in Nullable(Nat), new.cache \in Nullable(Nat),
           new.cost \in Nullable(Int), NEW delta, delta = Delta(e, new)
    PROVE  /\ delta.tokens = (IF new.tokens = None THEN 0 ELSE new.tokens - e.tokens)
           /\ delta.cache = (IF new.cache = None THEN 0 ELSE new.cache - Amount(e.cache))
           /\ delta.cost = (IF new.cost = None THEN 0 ELSE new.cost - Amount(e.cost))
           /\ delta.tokens \in Int /\ delta.cache \in Int /\ delta.cost \in Int
<1>1. /\ e.tokens \in Nat /\ e.cache \in Nullable(Nat) /\ e.cost \in Nullable(Int)
    BY DEF EventRow
<1>2. Amount(e.tokens) = e.tokens BY <1>1, AmountFacts
<1>3. Amount(e.cache) \in Int /\ Amount(e.cost) \in Int BY <1>1, AmountFacts
<1>4. /\ delta.tokens = (IF new.tokens = None THEN 0 ELSE new.tokens - e.tokens)
      /\ delta.cache = (IF new.cache = None THEN 0 ELSE new.cache - Amount(e.cache))
      /\ delta.cost = (IF new.cost = None THEN 0 ELSE new.cost - Amount(e.cost))
    BY <1>2 DEF Delta, Fields
<1>5. delta.tokens \in Int BY <1>1, <1>4 DEF Nullable
<1>6. delta.cache \in Int BY <1>3, <1>4 DEF Nullable
<1>7. delta.cost \in Int BY <1>3, <1>4 DEF Nullable
<1> QED BY <1>4, <1>5, <1>6, <1>7

MergedRow(e, new, text) == [Merged(e, new) EXCEPT !.text = Fill(@, text)]

LEMMA MergeFacts ==
    ASSUME NEW e \in EventRow, NEW new,
           new.tokens \in Nullable(Nat), new.cache \in Nullable(Nat),
           new.cost \in Nullable(Int), NEW text \in Nullable(Texts),
           NEW delta, delta = Delta(e, new),
           NEW row, row = MergedRow(e, new, text)
    PROVE  /\ row \in EventRow /\ row.session = e.session /\ row.bucket = e.bucket
           /\ row.tokens = e.tokens + delta.tokens
           /\ Amount(row.cache) = Amount(e.cache) + delta.cache
           /\ Amount(row.cost) = Amount(e.cost) + delta.cost
           /\ e.cache # None => row.cache # None
           /\ e.cost # None => row.cost # None
           /\ e.text # None => row.text = e.text
<1>1. /\ e.tokens \in Nat /\ e.cache \in Nullable(Nat) /\ e.cost \in Nullable(Int)
      /\ e.text \in Nullable(Texts)
    BY DEF EventRow
<1>2. /\ delta.tokens = (IF new.tokens = None THEN 0 ELSE new.tokens - e.tokens)
      /\ delta.cache = (IF new.cache = None THEN 0 ELSE new.cache - Amount(e.cache))
      /\ delta.cost = (IF new.cost = None THEN 0 ELSE new.cost - Amount(e.cost))
      /\ delta.tokens \in Int /\ delta.cache \in Int /\ delta.cost \in Int
    BY DeltaFacts
<1> DEFINE t == IF delta.tokens = 0 THEN e.tokens ELSE new.tokens
           h == IF delta.cache = 0 THEN e.cache ELSE new.cache
           o == IF delta.cost = 0 THEN e.cost ELSE new.cost
           x == Fill(e.text, text)
           m1 == [e EXCEPT !.tokens = t]
           m2 == [m1 EXCEPT !.cache = h]
           m3 == [m2 EXCEPT !.cost = o]
           m4 == [m3 EXCEPT !.text = x]
<1>3. /\ t \in Nat /\ t = e.tokens + delta.tokens BY <1>1, <1>2, IngestAssumption DEF Nullable
<1>4. h \in Nullable(Nat) /\ (e.cache # None => h # None)
    BY <1>1, <1>2, IngestAssumption DEF Nullable
<1>5. Amount(h) = Amount(e.cache) + delta.cache
  <2>1. Amount(e.cache) \in Int BY <1>1, AmountFacts
  <2>2. CASE delta.cache = 0 BY <2>1, <2>2
  <2>3. CASE delta.cache # 0
    <3>1. new.cache \in Nat /\ h = new.cache BY <1>2, <2>3 DEF Nullable
    <3>2. new.cache # None BY <3>1, IngestAssumption
    <3>3. delta.cache = new.cache - Amount(e.cache) BY <1>2, <3>2
    <3>4. Amount(h) = new.cache BY <3>1, AmountFacts
    <3> QED BY <2>1, <3>1, <3>3, <3>4
  <2> QED BY <2>2, <2>3
<1>6. o \in Nullable(Int) /\ (e.cost # None => o # None)
    BY <1>1, <1>2, IngestAssumption DEF Nullable
<1>7. Amount(o) = Amount(e.cost) + delta.cost
  <2>1. Amount(e.cost) \in Int BY <1>1, AmountFacts
  <2>2. CASE delta.cost = 0 BY <2>1, <2>2
  <2>3. CASE delta.cost # 0
    <3>1. new.cost \in Int /\ o = new.cost BY <1>2, <2>3 DEF Nullable
    <3>2. new.cost # None BY <3>1, IngestAssumption
    <3>3. delta.cost = new.cost - Amount(e.cost) BY <1>2, <3>2
    <3>4. Amount(o) = new.cost BY <3>1, AmountFacts
    <3> QED BY <2>1, <3>1, <3>3, <3>4
  <2> QED BY <2>2, <2>3
<1>8. x \in Nullable(Texts) /\ (e.text # None => x = e.text) BY <1>1 DEF Fill
<1>9. m1 \in EventRow /\ m1.session = e.session /\ m1.bucket = e.bucket
      /\ m1.tokens = t /\ m1.cache = e.cache /\ m1.cost = e.cost /\ m1.text = e.text
  <2> HIDE DEF t
  <2> QED BY <1>3 DEF EventRow
<1>10. m2 \in EventRow /\ m2.session = e.session /\ m2.bucket = e.bucket
       /\ m2.tokens = t /\ m2.cache = h /\ m2.cost = e.cost /\ m2.text = e.text
  <2> HIDE DEF m1, h, t
  <2> QED BY <1>4, <1>9 DEF EventRow
<1>11. m3 \in EventRow /\ m3.session = e.session /\ m3.bucket = e.bucket
       /\ m3.tokens = t /\ m3.cache = h /\ m3.cost = o /\ m3.text = e.text
  <2> HIDE DEF m2, h, t, o
  <2> QED BY <1>6, <1>10 DEF EventRow
<1>12. m4 \in EventRow /\ m4.session = e.session /\ m4.bucket = e.bucket
       /\ m4.tokens = t /\ m4.cache = h /\ m4.cost = o /\ m4.text = x
  <2> HIDE DEF m3, h, t, o, x
  <2> QED BY <1>8, <1>11 DEF EventRow
<1>13. row = m4
  <2>1. Merged(e, new) = m3
    <3>1. Merged(e, new) = [e EXCEPT !.tokens = t, !.cache = h, !.cost = o]
      BY DEF Merged
    <3> HIDE DEF t, h, o
    <3> QED BY <3>1
  <2>2. row = [m3 EXCEPT !.text = Fill(m3.text, text)] BY <2>1 DEF MergedRow
  <2> QED BY <1>11, <2>2
<1> HIDE DEF t, h, o, x, m4
<1> QED BY <1>3, <1>4, <1>5, <1>6, <1>7, <1>8, <1>12, <1>13

\* The amounts in a rollup row, by event.
LEMMA RollupSummands ==
    ASSUME TableTypes, TablesAreFinite, NEW b \in Buckets, NEW f \in Fields
    PROVE  /\ IsFiniteSet(InBucket(b))
           /\ \A ir \in InBucket(b) : /\ Amounts(b, f)[ir] = Amount(events[ir][f])
                                      /\ Amounts(b, f)[ir] \in Int
           /\ SumFunctionOnSet(Amounts(b, f), InBucket(b)) \in Int
<1>1. InBucket(b) \subseteq EventKeys BY DEF InBucket
<1>2. IsFiniteSet(InBucket(b)) BY <1>1, FS_Subset DEF TablesAreFinite
<1>3. ASSUME NEW ir \in InBucket(b)
      PROVE  /\ Amounts(b, f)[ir] = Amount(events[ir][f])
             /\ Amounts(b, f)[ir] \in Int
  <2>1. ir \in Sources \X Records /\ events[ir] # None BY DEF InBucket, EventKeys
  <2>2. events[ir] \in EventRow BY <2>1 DEF TableTypes, Nullable
  <2>3. /\ events[ir].tokens \in Nat /\ events[ir].cache \in Nullable(Nat)
        /\ events[ir].cost \in Nullable(Int)
      BY <2>2 DEF EventRow
  <2>4. events[ir][f] \in Nullable(Int) BY <2>3 DEF Fields, Nullable
  <2>5. Amounts(b, f)[ir] = Amount(events[ir][f]) BY DEF Amounts
  <2> QED BY <2>4, <2>5, AmountFacts
<1>4. SumFunctionOnSet(Amounts(b, f), InBucket(b)) \in Int BY <1>2, <1>3, SumIsInt
<1> QED BY <1>2, <1>3, <1>4

NewEvent(s, d) == [session |-> s, bucket |-> d.bucket, tokens |-> d.tokens,
                   cache |-> d.cache, cost |-> d.cost, text |-> d.text]

Inserted(i, s, d, r) ==
    /\ events[<<i, r>>] = None
    /\ events' = [events EXCEPT ![<<i, r>>] = NewEvent(s, d)]
    /\ AddToRollup(d.bucket, [f \in Fields |-> Amount(d[f])])
    /\ UNCHANGED <<records, sessions>>

\* The first canonical booking of a record the session has counted.
LEMMA Inserting ==
    ASSUME TableTypes, RowsBalance, NEW i \in Sources, NEW s \in Sources,
           NEW d \in Delivery, Valid(d), NEW r \in Records, r = d.rec,
           records[<<s, r>>] # None, records[<<s, r>>].tokens = d.tokens,
           Inserted(i, s, d, r)
    PROVE  /\ TableTypes' /\ RowsBalance' /\ RecordsKept /\ EventsKept
           /\ events'[<<i, r>>] # None
<1> DEFINE row == NewEvent(s, d)
<1>1. /\ d.tokens \in Nat /\ d.cache \in Nullable(Nat) /\ d.cost \in Nullable(Int)
      /\ d.text \in Nullable(Texts) /\ d.bucket \in Nullable(Buckets)
    BY ValidFields
<1>2. /\ row \in EventRow /\ row.session = s /\ row.bucket = d.bucket
      /\ row.tokens = d.tokens /\ row # None
    BY <1>1, IngestAssumption DEF EventRow, NewEvent
<1>3. \A f \in Fields : row[f] = d[f] /\ Amount(d[f]) \in Int
  <2>1. row.tokens = d.tokens /\ row.cache = d.cache /\ row.cost = d.cost BY DEF NewEvent
  <2>2. Amount(d.tokens) \in Int /\ Amount(d.cache) \in Int /\ Amount(d.cost) \in Int
      BY <1>1, AmountFacts DEF Nullable
  <2> HIDE DEF row
  <2> QED BY <2>1, <2>2 DEF Fields
<1>4. events' = [events EXCEPT ![<<i, r>>] = row] /\ events[<<i, r>>] = None
    BY DEF Inserted
<1> HIDE DEF row
<1>5. PICK ev : ev = <<i, r>> OBVIOUS
<1>6. /\ ev \in Sources \X Records /\ ev[2] = r
      /\ events' \in [Sources \X Records -> Nullable(EventRow)]
      /\ events'[ev] = row
      /\ \A x \in Sources \X Records : x # ev => events'[x] = events[x]
    BY <1>2, <1>4, <1>5 DEF TableTypes, Nullable
<1>7. ev \notin EventKeys /\ EventKeys' = EventKeys \cup {ev}
  <2>1. ev \notin EventKeys BY <1>4, <1>5 DEF EventKeys
  <2>2. \A x \in Sources \X Records : events'[x] # None <=> events[x] # None \/ x = ev
      BY <1>2, <1>6
  <2> QED BY <1>6, <2>1, <2>2 DEF EventKeys
<1>8. \A x \in EventKeys : x # ev /\ events'[x] = events[x] BY <1>6, <1>7 DEF EventKeys
<1>9. records' = records /\ sessions' = sessions BY DEF Inserted
<1>10. RecordsKept /\ EventsKept BY <1>4, <1>5, <1>6, <1>9 DEF RecordsKept, EventsKept
<1>11. TablesAreFinite /\ (\A t \in Sources : SessionTracks(t)) BY DEF RowsBalance
<1>12. \A t : Mine(t)' = Mine(t) BY <1>9 DEF Mine
<1>13. TablesAreFinite'
  <2>1. IsFiniteSet(EventKeys)' BY <1>7, <1>11, FS_AddElement DEF TablesAreFinite
  <2> QED BY <1>11, <1>12, <2>1 DEF TablesAreFinite
<1>14. ASSUME NEW t \in Sources, t # s PROVE SessionTracks(t)'
  <2>1. Booked(t)' = Booked(t) BY <1>2, <1>6, <1>7, <1>8, <1>14 DEF Booked
  <2>2. \A x \in Booked(t) : events'[x].tokens = events[x].tokens BY <1>8 DEF Booked
  <2>3. SessionTracks(t) BY <1>11
  <2>4. Mine(t) # {} => sessions[t] # None BY <2>3 DEF SessionTracks
  <2> QED BY <1>9, <1>12, <2>1, <2>2, <2>3, <2>4, SessionUnmoved
<1>15. Booked(s)' = Booked(s) \cup {ev} /\ ev \notin Booked(s)
    BY <1>2, <1>6, <1>7, <1>8 DEF Booked
<1>16. SessionTracks(s)'
  <2>1. SessionTracks(s) BY <1>11
  <2>2. r \in Mine(s) BY DEF Mine
  <2>3. /\ IsFiniteSet(Booked(s))
        /\ \A x \in Booked(s) : x[2] \in Mine(s) /\ Corrections(s)[x] \in Int
      BY <1>11, <2>1, Summands
  <2>4. RecordTokens(s)' = RecordTokens(s) BY <1>9, <1>12 DEF RecordTokens
  <2>5. PICK g, h, B, T : /\ g = Corrections(s) /\ h = Corrections(s)'
                          /\ B = Booked(s) /\ T = Booked(s)'
      OBVIOUS
  <2>6. \A x \in B : h[x] = g[x]
    <3>1. \A x \in Booked(s) : x \in Booked(s)' /\ events'[x] = events[x]
        BY <1>8, <1>15 DEF Booked
    <3> QED BY <1>9, <2>5, <3>1 DEF Corrections
  <2>7. h[ev] = 0
    <3>1. ev \in Booked(s)' BY <1>15
    <3>2. h[ev] = events'[ev].tokens - records'[s, ev[2]].tokens
        BY <2>5, <3>1 DEF Corrections
    <3>3. h[ev] = d.tokens - d.tokens BY <1>2, <1>6, <1>9, <3>2
    <3> QED BY <1>1, <3>3
  <2>8. IsFiniteSet(B) /\ ev \notin B /\ T = B \cup {ev} /\ (\A x \in B : g[x] \in Int)
      BY <1>15, <2>3, <2>5
  <2>9. SumFunctionOnSet(h, T) = SumFunctionOnSet(g, B) + 0
    <3>1. 0 \in Int OBVIOUS
    <3> QED BY <2>6, <2>7, <2>8, <3>1, SumGrows
  <2>10. SumFunctionOnSet(g, B) \in Int BY <2>8, SumIsInt
  <2>11. SumFunctionOnSet(h, T) = SumFunctionOnSet(g, B) BY <2>9, <2>10
  <2>12. SumsOf(s)' = SumsOf(s) BY <1>12, <2>4, <2>5, <2>11 DEF SumsOf
  <2>13. UsageOf(s)' = UsageOf(s) BY <2>12, UsageIsSums
  <2>14. BookedOnce(s)' => BookedOnce(s) BY <1>15 DEF BookedOnce
  <2>15. \A x \in Booked(s)' : x[2] \in Mine(s)' BY <1>6, <1>12, <1>15, <2>2, <2>3
  <2>16. Mine(s)' # {} /\ Mine(s) # {} BY <1>12, <2>2
  <2> QED BY <1>9, <1>12, <2>1, <2>13, <2>14, <2>15, <2>16 DEF SessionTracks
<1>17. ASSUME NEW b \in Buckets, NEW f \in Fields PROVE RollupSums(b, f)'
  <2>1. RollupSums(b, f) BY DEF RowsBalance
  <2>2. CASE b # d.bucket
    <3>1. InBucket(b)' = InBucket(b) BY <1>2, <1>6, <1>7, <1>8, <2>2 DEF InBucket
    <3>2. \A x \in InBucket(b) : events'[x] = events[x] BY <1>8 DEF InBucket
    <3>3. rollup'[b][f] = rollup[b][f]
        BY <2>2 DEF Inserted, AddToRollup, TableTypes
    <3> QED BY <2>1, <3>1, <3>2, <3>3, RollupUnmoved
  <2>3. CASE b = d.bucket
    <3>1. InBucket(b)' = InBucket(b) \cup {ev} /\ ev \notin InBucket(b)
        BY <1>2, <1>6, <1>7, <1>8, <2>3 DEF InBucket
    <3>2. rollup'[b][f] = rollup[b][f] + Amount(d[f])
      <4>1. b # None BY IngestAssumption
      <4>2. rollup' = [rollup EXCEPT ![b] = [g \in Fields |-> rollup[b][g] + Amount(d[g])]]
          BY <2>3, <4>1 DEF Inserted, AddToRollup
      <4>3. rollup'[b] = [g \in Fields |-> rollup[b][g] + Amount(d[g])]
          BY <4>2 DEF TableTypes
      <4> QED BY <4>3
    <3>3. PICK g, h, B, T : /\ g = Amounts(b, f) /\ h = Amounts(b, f)'
                            /\ B = InBucket(b) /\ T = InBucket(b)'
        OBVIOUS
    <3>4. \A x \in B : h[x] = g[x]
      <4>1. \A x \in InBucket(b) : x \in InBucket(b)' /\ events'[x] = events[x]
          BY <1>8, <3>1 DEF InBucket
      <4> QED BY <3>3, <4>1 DEF Amounts, Amount
    <3>5. PICK n \in Int : n = Amount(d[f]) BY <1>3
    <3>6. h[ev] = n
      <4>1. ev \in InBucket(b)' BY <3>1
      <4>2. h[ev] = Amount(events'[ev][f]) BY <3>3, <4>1 DEF Amounts, Amount
      <4> QED BY <1>3, <1>6, <3>5, <4>2
    <3>7. IsFiniteSet(B) /\ (\A x \in B : g[x] \in Int)
        BY <1>11, <3>3, RollupSummands
    <3>8. ev \notin B /\ T = B \cup {ev} BY <3>1, <3>3
    <3>9. SumFunctionOnSet(h, T) = SumFunctionOnSet(g, B) + n
        BY <3>4, <3>5, <3>6, <3>7, <3>8, SumGrows
    <3>10. rollup[b][f] = SumFunctionOnSet(g, B) BY <2>1, <3>3 DEF RollupSums
    <3> QED BY <3>2, <3>3, <3>5, <3>9, <3>10 DEF RollupSums
  <2> QED BY <2>2, <2>3
<1>18. RowsBalance' BY <1>13, <1>14, <1>16, <1>17 DEF RowsBalance
<1>19. rollup' \in [Buckets -> [Fields -> Int]]
  <2>1. CASE d.bucket = None BY <2>1 DEF Inserted, AddToRollup, TableTypes
  <2>2. CASE d.bucket # None
    <3>1. PICK b \in Buckets : b = d.bucket BY <1>1, <2>2 DEF Nullable
    <3> DEFINE gain == [g \in Fields |-> rollup[b][g] + Amount(d[g])]
    <3>2. rollup' = [rollup EXCEPT ![b] = gain]
        BY <2>2, <3>1 DEF Inserted, AddToRollup
    <3>3. gain \in [Fields -> Int]
      <4>1. \A g \in Fields : rollup[b][g] \in Int BY DEF TableTypes
      <4>2. \A g \in Fields : rollup[b][g] + Amount(d[g]) \in Int BY <1>3, <4>1
      <4> QED BY <4>2
    <3> HIDE DEF gain
    <3> QED BY <3>2, <3>3 DEF TableTypes
  <2> QED BY <2>1, <2>2
<1>20. TableTypes' BY <1>6, <1>9, <1>19 DEF TableTypes
<1> QED BY <1>2, <1>5, <1>6, <1>10, <1>18, <1>20

\* The end of a canonical booking that wrote accounts.
LEMMA BookedAnswer ==
    ASSUME IngestInv, UNCHANGED identities, TableTypes', RowsBalance',
           RecordsKept, EventsKept, NEW w \in Workers, worker[w].pc = "canonical",
           NEW a \in Answers, Answer(w, a, TRUE),
           NEW i, i = worker[w].identity, NEW r, r = Head1(w).rec, events'[<<i, r>>] # None
    PROVE  IngestInv'
<1>1. WorkerTypes /\ Sound(w) /\ worker[w] \in Busy /\ worker[w].identity \in Sources
    BY InvFacts
<1>2. /\ worker' \in [Workers -> {Free} \cup Busy] /\ Serves(w) /\ GoesOn(w, "answered")
    BY <1>1, AnswerEffect
<1>3. Head1(w)' = Head1(w) BY <1>2 DEF Head1, GoesOn
<1>4. Sound(w)' BY <1>1, <1>2 DEF Sound, GoesOn
<1>5. Counted(w)' BY <1>2, <1>3 DEF Counted, GoesOn
<1> QED BY <1>1, <1>2, <1>4, <1>5, AccountStep DEF GoesOn

\* What a request in its canonical booking works with.
LEMMA CanonicalFacts ==
    ASSUME IngestInv, NEW w \in Workers, worker[w].pc = "canonical"
    PROVE  /\ TableTypes /\ RowsBalance
           /\ worker[w].identity \in Sources /\ worker[w].source \in Sources
           /\ Head1(w) \in Delivery /\ Head1(w).rec \in Records /\ Valid(Head1(w))
           /\ records[worker[w].source, Head1(w).rec] # None
           /\ records[worker[w].source, Head1(w).rec].tokens = Head1(w).tokens
<1>1. TableTypes /\ Balanced /\ Sound(w) BY InvFacts
<1>2. RowsBalance BY <1>1, BalancedRows
<1> QED BY <1>1, <1>2, InvFacts DEF Sound

LEMMA InsertEventKeeps ==
    ASSUME IngestInv, NEW w \in Workers, InsertEvent(w) PROVE IngestInv'
<1>1. worker[w].pc = "canonical" BY DEF InsertEvent
<1>2. PICK d \in Delivery, s \in Sources, i \in Sources, r \in Records :
        /\ d = Head1(w) /\ s = worker[w].source /\ i = worker[w].identity /\ r = d.rec
    BY <1>1, CanonicalFacts
<1>3. Inserted(i, s, d, r) /\ Answer(w, "accepted", TRUE) /\ UNCHANGED identities
    BY <1>2 DEF InsertEvent, Inserted, NewEvent
<1>4. /\ TableTypes /\ RowsBalance /\ Valid(d)
      /\ records[<<s, r>>] # None /\ records[<<s, r>>].tokens = d.tokens
    BY <1>1, <1>2, CanonicalFacts
<1>5. /\ TableTypes' /\ RowsBalance' /\ RecordsKept /\ EventsKept
      /\ events'[<<i, r>>] # None
    BY <1>2, <1>3, <1>4, Inserting
<1>6. "accepted" \in Answers BY DEF Answers
<1> QED BY <1>1, <1>2, <1>3, <1>5, <1>6, BookedAnswer

\* validate_no_negative_totals: a total moves by the delta, and stops at zero.
LEMMA MaxFacts ==
    ASSUME NEW n \in Int
    PROVE  /\ Max({0, n}) \in Nat /\ Max({0, n}) >= n
           /\ n >= 0 => Max({0, n}) = n
<1>1. CASE n >= 0
  <2>1. n \in {0, n} /\ \A y \in {0, n} : n >= y BY <1>1
  <2>2. Max({0, n}) \in {0, n} /\ \A y \in {0, n} : Max({0, n}) >= y BY <2>1 DEF Max
  <2> QED BY <1>1, <2>2
<1>2. CASE ~(n >= 0)
  <2>1. 0 \in {0, n} /\ \A y \in {0, n} : 0 >= y BY <1>2
  <2>2. Max({0, n}) \in {0, n} /\ \A y \in {0, n} : Max({0, n}) >= y BY <2>1 DEF Max
  <2> QED BY <1>2, <2>2
<1> QED BY <1>1, <1>2

LEMMA AdjustedFacts ==
    ASSUME NEW total \in Nullable(Int), NEW n \in Int
    PROVE  /\ Adjusted(total, n) \in Nullable(Int)
           /\ total \in Nat => /\ Adjusted(total, n) \in Nat
                               /\ Adjusted(total, n) >= total + n
                               /\ total + n >= 0 => Adjusted(total, n) = total + n
<1>1. CASE n = 0 BY <1>1 DEF Adjusted
<1>2. CASE n # 0
  <2>1. Amount(total) \in Int /\ (total \in Nat => Amount(total) = total) BY AmountFacts
  <2>2. PICK m \in Int : m = Amount(total) + n BY <2>1
  <2>3. Adjusted(total, n) = Max({0, m}) BY <1>2, <2>2 DEF Adjusted
  <2>4. Max({0, m}) \in Nat /\ Max({0, m}) >= m /\ (m >= 0 => Max({0, m}) = m) BY MaxFacts
  <2> QED BY <2>1, <2>2, <2>3, <2>4 DEF Nullable
<1> QED BY <1>1, <1>2

AdjustedSession(row, delta) ==
    [messages |-> row.messages, tokens |-> Adjusted(row.tokens, delta.tokens),
     cache |-> Adjusted(row.cache, delta.cache), cost |-> Adjusted(row.cost, delta.cost)]

LEMMA AdjustedSessionFacts ==
    ASSUME NEW row \in SessionRow, NEW delta,
           delta.tokens \in Int, delta.cache \in Int, delta.cost \in Int,
           NEW now, now = AdjustedSession(row, delta)
    PROVE  /\ now \in SessionRow /\ now # None /\ now.messages = row.messages
           /\ now.tokens \in Nat /\ now.tokens >= row.tokens + delta.tokens
           /\ row.tokens + delta.tokens >= 0 => now.tokens = row.tokens + delta.tokens
<1>1. /\ row.messages \in Nat /\ row.tokens \in Nat /\ row.cache \in Nat
      /\ row.cost \in Nullable(Int)
    BY DEF SessionRow
<1>2. row.tokens \in Nullable(Int) /\ row.cache \in Nullable(Int) BY <1>1 DEF Nullable
<1>3. /\ Adjusted(row.tokens, delta.tokens) \in Nat
      /\ Adjusted(row.tokens, delta.tokens) >= row.tokens + delta.tokens
      /\ row.tokens + delta.tokens >= 0 =>
           Adjusted(row.tokens, delta.tokens) = row.tokens + delta.tokens
    BY <1>1, <1>2, AdjustedFacts
<1>4. Adjusted(row.cache, delta.cache) \in Nat BY <1>1, <1>2, AdjustedFacts
<1>5. Adjusted(row.cost, delta.cost) \in Nullable(Int) BY <1>1, AdjustedFacts
<1>6. /\ now.messages = row.messages
      /\ now.tokens = Adjusted(row.tokens, delta.tokens)
    BY DEF AdjustedSession
<1>7. now \in SessionRow BY <1>1, <1>3, <1>4, <1>5 DEF AdjustedSession, SessionRow
<1> QED BY <1>3, <1>6, <1>7, IngestAssumption

\* The effect of apply_replay_merge on the event ev, and what it moves by.
Corrected(ev, row, delta) ==
    /\ events' = [events EXCEPT ![ev] = row]
    /\ sessions' = [sessions EXCEPT ![events[ev].session] = AdjustedSession(@, delta)]
    /\ AddToRollup(events[ev].bucket, delta)
    /\ UNCHANGED records

\* The values of the event move by the delta, and nothing else of it moves.
MovesBy(e, row, delta) ==
    /\ row \in EventRow /\ row.session = e.session /\ row.bucket = e.bucket
    /\ row.tokens = e.tokens + delta.tokens
    /\ Amount(row.cache) = Amount(e.cache) + delta.cache
    /\ Amount(row.cost) = Amount(e.cost) + delta.cost
    /\ delta.tokens \in Int /\ delta.cache \in Int /\ delta.cost \in Int

\* The keys of the tables are those they were.
LEMMA CorrectionKeys ==
    ASSUME TableTypes, NEW ev \in Sources \X Records, events[ev] # None,
           NEW row \in EventRow, row.session = events[ev].session,
           row.bucket = events[ev].bucket,
           events' = [events EXCEPT ![ev] = row], records' = records
    PROVE  /\ events' \in [Sources \X Records -> Nullable(EventRow)]
           /\ events'[ev] = row
           /\ \A x \in Sources \X Records : x # ev => events'[x] = events[x]
           /\ EventKeys' = EventKeys /\ ev \in EventKeys
           /\ \A s : Mine(s)' = Mine(s) /\ Booked(s)' = Booked(s)
           /\ \A b : InBucket(b)' = InBucket(b)
           /\ RecordsKept /\ EventsKept
<1>1. /\ events' \in [Sources \X Records -> Nullable(EventRow)]
      /\ events'[ev] = row
      /\ \A x \in Sources \X Records : x # ev => events'[x] = events[x]
    BY DEF TableTypes, Nullable
<1>2. row # None BY IngestAssumption
<1>3. \A x \in Sources \X Records : events'[x] # None <=> events[x] # None BY <1>1, <1>2
<1>4. EventKeys' = EventKeys /\ ev \in EventKeys BY <1>3 DEF EventKeys
<1>5. \A x \in EventKeys : /\ events'[x].session = events[x].session
                           /\ events'[x].bucket = events[x].bucket
    BY <1>1 DEF EventKeys
<1>6. \A s : Mine(s)' = Mine(s) /\ Booked(s)' = Booked(s) BY <1>4, <1>5 DEF Mine, Booked
<1>7. \A b : InBucket(b)' = InBucket(b) BY <1>4, <1>5 DEF InBucket
<1>8. RecordsKept /\ EventsKept BY <1>3 DEF RecordsKept, EventsKept
<1> QED BY <1>1, <1>4, <1>6, <1>7, <1>8

\* A correction moves the session of the event by what it changed.
LEMMA CorrectedSession ==
    ASSUME TableTypes, RowsBalance, NEW ev \in Sources \X Records, events[ev] # None,
           NEW row, NEW delta, MovesBy(events[ev], row, delta), Corrected(ev, row, delta),
           NEW s \in Sources, s = events[ev].session
    PROVE  /\ SessionTracks(s)' /\ sessions'[s] \in SessionRow
           /\ sessions' \in [Sources -> Nullable(SessionRow)]
           /\ \A t \in Sources : t # s => sessions'[t] = sessions[t]
<1>1. /\ row \in EventRow /\ row.session = s /\ row.bucket = events[ev].bucket
      /\ row.tokens = events[ev].tokens + delta.tokens
      /\ delta.tokens \in Int /\ delta.cache \in Int /\ delta.cost \in Int
    BY DEF MovesBy
<1>2. /\ events' = [events EXCEPT ![ev] = row] /\ records' = records
      /\ sessions' = [sessions EXCEPT ![s] = AdjustedSession(sessions[s], delta)]
    BY DEF Corrected, TableTypes
<1>3. /\ events'[ev] = row
      /\ \A x \in Sources \X Records : x # ev => events'[x] = events[x]
      /\ EventKeys' = EventKeys /\ ev \in EventKeys
      /\ Mine(s)' = Mine(s) /\ Booked(s)' = Booked(s)
    BY <1>1, <1>2, CorrectionKeys
<1>4. TablesAreFinite /\ SessionTracks(s) BY DEF RowsBalance
<1>5. /\ IsFiniteSet(Mine(s)) /\ IsFiniteSet(Booked(s)) /\ UsageOf(s) \in Int
      /\ \A r \in Mine(s) : RecordTokens(s)[r] \in Nat
      /\ \A x \in Booked(s) :
           /\ events[x].tokens \in Nat
           /\ x[2] \in Mine(s) /\ records[s, x[2]].tokens \in Nat
           /\ Corrections(s)[x] = events[x].tokens - records[s, x[2]].tokens
           /\ Corrections(s)[x] \in Int
    BY <1>4, Summands
<1>6. ev \in Booked(s) /\ Booked(s) \subseteq Sources \X Records
    BY <1>3 DEF Booked, EventKeys
<1>7. Mine(s) # {} /\ sessions[s] # None /\ sessions[s] \in SessionRow
  <2>1. Mine(s) # {} BY <1>5, <1>6
  <2>2. sessions[s] # None BY <1>4, <2>1 DEF SessionTracks
  <2> QED BY <2>1, <2>2 DEF TableTypes, Nullable
<1>8. PICK was, now : was = sessions[s] /\ now = AdjustedSession(was, delta) OBVIOUS
<1>9. /\ now \in SessionRow /\ now # None /\ now.messages = was.messages
      /\ now.tokens \in Nat /\ now.tokens >= was.tokens + delta.tokens
      /\ was.tokens + delta.tokens >= 0 => now.tokens = was.tokens + delta.tokens
    BY <1>1, <1>7, <1>8, AdjustedSessionFacts
<1>10. /\ sessions' \in [Sources -> Nullable(SessionRow)] /\ sessions'[s] = now
       /\ \A t \in Sources : t # s => sessions'[t] = sessions[t]
    BY <1>2, <1>8, <1>9 DEF TableTypes, Nullable
<1>11. PICK f, g, h, M, B : /\ f = RecordTokens(s) /\ g = Corrections(s)
                            /\ h = Corrections(s)' /\ M = Mine(s) /\ B = Booked(s)
    OBVIOUS
<1>12. \A x \in B : /\ h[x] = events'[x].tokens - records[s, x[2]].tokens
                    /\ x # ev => h[x] = g[x]
  <2>1. ASSUME NEW x \in B PROVE h[x] = events'[x].tokens - records'[s, x[2]].tokens
    <3>1. x \in Booked(s)' BY <1>3, <1>11
    <3> QED BY <1>11, <3>1 DEF Corrections
  <2>2. \A x \in B : h[x] = events'[x].tokens - records[s, x[2]].tokens BY <1>2, <2>1
  <2>3. \A x \in B : x # ev => events'[x] = events[x] BY <1>3, <1>6, <1>11
  <2>4. \A x \in B : g[x] = events[x].tokens - records[s, x[2]].tokens BY <1>5, <1>11
  <2> QED BY <2>2, <2>3, <2>4, ZenonT(60)
<1>13. h[ev] = g[ev] + delta.tokens
  <2>1. PICK a \in Nat, b \in Nat : a = events[ev].tokens /\ b = records[s, ev[2]].tokens
      BY <1>5, <1>6
  <2>2. g[ev] = a - b BY <1>5, <1>6, <1>11, <2>1
  <2>3. h[ev] = (a + delta.tokens) - b BY <1>1, <1>3, <1>6, <1>11, <1>12, <2>1
  <2> QED BY <1>1, <2>2, <2>3
<1>14. SumFunctionOnSet(h, B) = SumFunctionOnSet(g, B) + delta.tokens
  <2>1. PICK n \in Int : n = delta.tokens BY <1>1
  <2>2. IsFiniteSet(B) /\ ev \in B /\ (\A x \in B : g[x] \in Int) BY <1>5, <1>6, <1>11
  <2>3. \A x \in B : x # ev => h[x] = g[x] BY <1>12
  <2>4. h[ev] = g[ev] + n BY <1>13, <2>1
  <2>5. SumFunctionOnSet(h, B) = SumFunctionOnSet(g, B) + n
      BY <2>2, <2>3, <2>4, SumMoves
  <2> QED BY <2>1, <2>5
<1>15. RecordTokens(s)' = f BY <1>2, <1>3, <1>11 DEF RecordTokens
<1>16. UsageOf(s)' = SumFunctionOnSet(f, M) + SumFunctionOnSet(h, B)
  <2>1. SumsOf(s)' = SumFunctionOnSet(f, M) + SumFunctionOnSet(h, B)
      BY <1>3, <1>11, <1>15 DEF SumsOf
  <2> QED BY <2>1, UsageIsSums
<1>17. UsageOf(s)' = UsageOf(s) + delta.tokens
  <2>1. ASSUME NEW r \in M PROVE f[r] \in Int
    <3>1. PICK n \in Nat : n = f[r] BY <1>5, <1>11
    <3> QED BY <3>1
  <2>2. SumFunctionOnSet(f, M) \in Int BY <1>5, <1>11, <2>1, SumIsInt
  <2>3. SumFunctionOnSet(g, B) \in Int
    <3>1. IsFiniteSet(B) /\ (\A x \in B : g[x] \in Int) BY <1>5, <1>11
    <3> QED BY <3>1, SumIsInt
  <2>4. UsageOf(s) = SumFunctionOnSet(f, M) + SumFunctionOnSet(g, B)
      BY <1>11, UsageIsSums DEF SumsOf
  <2> QED BY <1>1, <1>14, <1>16, <2>2, <2>3, <2>4
<1>18. BookedOnce(s)' => BookedOnce(s) /\ UsageOf(s)' >= 0
  <2>1. SUFFICES ASSUME BookedOnce(s)' PROVE BookedOnce(s) /\ UsageOf(s)' >= 0 OBVIOUS
  <2>2. BookedOnce(s) BY <1>3, <2>1 DEF BookedOnce
  <2> DEFINE key == [x \in B |-> x[2]]
  <2>3. \A x \in B : key[x] \in M BY <1>5, <1>11
  <2>4. \A x, y \in B : key[x] = key[y] => x = y BY <1>11, <2>2 DEF BookedOnce
  <2>5. ASSUME NEW x \in B PROVE h[x] \in Int /\ f[key[x]] + h[x] \in Nat
    <3>1. x \in Sources \X Records /\ events'[x] \in EventRow
      <4>1. x \in Sources \X Records /\ events[x] # None
          BY <1>11 DEF Booked, EventKeys
      <4>2. events[x] \in EventRow BY <4>1 DEF TableTypes, Nullable
      <4> QED BY <1>1, <1>3, <4>1, <4>2
    <3>2. PICK a \in Nat : a = events'[x].tokens BY <3>1 DEF EventRow
    <3>3. PICK b \in Nat : b = records[s, x[2]].tokens BY <1>5, <1>11
    <3>4. h[x] = a - b BY <1>12, <3>2, <3>3
    <3>5. f[key[x]] = b BY <1>5, <1>11, <3>3 DEF RecordTokens
    <3> HIDE DEF key
    <3> QED BY <3>4, <3>5
  <2>6. IsFiniteSet(M) /\ IsFiniteSet(B) /\ (\A r \in M : f[r] \in Nat) BY <1>5, <1>11
  <2> HIDE DEF key
  <2>7. SumFunctionOnSet(f, M) + SumFunctionOnSet(h, B) \in Nat
      BY <2>3, <2>4, <2>5, <2>6, SumCovers
  <2> QED BY <1>16, <2>2, <2>7
<1>19. /\ was.messages = Cardinality(Mine(s)) /\ was.tokens >= UsageOf(s)
       /\ BookedOnce(s) => was.tokens = UsageOf(s)
    BY <1>4, <1>7, <1>8 DEF SessionTracks
<1>20. was.tokens \in Nat BY <1>7, <1>8 DEF SessionRow
<1>21. now.tokens >= UsageOf(s)'
  <2>1. PICK u \in Int, n \in Int, k \in Nat, l \in Nat :
          u = UsageOf(s) /\ n = delta.tokens /\ k = was.tokens /\ l = now.tokens
      BY <1>1, <1>5, <1>9, <1>20
  <2>2. k >= u /\ l >= k + n BY <1>9, <1>19, <2>1
  <2>3. l >= u + n BY <2>2
  <2> QED BY <1>17, <2>1, <2>3
<1>22. BookedOnce(s)' => now.tokens = UsageOf(s)' BY <1>9, <1>17, <1>18, <1>19
<1>23. SessionTracks(s)'
  <2>1. \A x \in Booked(s)' : x[2] \in Mine(s)' BY <1>3, <1>5
  <2>2. Mine(s)' # {} BY <1>3, <1>7
  <2> QED BY <1>3, <1>9, <1>10, <1>19, <1>21, <1>22, <2>1, <2>2 DEF SessionTracks
<1> QED BY <1>9, <1>10, <1>23

\* A correction moves the rollup row of the event's own bucket, and no other.
LEMMA CorrectedRollup ==
    ASSUME TableTypes, RowsBalance, NEW ev \in Sources \X Records, events[ev] # None,
           NEW row, NEW delta, delta \in [Fields -> Int],
           MovesBy(events[ev], row, delta), Corrected(ev, row, delta)
    PROVE  /\ \A b \in Buckets, f \in Fields : RollupSums(b, f)'
           /\ rollup' \in [Buckets -> [Fields -> Int]]
<1>1. /\ row \in EventRow /\ row.session = events[ev].session
      /\ row.bucket = events[ev].bucket
    BY DEF MovesBy
<1>2. /\ events' = [events EXCEPT ![ev] = row] /\ records' = records
      /\ AddToRollup(events[ev].bucket, delta)
    BY DEF Corrected
<1>3. /\ events'[ev] = row
      /\ \A x \in Sources \X Records : x # ev => events'[x] = events[x]
      /\ ev \in EventKeys /\ \A b : InBucket(b)' = InBucket(b)
    BY <1>1, <1>2, CorrectionKeys
<1>4. events[ev] \in EventRow BY DEF TableTypes, Nullable
<1>5. \A f \in Fields : Amount(row[f]) = Amount(events[ev][f]) + delta[f]
  <2>1. events[ev].tokens \in Nat /\ row.tokens \in Nat BY <1>1, <1>4 DEF EventRow
  <2>2. Amount(events[ev].tokens) = events[ev].tokens /\ Amount(row.tokens) = row.tokens
      BY <2>1, AmountFacts
  <2>3. Amount(row.tokens) = Amount(events[ev].tokens) + delta.tokens BY <2>2 DEF MovesBy
  <2>4. /\ Amount(row.cache) = Amount(events[ev].cache) + delta.cache
        /\ Amount(row.cost) = Amount(events[ev].cost) + delta.cost
      BY DEF MovesBy
  <2> QED BY <2>3, <2>4 DEF Fields
<1>6. events[ev].bucket \in Nullable(Buckets) BY <1>4 DEF EventRow
<1>7. TablesAreFinite BY DEF RowsBalance
<1>8. ASSUME NEW b \in Buckets, NEW f \in Fields PROVE RollupSums(b, f)'
  <2>1. RollupSums(b, f) BY DEF RowsBalance
  <2>2. InBucket(b)' = InBucket(b) /\ InBucket(b) \subseteq Sources \X Records
      BY <1>3 DEF InBucket, EventKeys
  <2>3. CASE b # events[ev].bucket
    <3>1. ev \notin InBucket(b) BY <2>3 DEF InBucket
    <3>2. \A x \in InBucket(b) : events'[x] = events[x] BY <1>3, <2>2, <3>1
    <3>3. rollup'[b][f] = rollup[b][f] BY <1>2, <2>3 DEF AddToRollup, TableTypes
    <3> QED BY <2>1, <2>2, <3>2, <3>3, RollupUnmoved
  <2>4. CASE b = events[ev].bucket
    <3>1. rollup'[b][f] = rollup[b][f] + delta[f]
      <4>1. b # None BY IngestAssumption
      <4>2. rollup' = [rollup EXCEPT ![b] = [k \in Fields |-> rollup[b][k] + delta[k]]]
          BY <1>2, <2>4, <4>1 DEF AddToRollup
      <4>3. rollup'[b] = [k \in Fields |-> rollup[b][k] + delta[k]]
          BY <4>2 DEF TableTypes
      <4> QED BY <4>3
    <3>2. PICK g, h, B : g = Amounts(b, f) /\ h = Amounts(b, f)' /\ B = InBucket(b)
        OBVIOUS
    <3>3. ASSUME NEW x \in B
          PROVE  h[x] = Amount(events'[x][f]) /\ g[x] = Amount(events[x][f])
      <4>1. x \in InBucket(b)' BY <2>2, <3>2
      <4> QED BY <3>2, <4>1 DEF Amounts, Amount
    <3>4. PICK n \in Int : n = delta[f] OBVIOUS
    <3>5. ev \in B BY <1>3, <2>4, <3>2 DEF InBucket
    <3>6. h[ev] = g[ev] + n BY <1>3, <1>5, <3>3, <3>4, <3>5
    <3>7. \A x \in B : x # ev => h[x] = g[x] BY <1>3, <2>2, <3>2, <3>3
    <3>8. IsFiniteSet(B) /\ (\A x \in B : g[x] \in Int) BY <1>7, <3>2, RollupSummands
    <3>9. SumFunctionOnSet(h, B) = SumFunctionOnSet(g, B) + n
        BY <3>5, <3>6, <3>7, <3>8, SumMoves
    <3>10. rollup[b][f] = SumFunctionOnSet(g, B) BY <2>1, <3>2 DEF RollupSums
    <3> QED BY <2>2, <3>1, <3>2, <3>4, <3>9, <3>10 DEF RollupSums
  <2> QED BY <2>3, <2>4
<1>9. rollup' \in [Buckets -> [Fields -> Int]]
  <2>1. CASE events[ev].bucket = None BY <1>2, <2>1 DEF AddToRollup, TableTypes
  <2>2. CASE events[ev].bucket # None
    <3>1. PICK b \in Buckets : b = events[ev].bucket BY <1>6, <2>2 DEF Nullable
    <3> DEFINE gain == [k \in Fields |-> rollup[b][k] + delta[k]]
    <3>2. rollup' = [rollup EXCEPT ![b] = gain] BY <1>2, <2>2, <3>1 DEF AddToRollup
    <3>3. gain \in [Fields -> Int]
      <4>1. \A k \in Fields : rollup[b][k] \in Int BY DEF TableTypes
      <4> QED BY <4>1
    <3> HIDE DEF gain
    <3> QED BY <3>2, <3>3 DEF TableTypes
  <2> QED BY <2>1, <2>2
<1> QED BY <1>8, <1>9

\* apply_replay_merge keeps the event, its session and its rollup row in step.
LEMMA Merging ==
    ASSUME TableTypes, RowsBalance, NEW i \in Sources, NEW r \in Records,
           events[<<i, r>>] # None, NEW new,
           new.tokens \in Nullable(Nat), new.cache \in Nullable(Nat),
           new.cost \in Nullable(Int), NEW text \in Nullable(Texts),
           ApplyReplayMerge(i, r, new, text), UNCHANGED records
    PROVE  /\ TableTypes' /\ RowsBalance' /\ RecordsKept /\ EventsKept
           /\ events'[<<i, r>>] # None
<1>1. PICK ev, e, delta, row :
        /\ ev = <<i, r>> /\ e = events[ev] /\ delta = Delta(e, new)
        /\ row = MergedRow(e, new, text)
    OBVIOUS
<1>2. ev \in Sources \X Records /\ e # None /\ e \in EventRow
    BY <1>1 DEF TableTypes, Nullable
<1>3. delta.tokens \in Int /\ delta.cache \in Int /\ delta.cost \in Int
    BY <1>1, <1>2, DeltaFacts
<1>4. delta \in [Fields -> Int]
  <2>1. \A f \in Fields : delta[f] \in Int BY <1>3 DEF Fields
  <2> QED BY <1>1, <2>1 DEF Delta
<1>5. MovesBy(e, row, delta)
  <2>1. /\ row \in EventRow /\ row.session = e.session /\ row.bucket = e.bucket
        /\ row.tokens = e.tokens + delta.tokens
        /\ Amount(row.cache) = Amount(e.cache) + delta.cache
        /\ Amount(row.cost) = Amount(e.cost) + delta.cost
      BY <1>1, <1>2, MergeFacts
  <2> QED BY <1>3, <2>1 DEF MovesBy
<1>6. Corrected(ev, row, delta)
    BY <1>1 DEF ApplyReplayMerge, Corrected, AdjustedSession, MergedRow
<1>7. PICK s \in Sources : s = e.session BY <1>2 DEF EventRow
<1>8. /\ SessionTracks(s)' /\ sessions'[s] \in SessionRow
      /\ sessions' \in [Sources -> Nullable(SessionRow)]
      /\ \A t \in Sources : t # s => sessions'[t] = sessions[t]
    BY <1>1, <1>2, <1>5, <1>6, <1>7, CorrectedSession
<1>9. /\ \A b \in Buckets, f \in Fields : RollupSums(b, f)'
      /\ rollup' \in [Buckets -> [Fields -> Int]]
    BY <1>1, <1>2, <1>4, <1>5, <1>6, CorrectedRollup
<1>10. /\ events' \in [Sources \X Records -> Nullable(EventRow)]
       /\ events'[ev] = row
       /\ \A x \in Sources \X Records : x # ev => events'[x] = events[x]
       /\ EventKeys' = EventKeys
       /\ \A t : Mine(t)' = Mine(t) /\ Booked(t)' = Booked(t)
       /\ RecordsKept /\ EventsKept
  <2>1. /\ row \in EventRow /\ row.session = events[ev].session
        /\ row.bucket = events[ev].bucket
        /\ events' = [events EXCEPT ![ev] = row] /\ records' = records
      BY <1>1, <1>5, <1>6 DEF MovesBy, Corrected
  <2> QED BY <1>1, <1>2, <2>1, CorrectionKeys
<1>11. TablesAreFinite /\ (\A t \in Sources : SessionTracks(t)) BY DEF RowsBalance
<1>12. TablesAreFinite' BY <1>10, <1>11 DEF TablesAreFinite
<1>13. ASSUME NEW t \in Sources, t # s PROVE SessionTracks(t)'
  <2>1. SessionTracks(t) BY <1>11
  <2>2. \A x \in Booked(t) : x \in Sources \X Records /\ x # ev
      BY <1>1, <1>7, <1>13 DEF Booked, EventKeys
  <2>3. \A x \in Booked(t) : events'[x].tokens = events[x].tokens BY <1>10, <2>2
  <2>4. Mine(t) # {} => sessions[t] # None BY <2>1 DEF SessionTracks
  <2>5. sessions'[t] = sessions[t] BY <1>8, <1>13
  <2>6. records' = records OBVIOUS
  <2> QED BY <1>10, <2>1, <2>3, <2>4, <2>5, <2>6, SessionUnmoved
<1>14. RowsBalance' BY <1>8, <1>9, <1>12, <1>13 DEF RowsBalance
<1>15. TableTypes' BY <1>8, <1>9, <1>10 DEF TableTypes
<1> QED BY <1>1, <1>2, <1>10, <1>14, <1>15 DEF EventsKept

LEMMA ReplayEventKeeps ==
    ASSUME IngestInv, NEW w \in Workers, ReplayEvent(w) PROVE IngestInv'
<1>1. worker[w].pc = "canonical" /\ UNCHANGED <<records, identities>> BY DEF ReplayEvent
<1>2. PICK d \in Delivery, i \in Sources, r \in Records :
        d = Head1(w) /\ i = worker[w].identity /\ r = d.rec
    BY <1>1, CanonicalFacts
<1>3. TableTypes /\ RowsBalance /\ Valid(d) BY <1>1, <1>2, CanonicalFacts
<1>4. events[<<i, r>>] # None BY <1>2 DEF ReplayEvent
<1>5. PICK new : new = [tokens |-> d.tokens, cache |-> d.cache, cost |-> d.cost] OBVIOUS
<1>6. CASE Answer(w, "duplicate", TRUE) /\ UNCHANGED <<events, sessions, rollup>>
  <2>1. IdentityTypes BY InvFacts
  <2>2. IdentityTypes' BY <1>1, <2>1 DEF IdentityTypes, identities
  <2>3. UNCHANGED accounts BY <1>1, <1>6 DEF accounts
  <2>4. "duplicate" \in Answers BY DEF Answers
  <2> QED BY <1>1, <1>2, <1>4, <1>6, <2>2, <2>3, <2>4, QuietAnswer
<1>7. CASE /\ ApplyReplayMerge(i, r, new, d.text)
           /\ Answer(w, MergeOutcome(events[<<i, r>>], new, d.text), TRUE)
  <2>1. /\ new.tokens \in Nullable(Nat) /\ new.cache \in Nullable(Nat)
        /\ new.cost \in Nullable(Int) /\ d.text \in Nullable(Texts)
      BY <1>3, <1>5, ValidFields DEF Nullable
  <2>2. PICK text \in Nullable(Texts) : text = d.text BY <2>1
  <2>3. /\ TableTypes' /\ RowsBalance' /\ RecordsKept /\ EventsKept
        /\ events'[<<i, r>>] # None
      BY <1>1, <1>3, <1>4, <1>7, <2>1, <2>2, Merging
  <2>4. MergeOutcome(events[<<i, r>>], new, d.text) \in Answers BY DEF MergeOutcome, Answers
  <2> QED BY <1>1, <1>2, <1>7, <2>3, <2>4, BookedAnswer
<1> QED BY <1>2, <1>5, <1>6, <1>7 DEF ReplayEvent

LEMMA CorrectCostKeeps ==
    ASSUME IngestInv, NEW w \in Workers, CorrectCost(w) PROVE IngestInv'
<1>1. worker[w].pc = "canonical" /\ UNCHANGED <<records, identities>> BY DEF CorrectCost
<1>2. PICK d \in Delivery, i \in Sources, r \in Records :
        d = Head1(w) /\ i = worker[w].identity /\ r = d.rec
    BY <1>1, CanonicalFacts
<1>3. TableTypes /\ RowsBalance /\ Valid(d) BY <1>1, <1>2, CanonicalFacts
<1>4. events[<<i, r>>] # None BY <1>2 DEF CorrectCost
<1>5. PICK new : new = [tokens |-> None, cache |-> None, cost |-> d.cost] OBVIOUS
<1>6. CASE /\ UNCHANGED <<events, sessions, rollup>>
           /\ \E a \in {"duplicate", "conflict"} : Answer(w, a, TRUE)
  <2>1. IdentityTypes BY InvFacts
  <2>2. IdentityTypes' BY <1>1, <2>1 DEF IdentityTypes, identities
  <2>3. UNCHANGED accounts BY <1>1, <1>6 DEF accounts
  <2>4. PICK a \in Answers : Answer(w, a, TRUE) BY <1>6 DEF Answers
  <2> QED BY <1>1, <1>2, <1>4, <2>2, <2>3, <2>4, QuietAnswer
<1>7. CASE /\ ApplyReplayMerge(i, r, new, d.text)
           /\ Answer(w, MergeOutcome(events[<<i, r>>], new, d.text), TRUE)
  <2>1. /\ new.tokens \in Nullable(Nat) /\ new.cache \in Nullable(Nat)
        /\ new.cost \in Nullable(Int) /\ d.text \in Nullable(Texts)
      BY <1>3, <1>5, ValidFields DEF Nullable
  <2>2. PICK text \in Nullable(Texts) : text = d.text BY <2>1
  <2>3. /\ TableTypes' /\ RowsBalance' /\ RecordsKept /\ EventsKept
        /\ events'[<<i, r>>] # None
      BY <1>1, <1>3, <1>4, <1>7, <2>1, <2>2, Merging
  <2>4. MergeOutcome(events[<<i, r>>], new, d.text) \in Answers BY DEF MergeOutcome, Answers
  <2> QED BY <1>1, <1>2, <1>7, <2>3, <2>4, BookedAnswer
<1> QED BY <1>2, <1>5, <1>6, <1>7 DEF CorrectCost

-----------------------------------------------------------------------------
(* The theorems.                                                           *)

LEMMA InitInv == Init => IngestInv
<1> SUFFICES ASSUME Init PROVE IngestInv OBVIOUS
<1>1. TableTypes
  <2>1. Zero \in [Fields -> Int] BY DEF Zero
  <2> QED BY <2>1 DEF Init, TableTypes, Nullable
<1>2. IdentityTypes BY DEF Init, IdentityTypes
<1>3. WorkerTypes BY DEF Init, WorkerTypes, Free
<1>4. \A w \in Workers : worker[w].pc = "idle" BY DEF Init, Free
<1>5. RequestsAreSound /\ AnsweredMeansCounted
    BY <1>4 DEF RequestsAreSound, Sound, AnsweredMeansCounted
<1>6. EventKeys = {} BY DEF Init, EventKeys
<1>7. \A s \in Sources : Mine(s) = {} /\ Booked(s) = {} /\ sessions[s] = None
    BY <1>6 DEF Init, Mine, Booked
<1>8. TablesAreFinite BY <1>6, <1>7, FS_EmptySet DEF TablesAreFinite
<1>9. \A s \in Sources : SessionTracks(s) BY <1>7 DEF SessionTracks
<1>10. ASSUME NEW b \in Buckets, NEW f \in Fields PROVE RollupSums(b, f)
  <2>1. InBucket(b) = {} BY <1>6 DEF InBucket
  <2>2. rollup[b][f] = 0 BY DEF Init, Zero
  <2>3. SumFunctionOnSet(Amounts(b, f), InBucket(b)) = 0 BY <2>1, SumOfNothing
  <2> QED BY <2>2, <2>3 DEF RollupSums
<1>11. Balanced BY <1>8, <1>9, <1>10, BalancedRows DEF RowsBalance
<1> QED BY <1>1, <1>2, <1>3, <1>5, <1>11, TypesTogether DEF IngestInv

LEMMA NextKeeps == IngestInv /\ [Next]_vars => IngestInv'
<1> SUFFICES ASSUME IngestInv, [Next]_vars PROVE IngestInv' OBVIOUS
<1>1. ASSUME NEW w \in Workers, Begin(w) PROVE IngestInv' BY <1>1, BeginKeeps
<1>2. ASSUME NEW w \in Workers, ResolveCanonicalIdentity(w) PROVE IngestInv'
    BY <1>2, ResolveKeeps
<1>3. ASSUME NEW w \in Workers, Gate(w) PROVE IngestInv' BY <1>3, GateKeeps
<1>4. ASSUME NEW w \in Workers, CheckBatchOverlap(w) PROVE IngestInv'
    BY <1>4, CheckBatchOverlapKeeps
<1>5. ASSUME NEW w \in Workers, CrossIdentityCheck(w) PROVE IngestInv'
    BY <1>5, CrossIdentityCheckKeeps
<1>6. ASSUME NEW w \in Workers, ProcessWinner(w) PROVE IngestInv'
    BY <1>6, ProcessWinnerKeeps
<1>7. ASSUME NEW w \in Workers, ProcessIdentical(w) PROVE IngestInv'
    BY <1>7, ProcessIdenticalKeeps
<1>8. ASSUME NEW w \in Workers, ProcessDivergent(w) PROVE IngestInv'
    BY <1>8, ProcessDivergentKeeps
<1>9. ASSUME NEW w \in Workers, Lookup(w) PROVE IngestInv' BY <1>9, LookupKeeps
<1>10. ASSUME NEW w \in Workers, InsertEvent(w) PROVE IngestInv'
    BY <1>10, InsertEventKeeps
<1>11. ASSUME NEW w \in Workers, ReplayEvent(w) PROVE IngestInv'
    BY <1>11, ReplayEventKeeps
<1>12. ASSUME NEW w \in Workers, CorrectCost(w) PROVE IngestInv'
    BY <1>12, CorrectCostKeeps
<1>13. ASSUME NEW w \in Workers, RecordFails(w) \/ CanonicalFails(w) PROVE IngestInv'
    BY <1>13, RecordFailsKeeps
<1>14. ASSUME NEW w \in Workers, RequestDies(w) PROVE IngestInv'
    BY <1>14, RequestDiesKeeps
<1>15. ASSUME NEW w \in Workers, NextRecord(w) PROVE IngestInv'
    BY <1>15, NextRecordKeeps
<1>16. ASSUME NEW k \in DOMAIN quarantine, NEW j \in Sources,
              CheckResolution(k, j) \/ ResolveIdentity(k, j)
       PROVE  IngestInv'
    BY <1>16, ResolutionKeeps
<1>17. CASE UNCHANGED vars
  <2>1. UNCHANGED accounts /\ UNCHANGED identities /\ worker' = worker
      BY <1>17 DEF vars, accounts, identities
  <2>2. /\ IdentityTypes /\ TableTypes /\ WorkerTypes
        /\ RequestsAreSound /\ Balanced /\ AnsweredMeansCounted
      BY TypesTogether DEF IngestInv
  <2>3. TableTypes' /\ Balanced' BY <2>1, <2>2, QuietKeeps
  <2>4. records' = records /\ events' = events BY <2>1 DEF accounts
  <2>5. IdentityTypes' /\ WorkerTypes'
      BY <2>1, <2>2 DEF IdentityTypes, WorkerTypes, identities
  <2>6. RequestsAreSound' BY <2>1, <2>2, <2>4 DEF RequestsAreSound, Sound, Head1, Valid
  <2>7. AnsweredMeansCounted' BY <2>1, <2>2, <2>4 DEF AnsweredMeansCounted, Head1
  <2>8. TypeOK' BY <2>3, <2>5 DEF TypeOK, IdentityTypes, TableTypes, WorkerTypes
  <2> QED BY <2>3, <2>6, <2>7, <2>8 DEF IngestInv
<1> QED BY <1>1, <1>2, <1>3, <1>4, <1>5, <1>6, <1>7, <1>8, <1>9, <1>10, <1>11, <1>12,
           <1>13, <1>14, <1>15, <1>16, <1>17 DEF Next

LEMMA InvHolds == Spec => []IngestInv
BY InitInv, NextKeeps, PTL DEF Spec

\* Every table and every request in progress holds rows of its type: no
\* count stored by a booking or a replay is negative.
THEOREM TypeCorrect == Spec => []TypeOK
<1>1. IngestInv => TypeOK BY DEF IngestInv
<1> QED BY <1>1, InvHolds, PTL

\* Each field of a client_project_rollup row is at all times the sum of that
\* field over the usage_events of its project and day, for any number of
\* sources, records, requests in progress, failures and replays.
THEOREM RollupStaysExact == Spec => []RollupIsSumOfEvents
<1>1. IngestInv => RollupIsSumOfEvents BY DEF IngestInv, Balanced
<1> QED BY <1>1, InvHolds, PTL

\* A session counts each stored record once, and its tokens are what its
\* records brought, moved by what corrections of their events changed: exactly
\* where no record has two events, and never less.
THEOREM SessionsStayExact == Spec => []SessionsTrackUsage
<1>1. IngestInv => SessionsTrackUsage BY DEF IngestInv, Balanced
<1> QED BY <1>1, InvHolds, PTL

\* A record answered as accepted, duplicate or updated by a request that met
\* no failure has its canonical event.
THEOREM AnswersAreCounted == Spec => []AnsweredMeansCounted
<1>1. IngestInv => AnsweredMeansCounted BY DEF IngestInv
<1> QED BY <1>1, InvHolds, PTL

-----------------------------------------------------------------------------
(* What no step takes away.                                                *)

\* The two halves of NothingIsErased.
RecordsKeepValues ==
    \A sr \in Sources \X Records : records[sr] # None =>
        /\ records'[sr] # None
        /\ records'[sr].tokens = records[sr].tokens
        /\ records'[sr].cost = records[sr].cost
        /\ \A f \in {"cache", "text"} :
               records[sr][f] # None => records'[sr][f] = records[sr][f]

EventKeepsValues(x) ==
    /\ events'[x] # None
    /\ events'[x].session = events[x].session
    /\ events'[x].bucket = events[x].bucket
    /\ \A f \in {"cache", "cost"} : events[x][f] # None => events'[x][f] # None
    /\ events[x].text # None => events'[x].text = events[x].text

EventsKeepValues == \A x \in EventKeys : EventKeepsValues(x)

LEMMA UnwrittenKeepsValues ==
    /\ records' = records => RecordsKeepValues
    /\ events' = events => EventsKeepValues
<1>1. records' = records => RecordsKeepValues BY DEF RecordsKeepValues
<1>2. events' = events => EventsKeepValues BY DEF EventsKeepValues, EventKeepsValues, EventKeys
<1> QED BY <1>1, <1>2

LEMMA WinnerKeepsValues ==
    ASSUME IngestInv, NEW w \in Workers, ProcessWinner(w) PROVE RecordsKeepValues
<1>1. TableTypes BY InvFacts
<1>2. PICK a, row : /\ a = <<worker[w].source, Head1(w).rec>> /\ records[a] = None
                    /\ records' = [records EXCEPT ![a] = row]
    BY DEF ProcessWinner
<1>3. \A sr \in Sources \X Records : records[sr] # None => records'[sr] = records[sr]
    BY <1>1, <1>2 DEF TableTypes
<1> QED BY <1>3 DEF RecordsKeepValues

LEMMA IdenticalKeepsValues ==
    ASSUME IngestInv, NEW w \in Workers, ProcessIdentical(w) PROVE RecordsKeepValues
<1>1. TableTypes BY InvFacts
<1>2. worker[w].pc = "process" BY DEF ProcessIdentical
<1>3. PICK s \in Sources, r \in Records : s = worker[w].source /\ r = Head1(w).rec
    BY <1>2, InvFacts
<1>4. PICK a, h, x :
        /\ a = <<s, r>>
        /\ h = Fill(records[a].cache, Head1(w).cache)
        /\ x = Fill(records[a].text, Head1(w).text)
    OBVIOUS
<1>5. a \in Sources \X Records /\ records[a] # None /\ records[a] \in RecordRow
    BY <1>1, <1>3, <1>4 DEF ProcessIdentical, TableTypes, Nullable
<1> DEFINE b1 == [records[a] EXCEPT !.cache = h]
           b2 == [b1 EXCEPT !.text = x]
<1>6. b1.text = records[a].text BY <1>5 DEF RecordRow
<1>7. records' = [records EXCEPT ![a] = b2]
    BY <1>1, <1>3, <1>4, <1>5, <1>6 DEF ProcessIdentical, TableTypes
<1>8. /\ b2.tokens = records[a].tokens /\ b2.cost = records[a].cost
      /\ b2.cache = h /\ b2.text = x /\ DOMAIN b2 = DOMAIN records[a]
    BY <1>5 DEF RecordRow
<1>9. /\ records[a].cache # None => h = records[a].cache
      /\ records[a].text # None => x = records[a].text
    BY <1>4 DEF Fill
<1>10. b2 # None
  <2>1. PICK d \in Delivery : d = Head1(w) BY <1>2, InvFacts
  <2>2. Valid(d) BY <1>2, <2>1, InvFacts DEF Sound
  <2>3. h \in Nullable(Nat) /\ x \in Nullable(Texts)
      BY <1>4, <1>5, <2>1, <2>2, ValidFields DEF Fill, RecordRow
  <2>4. b1 \in RecordRow BY <1>5, <2>3 DEF RecordRow
  <2> HIDE DEF b1
  <2>5. b2 \in RecordRow BY <2>3, <2>4 DEF RecordRow
  <2> QED BY <2>5, IngestAssumption
<1> HIDE DEF b2
<1>11. /\ records'[a] = b2
       /\ \A sr \in Sources \X Records : sr # a => records'[sr] = records[sr]
    BY <1>1, <1>5, <1>7 DEF TableTypes
<1> QED BY <1>8, <1>9, <1>10, <1>11 DEF RecordsKeepValues

LEMMA InsertKeepsValues ==
    ASSUME IngestInv, NEW w \in Workers, InsertEvent(w) PROVE EventsKeepValues
<1>1. TableTypes BY InvFacts
<1>2. PICK a, row : /\ a = <<worker[w].identity, Head1(w).rec>> /\ events[a] = None
                    /\ events' = [events EXCEPT ![a] = row]
    BY DEF InsertEvent
<1>3. \A x \in EventKeys : events'[x] = events[x] BY <1>1, <1>2 DEF TableTypes, EventKeys
<1> QED BY <1>3 DEF EventsKeepValues, EventKeepsValues, EventKeys

LEMMA MergeKeepsValues ==
    ASSUME TableTypes, NEW i \in Sources, NEW r \in Records,
           events[<<i, r>>] # None, NEW new,
           new.tokens \in Nullable(Nat), new.cache \in Nullable(Nat),
           new.cost \in Nullable(Int), NEW text \in Nullable(Texts),
           ApplyReplayMerge(i, r, new, text)
    PROVE  EventsKeepValues
<1>1. PICK a, e, delta, row :
        /\ a = <<i, r>> /\ e = events[a] /\ delta = Delta(e, new)
        /\ row = MergedRow(e, new, text)
    OBVIOUS
<1>2. a \in Sources \X Records /\ e # None /\ e \in EventRow
    BY <1>1 DEF TableTypes, Nullable
<1>3. /\ row \in EventRow /\ row.session = e.session /\ row.bucket = e.bucket
      /\ e.cache # None => row.cache # None
      /\ e.cost # None => row.cost # None
      /\ e.text # None => row.text = e.text
    BY <1>1, <1>2, MergeFacts
<1>4. row # None BY <1>3, IngestAssumption
<1>5. events' = [events EXCEPT ![a] = row] BY <1>1 DEF ApplyReplayMerge, MergedRow
<1>6. events'[a] = row /\ \A x \in EventKeys : x # a => events'[x] = events[x]
    BY <1>2, <1>5 DEF TableTypes, EventKeys
<1>7. EventKeepsValues(a) BY <1>1, <1>3, <1>4, <1>6 DEF EventKeepsValues
<1>8. ASSUME NEW x \in EventKeys, x # a PROVE EventKeepsValues(x)
  <2>1. events'[x] = events[x] /\ events[x] # None BY <1>6, <1>8 DEF EventKeys
  <2> QED BY <2>1 DEF EventKeepsValues
<1> QED BY <1>7, <1>8 DEF EventsKeepValues

LEMMA ReplayKeepsValues ==
    ASSUME IngestInv, NEW w \in Workers, ReplayEvent(w) \/ CorrectCost(w)
    PROVE  EventsKeepValues
<1>1. worker[w].pc = "canonical" BY DEF ReplayEvent, CorrectCost
<1>2. PICK d \in Delivery, i \in Sources, r \in Records :
        d = Head1(w) /\ i = worker[w].identity /\ r = d.rec
    BY <1>1, CanonicalFacts
<1>3. TableTypes /\ Valid(d) BY <1>1, <1>2, CanonicalFacts
<1>4. events[<<i, r>>] # None BY <1>2 DEF ReplayEvent, CorrectCost
<1>5. PICK new, fix : /\ new = [tokens |-> d.tokens, cache |-> d.cache, cost |-> d.cost]
                      /\ fix = [tokens |-> None, cache |-> None, cost |-> d.cost]
    OBVIOUS
<1>6. /\ new.tokens \in Nullable(Nat) /\ new.cache \in Nullable(Nat)
      /\ new.cost \in Nullable(Int)
      /\ fix.tokens \in Nullable(Nat) /\ fix.cache \in Nullable(Nat)
      /\ fix.cost \in Nullable(Int)
    BY <1>3, <1>5, ValidFields DEF Nullable
<1>7. PICK text \in Nullable(Texts) : text = d.text BY <1>3, ValidFields
<1>8. CASE events' = events BY <1>8, UnwrittenKeepsValues
<1>9. CASE ApplyReplayMerge(i, r, new, text)
    BY <1>3, <1>4, <1>6, <1>9, MergeKeepsValues
<1>10. CASE ApplyReplayMerge(i, r, fix, text)
    BY <1>3, <1>4, <1>6, <1>10, MergeKeepsValues
<1> QED BY <1>2, <1>5, <1>7, <1>8, <1>9, <1>10 DEF ReplayEvent, CorrectCost

LEMMA NextKeepsValues ==
    ASSUME IngestInv, [Next]_vars PROVE RecordsKeepValues /\ EventsKeepValues
<1>1. ASSUME NEW w \in Workers, ProcessWinner(w)
      PROVE  RecordsKeepValues /\ EventsKeepValues
  <2>1. events' = events BY <1>1 DEF ProcessWinner
  <2> QED BY <1>1, <2>1, WinnerKeepsValues, UnwrittenKeepsValues
<1>2. ASSUME NEW w \in Workers, ProcessIdentical(w)
      PROVE  RecordsKeepValues /\ EventsKeepValues
  <2>1. events' = events BY <1>2 DEF ProcessIdentical
  <2> QED BY <1>2, <2>1, IdenticalKeepsValues, UnwrittenKeepsValues
<1>3. ASSUME NEW w \in Workers, InsertEvent(w)
      PROVE  RecordsKeepValues /\ EventsKeepValues
  <2>1. records' = records BY <1>3 DEF InsertEvent
  <2> QED BY <1>3, <2>1, InsertKeepsValues, UnwrittenKeepsValues
<1>4. ASSUME NEW w \in Workers, ReplayEvent(w) \/ CorrectCost(w)
      PROVE  RecordsKeepValues /\ EventsKeepValues
  <2>1. records' = records BY <1>4 DEF ReplayEvent, CorrectCost
  <2> QED BY <1>4, <2>1, ReplayKeepsValues, UnwrittenKeepsValues
<1>5. CASE UNCHANGED accounts
  <2>1. records' = records /\ events' = events BY <1>5 DEF accounts
  <2> QED BY <2>1, UnwrittenKeepsValues
<1>6. CASE UNCHANGED vars BY <1>5, <1>6 DEF vars, accounts
<1>7. ASSUME NEW k \in DOMAIN quarantine, NEW j \in Sources,
             CheckResolution(k, j) \/ ResolveIdentity(k, j)
      PROVE  UNCHANGED accounts
    BY <1>7 DEF CheckResolution, ResolveIdentity
<1>8. ASSUME NEW w \in Workers,
             \/ Begin(w) \/ ResolveCanonicalIdentity(w) \/ Gate(w) \/ CheckBatchOverlap(w)
             \/ CrossIdentityCheck(w) \/ ProcessDivergent(w) \/ Lookup(w)
             \/ RecordFails(w) \/ CanonicalFails(w) \/ RequestDies(w) \/ NextRecord(w)
      PROVE  UNCHANGED accounts
    BY <1>8 DEF Begin, ResolveCanonicalIdentity, Gate, CheckBatchOverlap,
        CrossIdentityCheck, ProcessDivergent, Lookup, RecordFails, CanonicalFails,
        RequestDies, NextRecord
<1> QED BY <1>1, <1>2, <1>3, <1>4, <1>5, <1>6, <1>7, <1>8 DEF Next

\* No step changes the tokens or cost of a stored record, removes an event,
\* moves it to another session or bucket, or turns a stored value into NULL.
THEOREM NothingIsEverErased == Spec => NothingIsErased
<1>1. IngestInv /\ [Next]_vars =>
        [/\ \A sr \in Sources \X Records : records[sr] # None =>
              /\ records'[sr] # None
              /\ records'[sr].tokens = records[sr].tokens
              /\ records'[sr].cost = records[sr].cost
              /\ \A f \in {"cache", "text"} :
                     records[sr][f] # None => records'[sr][f] = records[sr][f]
         /\ \A ir \in EventKeys :
              /\ events'[ir] # None
              /\ events'[ir].session = events[ir].session
              /\ events'[ir].bucket = events[ir].bucket
              /\ \A f \in {"cache", "cost"} : events[ir][f] # None => events'[ir][f] # None
              /\ events[ir].text # None => events'[ir].text = events[ir].text]_vars
    BY NextKeepsValues DEF RecordsKeepValues, EventsKeepValues, EventKeepsValues
<1> QED BY <1>1, InvHolds, PTL DEF Spec, NothingIsErased
=============================================================================
