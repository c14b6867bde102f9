---------------------------- MODULE UsageIngest ----------------------------
(***************************************************************************)
(* POST /ingest (app/api/ingest.py): collectors deliver batches of usage   *)
(* records, and deliver them again.  One record is booked twice: in the    *)
(* legacy table opencode_usage_records, whose transaction also moves the   *)
(* session aggregate, and in usage_events, whose transaction also moves    *)
(* the client/project/day rollup.  The handler opens no transaction of its *)
(* own, so the two are separate commits with other requests, failures and  *)
(* crashes in between; a replay is what brings them together again.        *)
(*                                                                         *)
(* A transaction is one step here: every one of them takes its row and     *)
(* advisory locks in the order record, event, session, rollup, reads what  *)
(* it changes under those locks, and so runs as if alone.                  *)
(*                                                                         *)
(* One client.  A source identity is named by the source database it was   *)
(* created for, and a source has one session.  `tokens' stands for the     *)
(* input, output and effective cached tokens, `cache' for the nullable     *)
(* cache_read and cache_write counts, `text' for provider, mode and        *)
(* finish_reason, `bucket' for the project and the UTC day of reported_at  *)
(* (None: no project, no rollup row).  reasoning_tokens, which no          *)
(* aggregate sums, the source's record_count, which moves with the         *)
(* session's message_count, and the audit rows are left out.               *)
(***************************************************************************)
EXTENDS Integers, Sequences, FiniteSets, FiniteSetsExt

CONSTANTS
    Sources,         \* source databases of the client, and their identities
    Records,         \* source_record_id values
    Buckets,         \* (project_id, day) keys of client_project_rollup
    Texts,           \* non-blank enrichment texts
    Workers,         \* requests being handled at the same time
    Requests,        \* the deliveries collectors make: [source, batch]
    MaxResolutions,  \* bound: quarantines the administrator resolves
    None,            \* SQL NULL, or no such row
    Unknown          \* no source_identities row yet

Nullable(S) == S \cup {None}

\* IngestRecord, and the columns the accounts depend on.
Delivery == [rec : Records, bucket : Nullable(Buckets), tokens : Int,
             cache : Nullable(Int), cost : Nullable(Int), text : Nullable(Texts)]
RecordRow == [tokens : Nat, cache : Nullable(Nat), cost : Nullable(Int),
              text : Nullable(Texts)]
SessionRow == [messages : Nat, tokens : Nat, cache : Nat, cost : Nullable(Int)]
EventRow == [session : Sources, bucket : Nullable(Buckets), tokens : Nat,
             cache : Nullable(Nat), cost : Nullable(Int), text : Nullable(Texts)]

ASSUME IngestAssumption ==
    /\ MaxResolutions \in Nat
    /\ Requests \subseteq [source : Sources, batch : Seq(Delivery)]
    /\ None \notin Sources \cup Buckets \cup Texts \cup Int
    /\ None \notin RecordRow \cup SessionRow \cup EventRow
    /\ Unknown \notin Sources \cup {None}

VARIABLES
    parent,       \* source_identities: Unknown, None (canonical) or canonical_parent_id
    quarantine,   \* source_identity_quarantine rows, in order of creation
    resolving,    \* resolve requests past their checks: <<quarantine row, parent>>
    records,      \* opencode_usage_records, by source and record
    sessions,     \* sessions aggregates, by source
    events,       \* usage_events, by canonical identity and record
    rollup,       \* client_project_rollup (no row reads as zeros)
    worker        \* the ingest requests in progress

vars == <<parent, quarantine, resolving, records, sessions, events, rollup, worker>>
accounts == <<records, sessions, events, rollup>>
identities == <<parent, quarantine, resolving>>

-----------------------------------------------------------------------------

Amount(x) == IF x = None THEN 0 ELSE x

Fields == {"tokens", "cache", "cost"}

Zero == [f \in Fields |-> 0]

\* _validate_tokens: a negative count is refused.
Valid(d) == d.tokens >= 0 /\ Amount(d.cache) >= 0

Canonical(s) == IF parent[s] = None THEN s ELSE parent[s]

Quarantined(i) ==
    \E k \in DOMAIN quarantine : quarantine[k].identity = i /\ ~quarantine[k].cleared

\* Identities that are not resolved into a parent and own an event of one
\* of the records: check_batch_overlap, and the same test for one record.
Owners(i, recs) ==
    {j \in Sources \ {i} : parent[j] = None /\ \E r \in recs : events[j, r] # None}

Free == [pc |-> "idle"]

Head1(w) == Head(worker[w].todo)

Step(w, pc) == worker' = [worker EXCEPT ![w].pc = pc]

Answer(w, ans, counted) ==
    worker' = [worker EXCEPT ![w].pc = "answered", ![w].ans = ans, ![w].counted = counted]

-----------------------------------------------------------------------------
(* The request: identity, quarantine and overlap, once for the batch.      *)

\* A batch with no valid record is answered without touching the accounts.
Begin(w) ==
    /\ worker[w].pc = "idle"
    /\ \E q \in Requests :
         /\ \E k \in DOMAIN q.batch : Valid(q.batch[k])
         /\ worker' = [worker EXCEPT ![w] =
                [pc |-> "resolve", source |-> q.source, identity |-> None,
                 todo |-> q.batch, costOnly |-> FALSE, ans |-> None, counted |-> TRUE]]
    /\ UNCHANGED <<accounts, identities>>

\* The row RETURNING gives for a new identity has no canonical_parent_id:
\* reading it raises, and the request that met the source first gets a 500.
ResolveCanonicalIdentity(w) ==
    /\ worker[w].pc = "resolve"
    /\ LET s == worker[w].source
       IN  IF parent[s] = Unknown
           THEN /\ parent' = [parent EXCEPT ![s] = None]
                /\ worker' = [worker EXCEPT ![w] = Free]
           ELSE /\ worker' = [worker EXCEPT ![w].identity = Canonical(s), ![w].pc = "gate"]
                /\ UNCHANGED parent
    /\ UNCHANGED <<accounts, quarantine, resolving>>

\* A quarantined batch leaves only its ingest attempts behind.
Gate(w) ==
    /\ worker[w].pc = "gate"
    /\ IF Quarantined(worker[w].identity)
       THEN worker' = [worker EXCEPT ![w] = Free]
       ELSE Step(w, "overlap")
    /\ UNCHANGED <<accounts, identities>>

CheckBatchOverlap(w) ==
    /\ worker[w].pc = "overlap"
    /\ LET i    == worker[w].identity
           todo == worker[w].todo
           recs == {todo[k].rec : k \in {n \in DOMAIN todo : Valid(todo[n])}}
       IN  IF Owners(i, recs) # {}
           THEN /\ quarantine' = Append(quarantine, [identity |-> i, cleared |-> FALSE])
                /\ worker' = [worker EXCEPT ![w] = Free]
           ELSE Step(w, "cross") /\ UNCHANGED quarantine
    /\ UNCHANGED <<accounts, parent, resolving>>

-----------------------------------------------------------------------------
(* One record of the batch: the legacy booking.                            *)

CrossIdentityCheck(w) ==
    /\ worker[w].pc = "cross"
    /\ IF ~Valid(Head1(w)) THEN Answer(w, "rejected", TRUE)
       ELSE IF Owners(worker[w].identity, {Head1(w).rec}) # {}
            THEN Answer(w, "conflict", TRUE)
            ELSE Step(w, "process")
    /\ UNCHANGED <<accounts, identities>>

\* _resolve_session: the first record creates the row, later ones add to it.
ResolveSession(s, d) ==
    IF sessions[s] = None
    THEN [messages |-> 1, tokens |-> d.tokens, cache |-> Amount(d.cache), cost |-> d.cost]
    ELSE [messages |-> sessions[s].messages + 1,
          tokens   |-> sessions[s].tokens + d.tokens,
          cache    |-> sessions[s].cache + Amount(d.cache),
          cost     |-> Amount(sessions[s].cost) + Amount(d.cost)]

\* The INSERT wins: record and session aggregate in one transaction.
ProcessWinner(w) ==
    LET d == Head1(w)
        s == worker[w].source
    IN  /\ worker[w].pc = "process"
        /\ records[s, d.rec] = None
        /\ records' = [records EXCEPT ![<<s, d.rec>>] =
               [tokens |-> d.tokens, cache |-> d.cache, cost |-> d.cost, text |-> d.text]]
        /\ sessions' = [sessions EXCEPT ![s] = ResolveSession(s, d)]
        /\ Step(w, "canonical")
        /\ UNCHANGED <<events, rollup, identities>>

Fill(stored, incoming) == IF stored = None THEN incoming ELSE stored

\* Mutant: the session is resolved, and counted, on every delivery.
ProcessIdentical_Recount(w) ==
    LET d == Head1(w)
        s == worker[w].source
    IN  /\ worker[w].pc = "process"
        /\ records[s, d.rec] # None
        /\ records[s, d.rec].tokens = d.tokens /\ records[s, d.rec].cost = d.cost
        /\ sessions[s].messages < 3
        /\ sessions' = [sessions EXCEPT ![s] = ResolveSession(s, d)]
        /\ Step(w, "lookup")
        /\ UNCHANGED <<records, events, rollup, identities>>

\* The INSERT loses to a row with the same values: _apply_replay_merge fills
\* what the row lacks and adds a filled cache count to the session.  The
\* compared columns never change, so the comparison and the merge are one step.
ProcessIdentical(w) ==
    LET d == Head1(w)
        s == worker[w].source
        r == records[s, d.rec]
    IN  /\ worker[w].pc = "process"
        /\ r # None
        /\ r.tokens = d.tokens /\ r.cost = d.cost
        /\ records' = [records EXCEPT ![<<s, d.rec>>].cache = Fill(@, d.cache),
                                      ![<<s, d.rec>>].text = Fill(@, d.text)]
        /\ sessions' = [sessions EXCEPT ![s].cache =
               @ + (IF r.cache = None THEN Amount(d.cache) ELSE 0)]
        /\ Step(w, "lookup")
        /\ UNCHANGED <<events, rollup, identities>>

\* It loses to a row that differs: only a non-NULL cost is let through.
ProcessDivergent(w) ==
    LET d == Head1(w)
        r == records[worker[w].source, d.rec]
    IN  /\ worker[w].pc = "process"
        /\ r # None
        /\ ~(r.tokens = d.tokens /\ r.cost = d.cost)
        /\ IF r.tokens = d.tokens /\ d.cost # None
           THEN worker' = [worker EXCEPT ![w].pc = "canonical", ![w].costOnly = TRUE]
           ELSE Answer(w, "conflict", TRUE)
        /\ UNCHANGED <<accounts, identities>>

\* Mutant: a legacy duplicate is taken to have its canonical event.
Lookup_TrustsLegacy(w) ==
    /\ worker[w].pc = "lookup"
    /\ Answer(w, "accepted", TRUE)
    /\ UNCHANGED <<accounts, identities>>

\* An identical duplicate is booked canonically only when no event is there.
Lookup(w) ==
    /\ worker[w].pc = "lookup"
    /\ IF events[worker[w].identity, Head1(w).rec] # None
       THEN Answer(w, "accepted", TRUE)
       ELSE Step(w, "canonical")
    /\ UNCHANGED <<accounts, identities>>

-----------------------------------------------------------------------------
(* The canonical booking: one transaction under the advisory lock.         *)

\* compute_delta: a NULL value changes nothing, any other is authoritative.
Delta(e, new) ==
    [f \in Fields |-> IF new[f] = None THEN 0 ELSE new[f] - Amount(e[f])]

\* Mutant: an omitted value overwrites the stored one.
Merged_Erasing(e, new) ==
    [e EXCEPT !.cache = new.cache, !.cost = new.cost]

Merged(e, new) ==
    [e EXCEPT !.tokens = IF Delta(e, new).tokens = 0 THEN @ ELSE new.tokens,
              !.cache  = IF Delta(e, new).cache = 0 THEN @ ELSE new.cache,
              !.cost   = IF Delta(e, new).cost = 0 THEN @ ELSE new.cost]

AddToRollup(b, delta) ==
    rollup' = IF b = None THEN rollup
              ELSE [rollup EXCEPT ![b] = [f \in Fields |-> @[f] + delta[f]]]

\* validate_no_negative_totals: an adjusted total is clamped at zero.
Adjusted(total, delta) ==
    IF delta = 0 THEN total ELSE Max({0, Amount(total) + delta})

\* Mutant: the rollup takes the new values, not the change.
ApplyReplayMerge_Reincrement(i, r, new, text) ==
    LET e     == events[i, r]
        delta == Delta(e, new)
    IN  /\ events' = [events EXCEPT ![<<i, r>>] =
               [Merged(e, new) EXCEPT !.text = Fill(@, text)]]
        /\ sessions' = [sessions EXCEPT ![e.session] =
               [messages |-> @.messages,
                tokens   |-> Adjusted(@.tokens, delta.tokens),
                cache    |-> Adjusted(@.cache, delta.cache),
                cost     |-> Adjusted(@.cost, delta.cost)]]
        /\ AddToRollup(e.bucket, [f \in Fields |-> Amount(new[f])])

\* apply_replay_merge: the event, its session and its own rollup bucket.
ApplyReplayMerge(i, r, new, text) ==
    LET e     == events[i, r]
        delta == Delta(e, new)
    IN  /\ events' = [events EXCEPT ![<<i, r>>] =
               [Merged(e, new) EXCEPT !.text = Fill(@, text)]]
        /\ sessions' = [sessions EXCEPT ![e.session] =
               [messages |-> @.messages,
                tokens   |-> Adjusted(@.tokens, delta.tokens),
                cache    |-> Adjusted(@.cache, delta.cache),
                cost     |-> Adjusted(@.cost, delta.cost)]]
        /\ AddToRollup(e.bucket, delta)

\* _canonical_fields_identical without cost and text, and with them.
SameExceptCost(e, d) ==
    /\ e.tokens = d.tokens
    /\ d.cache # None => Amount(e.cache) = d.cache

SameFields(e, d) ==
    /\ SameExceptCost(e, d)
    /\ d.cost # None => e.cost = d.cost
    /\ d.text # None => e.text = d.text

MergeOutcome(e, new, text) ==
    IF Delta(e, new) # Zero \/ (e.text = None /\ text # None) THEN "updated" ELSE "duplicate"

InsertEvent(w) ==
    LET d == Head1(w)
        i == worker[w].identity
    IN  /\ worker[w].pc = "canonical"
        /\ events[i, d.rec] = None
        /\ events' = [events EXCEPT ![<<i, d.rec>>] =
               [session |-> worker[w].source, bucket |-> d.bucket, tokens |-> d.tokens,
                cache |-> d.cache, cost |-> d.cost, text |-> d.text]]
        /\ AddToRollup(d.bucket, [f \in Fields |-> Amount(d[f])])
        /\ Answer(w, "accepted", TRUE)
        /\ UNCHANGED <<records, sessions, identities>>

ReplayEvent(w) ==
    LET d == Head1(w)
        i == worker[w].identity
        e == events[i, d.rec]
        new == [tokens |-> d.tokens, cache |-> d.cache, cost |-> d.cost]
    IN  /\ worker[w].pc = "canonical"
        /\ ~worker[w].costOnly
        /\ e # None
        /\ IF SameFields(e, d)
           THEN Answer(w, "duplicate", TRUE) /\ UNCHANGED <<events, sessions, rollup>>
           ELSE /\ ApplyReplayMerge(i, d.rec, new, d.text)
                /\ Answer(w, MergeOutcome(e, new, d.text), TRUE)
        /\ UNCHANGED <<records, identities>>

CorrectCost(w) ==
    LET d == Head1(w)
        i == worker[w].identity
        e == events[i, d.rec]
        new == [tokens |-> None, cache |-> None, cost |-> d.cost]
    IN  /\ worker[w].pc = "canonical"
        /\ worker[w].costOnly
        /\ e # None
        /\ IF SameExceptCost(e, d) /\ e.session = worker[w].source /\ e.cost # d.cost
           THEN /\ ApplyReplayMerge(i, d.rec, new, d.text)
                /\ Answer(w, MergeOutcome(e, new, d.text), TRUE)
           ELSE /\ Answer(w, IF SameExceptCost(e, d) /\ e.session = worker[w].source
                             THEN "duplicate" ELSE "conflict", TRUE)
                /\ UNCHANGED <<events, sessions, rollup>>
        /\ UNCHANGED <<records, identities>>

-----------------------------------------------------------------------------
(* What can fail, and the end of a record.                                 *)

\* An exception in the legacy booking rejects the record.
RecordFails(w) ==
    /\ worker[w].pc \in {"cross", "process"}
    /\ Answer(w, "rejected", FALSE)
    /\ UNCHANGED <<accounts, identities>>

\* One in the canonical booking is logged: the record stays accepted.
CanonicalFails(w) ==
    /\ worker[w].pc = "canonical"
    /\ Answer(w, IF worker[w].costOnly THEN "conflict" ELSE "accepted", FALSE)
    /\ UNCHANGED <<accounts, identities>>

\* Any other exception, a lost connection or the end of the process.
RequestDies(w) ==
    /\ worker[w].pc # "idle"
    /\ worker' = [worker EXCEPT ![w] = Free]
    /\ UNCHANGED <<accounts, identities>>

NextRecord(w) ==
    /\ worker[w].pc = "answered"
    /\ worker' = IF Len(worker[w].todo) = 1
                 THEN [worker EXCEPT ![w] = Free]
                 ELSE [worker EXCEPT ![w].pc = "cross", ![w].todo = Tail(@),
                                     ![w].costOnly = FALSE, ![w].ans = None,
                                     ![w].counted = TRUE]
    /\ UNCHANGED <<accounts, identities>>

-----------------------------------------------------------------------------
(* POST /admin/resolve-source-identity: checks, then one transaction that  *)
(* repeats none of them.                                                   *)

Resolutions ==
    Cardinality(resolving) + Cardinality({k \in DOMAIN quarantine : quarantine[k].cleared})

CheckResolution(k, j) ==
    /\ Resolutions < MaxResolutions
    /\ ~quarantine[k].cleared
    /\ parent[j] # Unknown
    /\ resolving' = resolving \cup {<<k, j>>}
    /\ UNCHANGED <<accounts, parent, quarantine, worker>>

ResolveIdentity(k, j) ==
    /\ <<k, j>> \in resolving
    /\ resolving' = resolving \ {<<k, j>>}
    /\ quarantine' = [quarantine EXCEPT ![k].cleared = TRUE]
    /\ parent' = [parent EXCEPT ![quarantine[k].identity] = j]
    /\ UNCHANGED <<accounts, worker>>

Init ==
    /\ parent = [s \in Sources |-> Unknown]
    /\ quarantine = <<>>
    /\ resolving = {}
    /\ records = [sr \in Sources \X Records |-> None]
    /\ sessions = [s \in Sources |-> None]
    /\ events = [ir \in Sources \X Records |-> None]
    /\ rollup = [b \in Buckets |-> Zero]
    /\ worker = [w \in Workers |-> Free]

Next ==
    \/ \E w \in Workers :
         \/ Begin(w)
         \/ ResolveCanonicalIdentity(w)
         \/ Gate(w)
         \/ CheckBatchOverlap(w)
         \/ CrossIdentityCheck(w)
         \/ ProcessWinner(w)
         \/ ProcessIdentical(w)
         \/ ProcessDivergent(w)
         \/ Lookup(w)
         \/ InsertEvent(w)
         \/ ReplayEvent(w)
         \/ CorrectCost(w)
         \/ RecordFails(w)
         \/ CanonicalFails(w)
         \/ RequestDies(w)
         \/ NextRecord(w)
    \/ \E k \in DOMAIN quarantine, j \in Sources :
         \/ CheckResolution(k, j)
         \/ ResolveIdentity(k, j)

Spec == Init /\ [][Next]_vars

-----------------------------------------------------------------------------

\* A request in progress.
Busy == [pc : {"resolve", "gate", "overlap", "cross", "process", "lookup",
               "canonical", "answered"},
         source : Sources, identity : Nullable(Sources), todo : Seq(Delivery),
         costOnly : BOOLEAN, counted : BOOLEAN,
         ans : {None, "accepted", "duplicate", "updated", "conflict", "rejected"}]

\* The tables and the requests in progress hold rows of their types.
TypeOK ==
    /\ parent \in [Sources -> Sources \cup {None, Unknown}]
    /\ quarantine \in Seq([identity : Sources, cleared : BOOLEAN])
    /\ resolving \subseteq (DOMAIN quarantine) \X Sources
    /\ records \in [Sources \X Records -> Nullable(RecordRow)]
    /\ sessions \in [Sources -> Nullable(SessionRow)]
    /\ events \in [Sources \X Records -> Nullable(EventRow)]
    /\ rollup \in [Buckets -> [Fields -> Int]]
    /\ worker \in [Workers -> {Free} \cup Busy]
    /\ \A w \in Workers :
         worker[w].pc \notin {"idle", "resolve"} => worker[w].identity \in Sources

EventKeys == {ir \in Sources \X Records : events[ir] # None}

\* The rollup row of a project and day is, field by field, the sum of the
\* usage_events stored for that project and day: whatever replays correct,
\* and whichever day the replay itself reports (issue #403, ADR 0015).
RollupIsSumOfEvents ==
    \A b \in Buckets : \A f \in Fields :
        rollup[b][f] = SumFunction(
            [ir \in {x \in EventKeys : events[x].bucket = b} |-> Amount(events[ir][f])])

\* The legacy records of a source, and the events counted in its session.
Mine(s) == {r \in Records : records[s, r] # None}
Booked(s) == {ir \in EventKeys : events[ir].session = s}

\* No record was booked again under the identity a source was resolved into.
BookedOnce(s) == \A x, y \in Booked(s) : x[2] = y[2] => x = y

\* What the records brought, moved by what corrections of their events changed.
UsageOf(s) ==
      SumFunction([r \in Mine(s) |-> records[s, r].tokens])
    + SumFunction([ir \in Booked(s) |-> events[ir].tokens - records[s, ir[2]].tokens])

\* A session counts each stored record once: its message count is the number
\* of its records, and its tokens are what they brought, moved by exactly
\* what corrections of their canonical events changed.  Only when a record
\* has two events, each of which may take its tokens away, can the clamp at
\* zero leave the session with more.
SessionsTrackUsage ==
    \A s \in Sources :
        /\ \A ir \in Booked(s) : ir[2] \in Mine(s)
        /\ IF Mine(s) = {} THEN sessions[s] = None
           ELSE /\ sessions[s] # None
                /\ sessions[s].messages = Cardinality(Mine(s))
                /\ sessions[s].tokens >= UsageOf(s)
                /\ BookedOnce(s) => sessions[s].tokens = UsageOf(s)

\* A record answered accepted, duplicate or updated by a request that met no
\* failure has its canonical event, whoever died between the two bookings
\* earlier: a replay repairs the missing half.
AnsweredMeansCounted ==
    \A w \in Workers :
        /\ worker[w].pc = "answered"
        /\ worker[w].counted
        /\ worker[w].ans \in {"accepted", "duplicate", "updated"}
        => events[worker[w].identity, Head1(w).rec] # None

\* The first write of a legacy record keeps its tokens and cost, events are
\* never removed or moved to another session or bucket, and no replay turns
\* a stored value back into NULL (ADR 0011, ADR 0012).
NothingIsErased ==
    [][/\ \A sr \in Sources \X Records : records[sr] # None =>
            /\ records'[sr] # None
            /\ records'[sr].tokens = records[sr].tokens
            /\ records'[sr].cost = records[sr].cost
            /\ \A f \in {"cache", "text"} :
                   records[sr][f] # None => records'[sr][f] = records[sr][f]
       /\ \A ir \in EventKeys :
            /\ events'[ir] # None
            /\ events'[ir].session = events[ir].session
            /\ events'[ir].bucket = events[ir].bucket
            /\ \A f \in {"cache", "cost"} : events[ir][f] # None => events'[ir][f] # None
            /\ events[ir].text # None => events'[ir].text = events[ir].text]_vars

\* "a replay of the same logical record can never double-count" (ADR 0012):
\* a session holds no more cache tokens than its records and their events do.
ReplayNeverDoubleCounts ==
    \A s \in Sources : sessions[s] # None =>
        sessions[s].cache <=
              SumFunction([r \in Mine(s) |-> Amount(records[s, r].cache)])
            + SumFunction([ir \in Booked(s) |->
                  Max({0, Amount(events[ir].cache) - Amount(records[s, ir[2]].cache)})])

=============================================================================
