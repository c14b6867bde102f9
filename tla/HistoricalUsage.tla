--------------------------- MODULE HistoricalUsage --------------------------
(***************************************************************************)
(* Repairing booked usage while ingest keeps booking: the administrator's  *)
(* reconciliation of duplicate events (app/api/admin_reconcile.py,         *)
(* app/core/reconciliation.py) and the script that recomputes the client   *)
(* project rollup (scripts/backfill_client_project_rollup.py).  A request  *)
(* of the first is one transaction at READ COMMITTED, statement by         *)
(* statement; the second runs in autocommit.  Ingest appears as the        *)
(* transactions that meet them: counting a record in its session, booking  *)
(* its event, and merging a replay.                                        *)
(***************************************************************************)
EXTENDS Values, Naturals, FiniteSets, FiniteSetsExt

CONSTANTS EventRows,     \* id -> [record, client, session, bucket, day, first, tokens] of every event there may be
          OldEvents,     \* ids booked before canonical identities were resolved: duplicates included
          OldRollup,     \* the rollup as it was left
          Admins,        \* concurrent reconciliation requests
          Scopes,        \* request bodies: [client, days]
          MaxBookings    \* bound: ingest transactions

\* The events of a record are in one order by first_ingested_at and id.
ASSUME HistAssumption ==
    /\ IsFiniteSet(OldEvents) /\ OldEvents \subseteq DOMAIN EventRows
    /\ OldRollup = [b \in DOMAIN OldRollup |-> OldRollup[b]]
    /\ \A e \in DOMAIN EventRows : EventRows[e].first \in Nat
    /\ \A e, x \in DOMAIN EventRows :
          EventRows[e].record = EventRows[x].record /\ EventRows[e].first = EventRows[x].first => e = x

VARIABLES usage,         \* usage_events: id -> tokens
          attempted,     \* events some usage_ingest_attempts row refers to
          totals,        \* sessions: token totals
          rollup,        \* client_project_rollup: bucket -> tokens
          admin,         \* the requests
          script,        \* the rollup script
          ingest         \* its transactions so far, and the records counted that have no event yet
histVars == <<usage, attempted, totals, rollup, admin, script, ingest>>

HistSessions == {EventRows[e].session : e \in DOMAIN EventRows}
HistBuckets  == {EventRows[e].bucket : e \in DOMAIN EventRows} \ {None}

SumOf(f, S) == MapThenSumSet(LAMBDA e : f[e], S)
InSessionOf(f, s) == {e \in DOMAIN f : EventRows[e].session = s}
BackedBy(b) == {e \in DOMAIN usage : EventRows[e].bucket = b}

NoRequest == [pc |-> "idle"]

HistInit ==
    /\ usage = [e \in OldEvents |-> EventRows[e].tokens]
    /\ attempted = OldEvents
    /\ totals = [s \in HistSessions |-> SumOf(usage, InSessionOf(usage, s))]
    /\ rollup = OldRollup
    /\ admin = [a \in Admins |-> NoRequest]
    /\ script = [pc |-> "idle"]
    /\ ingest = [steps |-> 0, counted |-> {}]

-----------------------------------------------------------------------------
(* Reconciliation.                                                         *)

\* scan_duplicate_groups: the sets of two or more events of one record,
\* among the events of the client and the dates.
ScanDuplicateGroups(scope) ==
    LET rows == {e \in DOMAIN usage : /\ scope.client = None \/ EventRows[e].client = scope.client
                                      /\ EventRows[e].day \in scope.days}
    IN  {g \in {{e \in rows : EventRows[e].record = EventRows[x].record} : x \in rows} : Cardinality(g) > 1}

\* Mutant: the event with the most tokens is kept.
SelectCanonical_Largest(g) ==
    CHOOSE e \in g : \A x \in g : usage[e] > usage[x] \/ (usage[e] = usage[x] /\ EventRows[e].first <= EventRows[x].first)

\* The earliest event is kept (first_ingested_at, then id: one order here).
SelectCanonical(g) == CHOOSE e \in g : \A x \in g : EventRows[e].first <= EventRows[x].first

Victims(groups) == UNION {g \ {SelectCanonical(g)} : g \in groups}

\* pg_advisory_xact_lock on the client's key, or the nil key without one.
InTransaction(x) == admin[x].pc \notin {"idle", "lock", "committed"}
LockFree(a) == \A x \in Admins \ {a} : InTransaction(x) => admin[x].scope.client # admin[a].scope.client

DeletedBy(x) == IF admin[x].pc \in {"sum", "write"} THEN admin[x].victims ELSE {}
LockedSessions(x) == IF admin[x].pc = "write" THEN admin[x].written ELSE {}

\* The first scan; a dry run answers here, and so does a request that finds
\* nothing.
Scan(a, scope) ==
    /\ admin[a].pc = "idle"
    /\ ScanDuplicateGroups(scope) # {}
    /\ admin' = [admin EXCEPT ![a] = [pc |-> "lock", scope |-> scope, victims |-> {}, nulled |-> {},
                                  sums |-> <<>>, written |-> {}, calm |-> TRUE]]
    /\ UNCHANGED <<usage, attempted, totals, rollup, script, ingest>>

\* Behind the lock the scan is repeated.
LockAndRescan(a) ==
    /\ admin[a].pc = "lock" /\ LockFree(a)
    /\ LET victims == Victims(ScanDuplicateGroups(admin[a].scope))
       IN  admin' = [admin EXCEPT ![a] = IF victims = {} THEN NoRequest
                                         ELSE [@ EXCEPT !.pc = "null", !.victims = victims, !.calm = TRUE]]
    /\ UNCHANGED <<usage, attempted, totals, rollup, script, ingest>>

\* UPDATE usage_ingest_attempts SET usage_event_id = NULL.
NullAttempts(a) ==
    /\ admin[a].pc = "null"
    /\ admin' = [admin EXCEPT ![a].pc = "delete", ![a].nulled = attempted \cap admin[a].victims]
    /\ UNCHANGED <<usage, attempted, totals, rollup, script, ingest>>

\* Nothing of a transaction is kept that fails: a replay recorded since
\* refers to an event about to be deleted, a deadlock is broken, the
\* connection is lost.
Rollback(a) ==
    /\ InTransaction(a)
    /\ admin' = [admin EXCEPT ![a] = NoRequest]
    /\ UNCHANGED <<usage, attempted, totals, rollup, script, ingest>>

\* Waits for another request's deletion of the same row; the foreign key
\* lets no event go that an attempt still refers to.
DeleteEvents(a) ==
    /\ admin[a].pc = "delete"
    /\ \A x \in Admins \ {a} : DeletedBy(x) \cap admin[a].victims = {}
    /\ attempted \cap admin[a].victims \cap DOMAIN usage \subseteq admin[a].nulled
    /\ admin' = [admin EXCEPT ![a].pc = "sum"]
    /\ UNCHANGED <<usage, attempted, totals, rollup, script, ingest>>

Remaining(a) == [e \in DOMAIN usage \ admin[a].victims |-> usage[e]]
Affected(a)  == {EventRows[e].session : e \in admin[a].victims}

\* _rebuild_session_aggregates reads one row for every affected session that
\* has an event left ...
SumSessions(a) ==
    /\ admin[a].pc = "sum"
    /\ LET left == {s \in Affected(a) : InSessionOf(Remaining(a), s) # {}}
       IN  admin' = [admin EXCEPT ![a].pc = "write",
                                  ![a].sums = [s \in left |-> SumOf(Remaining(a), InSessionOf(Remaining(a), s))]]
    /\ UNCHANGED <<usage, attempted, totals, rollup, script, ingest>>

\* ... and writes it.
WriteSession(a, s) ==
    /\ admin[a].pc = "write" /\ s \in DOMAIN admin[a].sums \ admin[a].written
    /\ \A x \in Admins \ {a} : s \notin LockedSessions(x)
    /\ admin' = [admin EXCEPT ![a].written = @ \cup {s}]
    /\ UNCHANGED <<usage, attempted, totals, rollup, script, ingest>>

\* Mutant: the aggregates are not rebuilt.
CommitReconciliation_NoRebuild(a) ==
    /\ admin[a].pc = "write" /\ admin[a].written = DOMAIN admin[a].sums
    /\ usage' = Remaining(a)
    /\ attempted' = attempted \ admin[a].victims
    /\ admin' = [x \in Admins |-> IF x = a THEN [admin[a] EXCEPT !.pc = "committed"]
                                  ELSE IF admin[x].pc = "idle" THEN admin[x] ELSE [admin[x] EXCEPT !.calm = FALSE]]
    /\ script' = IF script.pc = "idle" THEN script ELSE [script EXCEPT !.calm = FALSE]
    /\ UNCHANGED <<totals, rollup, ingest>>

CommitReconciliation(a) ==
    /\ admin[a].pc = "write" /\ admin[a].written = DOMAIN admin[a].sums
    /\ usage' = Remaining(a)
    /\ attempted' = attempted \ admin[a].victims
    /\ totals' = [s \in HistSessions |-> IF s \in DOMAIN admin[a].sums THEN admin[a].sums[s] ELSE totals[s]]
    /\ admin' = [x \in Admins |-> IF x = a THEN [admin[a] EXCEPT !.pc = "committed"]
                                  ELSE IF admin[x].pc = "idle" THEN admin[x] ELSE [admin[x] EXCEPT !.calm = FALSE]]
    /\ script' = IF script.pc = "idle" THEN script ELSE [script EXCEPT !.calm = FALSE]
    /\ UNCHANGED <<rollup, ingest>>

AnswerRequest(a) ==
    /\ admin[a].pc = "committed"
    /\ admin' = [admin EXCEPT ![a] = NoRequest]
    /\ UNCHANGED <<usage, attempted, totals, rollup, script, ingest>>

-----------------------------------------------------------------------------
(* Ingest.                                                                 *)

Disturbs ==
    /\ admin' = [x \in Admins |-> IF admin[x].pc = "idle" THEN admin[x] ELSE [admin[x] EXCEPT !.calm = FALSE]]
    /\ script' = IF script.pc = "idle" THEN script ELSE [script EXCEPT !.calm = FALSE]

SessionFree(e) == \A x \in Admins : EventRows[e].session \notin LockedSessions(x)

\* The transaction of the legacy record: the session counts the record, its
\* event follows in a transaction of its own.
CountRecord(e) ==
    /\ ingest.steps < MaxBookings
    /\ \A x \in DOMAIN usage \cup ingest.counted : EventRows[x].record # EventRows[e].record
    /\ SessionFree(e)
    /\ totals' = [totals EXCEPT ![EventRows[e].session] = @ + EventRows[e].tokens]
    /\ ingest' = [steps |-> ingest.steps + 1, counted |-> ingest.counted \cup {e}]
    /\ Disturbs
    /\ UNCHANGED <<usage, attempted, rollup>>

AddToRollup(b, n) ==
    IF b = None THEN rollup
    ELSE [x \in DOMAIN rollup \cup {b} |-> IF x # b THEN rollup[x]
             ELSE n + (IF b \in DOMAIN rollup THEN rollup[b] ELSE 0)]

BookEvent(e) ==
    /\ e \in ingest.counted
    /\ usage' = [x \in DOMAIN usage \cup {e} |-> IF x = e THEN EventRows[e].tokens ELSE usage[x]]
    /\ attempted' = attempted \cup {e}
    /\ rollup' = AddToRollup(EventRows[e].bucket, EventRows[e].tokens)
    /\ ingest' = [ingest EXCEPT !.counted = @ \ {e}]
    /\ Disturbs
    /\ UNCHANGED totals

\* apply_replay_merge of a replay with one token more.
MergeReplay(e) ==
    /\ ingest.steps < MaxBookings
    /\ e \in DOMAIN usage
    /\ SessionFree(e) /\ \A x \in Admins : e \notin DeletedBy(x)
    /\ usage' = [usage EXCEPT ![e] = @ + 1]
    /\ attempted' = attempted \cup {e}
    /\ totals' = [totals EXCEPT ![EventRows[e].session] = @ + 1]
    /\ rollup' = AddToRollup(EventRows[e].bucket, 1)
    /\ ingest' = [ingest EXCEPT !.steps = @ + 1]
    /\ Disturbs

-----------------------------------------------------------------------------
(* The rollup script.                                                      *)

\* EVENT_AGGREGATE_SQL
EventAggregate == [b \in {x \in HistBuckets : BackedBy(x) # {}} |-> SumOf(usage, BackedBy(b))]

\* DISAGREEMENT_JOIN_SQL: a full outer join.
DisagreeingBuckets(g) ==
    {b \in DOMAIN g \cup DOMAIN rollup : b \notin DOMAIN g \cap DOMAIN rollup \/ rollup[b] # g[b]}

CountMismatches(limit) ==
    /\ script.pc = "idle"
    /\ DisagreeingBuckets(EventAggregate) # {}
    /\ script' = [pc |-> "upsert", limit |-> limit, plan |-> <<>>, code |-> 0, calm |-> TRUE]
    /\ UNCHANGED <<usage, attempted, totals, rollup, admin, ingest>>

\* The upsert's SELECT sees one snapshot; at most limit groups are taken.
RunBackfill ==
    /\ script.pc = "upsert"
    /\ LET g == EventAggregate
           wrong == {b \in DOMAIN g : b \notin DOMAIN rollup \/ rollup[b] # g[b]}
       IN  \E chosen \in SUBSET wrong :
              /\ script.limit = None => chosen = wrong
              /\ script.limit # None => Cardinality(chosen) = IF Cardinality(wrong) < script.limit THEN Cardinality(wrong) ELSE script.limit
              /\ script' = [script EXCEPT !.pc = "rows", !.plan = [b \in chosen |-> g[b]]]
    /\ UNCHANGED <<usage, attempted, totals, rollup, admin, ingest>>

\* ON CONFLICT DO UPDATE replaces the row as it is by then.
UpsertRollup ==
    /\ script.pc = "rows"
    /\ rollup' = [b \in DOMAIN rollup \cup DOMAIN script.plan |-> IF b \in DOMAIN script.plan THEN script.plan[b] ELSE rollup[b]]
    /\ script' = [script EXCEPT !.pc = "stale"]
    /\ UNCHANGED <<usage, attempted, totals, admin, ingest>>

DeleteStaleRows ==
    /\ script.pc = "stale"
    /\ rollup' = [b \in DOMAIN rollup \cap DOMAIN EventAggregate |-> rollup[b]]
    /\ script' = [script EXCEPT !.pc = "verify"]
    /\ UNCHANGED <<usage, attempted, totals, admin, ingest>>

VerifyRollup ==
    /\ script.pc = "verify"
    /\ script' = [script EXCEPT !.pc = "exit", !.code = IF DisagreeingBuckets(EventAggregate) = {} THEN 0 ELSE 1]
    /\ UNCHANGED <<usage, attempted, totals, rollup, admin, ingest>>

ScriptEnds ==
    /\ script.pc = "exit"
    /\ script' = [pc |-> "idle"]
    /\ UNCHANGED <<usage, attempted, totals, rollup, admin, ingest>>

-----------------------------------------------------------------------------
HistNext ==
    \/ \E a \in Admins, scope \in Scopes : Scan(a, scope)
    \/ \E a \in Admins : \/ LockAndRescan(a) \/ NullAttempts(a) \/ DeleteEvents(a) \/ SumSessions(a)
                         \/ CommitReconciliation(a) \/ Rollback(a) \/ AnswerRequest(a)
                         \/ \E s \in HistSessions : WriteSession(a, s)
    \/ \E e \in DOMAIN EventRows : CountRecord(e) \/ BookEvent(e) \/ MergeReplay(e)
    \/ \E limit \in {None, 1} : CountMismatches(limit)
    \/ RunBackfill \/ UpsertRollup \/ DeleteStaleRows \/ VerifyRollup \/ ScriptEnds

HistSpec == HistInit /\ [][HistNext]_histVars

-----------------------------------------------------------------------------
(* Properties.                                                             *)

\* A record that was booked stays booked: reconciliations of overlapping
\* scopes, which hold different locks, never delete all its events between
\* them, whatever replays change meanwhile.
RecordsAreKept ==
    \A e \in OldEvents : \E x \in DOMAIN usage : EventRows[x].record = EventRows[e].record

\* A reconciliation nothing interfered with leaves one event of every record
\* in its scope, and the totals of the sessions it took events from, as far
\* as they have any left, are the sums of what is left.
UndisturbedReconciliationIsExact ==
    \A a \in Admins : admin[a].pc = "committed" /\ admin[a].calm =>
        /\ ScanDuplicateGroups(admin[a].scope) = {}
        /\ \A s \in Affected(a) : InSessionOf(usage, s) # {} => totals[s] = SumOf(usage, InSessionOf(usage, s))

\* The script, undisturbed and unlimited, repairs whatever drift it finds,
\* the one a reconciliation left included, and says so; and when it says
\* so and nothing happened since, the rollup is the sum of the events.
UndisturbedBackfillRepairs ==
    script.pc = "exit" /\ script.calm =>
        /\ script.limit = None => script.code = 0
        /\ script.code = 0 => rollup = EventAggregate

\* Each of the two repairs, undisturbed, leaves sums of what is stored:
\* the reconciliation for the sessions, the script for the rollup.
RepairsAreExact == UndisturbedReconciliationIsExact /\ UndisturbedBackfillRepairs
=============================================================================
