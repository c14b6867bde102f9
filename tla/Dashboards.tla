----------------------------- MODULE Dashboards -----------------------------
(***************************************************************************)
(* The two daily read models: afk_dashboard_daily, keyed by day, provider  *)
(* and repository, and usage_dashboard_daily, keyed by day and provider.   *)
(* Both are written only by jobs outside the gateway: the scheduled refresh*)
(* of recent days and the operator's backfill of a window.  A job finds    *)
(* the buckets with activity, and recomputes them one by one, each in a    *)
(* transaction that holds the bucket's advisory lock while it runs the     *)
(* queries (every query with a snapshot of its own) and replaces the row.  *)
(*                                                                         *)
(* A bucket is <<day, owner>>: the owner stands for provider and repository*)
(* of the first table, for the provider in the second, and is None where   *)
(* the column is NULL.  The five token columns are one, tokens.            *)
(***************************************************************************)
EXTENDS Values, Integers, Sequences, FiniteSets, Functions

CONSTANTS
    DashJobs,     \* the job processes, each of which runs once
    Plans,        \* what an operator or the scheduler starts:
                  \* [kind, table, lo, hi], lo..hi the window of days
    FactUniverse, \* the canonical rows the writers may produce
    Seeded,       \* the canonical rows at the start
    Month(_),     \* the month of a day
    Int4Max,      \* the largest value of an integer column
    MaxFactSteps  \* bound on what the writers do

VARIABLES
    facts,     \* rows of afk_runs, engineering_events, execution_bindings,
               \* afk_run_sessions and usage_events
    daily,     \* table -> bucket -> metrics, or None
    dashJob,   \* job process -> what it is doing
    locks,     \* the advisory locks that are held: <<lock, holder>>
    factSteps  \* what the writers did so far

dashVars == <<facts, daily, dashJob, locks, factSteps>>

Tables == {"afk", "usage"}
AfkColumns == {"runs", "opened", "merged", "closed", "executions", "successful", "failed", "cancelled",
               "sessions", "tokens"}
UsageColumns == {"tokens", "records"}

ASSUME DashAssumption ==
    /\ Int4Max \in Nat /\ MaxFactSteps \in Nat
    /\ Seeded \subseteq FactUniverse /\ IsFiniteSet(Seeded)
    /\ \A f \in FactUniverse : f.kind = "usage" => f.tokens \in Int
    /\ \A p \in Plans : p.kind \in {"refresh", "backfill", "verify"} /\ p.table \in Tables
    /\ None \notin [AfkColumns -> Int] \cup [UsageColumns -> Int]

Of(kind) == {f \in facts : f.kind = kind}
Owners == {f.owner : f \in {g \in FactUniverse : g.kind \in {"run", "event", "binding"}}}
            \cup {f.provider : f \in {g \in FactUniverse : g.kind = "usage"}}
Buckets == {f.day : f \in FactUniverse} \X Owners

-----------------------------------------------------------------------------
(* The canonical aggregation.                                              *)

\* The session belongs to exactly one run.
Unambiguous(s) ==
    s # None /\ Cardinality({l.run : l \in {m \in Of("link") : m.session = s}}) = 1

\* The run a link or a usage event counts for.
ReachedRuns(f) ==
    IF Unambiguous(f.session)
    THEN {r \in Of("run") : \E l \in Of("link") : l.session = f.session /\ l.run = r.id} ELSE {}

\* The buckets a canonical row counts in, a row without owner in none.
AfkCountsIn(f) ==
    IF f.kind \in {"run", "event", "binding"} THEN {<<f.day, f.owner>>} \ {<<f.day, None>>}
    ELSE {<<f.day, r.owner>> : r \in {r \in ReachedRuns(f) : r.owner # None}}

UsageCountsIn(f) == IF f.kind = "usage" THEN {<<f.day, f.provider>>} ELSE {}

CountsIn(table, f) == IF table = "afk" THEN AfkCountsIn(f) ELSE UsageCountsIn(f)

CanonicalBuckets(table) == UNION {CountsIn(table, f) : f \in facts}

Tokens(S) == SumFunctionOnSet([f \in S |-> f.tokens], S)

\* The queries of one recomputation; "= $2" is never true of NULL.
In(table, kind, b) == {f \in Of(kind) : b \in CountsIn(table, f) /\ b[2] # None}
Having(kind, type, b) == Cardinality({f \in In("afk", kind, b) : f.type = type})

RunsQuery(b) == [runs |-> Cardinality(In("afk", "run", b))]

ChangeRequestQuery(b) ==
    [opened |-> Having("event", "opened", b), merged |-> Having("event", "merged", b),
     closed |-> Having("event", "closed", b)]

ExecutionQuery(b) ==
    [executions |-> Cardinality(In("afk", "binding", b)), successful |-> Having("binding", "completed", b),
     failed |-> Having("binding", "failed", b), cancelled |-> Having("binding", "cancelled", b)]

SessionQuery(b) == [sessions |-> Cardinality(In("afk", "link", b))]

UsageQuery(b) == [tokens |-> Tokens(In("afk", "usage", b))]

UsageRecordsQuery(b) ==
    [tokens |-> Tokens(In("usage", "usage", b)), records |-> Cardinality(In("usage", "usage", b))]

Queries(table) == IF table = "afk" THEN <<"runs", "events", "bindings", "links", "usage">>
                                   ELSE <<"records">>

Query(table, q, b) ==
    CASE q = "runs"     -> RunsQuery(b)
      [] q = "events"   -> ChangeRequestQuery(b)
      [] q = "bindings" -> ExecutionQuery(b)
      [] q = "links"    -> SessionQuery(b)
      [] q = "usage"    -> UsageQuery(b)
      [] q = "records"  -> UsageRecordsQuery(b)

Overflows(table, q, b) == \E c \in DOMAIN Query(table, q, b) : Query(table, q, b)[c] > Int4Max

\* The columns of two queries in one row.
Joined(f, g) == [c \in DOMAIN f \cup DOMAIN g |-> IF c \in DOMAIN f THEN f[c] ELSE g[c]]

\* What the verification statement computes for a bucket, in one snapshot.
Aggregate(table, b) ==
    IF table = "afk"
    THEN Joined(UsageQuery(b), Joined(SessionQuery(b), Joined(ExecutionQuery(b),
           Joined(ChangeRequestQuery(b), RunsQuery(b)))))
    ELSE UsageRecordsQuery(b)

InWindow(b, plan) == b[1] \in plan.lo..plan.hi

\* The rows of the FULL OUTER JOIN: a stored row that is missing, stale or
\* different.
Disagreements(table, plan) ==
    LET canonical == CanonicalBuckets(table) IN
    {b \in Buckets : InWindow(b, plan) /\
        \/ (daily[table][b] # None) # (b \in canonical)
        \/ b \in canonical /\ daily[table][b] # Aggregate(table, b)}

\* The stored rows the stale delete removes.
StaleRows(table, plan) ==
    LET canonical == CanonicalBuckets(table) IN
    {b \in Buckets : InWindow(b, plan) /\ daily[table][b] # None /\ b \notin canonical}

\* The sum of a column over a period, None without rows.
PeriodSum(table, plan, p, owner, column) ==
    LET rows == {b \in Buckets : /\ InWindow(b, plan) /\ daily[table][b] # None
                                 /\ Month(b[1]) = p /\ b[2] = owner}
    IN  IF rows = {} THEN None ELSE SumFunctionOnSet([b \in rows |-> daily[table][b][column]], rows)

\* One bucket of either summary endpoint.
AfkSummary(plan, p, owner, column) == PeriodSum("afk", plan, p, owner, column)
UsageSummary(plan, p, owner, column) == PeriodSum("usage", plan, p, owner, column)

-----------------------------------------------------------------------------
(* The writers of the canonical tables, modelled by other modules: a row   *)
(* appears, changes (PATCH of a run, a terminal outcome, a corrected       *)
(* usage record), or goes (a deleted run takes its links along).           *)

SameRow(f, g) == f.kind = g.kind /\ f.id = g.id

Write(new) ==
    /\ factSteps < MaxFactSteps
    /\ factSteps' = factSteps + 1
    /\ facts' = new
    /\ dashJob' = [j \in DashJobs |-> [dashJob[j] EXCEPT !.undisturbed = FALSE]]
    /\ UNCHANGED <<daily, locks>>

RecordFact == \E f \in FactUniverse : ~(\E g \in facts : SameRow(f, g)) /\ Write(facts \cup {f})

ReviseFact == \E f \in facts, g \in FactUniverse :
    SameRow(f, g) /\ f # g /\ f.kind # "event" /\ Write((facts \ {f}) \cup {g})

RetractFact == \E f \in facts :
    /\ f.kind \in {"run", "usage"}
    /\ Write(facts \ ({f} \cup {l \in Of("link") : f.kind = "run" /\ l.run = f.id}))

-----------------------------------------------------------------------------
(* The jobs.                                                               *)

NoPlan == [kind |-> "none", table |-> "afk", lo |-> 1, hi |-> 0]
Asleep == [plan |-> NoPlan, pc |-> "idle", todo |-> {}, bucket |-> None,
           query |-> 0, metrics |-> <<>>, undisturbed |-> TRUE]

RefreshLock == <<"aggregate", 0, None>>  \* AGGREGATE_LOCK_CLASS, DAILY_REFRESH_LOCK_KEY
BucketLock(table, b) == <<table, b[1], b[2]>>

\* Mutant: the bucket's lock is not waited for.
Free_Ignored(lock) == lock # RefreshLock \/ ~(\E h \in locks : h[1] = lock)

Free(lock) == ~(\E h \in locks : h[1] = lock)

Goto(j, pc) == dashJob' = [dashJob EXCEPT ![j].pc = pc]

\* main of a refresh: when the refresh lock is taken it returns 0 at once.
StartRefresh(j) ==
    /\ dashJob[j].pc = "idle"
    /\ \E plan \in {p \in Plans : p.kind = "refresh"} :
        dashJob' = [dashJob EXCEPT ![j] =
            [Asleep EXCEPT !.plan = plan, !.pc = IF Free(RefreshLock) THEN "discover" ELSE "skipped"]]
    /\ locks' = IF Free(RefreshLock) THEN locks \cup {<<RefreshLock, j>>} ELSE locks
    /\ UNCHANGED <<facts, daily, factSteps>>

\* main of a backfill, with or without --verify, takes no such lock.
StartBackfill(j) ==
    /\ dashJob[j].pc = "idle"
    /\ \E plan \in {p \in Plans : p.kind # "refresh"} :
        dashJob' = [dashJob EXCEPT ![j] = [Asleep EXCEPT !.plan = plan, !.pc = "discover"]]
    /\ UNCHANGED <<facts, daily, locks, factSteps>>

\* The discovery query; --verify and --dry-run only count and report.
Discover(j) ==
    LET job == dashJob[j] IN
    /\ job.pc = "discover"
    /\ dashJob' = [dashJob EXCEPT ![j].todo =
                     {b \in CanonicalBuckets(job.plan.table) : InWindow(b, job.plan)},
                   ![j].pc = IF job.plan.kind = "verify"
                             THEN IF Disagreements(job.plan.table, job.plan) = {}
                                  THEN "ok" ELSE "mismatch"
                             ELSE "next"]
    /\ UNCHANGED <<facts, daily, locks, factSteps>>

\* ORDER BY day, provider, repository: NULL comes last.
Before(b, c) == b[1] < c[1] \/ (b[1] = c[1] /\ (b[2] # None \/ c[2] = None))

\* BEGIN and pg_advisory_xact_lock for the next bucket.
LockBucket(j) ==
    LET job == dashJob[j] IN
    /\ job.pc = "next"
    /\ \E b \in job.todo :
        /\ \A c \in job.todo : Before(b, c)
        /\ Free(BucketLock(job.plan.table, b))
        /\ locks' = locks \cup {<<BucketLock(job.plan.table, b), j>>}
        /\ dashJob' = [dashJob EXCEPT ![j].bucket = b, ![j].query = 1,
                                      ![j].metrics = <<>>, ![j].pc = "compute"]
    /\ UNCHANGED <<facts, daily, factSteps>>

\* One query of compute_bucket_metrics.  A sum beyond the column's integer
\* raises, which rolls back and ends the job; finally releases its locks.
Compute(j) ==
    LET job == dashJob[j]
        q == Queries(job.plan.table)[job.query]
    IN
    /\ job.pc = "compute"
    /\ IF Overflows(job.plan.table, q, job.bucket)
       THEN /\ Goto(j, "error")
            /\ locks' = {h \in locks : h[2] # j}
       ELSE /\ dashJob' = [dashJob EXCEPT
                 ![j].metrics = Joined(Query(job.plan.table, q, job.bucket), job.metrics),
                 ![j].query = job.query + 1,
                 ![j].pc = IF job.query = Len(Queries(job.plan.table)) THEN "upsert" ELSE "compute"]
            /\ UNCHANGED locks
    /\ UNCHANGED <<facts, daily, factSteps>>

\* Mutant: the upsert adds to the row instead of replacing it.
UpsertBucket_Adds(j) ==
    LET job == dashJob[j]
        t == job.plan.table
        b == job.bucket
        old == daily[t][b]
    IN
    /\ job.pc = "upsert" /\ b[2] # None
    /\ daily' = [daily EXCEPT ![t][b] =
         IF old = None THEN job.metrics ELSE [c \in DOMAIN old |-> old[c] + job.metrics[c]]]
    /\ locks' = locks \ {<<BucketLock(t, b), j>>}
    /\ dashJob' = [i \in DashJobs |->
         IF i = j THEN [job EXCEPT !.todo = job.todo \ {b}, !.pc = "next"]
         ELSE [dashJob[i] EXCEPT !.undisturbed = FALSE]]
    /\ UNCHANGED <<facts, factSteps>>

\* upsert_bucket and COMMIT: the whole row is replaced and the bucket's lock
\* released; the primary key admits no NULL.
UpsertBucket(j) ==
    LET job == dashJob[j]
        t == job.plan.table
        b == job.bucket
    IN
    /\ job.pc = "upsert"
    /\ IF b[2] = None
       THEN /\ Goto(j, "error")
            /\ locks' = {h \in locks : h[2] # j}
            /\ UNCHANGED daily
       ELSE /\ daily' = [daily EXCEPT ![t][b] = job.metrics]
            /\ locks' = locks \ {<<BucketLock(t, b), j>>}
            /\ dashJob' = [i \in DashJobs |->
                 IF i = j THEN [job EXCEPT !.todo = job.todo \ {b}, !.pc = "next"]
                 ELSE [dashJob[i] EXCEPT !.undisturbed = FALSE]]
    /\ UNCHANGED <<facts, factSteps>>

\* A refresh ends after its last bucket and never looks for stale rows.
EndRefresh(j) ==
    /\ dashJob[j].pc = "next" /\ dashJob[j].todo = {} /\ dashJob[j].plan.kind = "refresh"
    /\ Goto(j, "ok")
    /\ locks' = locks \ {<<RefreshLock, j>>}
    /\ UNCHANGED <<facts, daily, factSteps>>

\* The stale delete of a backfill waits for no bucket's lock.
DeleteStale(j) ==
    LET job == dashJob[j]
        t == job.plan.table
        gone == StaleRows(t, job.plan)
    IN
    /\ job.pc = "next" /\ job.todo = {} /\ job.plan.kind = "backfill"
    /\ daily' = [daily EXCEPT ![t] = [b \in Buckets |-> IF b \in gone THEN None ELSE @[b]]]
    /\ dashJob' = [i \in DashJobs |->
         IF i = j THEN [job EXCEPT !.pc = "verify"]
         ELSE [dashJob[i] EXCEPT !.undisturbed = @ /\ gone = {}]]
    /\ UNCHANGED <<facts, locks, factSteps>>

\* The count of the remaining disagreements decides the exit code.
Verify(j) ==
    /\ dashJob[j].pc = "verify"
    /\ Goto(j, IF Disagreements(dashJob[j].plan.table, dashJob[j].plan) = {} THEN "ok" ELSE "mismatch")
    /\ UNCHANGED <<facts, daily, locks, factSteps>>

\* The process is killed: its connection goes, and with it its locks.
KillJob(j) ==
    /\ dashJob[j].pc \in {"next", "compute", "upsert"}
    /\ Goto(j, "killed")
    /\ locks' = {h \in locks : h[2] # j}
    /\ UNCHANGED <<facts, daily, factSteps>>

DashInit ==
    /\ facts = Seeded
    /\ daily = [t \in Tables |-> [b \in Buckets |-> None]]
    /\ dashJob = [j \in DashJobs |-> Asleep]
    /\ locks = {}
    /\ factSteps = 0

DashNext ==
    \/ RecordFact \/ ReviseFact \/ RetractFact
    \/ \E j \in DashJobs : \/ StartRefresh(j) \/ StartBackfill(j) \/ Discover(j) \/ LockBucket(j) \/ Compute(j)
                           \/ UpsertBucket(j) \/ EndRefresh(j) \/ DeleteStale(j) \/ Verify(j)
                           \/ KillJob(j)

DashSpec == DashInit /\ [][DashNext]_dashVars

-----------------------------------------------------------------------------
(* Properties.                                                             *)

\* An event that the dashboard has counted stays counted: a recomputation
\* that read the tables earlier never overwrites a later one, whatever jobs
\* overlap or are killed (engineering_events is append only, so its counts
\* may only grow while the row exists).
CountedStaysCounted ==
    [][\A b \in Buckets : daily["afk"][b] # None /\ daily'["afk"][b] # None =>
          \A c \in {"opened", "merged", "closed"} : daily'["afk"][b][c] >= daily["afk"][b][c]]_dashVars

\* A backfill that nobody disturbed ends with its window verified, and a
\* refresh leaves every bucket with activity exact, unless an error ended it.
UndisturbedJobAgrees ==
    \A j \in DashJobs :
        LET job == dashJob[j] IN
        job.undisturbed /\ job.pc \in {"ok", "mismatch"} =>
            CASE job.plan.kind = "refresh" ->
                   \A b \in CanonicalBuckets(job.plan.table) :
                      InWindow(b, job.plan) => daily[job.plan.table][b] = Aggregate(job.plan.table, b)
              [] job.plan.kind = "backfill" -> job.pc = "ok"
              [] OTHER -> TRUE

\* When the verification of a job's window would be silent, every monthly
\* figure of the summary is the figure the canonical tables give for it.
VerifiedSummaryIsExact ==
    \A plan \in {dashJob[j].plan : j \in DashJobs} : Disagreements(plan.table, plan) = {} =>
        \A b \in CanonicalBuckets(plan.table) : InWindow(b, plan) =>
            LET period == {d \in CanonicalBuckets(plan.table) :
                             InWindow(d, plan) /\ Month(d[1]) = Month(b[1]) /\ d[2] = b[2]}
            IN  \A c \in DOMAIN Aggregate(plan.table, b) :
                  (IF plan.table = "afk" THEN AfkSummary(plan, Month(b[1]), b[2], c)
                                         ELSE UsageSummary(plan, Month(b[1]), b[2], c)) =
                      SumFunctionOnSet([d \in period |-> Aggregate(plan.table, d)[c]], period)

\* What the jobs promise: exact rows when undisturbed, and a verification
\* whose silence means an exact summary.
DashboardsAreExact == UndisturbedJobAgrees /\ VerifiedSummaryIsExact
=============================================================================
