------------------------- MODULE TranscriptRetention -------------------------
(***************************************************************************)
(* scripts/retention_transcripts.py: the scheduled job that deletes old    *)
(* tool calls, parts and messages, children first, in bounded batches that *)
(* commit one by one, while ingest goes on adding parts to messages.       *)
(*                                                                         *)
(* A row has its table, its source time (which may be NULL) and the part   *)
(* and the message it refers to.  The foreign keys do not cascade.         *)
(***************************************************************************)
EXTENDS Values, Integers, FiniteSets, Sequences

CONSTANTS TranscriptStarts,  \* the tables a run may find: functions from row ids to rows
          LateParts,         \* the parts ingest may add: a function from row ids to rows
          Cutoffs,           \* now minus the retention window, by table
          BatchSize,
          Limits             \* values of --limit, None when it is not given

TranscriptTables == TranscriptStarts \cup {LateParts}

\* --limit and --batch-size are at least 1.  The foreign keys go from tool
\* calls to parts and messages, and from parts to messages.
ASSUME RetentionAssumption ==
    /\ BatchSize \in Nat \ {0} /\ Limits \subseteq (Nat \ {0}) \cup {None} /\ None \notin Nat
    /\ \A s \in TranscriptTables :
         /\ IsFiniteSet(DOMAIN s)
         /\ \A r \in DOMAIN s : s[r].table \in {"observed_tool_calls", "observed_parts", "observed_messages"}
    /\ \A s, t \in TranscriptTables : \A x \in DOMAIN s, r \in DOMAIN t :
         /\ s[x].part = r => s[x].table = "observed_tool_calls" /\ t[r].table = "observed_parts"
         /\ s[x].message = r => s[x].table # "observed_messages" /\ t[r].table = "observed_messages"

VARIABLES transcripts,  \* the rows of the three tables
          retention     \* the run of the job
retentionVars == <<transcripts, retention>>

\* Mutant: messages are dealt with before what refers to them.
TRANSCRIPT_TABLES_ParentsFirst == <<"observed_messages", "observed_parts", "observed_tool_calls">>

TRANSCRIPT_TABLES == <<"observed_tool_calls", "observed_parts", "observed_messages">>

Referring(rows, r) == {x \in DOMAIN rows : rows[x].part = r \/ rows[x].message = r}

\* source_created_at_tz < cutoff, which is not true of a NULL.
Expired(rows, r) == rows[r].at # None /\ rows[r].at < Cutoffs[rows[r].table]

\* NOT EXISTS against every table that refers to this one.
Eligible(table) ==
    {r \in DOMAIN transcripts : /\ transcripts[r].table = table
                                /\ Expired(transcripts, r)
                                /\ Referring(transcripts, r) = {}}

Least(a, b) == IF a < b THEN a ELSE b
\* What a budget that may be absent leaves of n rows.
Within(n, remaining) == IF remaining = None THEN n ELSE Least(n, remaining)
Spend(remaining, n)  == IF remaining = None THEN None ELSE remaining - n

-----------------------------------------------------------------------------
NoRetention == [pc |-> "none"]

RetentionInit ==
    /\ transcripts \in TranscriptStarts
    /\ retention = NoRetention

\* before and calm are kept for the properties: what the run found, and
\* whether ingest has added a row since.
StartRetention(limit, dry) ==
    /\ retention.pc \in {"none", "done", "failed", "killed"}
    /\ retention' = [pc |-> "table", dry |-> dry, limit |-> limit, remaining |-> limit, table |-> 1, batch |-> {},
                     counted |-> 0, before |-> transcripts, calm |-> TRUE]
    /\ UNCHANGED transcripts

InTable(pc) == retention.pc = pc /\ retention.table <= Len(TRANSCRIPT_TABLES)
Table  == TRANSCRIPT_TABLES[retention.table]

\* --dry-run: one count per table.
CountTable ==
    /\ InTable("table") /\ retention.dry
    /\ LET n == Within(Cardinality(Eligible(Table)), retention.remaining)
       IN  retention' = [retention EXCEPT !.counted = @ + n, !.remaining = Spend(@, n), !.table = @ + 1]
    /\ UNCHANGED transcripts

\* The limit is used up: this table is skipped, and every later one.
SkipTable ==
    /\ InTable("table") /\ ~ retention.dry
    /\ retention.remaining # None /\ retention.remaining <= 0
    /\ retention' = [retention EXCEPT !.table = @ + 1]
    /\ UNCHANGED transcripts

\* The subselect of the DELETE: any rows up to LIMIT, in no order.
SelectBatch ==
    /\ InTable("table") /\ ~ retention.dry
    /\ retention.remaining # None => retention.remaining > 0
    /\ \E batch \in SUBSET Eligible(Table) :
          /\ Cardinality(batch) = Least(Cardinality(Eligible(Table)), Within(BatchSize, retention.remaining))
          /\ retention' = [retention EXCEPT !.batch = batch, !.pc = "delete"]
    /\ UNCHANGED transcripts

Without(rows, gone) == [r \in DOMAIN rows \ gone |-> rows[r]]

\* After a batch of n rows: a short one means the table is done.
AfterBatch(n) ==
    [retention EXCEPT !.pc = "table", !.batch = {}, !.remaining = Spend(@, n),
                      !.table = IF n < Within(BatchSize, retention.remaining) THEN @ + 1 ELSE @]

\* The DELETE itself.  A row that something refers to by now is a foreign-key
\* violation: the statement is undone and the script ends with the error.
DeleteBatch ==
    /\ InTable("delete")
    /\ \/ /\ \A r \in retention.batch : Referring(transcripts, r) = {}
          /\ transcripts' = Without(transcripts, retention.batch)
          /\ retention' = AfterBatch(Cardinality(retention.batch))
       \/ /\ \E r \in retention.batch : Referring(transcripts, r) # {}
          /\ retention' = [retention EXCEPT !.pc = "failed"]
          /\ UNCHANGED transcripts

ReportRetention ==
    /\ retention.pc = "table" /\ retention.table > Len(TRANSCRIPT_TABLES)
    /\ retention' = [retention EXCEPT !.pc = "done"]
    /\ UNCHANGED transcripts

\* The script dies between two batches; what it has committed stays.
KillRetention ==
    /\ retention.pc \in {"table", "delete"}
    /\ retention' = [retention EXCEPT !.pc = "killed"]
    /\ UNCHANGED transcripts

\* Ingest resolves the message of a part and inserts the part; a message that
\* is deleted in between is a foreign-key violation and the part is refused.
LatePart(x) ==
    /\ x \notin DOMAIN transcripts
    /\ LateParts[x].message \in DOMAIN transcripts \cup {None}
    /\ transcripts' = [r \in DOMAIN transcripts \cup {x} |-> IF r = x THEN LateParts[x] ELSE transcripts[r]]
    /\ retention' = IF retention.pc = "none" THEN retention ELSE [retention EXCEPT !.calm = FALSE]

RetentionNext ==
    \/ \E limit \in Limits, dry \in BOOLEAN : StartRetention(limit, dry)
    \/ CountTable \/ SkipTable \/ SelectBatch \/ DeleteBatch \/ ReportRetention \/ KillRetention
    \/ \E x \in DOMAIN LateParts : LatePart(x)

RetentionSpec == RetentionInit /\ [][RetentionNext]_retentionVars

-----------------------------------------------------------------------------
\* A row that is not older than its own table's window, or has no time, is
\* never deleted, also when it arrives while the row it refers to is being
\* deleted (retention_transcripts.py: windows per table, ON DELETE NO ACTION).
RecentTranscriptsStay ==
    \A r \in DOMAIN transcripts \ DOMAIN transcripts' : Expired(transcripts, r)

\* The rows that are too old together with everything that refers to them.
Family(rows, r) == {r} \cup Referring(rows, r) \cup UNION {Referring(rows, x) : x \in Referring(rows, r)}
Doomed(rows)    == {r \in DOMAIN rows : \A x \in Family(rows, r) : Expired(rows, x)}

\* A run that ingest leaves alone ends without a foreign-key error.  It has
\* then deleted exactly the rows that are too old together with everything
\* that refers to them, or as many of them as its limit allows; a dry run has
\* deleted nothing and promised no more than that.
UndisturbedRetentionIsExact ==
    retention.pc \in {"done", "failed"} /\ retention.calm =>
        LET doomed == Doomed(retention.before)
            gone == DOMAIN retention.before \ DOMAIN transcripts
        IN  /\ retention.pc = "done"
            /\ retention.dry => gone = {} /\ retention.counted <= Within(Cardinality(doomed), retention.limit)
            /\ ~ retention.dry => /\ gone \subseteq doomed
                                  /\ Cardinality(gone) = Within(Cardinality(doomed), retention.limit)

\* Retention deletes what it should, and nothing else whatever arrives: no step
\* removes a recent row, and none ends an undisturbed run short of its promise.
RetentionIsExact == [][UndisturbedRetentionIsExact' /\ RecentTranscriptsStay]_retentionVars
=============================================================================
