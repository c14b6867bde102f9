---------------------------- MODULE UsageQueries ----------------------------
(***************************************************************************)
(* The read side of app/api/usage.py: totals and groups of usage_events,   *)
(* and the hybrid answer from client_project_rollup.                       *)
(*                                                                         *)
(* An operator takes the tables as one record db:                          *)
(*   events   : {[id, client, session, model, project or None,             *)
(*              provider or None, day, tokens]}                            *)
(*   sessions : {[id, source, name, parent or None, project or None,       *)
(*              agent or None]}                                            *)
(*   projects : opencode_source_projects, {[source, client, project,       *)
(*              label]}, label being what the COALESCE of names, worktree  *)
(*              and id yields                                              *)
(*   rollup   : {[client, project, day, tokens]}                           *)
(* A filter is [client, model, session, lo, hi], None where not given.     *)
(***************************************************************************)
EXTENDS Values, Integers, Sequences, FiniteSets, FiniteSetsExt

Unknown == "unknown"

SessionOf(db, e) == CHOOSE s \in db.sessions : s.id = e.session

Tokens(S) == SumFunction([x \in S |-> x.tokens])

\* _build_aggregate_filters.
Selected(db, f) ==
    {e \in db.events : /\ e.day \in f.lo..f.hi
                       /\ f.client \in {None, e.client}
                       /\ f.model \in {None, e.model}
                       /\ f.session \in {None, e.session}}

\* provider_breakdown: records per provider.
Breakdown(S) == [p \in {IF e.provider = None THEN Unknown ELSE e.provider : e \in S} |->
                   Cardinality({e \in S : (IF e.provider = None THEN Unknown ELSE e.provider) = p})]

Row(S) == [tokens |-> Tokens(S), records |-> Cardinality(S), providers |-> Breakdown(S),
           sessions |-> Cardinality({e.session : e \in S}), models |-> Cardinality({e.model : e \in S})]

-----------------------------------------------------------------------------
(* The total.  The breakdown's subquery numbers its placeholders 3, 4 and  *)
(* 5; the outer query numbers them in the order they are given.            *)

Given(f) == SelectSeq(<<"client", "model", "session">>, LAMBDA p : f[p] # None)

FixedPlace == [client |-> 3, model |-> 4, session |-> 5]

PlaceholdersFit(f) == \A i \in DOMAIN Given(f) : FixedPlace[Given(f)[i]] = i + 2

\* A statement whose placeholders are not the arguments is refused.
FetchTotal(db, f) == IF PlaceholdersFit(f) THEN Row(Selected(db, f)) ELSE None

-----------------------------------------------------------------------------
(* The groups.                                                             *)

\* _PROJECT_LABEL_SQL, by the session's source and project.
ProjectLabel(db, s) ==
    LET rows == {p \in db.projects : p.source = s.source /\ p.project = s.project}
    IN  IF rows # {} THEN (CHOOSE p \in rows : TRUE).label
        ELSE IF s.project = None THEN Unknown ELSE s.project

\* One fragment of _group_expression.
Fragment(db, e, part) ==
    CASE part = "client"  -> e.client
      [] part = "model"   -> e.model
      [] part = "session" -> e.session
      [] part = "day"     -> e.day
      [] part = "project" -> ProjectLabel(db, SessionOf(db, e))
      [] part = "agent"   -> IF SessionOf(db, e).agent = None THEN Unknown ELSE SessionOf(db, e).agent

\* Mutant: an inner join with the projects.
Grouped_InnerJoin(db, f, parts) ==
    LET value(e) == [p \in parts |-> Fragment(db, e, p)]
        rows == {e \in Selected(db, f) : "project" \in parts =>
                   \E p \in db.projects : p.source = SessionOf(db, e).source
                                          /\ p.project = SessionOf(db, e).project}
    IN  [g \in {value(e) : e \in rows} |-> Row({e \in rows : value(e) = g})]

Grouped(db, f, parts) ==
    LET value(e) == [p \in parts |-> Fragment(db, e, p)]
        rows == Selected(db, f)
    IN  [g \in {value(e) : e \in rows} |-> Row({e \in rows : value(e) = g})]

-----------------------------------------------------------------------------
(* client and project together: sums from the rollup, then counts from the *)
(* events, by two statements that do not share a snapshot.  Each looks up  *)
(* the project of a row with LIMIT 1 and no order; a pick says which label *)
(* the row got.                                                            *)

Labels(db, client, project) ==
    LET known == {p.label : p \in {q \in db.projects : q.client = client /\ q.project = project}}
    IN  IF known = {} THEN {project} ELSE known

LabelsOf(db, r) == Labels(db, r.client, r.project)

Attributed(events) == {e \in events : e.project # None}

Picks(db, rows) ==
    {pick \in [rows -> UNION {LabelsOf(db, r) : r \in rows}] : \A r \in rows : pick[r] \in LabelsOf(db, r)}

\* The first statement.
SumsByGroup(db, f, pick) ==
    LET rows == {r \in db.rollup : r.day \in f.lo..f.hi /\ f.client \in {None, r.client}}
        value(r) == <<r.client, pick[r]>>
    IN  [g \in {value(r) : r \in rows} |-> Tokens({r \in rows : value(r) = g})]

\* The second statement.
CountsByGroup(db, f, pick) ==
    LET rows == Attributed(Selected(db, f))
        value(e) == <<e.client, pick[e]>>
    IN  [g \in {value(e) : e \in rows} |-> Row({e \in rows : value(e) = g})]

\* The rows of the first statement, each with the counts of its name, or zeros.
FetchRollup(db, later, f, sumPick, countPick) ==
    LET sums   == SumsByGroup(db, f, sumPick)
        counts == CountsByGroup(later, f, countPick)
    IN  [g \in DOMAIN sums |->
           [(IF g \in DOMAIN counts THEN counts[g] ELSE Row({})) EXCEPT !.tokens = sums[g]]]

\* The dispatch of _fetch_aggregates.
UsesRollup(f, parts) == parts = {"client", "project"} /\ f.model = None /\ f.session = None

-----------------------------------------------------------------------------
(* Properties of an input.                                                 *)

\* Events are counted in whole tokens.
AreTables(db) == IsFiniteSet(db.events) /\ \A e \in db.events : e.tokens \in Int

\* A question: the tables the first and the second statement see, the filter,
\* and what the two lookups take.
IsQuestion(q) ==
    /\ AreTables(q.db) /\ AreTables(q.later)
    /\ q.sumPick \in Picks(q.db, q.db.rollup)
    /\ q.countPick \in Picks(q.later, Attributed(q.later.events))

RollupKey(r) == <<r.client, r.project, r.day>>

\* Every key that events with a project have is one row of the rollup, with
\* the tokens of those events.
RollupIsSum(db) ==
    LET known == {e \in db.events : e.project # None}
    IN  /\ \A r, s \in db.rollup : RollupKey(r) = RollupKey(s) => r = s
        /\ {RollupKey(r) : r \in db.rollup} = {RollupKey(e) : e \in known}
        /\ \A r \in db.rollup : r.tokens = Tokens({e \in known : RollupKey(e) = RollupKey(r)})

\* However the events are grouped, the groups add up to the total, whenever
\* the total answers at all: no event is lost to a missing project or agent,
\* none is counted in two groups.
GroupsPartitionTheTotal(db, f) ==
    LET total == FetchTotal(db, f)
    IN  total # None =>
          \A parts \in SUBSET {"client", "model", "session", "day", "project", "agent"} \ {{}} :
            LET g == Grouped(db, f, parts)
            IN  /\ SumFunction([v \in DOMAIN g |-> g[v].tokens]) = total.tokens
                /\ SumFunction([v \in DOMAIN g |-> g[v].records]) = total.records

\* Rows that may go by the name g, and whether they can have no other name.
Own(db, f, g) == {e \in Attributed(Selected(db, f)) : e.client = g[1] /\ g[2] \in LabelsOf(db, e)}
IsCertain(db, f, g) == \A e \in Own(db, f, g) : LabelsOf(db, e) = {g[2]}

\* While the rollup is the sum of the events: whatever rows the lookups take
\* and whatever is written between the two statements, the sums of the hybrid
\* answer add up to the tokens of all events with a project.  A row whose
\* projects have no second name has the tokens of its events at the first
\* statement and the counts of its events at the second, although a
\* project may be known under several sources and a session may name another
\* project than its event.
RollupIsSound(q) ==
    UsesRollup(q.f, {"client", "project"}) /\ RollupIsSum(q.db) =>
        LET rows == FetchRollup(q.db, q.later, q.f, q.sumPick, q.countPick)
        IN  /\ SumFunction([g \in DOMAIN rows |-> rows[g].tokens]) = Tokens(Attributed(Selected(q.db, q.f)))
            /\ \A g \in DOMAIN rows :
                 IsCertain(q.db, q.f, g) /\ IsCertain(q.later, q.f, g)
                 => rows[g] = [Row(Own(q.later, q.f, g)) EXCEPT !.tokens = Tokens(Own(q.db, q.f, g))]

\* The comment in _fetch_aggregates_rollup says more: that the common lookup
\* keeps counts from being zeroed when a client reports one project from
\* several sources.  With two names for it and tables at rest it does not.
ZeroedCounts(q) ==
    LET rows == FetchRollup(q.db, q.later, q.f, q.sumPick, q.countPick)
    IN  \E g \in DOMAIN rows : rows[g].tokens > 0 /\ rows[g].records = 0

ViewsAgree(q) == GroupsPartitionTheTotal(q.db, q.f) /\ RollupIsSound(q)
=============================================================================
