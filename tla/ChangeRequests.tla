--------------------------- MODULE ChangeRequests ---------------------------
(***************************************************************************)
(* The read side of app/api/afk_outcomes.py for change requests: the list  *)
(* of GET /change-requests and the detail of one change request, computed  *)
(* by different statements over the same tables, and the usage totals the  *)
(* detail sums up once more in Python.                                     *)
(*                                                                         *)
(* An operator takes the tables as one record db:                          *)
(*   events   : engineering_events, {[cr, type, at]}                       *)
(*   runs     : afk_runs, {[id, cr or None, seen]}                         *)
(*   links    : afk_run_entities of type change_request, {[run, cr]}       *)
(*   bindings : execution_bindings, {[job, cr or None, run or None,        *)
(*              outcome, at, several: sequence of session names or None,   *)
(*              one: session name or None]}                                *)
(*   attached : afk_run_sessions, {[run, name, session or None]}           *)
(*   sessions : {[id, name, first, cost or None]}                          *)
(* A change request cr stands for provider, repository and number.         *)
(***************************************************************************)
EXTENDS Values, Integers, Sequences, FiniteSets, FiniteSetsExt, SequencesExt

\* SUM over the values that are not NULL; NULL when there is none.
SumKnown(S, Value(_)) ==
    LET known == {x \in S : Value(x) # None}
    IN  IF known = {} THEN None ELSE SumFunction([x \in known |-> Value(x)])

\* MAX and GREATEST, which both ignore NULL.
Greatest(S) == IF S \ {None} = {} THEN None ELSE Max(S \ {None})

Coalesce(x, y) == IF x = None THEN y ELSE x

-----------------------------------------------------------------------------
(* The provider state.                                                     *)

OpenTypes == {"opened", "updated", "reopened"}

EventState(db, cr) ==
    LET ofType(types) == Greatest({e.at : e \in {f \in db.events : f.cr = cr /\ f.type \in types}})
    IN  [merged |-> ofType({"merged"}), closed |-> ofType({"closed"}), opened |-> ofType(OpenTypes),
         latest |-> Greatest({e.at : e \in {f \in db.events : f.cr = cr}})]

ProviderState(es) ==
    IF es.merged # None /\ es.merged >= Greatest({Coalesce(es.closed, es.merged),
                                                  Coalesce(es.opened, es.merged)}) THEN "merged"
    ELSE IF es.closed # None /\ es.closed >= Coalesce(es.opened, es.closed) THEN "closed"
    ELSE IF es.opened # None THEN "open" ELSE None

-----------------------------------------------------------------------------
(* The list.                                                               *)

BoundTo(db, cr) == {b \in db.bindings : b.cr = cr}

Identities(db) ==
    ({e.cr : e \in db.events} \cup {r.cr : r \in db.runs} \cup {b.cr : b \in db.bindings}) \ {None}

RunRefs(db, cr) == {r.id : r \in {q \in db.runs : q.cr = cr}}
                     \cup {l.run : l \in {k \in db.links : k.cr = cr}}

ExecCounts(bs) ==
    [total |-> Cardinality(bs), latest |-> Greatest({b.at : b \in bs}),
     outcome |-> [o \in {"running", "completed", "failed", "cancelled"} |->
                    Cardinality({b \in bs : b.outcome = o})]]

\* session_cost: SELECT DISTINCT session, then the sum of their costs.
SessionCost(db, runs) ==
    LET ids == {a.session : a \in {l \in db.attached : l.run \in runs}}
    IN  SumKnown({s \in db.sessions : s.id \in ids}, LAMBDA s : s.cost)

LastSeen(db, runs) == {r.seen : r \in {q \in db.runs : q.id \in runs}}

ListSummary(db, cr) ==
    LET es == EventState(db, cr)
        ec == ExecCounts(BoundTo(db, cr))
    IN  [state |-> ProviderState(es), cost |-> SessionCost(db, RunRefs(db, cr)),
         activity |-> Greatest(LastSeen(db, RunRefs(db, cr)) \cup {es.latest, ec.latest}),
         executions |-> ec]

\* The page: latest execution first, NULL last, then the identity.
ListBefore(db, c, d) ==
    LET at(x) == ExecCounts(BoundTo(db, x)).latest
    IN  \/ at(c) # None /\ (at(d) = None \/ at(c) > at(d))
        \/ at(c) = at(d) /\ c < d

ListPage(db, state, limit, offset) ==
    LET rows == {c \in Identities(db) : state = None \/ ListSummary(db, c).state = state}
        place(c) == Cardinality({d \in rows : ListBefore(db, d, c)})
    IN  {c \in rows : place(c) \in offset .. offset + limit - 1}

-----------------------------------------------------------------------------
(* The detail.                                                             *)

Exists(db, cr) == \/ \E e \in db.events : e.cr = cr
                  \/ \E r \in db.runs : r.cr = cr
                  \/ BoundTo(db, cr) # {}

\* The UNION ALL of the three linkage paths.
RunSources(db, cr) ==
    {<<r.id, "change_request_binding">> : r \in {q \in db.runs : q.cr = cr}}
      \cup {<<l.run, "entity_link">> : l \in {k \in db.links : k.cr = cr}}
      \cup {<<b.run, "execution", b.job>> : b \in {c \in BoundTo(db, cr) : c.run # None}}

LinkedRuns(db, cr) == {s[1] : s \in RunSources(db, cr)}

MatchedJobs(db, cr) == BoundTo(db, cr) \cup {b \in db.bindings : b.run \in LinkedRuns(db, cr)}

DetailSummary(db, cr) ==
    LET es == EventState(db, cr)
        ec == ExecCounts(MatchedJobs(db, cr))
        runs == LinkedRuns(db, cr)
    IN  [state |-> ProviderState(es), cost |-> SessionCost(db, runs),
         activity |-> Greatest(LastSeen(db, runs) \cup {es.latest, ec.latest}),
         executions |-> ec]

\* merge_state: a merge fact of any age makes it "merged".
MergeState(db, cr) ==
    LET es == EventState(db, cr) IN
    IF ProviderState(es) = None THEN None
    ELSE IF es.merged # None THEN "merged" ELSE "not_merged"

SessionsNamed(db, name) == {s \in db.sessions : s.name = name}

\* The cost of one execution: over the sessions it names, every one of which
\* must be known by exactly one row and have a cost; a binding of the old
\* form takes the youngest session of its only name.
ExecutionCost(db, b) ==
    IF b.several # None
    THEN LET names == Range(b.several)
             rows == UNION {SessionsNamed(db, n) : n \in names}
         IN  IF \/ \E n \in names : Cardinality(SessionsNamed(db, n)) # 1
                \/ \E s \in rows : s.cost = None
             THEN None ELSE SumKnown(rows, LAMBDA s : s.cost)
    ELSE LET old == SessionsNamed(db, b.one) IN
         IF old = {} THEN None
         ELSE (CHOOSE s \in old : \A t \in old : t.first <= s.first).cost

\* Mutant: the loop adds a session once per path that leads to it.
SessionRows_PerPath(db, cr) ==
    {[key |-> <<p[1], p[2]>>, session |-> p[2].session] :
        p \in {q \in RunSources(db, cr) \X db.attached : q[2].run = q[1][1]}}

\* seen_sessions: one row for each session, or for each name without one.
SessionRows(db, cr) ==
    {[key |-> IF a.session # None THEN <<a.session>> ELSE <<"external", a.name>>,
      session |-> a.session] : a \in {l \in db.attached : l.run \in LinkedRuns(db, cr)}}

\* The Python totals of the same sessions.
UsageCost(db, cr) ==
    SumKnown(SessionRows(db, cr),
             LAMBDA r : SumKnown({s \in db.sessions : s.id = r.session}, LAMBDA s : s.cost))

\* _fetch_change_request_detail: None is the 404; the answer sums the usage
\* up from the rows while the summary has summed it in SQL.
FetchChangeRequestDetail(db, cr) ==
    IF ~ Exists(db, cr) THEN None
    ELSE [summary |-> DetailSummary(db, cr), runs |-> LinkedRuns(db, cr), sessions |-> SessionRows(db, cr),
          executions |-> {[job |-> b.job,
                           names |-> IF b.several = None THEN {} ELSE Range(b.several),
                           cost |-> ExecutionCost(db, b)] : b \in MatchedJobs(db, cr)},
          usage |-> UsageCost(db, cr), merge |-> MergeState(db, cr)]

-----------------------------------------------------------------------------
(* Properties of an input.                                                 *)

\* The rows of the tables: numbers order times and change requests, and an
\* id names one session.
AreTables(db) ==
    /\ \A table \in {"events", "runs", "bindings", "attached", "sessions"} : IsFiniteSet(db[table])
    /\ \A e \in db.events : e.at \in Nat
    /\ \A b \in db.bindings : b.at \in Nat
    /\ Identities(db) \subseteq Nat
    /\ \A s \in db.sessions : s.id # None /\ s.cost \in Nat \cup {None}
    /\ \A s, t \in db.sessions : s.id = t.id => s = t

\* The list names exactly the change requests that have a detail, each on
\* one page, however the list is cut into pages.
ListedHaveDetail(db) ==
    LET n == Cardinality(Identities(db)) IN
    \A limit \in 1..n + 1 :
        LET page(k) == ListPage(db, None, limit, k * limit)
        IN  /\ UNION {page(k) : k \in 0..n} = Identities(db)
            /\ \A k \in 0..n : Cardinality(page(k)) <= limit
            /\ \A j, k \in 0..n : j # k => page(j) \cap page(k) = {}
            /\ \A c \in (Identities(db) \cup {l.cr : l \in db.links}) \ {None} :
                  c \in Identities(db) <=> Exists(db, c)

\* The state is what the facts observed last say, in the list and in the
\* detail: a merge or close is undone by a later reopening, and at equal
\* times merged wins over closed over open.
StateFollowsFacts(db) ==
    \A c \in Identities(db) :
        LET fs == {e \in db.events : e.cr = c /\ e.type \in OpenTypes \cup {"merged", "closed"}}
            last == {e.type : e \in {f \in fs : \A g \in fs : g.at <= f.at}}
        IN  /\ ListSummary(db, c).state = IF fs = {} THEN None
                                          ELSE IF "merged" \in last THEN "merged"
                                          ELSE IF "closed" \in last THEN "closed" ELSE "open"
            /\ ListSummary(db, c).state = "merged" => FetchChangeRequestDetail(db, c).merge = "merged"

\* A session that several runs share is paid for once: the cost the SQL of
\* the detail sums equals the cost its loop adds up, and an execution that
\* names just the sessions of those runs costs the same.
CostsAgree(db) ==
    \A c \in Identities(db) :
        LET detail == FetchChangeRequestDetail(db, c)
            rows == {a \in db.attached : a.run \in detail.runs}
            names == {a.name : a \in rows}
            plain == /\ \A a \in rows : {s.id : s \in SessionsNamed(db, a.name)} = {a.session}
                     /\ \A s \in db.sessions : s.cost # None
        IN  /\ detail.summary.cost = detail.usage
            /\ \A x \in detail.executions :
                 plain /\ names # {} /\ x.names = names => x.cost = detail.usage

\* List and detail tell the same of a change request whose executions are
\* all bound to it and run under runs that are bound or linked to it.
SummariesAgree(db) ==
    \A c \in Identities(db) :
        LinkedRuns(db, c) = RunRefs(db, c) /\ MatchedJobs(db, c) = BoundTo(db, c)
            => ListSummary(db, c) = FetchChangeRequestDetail(db, c).summary

\* The list holds exactly the change requests with a detail, both take the
\* state from the latest facts, and each session is paid for once.
ViewsAgree(db) == ListedHaveDetail(db) /\ StateFollowsFacts(db) /\ CostsAgree(db) /\ SummariesAgree(db)
=============================================================================
