----------------------------- MODULE AgentRuns ------------------------------
(***************************************************************************)
(* Agent runs are sessions read twice: a row of GET /agent-runs is made by *)
(* one SQL statement, GET /agent-runs/{id} by several statements and by    *)
(* Python (app/api/usage.py).                                              *)
(*                                                                         *)
(* An operator takes the tables as one record db:                          *)
(*   sessions : {[id, source, name, parent or None, last or None,          *)
(*              messages]}, name and parent being external session ids     *)
(*   events   : {[id, session, provider or None, reasoning]}, providers    *)
(*              being ordered, 0 the empty text                            *)
(*   todos    : {[source, name, position, status]}                         *)
(* t = [quiet, stale, unknown] are the thresholds in minutes.              *)
(***************************************************************************)
EXTENDS Values, Integers, FiniteSets, FiniteSetsExt

-----------------------------------------------------------------------------
(* The status.                                                             *)

ComputeStatus(last, messages, hasParent, now, t) ==
    IF messages = 0 \/ last = None THEN "unknown"
    ELSE IF now - last < t.quiet THEN "running"
    ELSE IF now - last < t.stale THEN IF hasParent THEN "blocked" ELSE "completed"
    ELSE IF now - last < t.unknown THEN "stale" ELSE "unknown"

StatusCase(last, messages, parent, now, t) ==
    CASE messages = 0 \/ last = None -> "unknown"
      [] OTHER -> IF last > now - t.quiet THEN "running"
                  ELSE IF last > now - t.stale /\ parent = None THEN "completed"
                  ELSE IF last > now - t.stale THEN "blocked"
                  ELSE IF last > now - t.unknown THEN "stale" ELSE "unknown"

-----------------------------------------------------------------------------
(* What both views aggregate.                                              *)

EventsOf(db, s) == {e \in db.events : e.session = s.id}
TodosOf(db, s)  == {x \in db.todos : x.source = s.source /\ x.name = s.name}
Reasoning(db, s) == MapThenSumSet(LAMBDA e : e.reasoning, EventsOf(db, s))

\* provider_agg: ROW_NUMBER() = 1 by COUNT(*) DESC, provider ASC.
RankedProvider(db, s) ==
    LET named == {e \in EventsOf(db, s) : e.provider \notin {None, 0}}
        count(p) == Cardinality({e \in named : e.provider = p})
        before(p, q) == count(p) > count(q) \/ (count(p) = count(q) /\ p < q)
        rank(p) == 1 + Cardinality({q \in {e.provider : e \in named} : before(q, p)})
        first == {p \in {e.provider : e \in named} : rank(p) = 1}
    IN  IF first = {} THEN None ELSE CHOOSE p \in first : TRUE

\* The detail's LATERAL: GROUP BY provider ORDER BY COUNT(*) DESC, provider LIMIT 1.
TopProvider(db, s) ==
    LET named == {e \in EventsOf(db, s) : e.provider \notin {None, 0}}
        count(p) == Cardinality({e \in named : e.provider = p})
        providers == {e.provider : e \in named}
    IN  IF providers = {} THEN None
        ELSE CHOOSE p \in providers : \A q \in providers : count(p) > count(q) \/ (count(p) = count(q) /\ p <= q)

\* child_counts, joined on the external session id alone.
ChildCount(db, s) == Cardinality({c \in db.sessions : c.parent = s.name})

AgentRunSummary(db, s, now, t) ==
    [status |-> StatusCase(s.last, s.messages, s.parent, now, t), children |-> ChildCount(db, s),
     todos |-> Cardinality(TodosOf(db, s)),
     completed |-> Cardinality({x \in TodosOf(db, s) : x.status = "completed"}),
     blocked |-> Cardinality({x \in TodosOf(db, s) : x.status = "blocked"}),
     reasoning |-> Reasoning(db, s), provider |-> RankedProvider(db, s)]

\* child_summaries: a child always has a parent.
ChildSummaries(db, s, now, t) ==
    {[id |-> c.id, status |-> ComputeStatus(c.last, c.messages, TRUE, now, t)] : c \in {x \in db.sessions : x.parent = s.name}}

AgentRunDetail(db, s, now, t) ==
    [status |-> ComputeStatus(s.last, s.messages, s.parent # None, now, t),
     children |-> Cardinality(ChildSummaries(db, s, now, t)),
     todos |-> Cardinality(TodosOf(db, s)),
     completed |-> Cardinality({x \in TodosOf(db, s) : x.status = "completed"}),
     blocked |-> Cardinality({x \in TodosOf(db, s) : x.status = "blocked"}),
     reasoning |-> Reasoning(db, s), provider |-> TopProvider(db, s)]

-----------------------------------------------------------------------------
(* Properties of an input.                                                 *)

\* Times are whole minutes, an id names one session and a session has a name.
AreRuns(db, now, t) ==
    /\ IsFiniteSet(db.sessions) /\ IsFiniteSet(db.events)
    /\ \A s \in db.sessions : s.last \in Int \cup {None} /\ s.name # None
    /\ \A c, d \in db.sessions : c.id = d.id => c = d
    /\ \A e \in db.events : e.provider \in Nat \cup {None}
    /\ now \in Int /\ {t.quiet, t.stale, t.unknown} \subseteq Int

\* "Both implement exactly the table": list and detail give an agent run the
\* same status at every age, boundaries included.
StatusesAgree(last, messages, parent, now, t) ==
    ComputeStatus(last, messages, parent # None, now, t) = StatusCase(last, messages, parent, now, t)

\* Read at one moment, the list row and the detail of a run agree, ties
\* between providers and sessions of several sources included, and the
\* children the detail shows have the status their own list rows have.
ListMatchesDetail(db, now, t) ==
    \A s \in db.sessions :
        /\ AgentRunSummary(db, s, now, t) = AgentRunDetail(db, s, now, t)
        /\ \A c \in db.sessions : c.parent = s.name =>
              [id |-> c.id, status |-> AgentRunSummary(db, c, now, t).status] \in ChildSummaries(db, s, now, t)

ViewsAgree(db, now, t) ==
    /\ \A s \in db.sessions : StatusesAgree(s.last, s.messages, s.parent, now, t)
    /\ ListMatchesDetail(db, now, t)
=============================================================================
