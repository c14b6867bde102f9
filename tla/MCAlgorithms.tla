---------------------------- MODULE MCAlgorithms ----------------------------
(* Inputs for the pure algorithms, chosen so that every branch is taken.   *)
EXTENDS Algorithms

CONSTANTS i1, a, b

-----------------------------------------------------------------------------
(* Normalized events: every combination of the message fields that         *)
(* decoding, validation and mapping branch on.                             *)

Urls == [scheme : {"http", "https", "ssh"}, host : {"", "h"},
         port : {0, 80, 443, 8443, NE!BadPort}, path : {"", "r"}]

MCMessages ==
    [ body : {"json"}, shape : {TRUE}, schema_version : {"1.0", "2.0"},
      event_type : {"normalized"}, provider : {"github", "gitlab"},
      delivery_id : {"d1"}, resource_type : {"issue", "pull_request", "merge_request", "bogus"},
      action : {"opened", "edited", "updated", "reopened", "closed", "merged", "bogus"},
      repository_url : Urls, number : {1}, occurred_at : {0, 1}, ingested_at : {2},
      ref_provider : {"github"}, ref_delivery_id : {"d1", "d2"} ]

-----------------------------------------------------------------------------
(* Closure episodes: every set of these facts about one issue and two      *)
(* change requests.  At one instant a has snapshots of a webhook and of a  *)
(* backfill, b two of backfills that disagree; and b has an empty one.     *)

Fact(ent, type, at, via, ls) == [ent |-> ent, type |-> type, at |-> at, via |-> via, links |-> ls]

Closes == {<<"declares_closure", i1>>}
Refers == {<<"references", i1>>}

Facts ==
    {Fact(i1, "issue.opened", 1, "webhook", None), Fact(i1, "issue.closed", 4, "webhook", None),
     Fact(i1, "issue.reopened", 4, "webhook", None), Fact(i1, "issue.closed", 6, "backfill", None),
     Fact(a, "change_request.opened", 1, "webhook", Closes \cup {Malformed}),
     Fact(a, "change_request.merged", 3, "webhook", None),
     Fact(a, "change_request.updated", 5, "backfill", Refers),
     Fact(a, "change_request.opened", 5, "webhook", Closes),
     Fact(b, "change_request.opened", 2, "backfill", Closes),
     Fact(b, "change_request.updated", 2, "backfill", Closes \cup Refers),
     Fact(b, "change_request.merged", 4, "webhook", None),
     Fact(b, "change_request.updated", 3, "webhook", {})}

MCFactSets == SUBSET Facts

-----------------------------------------------------------------------------
(* Correlation: every window made of these entities, with and without the  *)
(* run id in an event, for a run whose title one or two change requests    *)
(* carry.  The commit k is seen on the branches of both.                   *)

Entity(id, type, number, title) ==
    [id |-> id, type |-> type, number |-> number, title |-> title, resolves |-> {}, mentions |-> {},
     branch |-> {}, refs |-> {}, owner |-> None, state |-> "open", from |-> 5, to |-> 6]

Commit(id, owner, refs) == [Entity(id, "commit", None, "c") EXCEPT !.owner = owner, !.refs = refs]

Listing(title) ==
    <<[Entity("c1", "change_request", 1, "t") EXCEPT !.resolves = {3}, !.mentions = {3, 5}],
     [Entity("c2", "change_request", 2, title) EXCEPT !.branch = {5}, !.from = None, !.state = "closed"],
     [Entity("i3", "issue", 3, "i") EXCEPT !.from = 3],
     Entity("i5", "issue", 5, "i"),
     Commit("k", 1, {9}), Commit("k", 2, {9}), Commit("l", None, {3}),
     [Entity("v", "review", None, "v") EXCEPT !.owner = 1],
     Entity("m", "merge_event", 2, "m")>>

MCWindows ==
    [run : {[id |-> "r", title |-> "t", from |-> 2, to |-> 4, project |-> None]},
     es : {SelectSeq(Listing(title), LAMBDA e : e \in S) :
             <<title, S>> \in UNION {{t} \X SUBSET Range(Listing(t)) : t \in {"t", "u"}}},
     events : {{}, {[entity |-> "v", run_id |-> "r"], [entity |-> "i5", run_id |-> None]}}]

-----------------------------------------------------------------------------
(* Change requests: facts of request 1 in every combination, runs bound,   *)
(* linked and executed for it, a session two runs share, a name without a  *)
(* session, and request 3 known from a link alone.                         *)

Event(cr, type, at) == [cr |-> cr, type |-> type, at |-> at]

Binding(job, cr, run, at, several) ==
    [job |-> job, cr |-> cr, run |-> run, outcome |-> "completed", at |-> at,
     several |-> several, one |-> "n1"]

MCDatabases ==
    [events : SUBSET {Event(1, "opened", 1), Event(1, "merged", 2), Event(1, "closed", 2), Event(1, "reopened", 3)},
     runs : {{}, {[id |-> "r1", cr |-> 1, seen |-> 2]},
             {[id |-> "r1", cr |-> 1, seen |-> 2], [id |-> "r2", cr |-> None, seen |-> 5]}},
     links : SUBSET {[run |-> "r2", cr |-> 1], [run |-> "r1", cr |-> 3]},
     bindings : SUBSET {Binding("j1", 1, "r2", 1, <<"n1", "n1">>), Binding("j2", 2, None, 1, None),
                        Binding("j3", None, "r1", 4, <<"n1", "n2">>)},
     attached : SUBSET {[run |-> "r1", name |-> "n1", session |-> "s1"],
                        [run |-> "r2", name |-> "n1", session |-> "s1"],
                        [run |-> "r2", name |-> "n2", session |-> None]},
     sessions : {{[id |-> "s1", name |-> "n1", first |-> 1, cost |-> 7]},
                 {[id |-> "s1", name |-> "n1", first |-> 1, cost |-> 7],
                  [id |-> "s2", name |-> "n2", first |-> 2, cost |-> None]}}]

-----------------------------------------------------------------------------
(* Usage queries: three events of two clients, in sessions of two sources  *)
(* that know project "p" under different labels or not at all.             *)

Usage(id, client, session, project, day) ==
    [id |-> id, client |-> client, session |-> session, model |-> "m", project |-> project,
     provider |-> IF id = 1 THEN None ELSE "x", day |-> day, tokens |-> 10^(id - 1)]

UsageSets ==
    {{Usage(1, c1, s1, p1, 1), Usage(2, "c", s2, p2, 2), Usage(3, "d", s2, "q", 2)} :
        <<c1, s1, p1, s2, p2>> \in {"c", "d"} \X {"s1", "s2"} \X {"p", None} \X {"s1", "s2"} \X {"p", "q"}}

UsageSessions ==
    {{[id |-> "s1", source |-> 1, name |-> "n1", parent |-> None, project |-> p, agent |-> None],
      [id |-> "s2", source |-> 2, name |-> "n2", parent |-> None, project |-> "p", agent |-> "x"]} :
        p \in {"p", "q", None}}

UsageProjects ==
    SUBSET {[source |-> 1, client |-> "c", project |-> "p", label |-> "P"],
            [source |-> 2, client |-> "c", project |-> "p", label |-> "R"],
            [source |-> 2, client |-> "d", project |-> "q", label |-> "P"]}

RollupOf(events) ==
    LET keys == {<<e.client, e.project, e.day>> : e \in {x \in events : x.project # None}}
    IN  {[client |-> k[1], project |-> k[2], day |-> k[3],
          tokens |-> UQ!Tokens({e \in events : <<e.client, e.project, e.day>> = k})] : k \in keys}

UsageTables ==
    {[events |-> es, sessions |-> ss, projects |-> ps, rollup |-> RollupOf(es)] :
        es \in UsageSets, ss \in UsageSessions, ps \in UsageProjects}

\* Every pair of lookups.
Asked(db, later, f) ==
    [db : {db}, later : {later}, f : {f}, sumPick : UQ!Picks(db, db.rollup),
     countPick : UQ!Picks(later, UQ!Attributed(later.events))]

\* What may be written between the two statements: nothing, an event, or
\* another name for a project.
Moved(db) ==
    {db, [db EXCEPT !.events = @ \cup {Usage(4, "c", "s1", "p", 1)}],
         [db EXCEPT !.projects = {[p EXCEPT !.label = "N"] : p \in @}]}

UsageFilters == [client : {None, "c"}, model : {None, "m"}, session : {None, "s1"}, lo : {1}, hi : {1, 2}]

\* The sessions do not matter to the hybrid answer.
MCUsageQuestions ==
    {[db |-> db, later |-> db, f |-> f, sumPick |-> CHOOSE p \in UQ!Picks(db, db.rollup) : TRUE,
      countPick |-> CHOOSE p \in UQ!Picks(db, UQ!Attributed(db.events)) : TRUE] :
        db \in UsageTables, f \in UsageFilters}
    \cup UNION {UNION {Asked(x[1], later, x[2]) : later \in Moved(x[1])} :
                   x \in {db \in UsageTables : \A s \in db.sessions : s.project = "p"}
                         \X {f \in UsageFilters : UQ!UsesRollup(f, {"client", "project"})}}

(* A project that two sources know under different names may lose its      *)
(* counts, although nothing is written in between, and under one name it   *)
(* does not (the comment in _fetch_aggregates_rollup promises it for both).*)
ASSUME TwoNamesZeroCounts ==
    \E q \in MCUsageQuestions : q.later = q.db /\ UQ!RollupIsSum(q.db) /\ UQ!ZeroedCounts(q)
ASSUME OneNameKeepsCounts ==
    \A q \in MCUsageQuestions :
        q.later = q.db /\ UQ!UsesRollup(q.f, {"client", "project"})
            /\ (\A p, r \in q.db.projects : p.project = r.project => p.label = r.label)
        => ~UQ!ZeroedCounts(q)

-----------------------------------------------------------------------------
(* Agent runs: a parent, a child of the same source and one of another     *)
(* source, at every age around the thresholds, with tied providers.        *)

RunSession(id, source, name, parent, last, messages) ==
    [id |-> id, source |-> source, name |-> name, parent |-> parent, last |-> last, messages |-> messages]

RunEvent(id, provider) == [id |-> id, session |-> 1, provider |-> provider, reasoning |-> id]

MCAgentQuestions ==
    [now : {10}, t : {[quiet |-> 2, stale |-> 4, unknown |-> 6]},
     db : [sessions : {{RunSession(1, 1, "n1", None, l1, 1), RunSession(2, 1, "n2", "n1", l2, m2),
                        RunSession(3, 2, "n1", "n2", 7, 1)} :
                          <<l1, l2, m2>> \in ({None} \cup 3..10) \X {None, 5, 6, 8} \X {0, 1}},
           events : {{RunEvent(1, p1), RunEvent(2, p2), RunEvent(3, 0), RunEvent(4, 0)} :
                          p1 \in {None, 1, 2}, p2 \in {0, 1, 2}},
           todos : {{}, {[source |-> 1, name |-> "n1", position |-> 0, status |-> "completed"],
                         [source |-> 2, name |-> "n1", position |-> 0, status |-> "blocked"]}}]]
=============================================================================
