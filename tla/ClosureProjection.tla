------------------------- MODULE ClosureProjection -------------------------
(***************************************************************************)
(* The stored closure projection (afk_outcomes/repository/                 *)
(* closure_projection.py): consumers commit a fact and then, outside the   *)
(* facts transaction and in autocommit, recompute the issues it touches;   *)
(* an operator rebuilds everything or a time window.  Every statement is a *)
(* step, so two recomputes, or a recompute and a rebuild, interleave       *)
(* between any two of them, and each may fail or die half way.             *)
(*                                                                         *)
(* closure_episodes is a sequence: rows are never deleted and their place  *)
(* is their id.  `current' is superseded_at IS NULL, and the partial       *)
(* unique index uq_closure_episodes_current_issue lets an issue have one   *)
(* such row: a statement that would make a second one raises, which ends   *)
(* the recompute (the consumer logs it and goes on).                       *)
(***************************************************************************)
EXTENDS ClosureEpisodes

CONSTANTS
    Deliveries,   \* the facts producers may deliver
    Windows,      \* operator rebuilds: <<since, until>>, or All for a full one
    All,
    Workers,
    MaxRows,      \* bound: rows of closure_episodes
    MaxRebuilds,  \* bound: rebuilds the operator starts
    MaxRaces      \* bound: jobs that start while another is at work

ASSUME ClosureAssumption ==
    /\ None \notin Windows \cup {All} /\ None \notin {"active", "parked", "revoked"}
    /\ \A f \in Deliveries : IsFact(f)

VARIABLES
    facts,        \* engineering_events
    links,        \* closure_links: <<change request, link>> :> state, or None
    episodes,     \* closure_episodes
    unresolved,   \* closure_unresolved
    worker,       \* recomputes and rebuilds in progress
    rebuilds,
    races

vars == <<facts, links, episodes, unresolved, worker, rebuilds, races>>

tables == <<links, episodes, unresolved>>
bounds == <<rebuilds, races>>

LinkKeys == ChangeRequests \X Links

Idle == [pc |-> "idle"]

\* `clean' remembers that no other recompute was at work at the same time.
Starts(w, job) ==
    /\ races' = races + IF \A u \in Workers : worker[u].pc = "idle" THEN 0 ELSE 1
    /\ races' <= MaxRaces
    /\ worker' = [v \in Workers |->
           IF v = w THEN [job EXCEPT !.clean = \A u \in Workers : worker[u].pc = "idle"]
           ELSE IF worker[v].pc = "idle" THEN Idle ELSE [worker[v] EXCEPT !.clean = FALSE]]

NewJob(seed, window) ==
    [pc |-> IF window = None THEN "affected" ELSE "load", seed |-> seed, window |-> window,
     issues |-> {}, crs |-> {}, loaded |-> {}, links |-> <<>>, writes |-> <<>>,
     unresolved |-> {}, clean |-> TRUE]

\* _persist: the fact is stored once per (entity, type, occurred_at), whatever
\* it carries; the recompute that follows is seeded with the fact delivered.
Persist(w, f) ==
    /\ worker[w].pc = "idle"
    /\ facts' = IF \E g \in facts : SameKey(f, g) THEN facts ELSE facts \cup {f}
    /\ IF f.type \in RelevantTypes THEN Starts(w, NewJob(f, None)) ELSE UNCHANGED <<worker, races>>
    /\ UNCHANGED <<tables, rebuilds>>

TouchedBy(f) ==
    IF f.ent \in Issues THEN {f.ent}
    ELSE IF IssueLinks(f) = None THEN {} ELSE {l[2] : l \in IssueLinks(f)}

\* The issues of the seed, and those its change request is linked to already.
FindAffected(w) ==
    LET f      == worker[w].seed
        linked == {k[2][2] : k \in {x \in LinkKeys : x[1] = f.ent /\ links[x] # None}}
        hit    == TouchedBy(f) \cup linked
    IN  /\ worker[w].pc = "affected"
        /\ worker' = [worker EXCEPT ![w] =
               IF hit = {} THEN Idle ELSE [@ EXCEPT !.issues = hit, !.pc = "issues"]]
        /\ UNCHANGED <<facts, tables, bounds>>

\* The lifecycle facts of the affected issues, and the change requests linked
\* to them, revoked or not: two reads that only other jobs' link writes tell
\* apart, taken together.
LoadIssueFacts(w) ==
    LET job == worker[w]
    IN  /\ job.pc = "issues"
        /\ worker' = [worker EXCEPT ![w].pc = "crfacts",
               ![w].loaded = {f \in facts : f.ent \in job.issues},
               ![w].crs = {k[1] : k \in {x \in LinkKeys : x[2][2] \in job.issues /\ links[x] # None}}
                          \cup ({job.seed.ent} \cap ChangeRequests)]
        /\ UNCHANGED <<facts, tables, bounds>>

\* What the projection of the loaded facts will write.
Planned(job, loaded, issues, linkIssues) ==
    [job EXCEPT !.pc = "links", !.issues = issues, !.loaded = loaded,
         !.links = SetToSeq({x \in ProjectLinks(loaded) : x.link[2] \in linkIssues}),
         !.seed = None, !.crs = {}]

LoadChangeRequestFacts(w) ==
    LET job    == worker[w]
        loaded == job.loaded \cup {f \in facts : f.ent \in job.crs}
    IN  /\ job.pc = "crfacts"
        /\ worker' = [worker EXCEPT ![w] = Planned(job, loaded, job.issues, Issues)]
        /\ UNCHANGED <<facts, tables, bounds>>

-----------------------------------------------------------------------------
(* rebuild_closure_projection, confirmed: a dry run computes the same plan *)
(* and writes nothing.                                                     *)

StartRebuild(w, window) ==
    /\ worker[w].pc = "idle"
    /\ rebuilds < MaxRebuilds
    /\ rebuilds' = rebuilds + 1
    /\ Starts(w, NewJob(None, window))
    /\ UNCHANGED <<facts, tables>>

Inside(f, window) == window = All \/ (window[1] <= f.at /\ f.at <= window[2])

\* Issues with some fact touching them, and none outside the window.
WholeWindow(window) ==
    {i \in Issues :
        LET touching == {f \in facts : f.type \in RelevantTypes /\ i \in TouchedBy(f)}
        IN  window = All \/ (touching # {} /\ \A f \in touching : Inside(f, window))}

LoadAll(w) ==
    LET job    == worker[w]
        loaded == {f \in facts : f.type \in RelevantTypes /\ Inside(f, job.window)}
        whole  == WholeWindow(job.window)
    IN  /\ job.pc = "load"
        /\ worker' = [worker EXCEPT ![w] = Planned(job, loaded, whole, whole)]
        /\ UNCHANGED <<facts, tables, bounds>>

-----------------------------------------------------------------------------
(* The reconcile both share, one statement at a time.                      *)

UpsertLink(w) ==
    /\ worker[w].pc = "links"
    /\ worker[w].links # <<>>
    /\ LET x == Head(worker[w].links)
       IN  links' = [links EXCEPT ![<<x.cr, x.link>>] = x.state]
    /\ worker' = [worker EXCEPT ![w].links = Tail(@)]
    /\ UNCHANGED <<facts, episodes, unresolved, bounds>>

\* Mutant: a superseded episode keeps its status.
Row_KeepsStatus(e, current) ==
    [issue |-> e.issue, opened |-> e.opened, closed |-> e.closed, current |-> current,
     status |-> e.status, cr |-> e.cr]

Row(e, current) ==
    [issue |-> e.issue, opened |-> e.opened, closed |-> e.closed, current |-> current,
     status |-> IF current THEN e.status ELSE "superseded", cr |-> e.cr]

\* Mutant: an open interval takes over the current row, whatever it is.
Match_Current(stored, e) ==
    {k \in stored : IF e.closed = None THEN episodes[k].current ELSE episodes[k].closed = e.closed}

\* The stored row an episode belongs to: its close (of two rows a race
\* has left for one close, one of them), or the current open row.
Match(stored, e) ==
    {k \in stored : IF e.closed = None
                    THEN episodes[k].closed = None /\ episodes[k].current
                    ELSE episodes[k].closed = e.closed}

\* The statements for one issue: each episode updates its row or inserts one,
\* then current rows the projector no longer produces are superseded.
PlanIssue(i, eps) ==
    LET stored == {k \in DOMAIN episodes : episodes[k].issue = i}
        id(e)  == IF Match(stored, e) = {} THEN 0 ELSE Max(Match(stored, e))
        gone   == {k \in stored : episodes[k].current /\ \A e \in Range(eps) : id(e) # k}
    IN  [k \in DOMAIN eps |-> [id |-> id(eps[k]), row |-> Row(eps[k], k = Len(eps))]]
        \o SetToSeq({[id |-> k, row |-> None] : k \in gone})

\* The statements for every issue the projection has episodes of.
ReconcileClosureEpisodes(job, eps) ==
    LET has == {i \in job.issues : eps[i] # <<>>}
    IN  [job EXCEPT !.pc = "episodes",
             !.writes = FoldSet(LAMBDA i, s : s \o PlanIssue(i, eps[i]), <<>>, has),
             !.unresolved = UNION {Unresolved(eps[i]) : i \in job.issues}]

\* The stored rows are read once, before the first of them is written.
ReadEpisodes(w) ==
    LET job == worker[w]
    IN  /\ job.pc = "links"
        /\ job.links = <<>>
        /\ worker' = [worker EXCEPT ![w] =
               ReconcileClosureEpisodes(job, [i \in job.issues |-> ProjectIssueEpisodes(job.loaded, i)])]
        /\ UNCHANGED <<facts, tables, bounds>>

\* uq_closure_episodes_current_issue.
OneCurrentPerIssue(rows) ==
    \A j, k \in DOMAIN rows :
        rows[j].current /\ rows[k].current /\ rows[j].issue = rows[k].issue => j = k

Supersede(row) == [row EXCEPT !.current = FALSE, !.status = "superseded"]

WriteEpisode(w) ==
    LET job  == worker[w]
        stmt == Head(job.writes)
        rows == IF stmt.id = 0 THEN Append(episodes, stmt.row)
                ELSE [episodes EXCEPT ![stmt.id] = IF stmt.row = None THEN Supersede(@) ELSE stmt.row]
    IN  /\ job.pc = "episodes"
        /\ job.writes # <<>>
        /\ Len(rows) <= MaxRows
        /\ IF OneCurrentPerIssue(rows)
           THEN episodes' = rows /\ worker' = [worker EXCEPT ![w].writes = Tail(@)]
           ELSE worker' = [worker EXCEPT ![w].pc = "raised"] /\ UNCHANGED episodes
        /\ UNCHANGED <<facts, links, unresolved, bounds>>

UpsertUnresolved(w) ==
    LET job == worker[w]
        same(u, v) == u.issue = v.issue /\ u.closed = v.closed /\ u.reason = v.reason
    IN  /\ job.pc = "episodes"
        /\ job.writes = <<>>
        /\ unresolved' = {v \in unresolved : ~\E u \in job.unresolved : same(u, v)}
                         \cup job.unresolved
        /\ worker' = [worker EXCEPT ![w].pc = IF job.window = All THEN "absent" ELSE "done"]
        /\ UNCHANGED <<facts, links, episodes, bounds>>

\* A full rebuild deletes the links, then the unresolved records, that it did
\* not produce (each step a read of the keys and the deletes that follow).
DeleteAbsentLinks(w) ==
    LET fresh == {<<x.cr, x.link>> : x \in ProjectLinks(worker[w].loaded)}
    IN  /\ worker[w].pc = "absent"
        /\ links' = [k \in LinkKeys |-> IF k \in fresh THEN links[k] ELSE None]
        /\ worker' = [worker EXCEPT ![w].pc = "absent_unresolved"]
        /\ UNCHANGED <<facts, episodes, unresolved, bounds>>

DeleteAbsentUnresolved(w) ==
    LET key(u) == <<u.issue, u.closed, u.reason>>
    IN  /\ worker[w].pc = "absent_unresolved"
        /\ unresolved' = {u \in unresolved : \E v \in worker[w].unresolved : key(u) = key(v)}
        /\ worker' = [worker EXCEPT ![w].pc = "done"]
        /\ UNCHANGED <<facts, links, episodes, bounds>>

\* The end of a job: completed, raised, or dead at any statement.
Finish(w) ==
    /\ worker[w].pc # "idle"
    /\ worker' = [worker EXCEPT ![w] = Idle]
    /\ UNCHANGED <<facts, tables, bounds>>

Init ==
    /\ facts = {}
    /\ links = [k \in LinkKeys |-> None]
    /\ episodes = <<>>
    /\ unresolved = {}
    /\ worker = [w \in Workers |-> Idle]
    /\ rebuilds = 0
    /\ races = 0

Next ==
    \E w \in Workers :
        \/ \E f \in Deliveries : Persist(w, f)
        \/ \E window \in Windows : StartRebuild(w, window)
        \/ FindAffected(w)
        \/ LoadIssueFacts(w)
        \/ LoadChangeRequestFacts(w)
        \/ LoadAll(w)
        \/ UpsertLink(w)
        \/ ReadEpisodes(w)
        \/ WriteEpisode(w)
        \/ UpsertUnresolved(w)
        \/ DeleteAbsentLinks(w)
        \/ DeleteAbsentUnresolved(w)
        \/ Finish(w)

Spec == Init /\ [][Next]_vars

-----------------------------------------------------------------------------

Rows == [issue : Issues, opened : Nat \cup {None}, closed : Nat \cup {None}, current : BOOLEAN,
         status : {"pending", "awaiting_closure", "inferred", "unmatched", "ambiguous",
                   "superseded"},
         cr : ChangeRequests \cup {None}]

ASSUME RowsAssumption == None \notin Rows

\* The tables hold rows of their types, and one current row per issue.
TypeOK ==
    /\ facts \subseteq Deliveries /\ AreFacts(facts)
    /\ links \in [LinkKeys -> {"active", "parked", "revoked", None}]
    /\ episodes \in Seq(Rows)
    /\ OneCurrentPerIssue(episodes)
    /\ unresolved \subseteq [issue : Issues, closed : Nat, reason : {"unmatched", "ambiguous"},
                             candidates : SUBSET ChangeRequests]
    /\ \A w \in Workers : worker[w].pc \in
           {"idle", "affected", "issues", "crfacts", "load", "links", "episodes",
            "absent", "absent_unresolved", "raised", "done"}

Saw(known, ent, type) == {f.at : f \in {g \in known : g.ent = ent /\ g.type = type}}

LinkIsTrue(known, c, l) == \E f \in Snapshots(known, c) : l \in IssueLinks(f)

RowIsTrue(known, e) ==
    /\ e.closed # None => e.closed \in Saw(known, e.issue, "issue.closed")
    /\ e.cr # None =>
         /\ \E t \in Saw(known, e.cr, "change_request.merged") : t < e.closed
         /\ LinkIsTrue(known, e.cr, <<"declares_closure", e.issue>>)

\* However stale, interrupted or interleaved the recomputes are, no row says
\* more than the facts: a closed row stands for an observed close, a row that
\* names a change request names one that declared the issue and whose merge
\* strictly precedes the close, and a link row was in some snapshot.
NothingIsInvented ==
    /\ \A k \in DOMAIN episodes : RowIsTrue(facts, episodes[k])
    /\ \A x \in LinkKeys : links[x] # None => LinkIsTrue(facts, x[1], x[2])

\* _fetch_current_answer: the current row, and the candidates of the first
\* unresolved record with the same close (reasons sort ambiguous first).
CurrentAnswer(i) ==
    LET cur == {k \in DOMAIN episodes : episodes[k].issue = i /\ episodes[k].current}
        row == episodes[CHOOSE k \in cur : TRUE]
        rec == {u \in unresolved : u.issue = i /\ u.closed = row.closed}
    IN  IF cur = {} THEN None
        ELSE [status |-> row.status, cr |-> row.cr,
              candidates |-> UNION {u.candidates : u \in rec}]

\* The rows of an issue are the given episodes, the last one current.
Stored(i, eps) ==
    LET mine == {episodes[k] : k \in {j \in DOMAIN episodes : episodes[j].issue = i}}
    IN  eps # <<>> =>
            /\ {r \in mine : r.current} = {Row(Last(eps), TRUE)}
            /\ \A e \in Range(Front(eps)) : Row(e, FALSE) \in mine
            /\ \A r \in mine : ~r.current => r.status = "superseded"
            /\ Unresolved(eps) \subseteq unresolved

\* The API's answer for an issue is the last of the given episodes.
Answered(i, eps) ==
    LET open == {u \in Unresolved(eps) : u.closed = Last(eps).closed}
    IN  eps # <<>> =>
            CurrentAnswer(i) = [status |-> Row(Last(eps), TRUE).status, cr |-> Last(eps).cr,
                                candidates |-> UNION {u.candidates : u \in open}]

\* A recompute or rebuild that met no other and ran to its end leaves exactly
\* the projection of what it loaded: the last episode is the one current row
\* of its issue, the earlier ones are there and superseded, and so is any row
\* the projection does not know.  A full rebuild has loaded every fact, and
\* leaves no link and no unresolved record but its own, and the API's current
\* answer for an issue is then the last episode with its candidates.
UndisturbedJobIsExact ==
    \A w \in Workers :
        LET job == worker[w]
        IN  job.pc = "done" /\ job.clean =>
            /\ \A i \in job.issues : Stored(i, ProjectIssueEpisodes(job.loaded, i))
            /\ job.window = All =>
                 /\ job.loaded = {f \in facts : f.type \in RelevantTypes}
                 /\ {[cr |-> x[1], link |-> x[2], state |-> links[x]] :
                        x \in {y \in LinkKeys : links[y] # None}} = ProjectLinks(facts)
                 /\ unresolved = UNION {Unresolved(ProjectIssueEpisodes(facts, i)) : i \in Issues}
                 /\ \A i \in job.issues : Answered(i, ProjectIssueEpisodes(facts, i))

\* An episode row stays what it was made for: no row disappears, and none is
\* turned into the row of another close or from closed back to open.
EpisodesKeepTheirClose ==
    [][/\ Len(episodes') >= Len(episodes)
       /\ \A k \in DOMAIN episodes : /\ episodes'[k].issue = episodes[k].issue
                                     /\ episodes'[k].closed = episodes[k].closed]_vars

\* "staleness self-heals on the next relevant fact" (app/consumer/
\* afk_consumer.py): a recompute that meets no other never raises.
LoneRecomputeSucceeds ==
    \A w \in Workers : ~(worker[w].pc = "raised" /\ worker[w].clean)
=============================================================================
