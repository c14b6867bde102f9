-------------------------- MODULE OutcomeBackfill --------------------------
(***************************************************************************)
(* The AFK backfill: scripts/afk_backfill.py pulls a window from the code  *)
(* host, correlates it with every session of the window and saves one run  *)
(* per session through afk_outcomes/repository/crud.py, statement after    *)
(* statement on a connection without a transaction.  The operator starts   *)
(* it, the consumer's _reconcile_once calls the same function; it may die  *)
(* at any point, and people edit the change requests in the meantime.      *)
(***************************************************************************)
EXTENDS Correlation, FiniteSetsExt

CONSTANTS
    HostPulls,      \* number -> [from, to, body, head, commits] of a change request
    HostIssues,     \* number -> [from, to]
    HostTitles,     \* the titles people give to change requests
    HostSessions,   \* session -> [title, from, to, agent, client, project]
    BackfillWindows,\* the <<since, until>> the backfill is run for
    MaxHostEdits    \* bound on the edits of change requests

ASSUME BackfillAssumption ==
    /\ IsFiniteSet(DOMAIN HostPulls) /\ IsFiniteSet(DOMAIN HostIssues) /\ IsFiniteSet(DOMAIN HostSessions)
    /\ \A n \in DOMAIN HostPulls : IsFiniteSet(DOMAIN HostPulls[n].commits)
    /\ None \notin DOMAIN HostSessions

VARIABLES
    hostPulls,      \* number -> [title, state], what the code host says now
    backfill,       \* the pass: its window's entities, the sessions and statements left,
                    \* and whether the host still says what was fetched
    afkRuns,        \* afk_runs: run -> outcome status
    runEntities,    \* afk_run_entities: <<entity, run>> -> [role, conf, superseded]
    runSessions,    \* afk_run_sessions: <<run, session>>
    unresolvedRows, \* unresolved_correlations: <<run, method or reason>>
    hostEdits,      \* number of edits so far
    settled         \* passes over one window completed without disturbance, and what the
                    \* last one left

backfillVars == <<hostPulls, backfill, afkRuns, runEntities, runSessions, unresolvedRows,
                  hostEdits, settled>>

\* The fields of f, and those of g that f does not have.
Over(f, g) == [x \in DOMAIN f \cup DOMAIN g |-> IF x \in DOMAIN f THEN f[x] ELSE g[x]]
Put(f, k, v) == [x \in DOMAIN f \cup {k} |-> IF x = k THEN v ELSE f[x]]

\* SessionKeyedULID: the run of a session is named by the session.
RunId(s) == s
Runs == {RunId(s) : s \in DOMAIN HostSessions}

Entities == {<<"issue", n>> : n \in DOMAIN HostIssues}
            \cup {<<"change_request", n>> : n \in DOMAIN HostPulls}
            \cup {<<"commit", c>> : c \in UNION {DOMAIN HostPulls[n].commits : n \in DOMAIN HostPulls}}

NoFields == [number |-> None, title |-> None, resolves |-> {}, mentions |-> {}, branch |-> {}, refs |-> {},
          owner |-> None, state |-> None, author |-> None, from |-> None, to |-> None]

Entity(id, fields) == Over(fields, Over([id |-> id, type |-> id[1]], NoFields))

InWindow(x, w) == w[1] <= x.from /\ x.from <= w[2]

IssueEntities(w) ==
    {Entity(<<"issue", n>>, [number |-> n, from |-> HostIssues[n].from, to |-> HostIssues[n].to]) :
        n \in {m \in DOMAIN HostIssues : InWindow(HostIssues[m], w)}}

\* Neither adapter copies the description or the branch of a change request
\* into the fields that the correlation rules read.
ChangeRequestEntities(ns) ==
    {Entity(<<"change_request", n>>,
            [number |-> n, title |-> hostPulls[n].title, state |-> hostPulls[n].state,
             from |-> HostPulls[n].from, to |-> HostPulls[n].to]) : n \in ns}
    \cup {Entity(<<"merge_event", n>>, [number |-> n, state |-> "merged", from |-> HostPulls[n].to]) :
            n \in {m \in ns : hostPulls[m].state = "merged"}}

CommitEntities(n) ==
    {Entity(<<"commit", c>>, [refs |-> HostPulls[n].commits[c], owner |-> n, from |-> HostPulls[n].to]) :
        c \in DOMAIN HostPulls[n].commits}

FetchEntities(w) ==
    LET pulls  == {n \in DOMAIN HostPulls : InWindow(HostPulls[n], w)}
        listed == SetToSeq(pulls)
    IN  SetToSeq(IssueEntities(w)) \o SetToSeq(ChangeRequestEntities(pulls))
            \o FlattenSeq([k \in 1..Len(listed) |-> SetToSeq(CommitEntities(listed[k]))])

-----------------------------------------------------------------------------

Idle == [pc |-> "idle", fresh |-> TRUE, entities |-> <<>>, sessions |-> {}, statements |-> <<>>]

Tables == <<afkRuns, runEntities, runSessions, unresolvedRows>>

Unsettled(w) == [window |-> w, passes |-> 0, tables |-> <<>>]

\* Bound on the passes that are counted, see RepeatedPassesSettle.
MaxPasses == Cardinality(DOMAIN HostSessions) + 1

BackfillInit ==
    /\ hostPulls \in [DOMAIN HostPulls -> [title : HostTitles, state : {"open"}]]
    /\ backfill = Idle /\ hostEdits = 0
    /\ afkRuns = [r \in {} |-> None] /\ runEntities = [k \in {} |-> None]
    /\ runSessions = {} /\ unresolvedRows = {}
    /\ settled = Unsettled(None)

\* Someone retitles, merges or closes a change request at the host.
EditPull(n) ==
    /\ hostEdits < MaxHostEdits
    /\ hostEdits' = hostEdits + 1
    /\ \/ \E t \in HostTitles \ {hostPulls[n].title} : hostPulls' = [hostPulls EXCEPT ![n].title = t]
       \/ /\ hostPulls[n].state = "open"
          /\ \E s \in {"merged", "closed"} : hostPulls' = [hostPulls EXCEPT ![n].state = s]
    /\ settled' = Unsettled(settled.window)
    /\ backfill' = [backfill EXCEPT !.fresh = FALSE]
    /\ UNCHANGED <<afkRuns, runEntities, runSessions, unresolvedRows>>

\* _load_sessions and the two fetches.
StartPass(w) ==
    /\ backfill.pc = "idle"
    /\ backfill' = [pc |-> "resolve", fresh |-> TRUE, entities |-> FetchEntities(w), statements |-> <<>>,
                    sessions |-> {s \in DOMAIN HostSessions :
                                    HostSessions[s].from <= w[2] /\ HostSessions[s].to >= w[1]}]
    /\ settled' = IF settled.window = w THEN settled ELSE Unsettled(w)
    /\ UNCHANGED <<hostPulls, afkRuns, runEntities, runSessions, unresolvedRows, hostEdits>>

\* _find_existing_run_id: the run whose link to the change request that this
\* result resolves is a resolved one.
ExistingRun(result) ==
    LET claims == {l.id : l \in {k \in result.links : k.role = "resolved" /\ k.id[1] = "change_request"}}
        runs   == {r \in Runs : \E id \in claims : /\ <<id, r>> \in DOMAIN runEntities
                                                   /\ runEntities[<<id, r>>].role = "resolved"}
    IN  IF runs = {} THEN None ELSE CHOOSE r \in runs : TRUE

\* Mutant: a session saves under its own id even if the change request is
\* already claimed.
ResolveSession_NoLookup(s) ==
    LET run == Over([id |-> RunId(s)], HostSessions[s])
        res == Resolve(run, backfill.entities, {})
        r   == RunId(s)
        stmt(op, x) == [op |-> op, run |-> r, arg |-> x]
        link(l) == <<stmt("link", l), stmt("supersede", l)>>
        links == SetToSeq(res.links)
    IN  /\ backfill.pc = "resolve" /\ s \in backfill.sessions
        /\ backfill' = [backfill EXCEPT !.pc = "save", !.sessions = @ \ {s}, !.statements =
              FlattenSeq([k \in 1..Len(links) |-> link(links[k])])]
        /\ UNCHANGED <<hostPulls, afkRuns, runEntities, runSessions, unresolvedRows, hostEdits, settled>>

\* One session: resolve, look for the run that owns the change request, and
\* lay out the statements of save and save_unresolved.
ResolveSession(s) ==
    LET run   == Over([id |-> RunId(s)], HostSessions[s])
        res   == Resolve(run, backfill.entities, {})
        r     == IF ExistingRun(res) = None THEN RunId(s) ELSE ExistingRun(res)
        locked == Correlations(run, backfill.entities, {})
        stmt(op, x) == [op |-> op, run |-> r, arg |-> x]
        each(op, S) == LET q == SetToSeq(S) IN [k \in 1..Len(q) |-> stmt(op, q[k])]
        link(l) == <<stmt("link", l), stmt("supersede", l)>>
        links == SetToSeq(res.links)
        all   == {Over([id |-> t], HostSessions[t]) : t \in DOMAIN HostSessions}
    IN  /\ backfill.pc = "resolve" /\ s \in backfill.sessions
        /\ \A t \in backfill.sessions : s <= t
        /\ backfill' = [backfill EXCEPT !.pc = "save", !.sessions = @ \ {s}, !.statements =
              <<stmt("run", IF res.outcome = None THEN None ELSE res.outcome.status)>>
                \o FlattenSeq([k \in 1..Len(links) |-> link(links[k])])
                \o each("session", {l.id : l \in SessionLinks(run, res.owning, None, all)})
                \o each("unresolved", {locked[id].method : id \in
                        {i \in DOMAIN locked : locked[i].conf < ResolvedRoleThreshold}})
                \o each("unresolved", {u.reason : u \in res.unresolved})]
        /\ UNCHANGED <<hostPulls, afkRuns, runEntities, runSessions, unresolvedRows, hostEdits, settled>>

\* _upsert_run: an absent outcome erases nothing.
UpsertRun(st) ==
    /\ st.op = "run"
    /\ afkRuns' = Put(afkRuns, st.run,
                      IF st.arg = None /\ st.run \in DOMAIN afkRuns THEN afkRuns[st.run] ELSE st.arg)
    /\ UNCHANGED <<runEntities, runSessions, unresolvedRows>>

\* _upsert_entity_link, first statement: the role is overwritten, the
\* confidence only rises, and superseded_at is left as it is.
UpsertEntityLink(st) ==
    LET k   == <<st.arg.id, st.run>>
        old == k \in DOMAIN runEntities
    IN  /\ st.op = "link"
        /\ runEntities' = Put(runEntities, k,
              [role |-> st.arg.role,
               superseded |-> old /\ runEntities[k].superseded,
               conf |-> IF old /\ runEntities[k].conf > st.arg.conf THEN runEntities[k].conf ELSE st.arg.conf])
        /\ UNCHANGED <<afkRuns, runSessions, unresolvedRows>>

\* _upsert_entity_link, second statement.
SupersedeWeaker(st) ==
    /\ st.op = "supersede"
    /\ runEntities' = [k \in DOMAIN runEntities |->
          IF k[1] = st.arg.id /\ k[2] # st.run /\ runEntities[k].conf < st.arg.conf
          THEN [runEntities[k] EXCEPT !.superseded = TRUE] ELSE runEntities[k]]
    /\ UNCHANGED <<afkRuns, runSessions, unresolvedRows>>

UpsertSessionLink(st) ==
    /\ st.op = "session"
    /\ runSessions' = runSessions \cup {<<st.run, st.arg>>}
    /\ UNCHANGED <<afkRuns, runEntities, unresolvedRows>>

UpsertUnresolved(st) ==
    /\ st.op = "unresolved"
    /\ unresolvedRows' = unresolvedRows \cup {<<st.run, st.arg>>}
    /\ UNCHANGED <<afkRuns, runEntities, runSessions>>

\* The next statement of save.
Save ==
    /\ backfill.pc = "save" /\ backfill.statements # <<>>
    /\ LET st == Head(backfill.statements)
       IN  \/ UpsertRun(st) \/ UpsertEntityLink(st) \/ SupersedeWeaker(st)
           \/ UpsertSessionLink(st) \/ UpsertUnresolved(st)
    /\ backfill' = [backfill EXCEPT !.statements = Tail(@)]
    /\ UNCHANGED <<hostPulls, hostEdits, settled>>

\* The session is saved; the next one, or the report.
EndSession ==
    /\ backfill.pc = "save" /\ backfill.statements = <<>>
    /\ backfill' = [backfill EXCEPT !.pc = "resolve"]
    /\ UNCHANGED <<hostPulls, afkRuns, runEntities, runSessions, unresolvedRows, hostEdits, settled>>

EndPass ==
    /\ backfill.pc = "resolve" /\ backfill.sessions = {}
    /\ backfill' = Idle
    /\ settled' = IF backfill.fresh
                  THEN [settled EXCEPT !.passes = Min({MaxPasses, @ + 1}), !.tables = Tables] ELSE settled
    /\ UNCHANGED <<hostPulls, afkRuns, runEntities, runSessions, unresolvedRows, hostEdits>>

\* The process dies; what is written stays.
BackfillDies ==
    /\ backfill.pc # "idle"
    /\ backfill' = Idle
    /\ settled' = Unsettled(settled.window)
    /\ UNCHANGED <<hostPulls, afkRuns, runEntities, runSessions, unresolvedRows, hostEdits>>

BackfillNext ==
    \/ \E n \in DOMAIN HostPulls : EditPull(n)
    \/ \E w \in BackfillWindows : StartPass(w)
    \/ \E s \in DOMAIN HostSessions : ResolveSession(s)
    \/ Save \/ EndSession \/ EndPass \/ BackfillDies

BackfillSpec == BackfillInit /\ [][BackfillNext]_backfillVars

-----------------------------------------------------------------------------

(* A change request is claimed by one run, through retitling, repeated and *)
(* interrupted passes: the lookup before the save makes a session whose    *)
(* change request is taken join the run that took it ("reuses the stored   *)
(* run instead of creating a duplicate").                                  *)
OneRunPerChangeRequest ==
    \A j, k \in DOMAIN runEntities :
        /\ j[1] = k[1] /\ j[1][1] = "change_request"
        /\ runEntities[j].role = "resolved" /\ runEntities[k].role = "resolved"
        => j = k

(* Re-running a window converges: once as many passes over unchanged data  *)
(* have completed as there are sessions, a further one leaves every table  *)
(* as it was, but for the evidence lists, which every save appends to.     *)
(* Fewer are not enough.  After people moved titles from one change        *)
(* request to the next, the first pass makes a session join the run that   *)
(* has its new change request; that run loses it when its own session is   *)
(* saved without a change request, so in the next pass the session goes    *)
(* back to its own run, which loses the one it had until then, and so on.  *)
RepeatedPassesSettle ==
    settled.passes >= Cardinality(DOMAIN HostSessions) /\ 0 < settled.passes
        /\ settled'.passes > settled.passes
    => settled'.tables = settled.tables

\* The backfill may be repeated: no step of it claims a change request twice,
\* and it does not keep changing.
BackfillConverges == [][OneRunPerChangeRequest' /\ RepeatedPassesSettle]_backfillVars
=============================================================================
