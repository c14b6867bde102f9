----------------------------- MODULE PagedReads -----------------------------
(***************************************************************************)
(* The list endpoints read page by page while ingest keeps writing.  The   *)
(* transcript endpoints (app/api/execution.py) continue after an opaque    *)
(* cursor of the last row's (source_created_at, id); the others count and  *)
(* then select with LIMIT and OFFSET.  Every page is a request of its own, *)
(* and the count and the rows of one page are two statements: writers run  *)
(* between any two.                                                        *)
(*                                                                         *)
(* One table of rows stands for whichever table the walked endpoint reads; *)
(* a row has the session (parent, client) it belongs to, a tag (agent,     *)
(* role, part type, model, reason) and its sort column, which may be NULL. *)
(***************************************************************************)
EXTENDS Values, Integers, FiniteSets, Sequences, SequencesExt

CONSTANTS RowIds,      \* primary keys, ordered (a set of naturals)
          Sessions,    \* sessions rows may belong to
          Contents,    \* what a row may hold: [session, tag, at]
          Sentinel,    \* NULL_CURSOR_SENTINEL, above every time
          Starts,      \* the tables a walk may find: functions on subsets of RowIds
          Trees,       \* the session links it may find: sets of <<parent, child>>
          Filters,     \* query strings: [session, tag, from, to, depth]
          Sizes,       \* page sizes
          MaxChanges   \* bound: writes during the walk

ASSUME PagedAssumption ==
    /\ IsFiniteSet(RowIds) /\ RowIds \subseteq Nat
    /\ IsFiniteSet(Sessions)
    /\ Sentinel \in Nat /\ None \notin Nat \cup (Nat \X Nat)
    /\ \A c \in Contents : /\ c = [session |-> c.session, tag |-> c.tag, at |-> c.at]
                           /\ c.at \in Nat \cup {None}
    /\ Starts \subseteq UNION {[S -> Contents] : S \in SUBSET RowIds}
    /\ Trees \subseteq SUBSET (Sessions \X Sessions)
    /\ \A f \in Filters : f.session \in Sessions \cup {None} /\ f.depth \in Nat \cup {None}
    /\ Sizes \subseteq Nat \ {0}

VARIABLES stored,      \* the table: a function from the ids present
          links,       \* <<parent, child>> pairs of the edges CTE
          walk,        \* the reader and what it has been given
          changes
pagedVars == <<stored, links, walk, changes>>

KeysetEndpoints == {"messages", "parts", "toolCalls", "timeline"}
TiedEndpoints   == {"children", "records", "recordsWithContext", "canonicalRuns", "reverseLinks", "clients"}
UntiedEndpoints == {"sessions", "agentRuns", "runs", "entities", "correlations", "sessionLinks", "quarantines"}

-----------------------------------------------------------------------------
(* WHERE.  An absent part of a filter is None.  A comparison with a NULL   *)
(* column is not true, so a time window drops the rows without a time.     *)

Tagged(r, f)    == f.tag = None \/ stored[r].tag = f.tag
InSession(r, f) == f.session = None \/ stored[r].session = f.session
Since(r, f)     == f.from = None \/ (stored[r].at # None /\ stored[r].at >= f.from)
Until(r, f)     == f.to = None \/ (stored[r].at # None /\ stored[r].at <= f.to)

FetchMessages(f) ==
    {r \in DOMAIN stored : stored[r].session = f.session /\ Tagged(r, f) /\ Since(r, f) /\ Until(r, f)}

FetchParts(f) ==
    {r \in DOMAIN stored : stored[r].session = f.session /\ Tagged(r, f) /\ Since(r, f) /\ Until(r, f)}

FetchToolCalls(f) ==
    {r \in DOMAIN stored : InSession(r, f) /\ Tagged(r, f) /\ Since(r, f) /\ Until(r, f)}

\* The recursive CTE: a row for every path of distinct sessions down from
\* the root, at most max_depth links long.
Deepest(depth) == IF depth = None THEN Cardinality(Sessions) ELSE depth

Descendants(root, depth) ==
    {p \in UNION {[1..n -> Sessions] : n \in 1..Deepest(depth) + 1} :
        /\ p[1] = root
        /\ \A i \in 1..Len(p) - 1 : <<p[i], p[i + 1]>> \in links
        /\ \A i, j \in 1..Len(p) : p[i] = p[j] => i = j}

\* DISTINCT ON (part) ... ORDER BY part, depth: every part of the tree once,
\* with the depth it is listed at.
Dedup(f) ==
    LET paths == Descendants(f.session, f.depth)
    IN  [r \in {x \in DOMAIN stored : \E p \in paths : stored[x].session = Last(p)} |->
            Min({Len(p) - 1 : p \in {q \in paths : Last(q) = stored[r].session}})]

FetchTimeline(f) == {r \in DOMAIN Dedup(f) : Tagged(r, f) /\ Since(r, f) /\ Until(r, f)}

FetchChildren(f) == {r \in DOMAIN stored : stored[r].session = f.session}

\* The dates are required, and the sort column is never NULL.
FetchRecords(f) ==
    {r \in DOMAIN stored : stored[r].at # None /\ InSession(r, f) /\ Tagged(r, f) /\ Since(r, f) /\ Until(r, f)}

FetchRecordsWithContext(f) ==
    {r \in DOMAIN stored : stored[r].at # None /\ InSession(r, f) /\ Tagged(r, f) /\ Since(r, f) /\ Until(r, f)}

\* A session still without a last message overlaps every window.
FetchSessions(f)     == {r \in DOMAIN stored : Since(r, f) \/ stored[r].at = None}
FetchAgentRuns(f)    == {r \in DOMAIN stored : Tagged(r, f) /\ Since(r, f) /\ Until(r, f)}
FetchRuns(f)         == {r \in DOMAIN stored : Tagged(r, f) /\ Since(r, f) /\ Until(r, f)}
FetchEntityRows(f)   == DOMAIN stored
FetchCorrelations(f) == {r \in DOMAIN stored : Tagged(r, f)}

\* created_before excludes the cutoff itself.
FetchCanonicalRuns(f) ==
    {r \in DOMAIN stored : Tagged(r, f) /\ (f.to = None \/ (stored[r].at # None /\ stored[r].at < f.to))}

FetchReverseLinks(f)         == {r \in DOMAIN stored : stored[r].session = f.session /\ Tagged(r, f)}
FetchSessionLinks(f)         == DOMAIN stored
ListQuarantinedIdentities(f) == {r \in DOMAIN stored : InSession(r, f)}
ListClients(f)               == DOMAIN stored

Selected(ep, f) ==
    CASE ep = "messages" -> FetchMessages(f)           [] ep = "parts" -> FetchParts(f)
      [] ep = "toolCalls" -> FetchToolCalls(f)         [] ep = "timeline" -> FetchTimeline(f)
      [] ep = "children" -> FetchChildren(f)           [] ep = "records" -> FetchRecords(f)
      [] ep = "recordsWithContext" -> FetchRecordsWithContext(f)
      [] ep = "sessions" -> FetchSessions(f)           [] ep = "agentRuns" -> FetchAgentRuns(f)
      [] ep = "runs" -> FetchRuns(f)                   [] ep = "entities" -> FetchEntityRows(f)
      [] ep = "correlations" -> FetchCorrelations(f)   [] ep = "canonicalRuns" -> FetchCanonicalRuns(f)
      [] ep = "reverseLinks" -> FetchReverseLinks(f)   [] ep = "sessionLinks" -> FetchSessionLinks(f)
      [] ep = "quarantines" -> ListQuarantinedIdentities(f)
      [] ep = "clients" -> ListClients(f)

\* The header's message_count, part_count and tool_call_count.
HeaderCount(s) == Cardinality({r \in DOMAIN stored : stored[r].session = s})

-----------------------------------------------------------------------------
(* ORDER BY and LIMIT.                                                     *)

\* COALESCE(source_created_at, sentinel), which next_cursor repeats.
KeyTime(r) == IF stored[r].at = None THEN Sentinel ELSE stored[r].at

\* Mutant: the cursor carries the time only.
After_TimeOnly(r, cursor) == cursor = None \/ KeyTime(r) > cursor[1]

\* (COALESCE(time, sentinel), id) > (after_ms, after_id)
After(r, cursor) ==
    cursor = None \/ KeyTime(r) > cursor[1] \/ (KeyTime(r) = cursor[1] /\ r > cursor[2])

Ascending(r, q) == KeyTime(r) < KeyTime(q) \/ (KeyTime(r) = KeyTime(q) /\ r < q)

\* NULLs come first under DESC, except where NULLS LAST is written, and last
\* under ASC.
Newest(ep, r, q) ==
    LET nullsLast == ep \in {"agentRuns", "canonicalRuns"}
        key(x) == CASE ep \in {"sessionLinks", "quarantines"} -> - KeyTime(x)
                    [] ep \in {"reverseLinks", "clients"}     -> - x
                    [] OTHER -> IF nullsLast /\ stored[x].at = None THEN -1 ELSE KeyTime(x)
    IN  key(r) > key(q)

\* What ORDER BY decides: everything where it ends in the primary key (or,
\* for clients and reverse links, is a unique key), else nothing of equal rows.
ListedBefore(ep, r, q) ==
    IF ep \in KeysetEndpoints \cup {"children"} THEN Ascending(r, q)
    ELSE Newest(ep, r, q) \/ (ep \in TiedEndpoints /\ ~ Newest(ep, q, r) /\ r < q)

\* The orders PostgreSQL may return the rows in: each row's place, from 0.
Places(ep, rows) ==
    {place \in [rows -> 0..Cardinality(rows) - 1] :
        \A r, q \in rows : /\ place[r] = place[q] => r = q
                           /\ ListedBefore(ep, r, q) => place[r] < place[q]}

-----------------------------------------------------------------------------
(* The reader.                                                             *)

NoWalk == [pc |-> "none"]

PagedInit ==
    /\ stored \in Starts
    /\ links \in Trees
    /\ walk = NoWalk
    /\ changes = 0

\* steady: the rows that satisfy the filter, with the same key, ever since
\* the walk began.  calm: nothing was written since.  seen: how often each
\* row was on a page; given: how many rows the pages had.
Begin(ep, f, n) ==
    /\ walk.pc = "none"
    /\ ep \in {"messages", "parts", "timeline", "children", "reverseLinks"} => f.session # None
    /\ ep \in {"records", "recordsWithContext", "sessions"} => f.from # None /\ f.to # None
    /\ walk' = [pc |-> IF ep \in KeysetEndpoints THEN "page" ELSE "count", ep |-> ep, f |-> f, size |-> n,
                cursor |-> None, offset |-> 0, total |-> 0,
                seen |-> [r \in RowIds |-> 0], given |-> 0,
                steady |-> Selected(ep, f), calm |-> TRUE]
    /\ UNCHANGED <<stored, links, changes>>

SeenWith(page) == [r \in RowIds |-> walk.seen[r] + (IF r \in page THEN 1 ELSE 0)]

\* One row more than the page is fetched to learn whether there is another;
\* the next page begins after the last row of this one.
KeysetPage ==
    /\ walk.pc = "page"
    /\ LET rows == {r \in Selected(walk.ep, walk.f) : After(r, walk.cursor)}
           more == Cardinality(rows) > walk.size
       IN  \E place \in Places(walk.ep, rows) :
             LET page == {r \in rows : place[r] < walk.size}
                 last == CHOOSE r \in page : place[r] = walk.size - 1
             IN  walk' = [walk EXCEPT !.seen = SeenWith(page), !.given = @ + Cardinality(page),
                                      !.cursor = IF more THEN <<KeyTime(last), last>> ELSE @,
                                      !.pc = IF more THEN "page" ELSE "done"]
    /\ UNCHANGED <<stored, links, changes>>

CountRows ==
    /\ walk.pc = "count"
    /\ walk' = [walk EXCEPT !.total = Cardinality(Selected(walk.ep, walk.f)), !.pc = "rows"]
    /\ UNCHANGED <<stored, links, changes>>

\* A client asks for the next offset while it is below the total.
OffsetPage ==
    /\ walk.pc = "rows"
    /\ LET rows == Selected(walk.ep, walk.f)
           end  == walk.offset + walk.size
       IN  \E place \in Places(walk.ep, rows) :
             LET page == {r \in rows : place[r] \in walk.offset .. end - 1}
             IN  walk' = [walk EXCEPT !.seen = SeenWith(page), !.given = @ + Cardinality(page),
                                      !.offset = end,
                                      !.pc = IF end < walk.total THEN "count" ELSE "done"]
    /\ UNCHANGED <<stored, links, changes>>

-----------------------------------------------------------------------------
(* The writers: ingest inserts rows, an upsert fills in or changes the     *)
(* sort column, retention and reconciliation delete, and a context or a    *)
(* message links two sessions.                                             *)

Disturb ==
    /\ walk.pc \notin {"none", "done"}
    /\ changes < MaxChanges
    /\ changes' = changes + 1
    /\ \E ep \in {walk.ep}, f \in {walk.f} :
          walk' = [walk EXCEPT !.calm = FALSE,
                               !.steady = {r \in @ : r \in Selected(ep, f)' /\ stored'[r].at = stored[r].at}]

InsertRow(r, c) ==
    /\ r \notin DOMAIN stored
    /\ stored' = [x \in DOMAIN stored \cup {r} |-> IF x = r THEN c ELSE stored[x]]
    /\ UNCHANGED links
    /\ Disturb

RekeyRow(r, c) ==
    /\ r \in DOMAIN stored
    /\ stored[r].at # c.at
    /\ stored' = [stored EXCEPT ![r].at = c.at]
    /\ UNCHANGED links
    /\ Disturb

DeleteRow(r) ==
    /\ r \in DOMAIN stored
    /\ stored' = [x \in DOMAIN stored \ {r} |-> stored[x]]
    /\ UNCHANGED links
    /\ Disturb

LinkSessions(l) ==
    /\ l \notin links
    /\ links' = links \cup {l}
    /\ UNCHANGED stored
    /\ Disturb

PagedNext ==
    \/ \E ep \in KeysetEndpoints \cup TiedEndpoints \cup UntiedEndpoints, f \in Filters, n \in Sizes : Begin(ep, f, n)
    \/ KeysetPage
    \/ CountRows
    \/ OffsetPage
    \/ \E r \in RowIds, c \in Contents : InsertRow(r, c) \/ RekeyRow(r, c)
    \/ \E r \in RowIds : DeleteRow(r)
    \/ \E l \in UNION Trees : LinkSessions(l)

PagedSpec == PagedInit /\ [][PagedNext]_pagedVars

-----------------------------------------------------------------------------
(* Properties.                                                             *)

Once(r) == walk.seen[r] = 1

\* "the after= re-issue is stable under concurrent ingest" (pagination.py):
\* a keyset walk gives every row that kept its place throughout the walk
\* exactly once, NULL times included, whatever is inserted, moved, deleted
\* or linked meanwhile.
KeysetWalkIsExact ==
    walk.pc = "done" /\ walk.ep \in KeysetEndpoints => \A r \in walk.steady : Once(r)

\* An offset walk that nothing disturbs returns every selected row once when
\* the sort ends in the primary key, and exactly as many rows as the total
\* it announced; an undisturbed transcript walk without filters is as long as
\* the session header says.
UndisturbedWalkIsExact ==
    walk.pc = "done" /\ walk.calm =>
        /\ walk.ep \in TiedEndpoints => \A r \in Selected(walk.ep, walk.f) : Once(r)
        /\ walk.ep \notin KeysetEndpoints => walk.given = walk.total
        /\ walk.ep \in {"messages", "parts"} /\ walk.f.tag = None /\ walk.f.from = None /\ walk.f.to = None
              => walk.given = HeaderCount(walk.f.session)

\* The sessions that n links or fewer lead to, repeated or not.
Reached(root, n) ==
    {s \in Sessions : \E k \in 0..n : \E chain \in [0..k -> Sessions] :
        /\ chain[0] = root /\ chain[k] = s
        /\ \A i \in 0..k - 1 : <<chain[i], chain[i + 1]>> \in links}

\* The timeline lists a part at its distance from the root session, although
\* several chains of links may lead to it and links may form a cycle.
TimelineDepthIsDistance ==
    walk.pc # "none" /\ walk.ep = "timeline" =>
        LET listed == Dedup(walk.f)
            deepest == Deepest(walk.f.depth)
            within == [n \in 0..deepest |-> Reached(walk.f.session, n)]
        IN  /\ DOMAIN listed = {r \in DOMAIN stored : stored[r].session \in within[deepest]}
            /\ \A r \in DOMAIN listed, n \in 0..deepest : listed[r] <= n <=> stored[r].session \in within[n]

\* What a client that follows the pages to their end may rely on.
WalksAreExact == KeysetWalkIsExact /\ UndisturbedWalkIsExact /\ TimelineDepthIsDistance
=============================================================================
