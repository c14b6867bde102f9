-------------------------- MODULE ClosureEpisodes --------------------------
(***************************************************************************)
(* The pure projector of afk_outcomes/closure_episodes.py: from the        *)
(* immutable facts about issues and change requests to the state of every  *)
(* link and to the closure episodes of every issue.                        *)
(*                                                                         *)
(* A fact is a record [ent, type, at, via, links]: `at' is occurred_at, a  *)
(* natural number, `via' is observed_via, and `links' the issue_links of   *)
(* the payload as the producer sent it: None when the field is missing,    *)
(* else a set of <<kind, issue>> pairs in which Malformed stands for the   *)
(* entries that do not normalise.  Provider and repository are part of the *)
(* names of issues and change requests.                                    *)
(***************************************************************************)
EXTENDS Values, Integers, Sequences, FiniteSets, FiniteSetsExt, SequencesExt

CONSTANTS
    Issues,
    ChangeRequests,
    Malformed       \* a link entry whose repository cannot be normalised

IssueTypes == {"issue.opened", "issue.reopened", "issue.closed"}
SnapshotTypes == {"change_request.opened", "change_request.updated"}
RelevantTypes == IssueTypes \cup SnapshotTypes \cup {"change_request.merged"}

Links == {"declares_closure", "references"} \X Issues

ASSUME EpisodesAssumption ==
    IsFiniteSet(Issues) /\ IsFiniteSet(ChangeRequests) /\ None \notin Nat

IsFact(f) ==
    /\ f.at \in Nat /\ f.via \in {"webhook", "backfill"}
    /\ f.links = None \/ f.links \subseteq Links \cup {Malformed}

SameKey(f, g) == f.ent = g.ent /\ f.type = g.type /\ f.at = g.at

\* What the store may hold: a fact for each key.
AreFacts(facts) ==
    /\ IsFiniteSet(facts)
    /\ \A f \in facts : IsFact(f)
    /\ \A f, g \in facts : SameKey(f, g) => f = g

\* _issue_links_from_payload: bad entries are skipped one by one, but a field
\* with two empty lists is taken for a missing one.
IssueLinks(f) == IF f.links \in {None, {}} THEN None ELSE f.links \ {Malformed}

\* The snapshots that count at one timestamp: one, or the conflicting ones.
ResolveTimestampGroup(group) ==
    LET views(S)  == {IssueLinks(f) : f \in {g \in group : g.via \in S}}
        distinct == views({"webhook", "backfill"})
    IN  IF Cardinality(distinct) > 1 /\ Cardinality(views({"webhook"})) = 1
        THEN views({"webhook"}) ELSE distinct

\* One timestamp applied to the link states known so far: what all views hold
\* is active, what only some hold is parked, what none holds is revoked.
ApplyViews(states, views) ==
    LET union == UNION views
        state(l) == IF \A v \in views : l \in v THEN "active"
                    ELSE IF l \in union THEN "parked" ELSE "revoked"
    IN  [l \in DOMAIN states \cup union |-> state(l)]

Snapshots(facts, c) ==
    {f \in facts : f.ent = c /\ f.type \in SnapshotTypes /\ IssueLinks(f) # None}

At(facts, t) == {f \in facts : f.at = t}

\* The groups in the order of their times: the latest is applied last.
DeriveLinkStates(facts, c) ==
    LET snaps == Snapshots(facts, c)
        apply(t, states) == ApplyViews(states, ResolveTimestampGroup(At(snaps, t)))
    IN  MapThenFoldSet(apply, [l \in {} |-> None], LAMBDA t : t, Max, {f.at : f \in snaps})

\* The first merge observed of a change request.
Merged(facts, c) ==
    LET at == {f.at : f \in {g \in facts : g.ent = c /\ g.type = "change_request.merged"}}
    IN  IF at = {} THEN None ELSE Min(at)

\* Mutant: a plain reference counts as a declaration.
Declaring_References(facts, i, state) ==
    {c \in ChangeRequests :
        LET states == DeriveLinkStates(facts, c)
        IN  \E l \in DOMAIN states : l[2] = i /\ states[l] = state}

Declaring(facts, i, state) ==
    {c \in ChangeRequests :
        LET states == DeriveLinkStates(facts, c)
            l      == <<"declares_closure", i>>
        IN  l \in DOMAIN states /\ states[l] = state}

\* The merge must strictly precede the close.
Eligible(facts, crs, closed) ==
    {c \in crs : Merged(facts, c) # None /\ Merged(facts, c) < closed}

\* act and parked are the change requests with an active or parked declaration
\* that may have closed the issue.
Credited(i, opened, closed, act, parked) ==
    LET status == IF parked # {} \/ Cardinality(act) > 1 THEN "ambiguous"
                  ELSE IF act = {} THEN "unmatched" ELSE "inferred"
    IN  [issue |-> i, opened |-> opened, closed |-> closed, status |-> status,
         cr |-> IF status = "inferred" THEN CHOOSE c \in act : TRUE ELSE None,
         candidates |-> IF status = "ambiguous" THEN act \cup parked ELSE {}]

\* Mutant: of several candidates the episode takes any.
ClosedEpisode_TieBreak(facts, i, opened, closed) ==
    LET act == Eligible(facts, Declaring(facts, i, "active"), closed)
        cr  == IF act = {} THEN {} ELSE {CHOOSE c \in act : TRUE}
    IN  Credited(i, opened, closed, cr, {})

ClosedEpisode(facts, i, opened, closed) ==
    Credited(i, opened, closed, Eligible(facts, Declaring(facts, i, "active"), closed),
                                Eligible(facts, Declaring(facts, i, "parked"), closed))

OpenEpisode(facts, i, opened) ==
    [issue |-> i, opened |-> opened, closed |-> None, cr |-> None, candidates |-> {},
     status |-> IF \E c \in Declaring(facts, i, "active") : Merged(facts, c) # None
                THEN "awaiting_closure" ELSE "pending"]

\* At one instant the types sort by name: closed, opened, reopened.
Rank(type) == CASE type = "issue.closed" -> 0 [] type = "issue.opened" -> 1 [] OTHER -> 2

Before(f, g) == f.at < g.at \/ (f.at = g.at /\ Rank(f.type) < Rank(g.type))

Latest(events) == CHOOSE f \in events : \A g \in events : ~ Before(f, g)

\* One lifecycle fact: closed episodes so far, and when the issue was last
\* opened.
Walked(facts, i, f, acc) ==
    CASE f.type = "issue.opened" -> [acc EXCEPT !.open = IF @ = None THEN f.at ELSE @]
      [] f.type = "issue.reopened" -> [acc EXCEPT !.open = f.at]
      [] OTHER -> [open |-> None, done |-> Append(acc.done, ClosedEpisode(facts, i, acc.open, f.at))]

\* The walk through the lifecycle facts of an issue, the latest one last.
WalkIssue(facts, i, events) ==
    MapThenFoldSet(LAMBDA f, acc : Walked(facts, i, f, acc), [open |-> None, done |-> <<>>],
                   LAMBDA f : f, Latest, events)

\* An open interval follows when the walk ends in one that something declares
\* to close or that was closed before, or when nothing but a declaration is
\* known.
WithOpenEpisode(facts, i, end, unseen, declared) ==
    end.done \o IF \/ end.open # None /\ (declared \/ end.done # <<>>)
                   \/ unseen /\ declared
                THEN <<OpenEpisode(facts, i, end.open)>> ELSE <<>>

\* The episodes of one issue in order; the last one is the current one, all
\* others are superseded when they are stored.
Lifecycle(facts, i) == {f \in facts : f.ent = i /\ f.type \in IssueTypes}

ProjectIssueEpisodes(facts, i) ==
    LET known == Lifecycle(facts, i)
    IN  WithOpenEpisode(facts, i, WalkIssue(facts, i, known),
                        known = {}, Declaring(facts, i, "active") # {})

\* project_closure_episodes: the links of every change request in the facts
\* (issue, kind and state), the episodes of the wanted issues.  Mapped twice
\* because the two halves are written by different statements.
ProjectLinks(facts) ==
    {[cr |-> k[1], link |-> k[2], state |-> DeriveLinkStates(facts, k[1])[k[2]]] :
        k \in {x \in ChangeRequests \X Links : x[2] \in DOMAIN DeriveLinkStates(facts, x[1])}}

Unresolved(episodes) ==
    {[issue |-> e.issue, closed |-> e.closed, reason |-> e.status, candidates |-> e.candidates] :
        e \in {x \in Range(episodes) : x.status \in {"unmatched", "ambiguous"}}}

-----------------------------------------------------------------------------
(* What the rules of the module's docstring say of a set of facts, without *)
(* walking through it.                                                     *)

\* Which of the snapshots made at one instant count: those of a webhook that
\* agree with each other, or else all of them.
Decisive(group) ==
    LET hooks == {f \in group : f.via = "webhook"}
    IN  IF hooks # {} /\ \A f, g \in hooks : IssueLinks(f) = IssueLinks(g) THEN hooks ELSE group

\* A full snapshot replaces all earlier ones: whatever came before, the last
\* timestamp alone decides which links are active or parked, a link that only
\* counted earlier is revoked, and a snapshot of a webhook outranks backfills
\* made at the same instant (ordering policy D), whose links are not even kept.
LastSnapshotDecides(facts) ==
    \A c \in ChangeRequests :
        LET snaps  == Snapshots(facts, c)
            states == DeriveLinkStates(facts, c)
            last   == Decisive({f \in snaps : \A g \in snaps : g.at <= f.at})
        IN  /\ DOMAIN states = UNION {IssueLinks(f) : f \in UNION {Decisive(At(snaps, g.at)) : g \in snaps}}
            /\ \A l \in DOMAIN states :
                 /\ states[l] = "active" <=> \A f \in last : l \in IssueLinks(f)
                 /\ states[l] = "revoked" <=> \A f \in last : l \notin IssueLinks(f)

\* What EpisodesFollowCloses asks of the episodes of one issue.
Follow(facts, i, eps) ==
    LET closes == {f.at : f \in {g \in facts : g.ent = i /\ g.type = "issue.closed"}}
        may(c, t) == /\ \E f \in facts : f.ent = c /\ f.type = "change_request.merged" /\ f.at < t
                     /\ c \in Declaring(facts, i, "active") \cup Declaring(facts, i, "parked")
    IN  /\ \A k \in DOMAIN eps : eps[k].closed = None => k = Len(eps)
        /\ {eps[k].closed : k \in DOMAIN eps} \ {None} = closes
        /\ \A j, k \in DOMAIN eps :
             j < k /\ eps[k].closed # None => eps[j].closed < eps[k].closed
        /\ \A k \in DOMAIN eps : eps[k].cr # None =>
             {c \in ChangeRequests : may(c, eps[k].closed)} = {eps[k].cr}

\* Every observed close has exactly one episode, in the order of the closes
\* and whatever the order of delivery; only the last may be open; one that
\* names a change request names the only one that may have closed the issue.
EpisodesFollowCloses(facts) == \A i \in Issues : Follow(facts, i, ProjectIssueEpisodes(facts, i))

\* The episodes of an issue are a function of its facts, independent of the
\* order and number of deliveries: which links count and which close is
\* credited to whom (project_closure_episodes).
FollowFacts(facts) == LastSnapshotDecides(facts) /\ EpisodesFollowCloses(facts)

=============================================================================
