---------------------------- MODULE Correlation ----------------------------
(***************************************************************************)
(* The correlation engine of afk_outcomes/correlation.py: five rules bind  *)
(* the entities of a provider's window to one run, the first rule that     *)
(* binds an entity wins, and links, outcome and unresolved entries are     *)
(* derived from what is bound.                                             *)
(*                                                                         *)
(* An entity is a record [id, type, number, title, resolves, mentions,     *)
(* branch, refs, owner, state, from, to].  The numbers that the regular    *)
(* expressions find in a text are sets: `resolves' behind a closing verb   *)
(* and `mentions' behind a # in the description, `branch' in the branch    *)
(* name, `refs' behind a # in the title.  `owner' is the number of the     *)
(* change request whose branch carries a commit or review.  Confidences    *)
(* are tenths.  A window of entities is a sequence: one commit may appear  *)
(* in it once per branch.                                                  *)
(***************************************************************************)
EXTENDS Values, Integers, Sequences, FiniteSets, SequencesExt

ResolvedRoleThreshold == 5

OfType(es, type) == {e \in Range(es) : e.type = type}

ChangeRequestsTitled(run, es) == {e \in OfType(es, "change_request") : e.title = run.title}

IssuesNumbered(es, numbers) == {e \in OfType(es, "issue") : e.number \in numbers}

Bind(entities, confidence, method) ==
    {[id |-> e.id, conf |-> confidence, method |-> method] : e \in entities}

\* _overlaps: a window with an open end overlaps nothing.
Overlaps(x, y) ==
    /\ None \notin {x.from, x.to, y.from, y.to}
    /\ x.from <= y.to /\ y.from <= x.to

ExplicitRunIdRule(run, es, events) ==
    {[id |-> ev.entity, conf |-> 10, method |-> "explicit_run_id"] :
        ev \in {v \in events : v.run_id = run.id}}

\* Several change requests with the run's title: none of them is taken.
IssueReferenceRule(run, es, events) ==
    LET owners == ChangeRequestsTitled(run, es)
    IN  IF Cardinality(owners) # 1 THEN {}
        ELSE LET o == CHOOSE c \in owners : TRUE
             IN  Bind({o} \cup IssuesNumbered(es, o.resolves), 10, "issue_reference")
                    \cup Bind(IssuesNumbered(es, o.mentions \ o.resolves), 1, "issue_reference")

\* Every change request of the window counts, not only the run's own.
BranchIssueReferenceRule(run, es, events) ==
    Bind(IssuesNumbered(es, UNION {c.branch : c \in OfType(es, "change_request")}),
         8, "branch_issue_reference")

CommitIssueReferenceRule(run, es, events) ==
    Bind(IssuesNumbered(es, UNION {c.refs : c \in OfType(es, "commit")}),
         6, "commit_issue_reference")

TemporalInferenceRule(run, es, events) ==
    Bind({e \in Range(es) : e.type # "merge_event" /\ Overlaps(e, run)}, 4, "temporal_inference")

\* One rule's proposals on top of what the earlier rules have locked.
Lock(locked, proposals) ==
    [id \in DOMAIN locked \cup {p.id : p \in proposals} |->
        IF id \in DOMAIN locked THEN locked[id]
        ELSE LET p == CHOOSE q \in proposals : q.id = id IN [conf |-> p.conf, method |-> p.method]]

Correlations(run, es, events) ==
    LET explicit == Lock([id \in {} |-> None], ExplicitRunIdRule(run, es, events))
        issues   == Lock(explicit, IssueReferenceRule(run, es, events))
        branches == Lock(issues, BranchIssueReferenceRule(run, es, events))
        commits  == Lock(branches, CommitIssueReferenceRule(run, es, events))
    IN  Lock(commits, TemporalInferenceRule(run, es, events))

\* _owning_change_request, None when there is none or more than one.
Owning(run, es) ==
    LET owners == ChangeRequestsTitled(run, es)
    IN  IF Cardinality(owners) = 1 THEN CHOOSE c \in owners : TRUE ELSE None

Copies(es, id) == {i \in DOMAIN es : es[i].id = id}

\* Mutant: the first copy is kept whoever owns it.
DedupeEntities_First(es, owning) == {es[Min(Copies(es, e.id))] : e \in Range(es)}

\* Of the copies of one entity the first that the owning change request
\* carries, else the first.
DedupeEntities(es, owning) ==
    LET carried(id) == {i \in Copies(es, id) : owning # None /\ es[i].owner = owning.number}
        keep(id)    == es[Min(IF carried(id) # {} THEN carried(id) ELSE Copies(es, id))]
    IN  {keep(e.id) : e \in Range(es)}

Role(conf) == IF conf >= ResolvedRoleThreshold THEN "resolved" ELSE "referenced"

Link(id, role, conf, source) == [id |-> id, role |-> role, conf |-> conf, source |-> source]

\* The locked entities; the commits and reviews of the owning change request
\* at its confidence; as noise every other change request, and the commits
\* that reference numbers the run does not know.
EntityLinks(locked, es, owning) ==
    LET own(e)  == IF e.id \in DOMAIN locked THEN locked[e.id].conf ELSE 10
        direct  == {Link(id, Role(locked[id].conf), locked[id].conf, "direct") : id \in DOMAIN locked}
        lineage == IF owning = None THEN {}
                   ELSE {e \in es : /\ e.type \in {"commit", "review"} /\ e.id \notin DOMAIN locked
                                    /\ e.owner = owning.number}
        known   == IF owning = None THEN {} ELSE owning.resolves \cup {owning.number}
        noise   == {e \in es : e.id \notin DOMAIN locked /\
                      \/ e.type = "change_request"
                      \/ e.type = "commit" /\ e \notin lineage /\ e.refs # {} /\ ~(e.refs \subseteq known)}
    IN  direct \cup {Link(e.id, Role(own(owning)), own(owning), "owning_change_request") : e \in lineage}
               \cup {Link(e.id, "noise", 0, "direct") : e \in noise}

\* _session_heuristic, the first that holds; a field that is None matches
\* nothing.
SessionHeuristic(run, owning, client, s) ==
    LET same(x, y) == x # None /\ x = y
    IN  CASE owning # None /\ same(s.agent, owning.author) -> "agent_identity"
          [] same(s.client, client) -> "client_identity"
          [] same(s.project, run.project) -> "project_match"
          [] Overlaps(s, run) -> "temporal_overlap"
          [] OTHER -> None

SessionLinks(run, owning, client, sessions) ==
    {[id |-> s.id, method |-> SessionHeuristic(run, owning, client, s)] :
        s \in {t \in sessions : SessionHeuristic(run, owning, client, t) # None}}

\* At most one entry, and always about the run as a whole: two change
\* requests claim its title, or nothing at all was bound to it.
UnresolvedEntries(run, es, locked) ==
    LET owners == ChangeRequestsTitled(run, es)
    IN  IF Cardinality(owners) > 1 THEN {[reason |-> "ambiguous", candidates |-> {c.id : c \in owners}]}
        ELSE IF owners = {} /\ DOMAIN locked = {} THEN {[reason |-> "unmatched", candidates |-> {}]}
        ELSE {}

\* _outcome: the state of the owning change request and the issues it is
\* credited with.
Outcome(run, es, locked) ==
    LET o      == Owning(run, es)
        merges == {m \in OfType(es, "merge_event") : m.number = o.number}
        issues == {e.id : e \in {x \in OfType(es, "issue") : /\ x.id \in DOMAIN locked
                                                             /\ locked[x.id].conf >= ResolvedRoleThreshold}}
    IN  IF o = None THEN None
        ELSE [change_request |-> o.id, resolved |-> issues,
              status |-> IF merges # {} \/ o.state = "merged" THEN "merged"
                         ELSE IF o.state = "closed" THEN "closed" ELSE "open"]

\* CorrelationEngine.resolve.
Resolve(run, es, events) ==
    LET locked == Correlations(run, es, events)
        owning == Owning(run, es)
        kept   == DedupeEntities(es, owning)
    IN  [links |-> EntityLinks(locked, kept, owning), outcome |-> Outcome(run, es, locked),
         unresolved |-> UnresolvedEntries(run, es, locked), owning |-> owning]

-----------------------------------------------------------------------------
(* Properties of a window.                                                 *)

\* A window lists an entity in several copies, one for each branch that
\* carries it, which differ in their owner only; ids name the type.
IsWindow(es) ==
    /\ es \in Seq(Range(es))
    /\ None \notin Range(es)
    /\ \A e \in Range(es) : {"id", "type", "number", "title", "resolves", "refs", "owner"} \subseteq DOMAIN e
    /\ \A e, f \in Range(es) : e.id = f.id => e = [f EXCEPT !.owner = e.owner]

(* An entity has one link to a run.  The repository writes links one after *)
(* the other with role = EXCLUDED.role, so of two links of one entity the  *)
(* later would silently decide its role.                                   *)
OneLinkPerEntity(run, es, events) ==
    \A k, l \in Resolve(run, es, events).links : k.id = l.id => k = l

(* The module promises that identical input gives identical output; the    *)
(* order in which a provider lists the window, and the branch on which a   *)
(* shared commit is seen first, must not matter either.                    *)
ListingOrderIsIrrelevant(run, es, events) ==
    Resolve(run, es, events) = Resolve(run, Reverse(es), events)

(* What the outcome credits to the run is what the run is linked to: the   *)
(* change request and each resolved issue have a resolved link, and an     *)
(* ambiguous title leaves the run without an outcome.                      *)
OutcomeIsLinked(run, es, events) ==
    LET r == Resolve(run, es, events)
    IN  /\ r.outcome # None =>
             \A id \in {r.outcome.change_request} \cup r.outcome.resolved :
                 \E l \in r.links : l.id = id /\ l.role = "resolved"
        /\ r.outcome # None => r.unresolved = {}

\* What correlation concludes from a window of the code host: one link for
\* each entity, whatever the order of the listing, and an outcome that
\* credits only what is linked.
IsSound(run, es, events) ==
    /\ OneLinkPerEntity(run, es, events)
    /\ ListingOrderIsIrrelevant(run, es, events)
    /\ OutcomeIsLinked(run, es, events)
=============================================================================
