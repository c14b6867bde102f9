-------------------------- MODULE AlgorithmProofs --------------------------
(***************************************************************************)
(* Proofs about the pure algorithms of the gateway, for every well-formed  *)
(* input, and about the closure projection, which carries one of them out  *)
(* while others do so too.                                                 *)
(*                                                                         *)
(* What an algorithm returns is shown by induction over the part of its    *)
(* input that is dealt with: the folds over facts in the order of their    *)
(* times, the sums over rows group by group, the pages of a list place by  *)
(* place.                                                                  *)
(*                                                                         *)
(* What the projection stores is true because the facts only grow: a plan  *)
(* that was made from some of them is true of all of them, however late it *)
(* is carried out.                                                         *)
(* A job that meets no other leaves exactly the projection: whatever is    *)
(* due is in the tables or still to be written by one statement.           *)
(***************************************************************************)
EXTENDS Algorithms, ClosureProjection, SumProofs

-----------------------------------------------------------------------------
(* Folds.  MapThenFoldSet takes the elements of a finite set one by one;   *)
(* ch is the choice it makes from what is left.                            *)

Chooses(ch, S) == \A s \in SUBSET S : s # {} => ch[s] \in s

\* P holds {}, and with what is left of a part without its chosen element also
\* that part.
Inductive(P, ch, S) == {} \in P /\ \A s \in SUBSET S : s # {} /\ s \ {ch[s]} \in P => s \in P

\* op is the fold's operation as a function.
FoldsTo(h, base, op, ch, S) == \A s \in SUBSET S :
    h[s] = IF s = {} THEN base ELSE op[<<ch[s], h[s \ {ch[s]}]>>]

LEMMA FoldInduction ==
    ASSUME NEW S, IsFiniteSet(S), NEW ch, Chooses(ch, S),
           NEW P, Inductive(P, ch, S)
    PROVE  SUBSET S \subseteq P
<1> DEFINE H == {n \in Nat : \A s \in SUBSET S : Cardinality(s) = n => s \in P}
<1>0. \A s \in SUBSET S : IsFiniteSet(s) /\ Cardinality(s) \in Nat
  BY FS_Subset, FS_CardinalityType
<1>1. 0 \in H
  <2>1. \A s \in SUBSET S : Cardinality(s) = 0 => s = {} BY <1>0, FS_EmptySet
  <2> QED BY <2>1 DEF Inductive
<1>2. ASSUME NEW n \in Nat, n \in H PROVE n + 1 \in H
  <2> SUFFICES ASSUME NEW s \in SUBSET S, Cardinality(s) = n + 1 PROVE s \in P OBVIOUS
  <2>1. s # {} BY <1>0, FS_EmptySet
  <2>2. ch[s] \in s BY <2>1 DEF Chooses
  <2>3. Cardinality(s \ {ch[s]}) = Cardinality(s) - 1
    <3> DEFINE a == ch[s]
    <3> HIDE DEF a
    <3>1. Cardinality(s \ {a}) = Cardinality(s) - 1 BY <1>0, <2>2, FS_RemoveElement DEF a
    <3> QED BY <3>1 DEF a
  <2>4. s \ {ch[s]} \in P
    <3>1. Cardinality(s \ {ch[s]}) = n BY <2>3
    <3> QED BY <1>2, <3>1
  <2> QED BY <2>1, <2>4 DEF Inductive
<1>3. Nat \subseteq H
  <2> HIDE DEF H
  <2> QED BY <1>1, <1>2, AllNaturals
<1> QED BY <1>0, <1>3

\* The recursion has a solution, with values among V.
LEMMA FoldExists ==
    ASSUME NEW S, IsFiniteSet(S), NEW ch, Chooses(ch, S), NEW V, NEW base \in V,
           NEW op \in [S \X V -> V]
    PROVE  \E h \in [SUBSET S -> V] : FoldsTo(h, base, op, ch, S)
<1> DEFINE Small(n) == {s \in SUBSET S : Cardinality(s) <= n}
           Step(h, s) == IF s = {} THEN base ELSE op[<<ch[s], h[s \ {ch[s]}]>>]
           H == {n \in Nat : \E h \in [Small(n) -> V] : \A s \in Small(n) : h[s] = Step(h, s)}
<1>0. \A s \in SUBSET S : /\ IsFiniteSet(s) /\ Cardinality(s) \in Nat
                          /\ Cardinality(s) <= Cardinality(S)
    BY FS_Subset, FS_CardinalityType
<1>1. 0 \in H
  <2> DEFINE h == [s \in Small(0) |-> base]
  <2>1. \A s \in Small(0) : s = {} BY <1>0, FS_EmptySet
  <2>2. h \in [Small(0) -> V] /\ \A s \in Small(0) : h[s] = Step(h, s) BY <2>1
  <2> QED BY <2>2
<1>2. ASSUME NEW n \in Nat, n \in H PROVE n + 1 \in H
  <2>1. PICK h \in [Small(n) -> V] : \A s \in Small(n) : h[s] = Step(h, s) BY <1>2
  <2> DEFINE k == [s \in Small(n + 1) |-> Step(h, s)]
  <2>2. ASSUME NEW s \in Small(n + 1) PROVE k[s] \in V /\ k[s] = Step(k, s)
    <3>1. CASE s = {} BY <3>1
    <3>2. CASE s # {}
      <4> DEFINE t == s \ {ch[s]}
      <4>1. ch[s] \in s BY <3>2 DEF Chooses
      <4>2. Cardinality(t) = Cardinality(s) - 1 BY <1>0, <4>1, FS_RemoveElement
      <4>3. t \in Small(n) /\ t \in Small(n + 1) BY <1>0, <4>2
      <4>4. k[t] = h[t] /\ h[t] \in V BY <2>1, <4>3
      <4>5. ch[s] \in S BY <4>1
      <4> QED BY <3>2, <4>4, <4>5
    <3> QED BY <3>1, <3>2
  <2>3. k \in [Small(n + 1) -> V] /\ \A s \in Small(n + 1) : k[s] = Step(k, s)
    <3>1. \A s \in Small(n + 1) : k[s] \in V /\ k[s] = Step(k, s) BY <2>2
    <3>2. k \in [Small(n + 1) -> V] BY <3>1
    <3> QED BY <3>1, <3>2
  <2>4. \E f \in [Small(n + 1) -> V] : \A s \in Small(n + 1) : f[s] = Step(f, s)
    <3> HIDE DEF k, Step, Small
    <3> QED BY <2>3, Zenon
  <2>5. n + 1 \in Nat OBVIOUS
  <2> HIDE DEF Step, Small
  <2> QED BY <2>4, <2>5
<1>3. Cardinality(S) \in H
  <2> HIDE DEF H
  <2>1. Nat \subseteq H BY <1>1, <1>2, AllNaturals
  <2> QED BY <2>1, FS_CardinalityType
<1>4. Small(Cardinality(S)) = SUBSET S BY <1>0
<1> QED BY <1>3, <1>4 DEF FoldsTo

\* A nonempty finite set of integers has a largest and a smallest element.
LEMMA Extremes ==
    ASSUME NEW S \in SUBSET Int, IsFiniteSet(S), S # {}
    PROVE  /\ Max(S) \in S /\ \A x \in S : x <= Max(S)
           /\ Min(S) \in S /\ \A x \in S : Min(S) <= x
<1> DEFINE ch == [s \in SUBSET S |-> Pick(s)]
           P == {s \in SUBSET S : s # {} => /\ \E m \in s : \A x \in s : x <= m
                                            /\ \E m \in s : \A x \in s : m <= x}
<1>1. Chooses(ch, S) BY PickIsIn DEF Chooses
<1>2. {} \in P OBVIOUS
<1>3. ASSUME NEW s \in SUBSET S, s # {}, s \ {ch[s]} \in P PROVE s \in P
  <2> DEFINE a == ch[s]
             t == s \ {a}
  <2>1. a \in s /\ s = t \cup {a} BY <1>1, <1>3 DEF Chooses
  <2>2. CASE t = {}
    <3>1. a \in Int /\ s \subseteq {a} BY <2>1, <2>2
    <3> HIDE DEF a
    <3>2. \A x \in s : x <= a /\ a <= x BY <3>1
    <3>3. (\E m \in s : \A x \in s : x <= m) /\ (\E m \in s : \A x \in s : m <= x) BY <2>1, <3>2
    <3> QED BY <3>3
  <2>3. CASE t # {}
    <3> HIDE DEF a
    <3>1. PICK m \in t : \A x \in t : x <= m BY <1>3, <2>3 DEF a
    <3>2. PICK l \in t : \A x \in t : l <= x BY <1>3, <2>3 DEF a
    <3> DEFINE hi == IF a <= m THEN m ELSE a
               lo == IF l <= a THEN l ELSE a
    <3>3. hi \in s /\ \A x \in s : x <= hi BY <2>1, <3>1
    <3>4. lo \in s /\ \A x \in s : lo <= x BY <2>1, <3>2
    <3> QED BY <3>3, <3>4
  <2> QED BY <2>2, <2>3
<1>4. S \in P
  <2>1. Inductive(P, ch, S)
    <3> HIDE DEF P, ch
    <3> QED BY <1>2, <1>3 DEF Inductive
  <2> HIDE DEF P, ch
  <2> QED BY <1>1, <2>1, FoldInduction
<1>5. \E m \in S : \A x \in S : m >= x BY <1>4
<1>6. \E m \in S : \A x \in S : m <= x BY <1>4
<1> QED BY <1>5, <1>6 DEF Max, Min

LEMMA FiniteImage == ASSUME NEW S, IsFiniteSet(S), NEW f PROVE IsFiniteSet({f[x] : x \in S})
<1> DEFINE T == {f[x] : x \in S}
           g == [x \in S |-> f[x]]
<1>1. g \in Surjection(S, T) BY DEF Surjection
<1> QED BY <1>1, FS_Surjection

LEMMA SmallestNumberIn ==
    ASSUME NEW S, S \subseteq Nat, S # {}
    PROVE  \E x \in S : \A y \in S : x <= y
<1> DEFINE R == OpToRel(<, Nat)
<1>1. IsWellFoundedOn(R, Nat) BY NatLessThanWellFounded
<1>2. PICK n \in S : \A m \in S : ~ (<<m, n>> \in R)
  <2> HIDE DEF R
  <2> QED BY <1>1, WFMin
<1>3. \A m \in S : ~ (m < n) BY <1>2 DEF OpToRel
<1> QED BY <1>3

LEMMA LargestNumberIn ==
    ASSUME NEW S, S \subseteq Nat, S # {}, NEW b \in Nat, \A x \in S : x <= b
    PROVE  \E x \in S : \A y \in S : y <= x
<1> DEFINE D == {b - x : x \in S}
<1>0. \A x \in S : b - x \in Nat OBVIOUS
<1>1. D \subseteq Nat /\ D # {} BY <1>0
<1>2. PICK d \in D : \A y \in D : d <= y
  <2> HIDE DEF D
  <2> QED BY <1>1, SmallestNumberIn
<1>3. PICK x \in S : d = b - x OBVIOUS
<1>4. \A y \in S : b - x <= b - y BY <1>2, <1>3
<1>5. \A y \in S : y <= x BY <1>4
<1> QED BY <1>5

LEMMA SmallestIndex == ASSUME NEW S, S \subseteq Nat, S # {} PROVE CO!Min(S) \in S
BY SmallestNumberIn DEF CO!Min

\* The operators of the instances are those of the library.
LEMMA SameCardinality ==
    ASSUME NEW S
    PROVE  /\ CO!Cardinality(S) = Cardinality(S) /\ AR!Cardinality(S) = Cardinality(S)
           /\ UQ!Cardinality(S) = Cardinality(S) /\ CR!Cardinality(S) = Cardinality(S)
BY DEF CO!Cardinality, AR!Cardinality, UQ!Cardinality, CR!Cardinality, Cardinality

LEMMA SameFiniteSets ==
    ASSUME NEW S
    PROVE  /\ UQ!IsFiniteSet(S) = IsFiniteSet(S) /\ CR!IsFiniteSet(S) = IsFiniteSet(S)
           /\ AR!IsFiniteSet(S) = IsFiniteSet(S)
BY DEF UQ!IsFiniteSet, CR!IsFiniteSet, AR!IsFiniteSet, IsFiniteSet

LEMMA SameSums ==
    ASSUME NEW f
    PROVE  /\ UQ!SumFunction(f) = SumFunctionOnSet(f, DOMAIN f)
           /\ CR!SumFunction(f) = SumFunctionOnSet(f, DOMAIN f)
BY DEF UQ!SumFunction, UQ!SumFunctionOnSet, UQ!FoldFunctionOnSet, UQ!MapThenFoldSet,
       CR!SumFunction, CR!SumFunctionOnSet, CR!FoldFunctionOnSet, CR!MapThenFoldSet,
       SumFunctionOnSet, FoldFunctionOnSet, MapThenFoldSet

-----------------------------------------------------------------------------
(* The inputs.                                                             *)

\* An input stays what it is.
LEMMA InputIsGiven == AlgorithmsSpec => []AlgorithmsInit
<1>1. AlgorithmsInit /\ [UNCHANGED input]_input => AlgorithmsInit' BY DEF AlgorithmsInit
<1> QED BY <1>1, PTL DEF AlgorithmsSpec

\* The name of an input's algorithm decides what it is an input of.
LEMMA InputIsNamed ==
    AlgorithmsInit =>
      /\ input.of = "message" => \E m \in Messages : input = [of |-> "message", message |-> m]
      /\ input.of = "facts" => \E F \in FactSets : input = [of |-> "facts", facts |-> F]
      /\ input.of = "window" => \E w \in CorrelationWindows : input = [of |-> "window", window |-> w]
      /\ input.of = "changes" => \E db \in Databases : input = [of |-> "changes", db |-> db]
      /\ input.of = "usage" => \E q \in UsageQuestions : input = [of |-> "usage", query |-> q]
      /\ input.of = "agents" => \E q \in AgentQuestions : input = [of |-> "agents", query |-> q]
<1> SUFFICES ASSUME AlgorithmsInit PROVE InputIsNamed!2
  OBVIOUS
<1>1. CASE \E m \in Messages : input = [of |-> "message", message |-> m] BY <1>1
<1>2. CASE \E F \in FactSets : input = [of |-> "facts", facts |-> F] BY <1>2
<1>3. CASE \E w \in CorrelationWindows : input = [of |-> "window", window |-> w] BY <1>3
<1>4. CASE \E db \in Databases : input = [of |-> "changes", db |-> db] BY <1>4
<1>5. CASE \E q \in UsageQuestions : input = [of |-> "usage", query |-> q] BY <1>5
<1>6. CASE \E q \in AgentQuestions : input = [of |-> "agents", query |-> q] BY <1>6
<1> QED BY <1>1, <1>2, <1>3, <1>4, <1>5, <1>6, Zenon DEF AlgorithmsInit

-----------------------------------------------------------------------------
(* Messages: validation, mapping and identity.                             *)

\* What the two vocabularies make of each action the allowlist admits.
LEMMA AllowedActionsAreNamed ==
    ASSUME NEW type \in DOMAIN NE!_RESOURCE_TYPE_TO_ENTITY_TYPE,
           NEW action \in NE!_PRODUCER_ALLOWED_ACTIONS[type]
    PROVE  /\ action \in DOMAIN NE!_ACTION_TO_CANONICAL
           /\ <<NE!_RESOURCE_TYPE_TO_ENTITY_TYPE[type], NE!_ACTION_TO_CANONICAL[action]>>
                \in NE!_CANONICAL_EVENT_TYPES
<1>1. DOMAIN NE!_RESOURCE_TYPE_TO_ENTITY_TYPE = {"issue", "pull_request", "merge_request"}
  BY DEF NE!_RESOURCE_TYPE_TO_ENTITY_TYPE
<1>2. DOMAIN NE!_ACTION_TO_CANONICAL = {"opened", "edited", "updated", "reopened", "closed", "merged"}
  BY DEF NE!_ACTION_TO_CANONICAL
<1>3. /\ NE!_ACTION_TO_CANONICAL["opened"] = "opened" /\ NE!_ACTION_TO_CANONICAL["edited"] = "updated"
      /\ NE!_ACTION_TO_CANONICAL["updated"] = "updated" /\ NE!_ACTION_TO_CANONICAL["reopened"] = "reopened"
      /\ NE!_ACTION_TO_CANONICAL["closed"] = "closed" /\ NE!_ACTION_TO_CANONICAL["merged"] = "merged"
  BY DEF NE!_ACTION_TO_CANONICAL
<1>4. CASE type = "issue"
  BY <1>1, <1>2, <1>3, <1>4
  DEF NE!_RESOURCE_TYPE_TO_ENTITY_TYPE, NE!_PRODUCER_ALLOWED_ACTIONS, NE!_CANONICAL_EVENT_TYPES
<1>5. CASE type = "pull_request"
  BY <1>1, <1>2, <1>3, <1>5
  DEF NE!_RESOURCE_TYPE_TO_ENTITY_TYPE, NE!_PRODUCER_ALLOWED_ACTIONS, NE!_CANONICAL_EVENT_TYPES
<1>6. CASE type = "merge_request"
  BY <1>1, <1>2, <1>3, <1>6
  DEF NE!_RESOURCE_TYPE_TO_ENTITY_TYPE, NE!_PRODUCER_ALLOWED_ACTIONS, NE!_CANONICAL_EVENT_TYPES
<1> QED BY <1>1, <1>4, <1>5, <1>6

LEMMA ValidMessagesMap ==
    ASSUME NEW m, NE!validate_normalized_event(m) = "ok"
    PROVE  NE!map_normalized_event(m) \notin {NE!NoIdentity, NE!Raises}
<1> DEFINE type == <<NE!_RESOURCE_TYPE_TO_ENTITY_TYPE[m.resource_type], NE!_ACTION_TO_CANONICAL[m.action]>>
           repo == NE!normalize_repository_url(m.repository_url)
<1>1. /\ m.resource_type \in DOMAIN NE!_RESOURCE_TYPE_TO_ENTITY_TYPE
      /\ m.action \in NE!_PRODUCER_ALLOWED_ACTIONS[m.resource_type]
      /\ repo # NE!NoIdentity
  BY Zenon DEF NE!validate_normalized_event
<1>2. m.action \in DOMAIN NE!_ACTION_TO_CANONICAL /\ type \in NE!_CANONICAL_EVENT_TYPES
  BY <1>1, AllowedActionsAreNamed
<1>3. \E x, y, z, u, v, w : NE!map_normalized_event(m) = <<x, y, z, u, v, w>>
  BY <1>1, <1>2, Zenon DEF NE!map_normalized_event
<1> QED BY <1>3 DEF NE!NoIdentity, NE!Raises

LEMMA SpellingsHaveOneIdentity ==
    ASSUME NEW m, NE!IsMessage(m), NEW s \in {"http", "https"}
    PROVE  LET plain == [m.repository_url EXCEPT !.scheme = s, !.port = 0]
               explicit == [plain EXCEPT !.port = NE!DefaultPort(s)]
               url == m.repository_url
           IN  \A u \in {plain, explicit} :
                  NE!normalize_repository_url(u) = IF url.host = "" \/ url.path = "" THEN NE!NoIdentity
                                                  ELSE <<url.host, 0, url.path>>
<1> DEFINE url == m.repository_url
           plain == [url EXCEPT !.scheme = s, !.port = 0]
           explicit == [plain EXCEPT !.port = NE!DefaultPort(s)]
<1>1. DOMAIN url = {"scheme", "host", "port", "path"} BY DEF NE!IsMessage
<1> HIDE DEF url
<1>2. NE!DefaultPort(s) \in {80, 443} BY DEF NE!DefaultPort
<1>3. plain.scheme = s /\ plain.host = url.host /\ plain.path = url.path /\ plain.port = 0 BY <1>1
<1>4. /\ explicit.scheme = s /\ explicit.host = url.host /\ explicit.path = url.path
      /\ explicit.port = NE!DefaultPort(s)
  BY <1>1, <1>3
<1> HIDE DEF plain, explicit
<1>5. ASSUME NEW u, u.scheme = s, u.host = url.host, u.path = url.path, u.port \in {0, NE!DefaultPort(s)}
      PROVE  NE!normalize_repository_url(u) = IF url.host = "" \/ url.path = "" THEN NE!NoIdentity
                                             ELSE <<url.host, 0, url.path>>
  <2>1. u.scheme \in {"http", "https"} BY <1>5
  <2>2. u.port # NE!BadPort BY <1>2, <1>5 DEF NE!BadPort
  <2>3. (IF u.port = NE!DefaultPort(u.scheme) THEN 0 ELSE u.port) = 0 BY <1>2, <1>5
  <2> QED BY <1>5, <2>1, <2>2, <2>3, Zenon DEF NE!normalize_repository_url
<1>6. \A u \in {plain, explicit} : NE!normalize_repository_url(u)
        = IF url.host = "" \/ url.path = "" THEN NE!NoIdentity ELSE <<url.host, 0, url.path>>
  BY <1>3, <1>4, <1>5
<1> QED BY <1>6 DEF plain, explicit, url

\* Of the repository's URL only the identity enters the event's.
LEMMA SameRepositorySameEvent ==
    ASSUME NEW m, NE!IsMessage(m), NEW u, NEW v,
           NE!normalize_repository_url(u) = NE!normalize_repository_url(v)
    PROVE  NE!map_normalized_event([m EXCEPT !.repository_url = u])
             = NE!map_normalized_event([m EXCEPT !.repository_url = v])
<1> DEFINE mu == [m EXCEPT !.repository_url = u]
           mv == [m EXCEPT !.repository_url = v]
<1>1. /\ mu.repository_url = u /\ mv.repository_url = v
      /\ mu.resource_type = mv.resource_type /\ mu.action = mv.action /\ mu.provider = mv.provider
      /\ mu.number = mv.number /\ mu.occurred_at = mv.occurred_at /\ mu.ingested_at = mv.ingested_at
  BY DEF NE!IsMessage
<1> HIDE DEF mu, mv
<1>2. NE!map_normalized_event(mu) = NE!map_normalized_event(mv)
  BY <1>1, Zenon DEF NE!map_normalized_event
<1> QED BY <1>2 DEF mu, mv

-----------------------------------------------------------------------------
(* Link states.                                                            *)

LinkStates    == {"active", "parked", "revoked"}
StatesOver(L) == UNION {[D -> LinkStates] : D \in SUBSET L}
NoStates      == [l \in {} |-> None]

Group(F, c, t)        == At(Snapshots(F, c), t)
Instants(F, c)        == {f.at : f \in Snapshots(F, c)}
Applied(F, c, t, now) == ApplyViews(now, ResolveTimestampGroup(Group(F, c, t)))

\* The snapshots that count at some instants.
Counting(F, c, s) == UNION {Decisive(Group(F, c, t)) : t \in s}
LinksOf(S)        == UNION {IssueLinks(f) : f \in S}

LEMMA SnapshotFacts ==
    ASSUME NEW F, AreFacts(F), NEW c
    PROVE  /\ Snapshots(F, c) \subseteq F /\ IsFiniteSet(Snapshots(F, c))
           /\ \A f \in Snapshots(F, c) : /\ f.at \in Nat /\ f.via \in {"webhook", "backfill"}
                                         /\ IssueLinks(f) \subseteq Links
           /\ Instants(F, c) \subseteq Int /\ IsFiniteSet(Instants(F, c))
<1>1. Snapshots(F, c) \subseteq F /\ IsFiniteSet(Snapshots(F, c)) BY FS_Subset DEF Snapshots, AreFacts
<1>2. \A f \in Snapshots(F, c) : /\ f.at \in Nat /\ f.via \in {"webhook", "backfill"}
                                 /\ IssueLinks(f) \subseteq Links
  BY <1>1 DEF AreFacts, IsFact, Snapshots, IssueLinks
<1>3. IsFiniteSet(Instants(F, c))
  <2> DEFINE at == [f \in Snapshots(F, c) |-> f.at]
  <2>1. IsFiniteSet({at[f] : f \in Snapshots(F, c)})
    <3> HIDE DEF at
    <3> QED BY <1>1, FiniteImage
  <2>2. {at[f] : f \in Snapshots(F, c)} = Instants(F, c) BY DEF Instants
  <2> QED BY <2>1, <2>2
<1> QED BY <1>1, <1>2, <1>3 DEF Instants

\* _resolve_timestamp_group keeps the views of the snapshots that count.
LEMMA Resolved ==
    ASSUME NEW G, IsFiniteSet(G), G # {}, \A f \in G : f.via \in {"webhook", "backfill"}
    PROVE  /\ ResolveTimestampGroup(G) = {IssueLinks(f) : f \in Decisive(G)}
           /\ Decisive(G) # {} /\ Decisive(G) \subseteq G
<1> DEFINE hooks == {f \in G : f.via = "webhook"}
           all == {IssueLinks(f) : f \in G}
           views == {IssueLinks(f) : f \in hooks}
           agree == hooks # {} /\ \A f, g \in hooks : IssueLinks(f) = IssueLinks(g)
<1>1. /\ {g \in G : g.via \in {"webhook", "backfill"}} = G
      /\ {g \in G : g.via \in {"webhook"}} = hooks
  OBVIOUS
<1>2. ResolveTimestampGroup(G) = IF Cardinality(all) > 1 /\ Cardinality(views) = 1 THEN views ELSE all
  BY <1>1 DEF ResolveTimestampGroup
<1>3. IsFiniteSet(all) /\ IsFiniteSet(views) /\ views \subseteq all /\ all # {}
  <2> DEFINE of == [f \in G |-> IssueLinks(f)]
  <2>1. all = {of[f] : f \in G} OBVIOUS
  <2>2. IsFiniteSet({of[f] : f \in G})
    <3> HIDE DEF of
    <3> QED BY FiniteImage
  <2>3. views \subseteq all /\ all # {} OBVIOUS
  <2> QED BY <2>1, <2>2, <2>3, FS_Subset
<1>4. Decisive(G) = IF agree THEN hooks ELSE G BY DEF Decisive
<1>5. CASE agree
  <2>1. PICK h \in hooks : TRUE BY <1>5
  <2>2. views = {IssueLinks(h)} BY <1>5, <2>1
  <2>3. Cardinality(views) = 1 BY <2>2, FS_Singleton
  <2>4. CASE Cardinality(all) > 1 BY <1>2, <1>4, <1>5, <2>3, <2>4
  <2>5. CASE ~ (Cardinality(all) > 1)
    <3> HIDE DEF all, views
    <3>1. Cardinality(all) = 1 BY <1>3, <2>5, FS_CardinalityType, FS_EmptySet
    <3>2. PICK v : all = {v} BY <1>3, <3>1, FS_Singleton
    <3>3. views = all BY <1>3, <2>2, <3>2
    <3>4. ResolveTimestampGroup(G) = views BY <1>2, <2>5, <3>3
    <3> QED BY <1>4, <1>5, <3>4 DEF views
  <2> QED BY <2>4, <2>5
<1>6. CASE ~ agree
  <2>1. Cardinality(views) # 1
    <3> SUFFICES ASSUME Cardinality(views) = 1 PROVE FALSE OBVIOUS
    <3>1. PICK v : views = {v}
      <4> HIDE DEF views
      <4> QED BY <1>3, FS_Singleton
    <3>2. hooks # {} BY <3>1
    <3>3. \A f \in hooks : IssueLinks(f) = v BY <3>1
    <3> QED BY <1>6, <3>2, <3>3
  <2> QED BY <1>2, <1>4, <1>6, <2>1
<1> QED BY <1>5, <1>6

\* What one timestamp makes of the states known before it.
LEMMA AppliedIs ==
    ASSUME NEW F, AreFacts(F), NEW c, NEW t \in Instants(F, c), NEW now
    PROVE  LET counting == Decisive(Group(F, c, t))
               new == Applied(F, c, t, now)
           IN  /\ counting # {} /\ counting \subseteq Snapshots(F, c)
               /\ DOMAIN new = DOMAIN now \cup LinksOf(counting)
               /\ \A l \in DOMAIN new :
                    /\ new[l] \in LinkStates
                    /\ new[l] = "active" <=> \A f \in counting : l \in IssueLinks(f)
                    /\ new[l] = "revoked" <=> \A f \in counting : l \notin IssueLinks(f)
<1> DEFINE G == Group(F, c, t)
           views == {IssueLinks(f) : f \in Decisive(G)}
           new == Applied(F, c, t, now)
<1>1. IsFiniteSet(G) /\ G \subseteq Snapshots(F, c) /\ G # {} BY SnapshotFacts, FS_Subset DEF Group, At, Instants
<1>2. \A f \in G : f.via \in {"webhook", "backfill"} BY <1>1, SnapshotFacts
<1>3. ResolveTimestampGroup(G) = views /\ Decisive(G) # {} /\ Decisive(G) \subseteq G BY <1>1, <1>2, Resolved
<1>4. new = ApplyViews(now, views) BY <1>3 DEF Applied
<1>5. UNION views = LinksOf(Decisive(G)) BY DEF LinksOf
<1>6. /\ DOMAIN new = DOMAIN now \cup LinksOf(Decisive(G))
      /\ \A l \in DOMAIN new : new[l] = IF \A v \in views : l \in v THEN "active"
                                        ELSE IF l \in UNION views THEN "parked" ELSE "revoked"
  BY <1>4, <1>5 DEF ApplyViews
<1>7. ASSUME NEW l PROVE /\ (\A v \in views : l \in v) <=> \A f \in Decisive(G) : l \in IssueLinks(f)
                         /\ l \notin UNION views <=> \A f \in Decisive(G) : l \notin IssueLinks(f)
  OBVIOUS
<1> HIDE DEF views, new, G
<1>8. ASSUME NEW l \in DOMAIN new
      PROVE  /\ new[l] \in LinkStates
             /\ new[l] = "active" <=> \A f \in Decisive(G) : l \in IssueLinks(f)
             /\ new[l] = "revoked" <=> \A f \in Decisive(G) : l \notin IssueLinks(f)
  <2>1. (\A v \in views : l \in v) => l \in UNION views
    <3>1. views # {} BY <1>3 DEF views
    <3> QED BY <3>1
  <2> QED BY <1>6, <1>7, <2>1 DEF LinkStates
<1> QED BY <1>1, <1>3, <1>6, <1>8 DEF new, G

\* The fold of DeriveLinkStates, unfolded.
Folding(g, F, c) ==
    \A s \in SUBSET Instants(F, c) :
        g[s] = IF s = {} THEN NoStates ELSE Applied(F, c, Max(s), g[s \ {Max(s)}])

LEMMA StatesUnfold ==
    ASSUME NEW F, AreFacts(F), NEW c
    PROVE  \E g : Folding(g, F, c) /\ DeriveLinkStates(F, c) = g[Instants(F, c)]
<1> DEFINE T == Instants(F, c)
           L == LinksOf(Snapshots(F, c))
           V == StatesOver(L)
           latest == [s \in SUBSET T |-> Max(s)]
           op == [x \in T \X V |-> Applied(F, c, x[1], x[2])]
           Solves(g) == g = [s \in SUBSET T |-> IF s = {} THEN NoStates
                                                ELSE Applied(F, c, Max(s), g[s \ {Max(s)}])]
           solution == CHOOSE g : Solves(g)
<1>1. T \subseteq Int /\ IsFiniteSet(T) BY SnapshotFacts
<1>2. \A s \in SUBSET T : s # {} => Max(s) \in s
  <2> SUFFICES ASSUME NEW s \in SUBSET T, s # {} PROVE Max(s) \in s OBVIOUS
  <2> HIDE DEF T
  <2>1. s \in SUBSET Int /\ IsFiniteSet(s) BY <1>1, FS_Subset
  <2> QED BY <2>1, Extremes
<1>3. NoStates \in V
  <2>1. NoStates \in [{} -> LinkStates] BY DEF NoStates
  <2> QED BY <2>1 DEF StatesOver
<1>4. ASSUME NEW t \in T, NEW v \in V PROVE Applied(F, c, t, v) \in V
  <2> DEFINE new == Applied(F, c, t, v)
  <2>1. /\ DOMAIN new = DOMAIN v \cup LinksOf(Decisive(Group(F, c, t)))
        /\ Decisive(Group(F, c, t)) \subseteq Snapshots(F, c)
        /\ \A l \in DOMAIN new : new[l] \in LinkStates
    BY AppliedIs
  <2>2. DOMAIN v \subseteq L BY DEF StatesOver
  <2>3. DOMAIN new \subseteq L BY <2>1, <2>2 DEF LinksOf
  <2>4. new = [l \in DOMAIN new |-> new[l]] BY DEF Applied, ApplyViews
  <2>5. new \in [DOMAIN new -> LinkStates]
    <3> HIDE DEF new
    <3> QED BY <2>1, <2>4
  <2> QED BY <2>3, <2>5 DEF StatesOver
<1>5. PICK h \in [SUBSET T -> V] : FoldsTo(h, NoStates, op, latest, T)
  <2>1. op \in [T \X V -> V] BY <1>4
  <2>2. Chooses(latest, T) BY <1>2 DEF Chooses
  <2> HIDE DEF T, V, latest, op
  <2> QED BY <1>1, <1>3, <2>1, <2>2, FoldExists
<1>6. Solves(h)
  <2>1. ASSUME NEW s \in SUBSET T, s # {} PROVE h[s] = Applied(F, c, Max(s), h[s \ {Max(s)}])
    <3>1. Max(s) \in T /\ s \ {Max(s)} \in SUBSET T BY <1>2, <2>1
    <3>2. h[s \ {Max(s)}] \in V BY <1>5, <3>1
    <3> HIDE DEF V
    <3> QED BY <1>5, <2>1, <3>1, <3>2 DEF FoldsTo
  <2>2. h = [s \in SUBSET T |-> h[s]] BY <1>5
  <2>3. h[{}] = NoStates BY <1>5 DEF FoldsTo
  <2> QED BY <2>1, <2>2, <2>3
<1>7. Solves(solution)
  <2> HIDE DEF Solves
  <2> QED BY <1>6
<1>8. DeriveLinkStates(F, c) = solution[T]
  BY DEF DeriveLinkStates, MapThenFoldSet, Applied, Group, Instants, NoStates
<1> QED BY <1>7, <1>8 DEF Folding

\* After the instants of s the known links are those that counted, and the
\* last of them has decided.
LEMMA StatesSoFar ==
    ASSUME NEW F, AreFacts(F), NEW c, NEW g, Folding(g, F, c), NEW s \in SUBSET Instants(F, c)
    PROVE  DOMAIN g[s] = LinksOf(Counting(F, c, s))
<1> DEFINE T == Instants(F, c)
           latest == [r \in SUBSET T |-> Max(r)]
           P == {r \in SUBSET T : DOMAIN g[r] = LinksOf(Counting(F, c, r))}
<1>1. T \subseteq Int /\ IsFiniteSet(T) BY SnapshotFacts
<1>2. Chooses(latest, T)
  <2> SUFFICES ASSUME NEW r \in SUBSET T, r # {} PROVE Max(r) \in r BY DEF Chooses
  <2> HIDE DEF T
  <2>1. r \in SUBSET Int /\ IsFiniteSet(r) BY <1>1, FS_Subset
  <2> QED BY <2>1, Extremes
<1>3. {} \in P
  <2>1. g[{}] = NoStates BY DEF Folding
  <2>2. DOMAIN g[{}] = {} BY <2>1 DEF NoStates
  <2>3. LinksOf(Counting(F, c, {})) = {} BY DEF LinksOf, Counting
  <2> QED BY <2>2, <2>3
<1>4. ASSUME NEW r \in SUBSET T, r # {}, r \ {latest[r]} \in P PROVE r \in P
  <2> DEFINE t == Max(r)
             q == r \ {t}
  <2>1. t \in r /\ t \in T /\ q \in SUBSET T /\ latest[r] = t BY <1>2, <1>4 DEF Chooses
  <2>2. g[r] = Applied(F, c, t, g[q]) BY <1>4 DEF Folding
  <2>3. DOMAIN g[r] = DOMAIN g[q] \cup LinksOf(Decisive(Group(F, c, t)))
    <3> DEFINE now == g[q]
    <3>0. t \in Instants(F, c) BY <2>1
    <3> HIDE DEF now, t
    <3>1. DOMAIN Applied(F, c, t, now) = DOMAIN now \cup LinksOf(Decisive(Group(F, c, t))) BY <3>0, AppliedIs
    <3> QED BY <2>2, <3>1 DEF now
  <2>4. DOMAIN g[q] = LinksOf(Counting(F, c, q)) BY <1>4, <2>1
  <2>5. Counting(F, c, r) = Counting(F, c, q) \cup Decisive(Group(F, c, t)) BY <2>1 DEF Counting
  <2>6. LinksOf(Counting(F, c, r)) = LinksOf(Counting(F, c, q)) \cup LinksOf(Decisive(Group(F, c, t)))
    BY <2>5 DEF LinksOf
  <2> QED BY <2>3, <2>4, <2>6
<1>5. SUBSET T \subseteq P
  <2> HIDE DEF T, latest, P
  <2>1. Inductive(P, latest, T) BY <1>3, <1>4 DEF Inductive
  <2> QED BY <1>1, <1>2, <2>1, FoldInduction
<1> QED BY <1>5

\* The links of the projector: what counted, as its last instant left it.
LEMMA StatesAre ==
    ASSUME NEW F, AreFacts(F), NEW c
    PROVE  LET states == DeriveLinkStates(F, c)
               T == Instants(F, c)
               last == Decisive(Group(F, c, Max(T)))
           IN  /\ DOMAIN states = LinksOf(Counting(F, c, T))
               /\ DOMAIN states # {} => T # {}
               /\ \A l \in DOMAIN states :
                    /\ states[l] \in LinkStates
                    /\ states[l] = "active" <=> \A f \in last : l \in IssueLinks(f)
                    /\ states[l] = "revoked" <=> \A f \in last : l \notin IssueLinks(f)
<1> DEFINE states == DeriveLinkStates(F, c)
           T == Instants(F, c)
<1>1. PICK g : Folding(g, F, c) /\ states = g[T] BY StatesUnfold
<1>2. DOMAIN states = LinksOf(Counting(F, c, T)) BY <1>1, StatesSoFar
<1>3. DOMAIN states # {} => T # {} BY <1>2 DEF LinksOf, Counting
<1>4. ASSUME T # {} PROVE Max(T) \in T /\ states = Applied(F, c, Max(T), g[T \ {Max(T)}])
  <2>1. Max(T) \in T BY <1>4, SnapshotFacts, Extremes
  <2> QED BY <1>1, <1>4, <2>1 DEF Folding
<1>5. ASSUME NEW l \in DOMAIN states
      PROVE  /\ states[l] \in LinkStates
             /\ states[l] = "active" <=> \A f \in Decisive(Group(F, c, Max(T))) : l \in IssueLinks(f)
             /\ states[l] = "revoked" <=> \A f \in Decisive(Group(F, c, Max(T))) : l \notin IssueLinks(f)
  <2> DEFINE t == Max(T)
             now == g[T \ {t}]
  <2>1. t \in T /\ states = Applied(F, c, t, now) BY <1>3, <1>4
  <2> HIDE DEF t, now
  <2>2. \A k \in DOMAIN Applied(F, c, t, now) :
           /\ Applied(F, c, t, now)[k] \in LinkStates
           /\ Applied(F, c, t, now)[k] = "active" <=> \A f \in Decisive(Group(F, c, t)) : k \in IssueLinks(f)
           /\ Applied(F, c, t, now)[k] = "revoked"
                <=> \A f \in Decisive(Group(F, c, t)) : k \notin IssueLinks(f)
    BY <2>1, AppliedIs
  <2>3. /\ states[l] \in LinkStates
        /\ states[l] = "active" <=> \A f \in Decisive(Group(F, c, t)) : l \in IssueLinks(f)
        /\ states[l] = "revoked" <=> \A f \in Decisive(Group(F, c, t)) : l \notin IssueLinks(f)
    <3> HIDE DEF states
    <3> QED BY <2>1, <2>2 DEF states
  <2> QED BY <2>3 DEF t
<1> QED BY <1>2, <1>3, <1>5

LEMMA LastSnapshot == ASSUME NEW F, AreFacts(F) PROVE LastSnapshotDecides(F)
<1> SUFFICES ASSUME NEW c \in ChangeRequests
             PROVE  LET snaps  == Snapshots(F, c)
                        states == DeriveLinkStates(F, c)
                        last   == Decisive({f \in snaps : \A g \in snaps : g.at <= f.at})
                    IN  /\ DOMAIN states
                             = UNION {IssueLinks(f) : f \in UNION {Decisive(At(snaps, g.at)) : g \in snaps}}
                        /\ \A l \in DOMAIN states :
                             /\ states[l] = "active" <=> \A f \in last : l \in IssueLinks(f)
                             /\ states[l] = "revoked" <=> \A f \in last : l \notin IssueLinks(f)
  BY DEF LastSnapshotDecides
<1> DEFINE snaps == Snapshots(F, c)
           T == Instants(F, c)
           final == {f \in snaps : \A g \in snaps : g.at <= f.at}
<1>1. UNION {Decisive(At(snaps, g.at)) : g \in snaps} = Counting(F, c, T) BY DEF Counting, Group, Instants
<1>2. ASSUME T # {} PROVE final = Group(F, c, Max(T))
  <2>1. Max(T) \in T /\ \A t \in T : t <= Max(T) BY <1>2, SnapshotFacts, Extremes
  <2>2. \A f \in snaps : f.at \in T /\ f.at \in Int BY SnapshotFacts DEF Instants
  <2>3. ASSUME NEW f \in snaps PROVE (\A g \in snaps : g.at <= f.at) <=> f.at = Max(T)
    <3>1. PICK h \in snaps : h.at = Max(T) BY <2>1 DEF Instants
    <3> QED BY <2>1, <2>2, <3>1
  <2> QED BY <2>3 DEF Group, At
<1> QED BY <1>1, <1>2, StatesAre DEF LinksOf

-----------------------------------------------------------------------------
(* Closed episodes.                                                        *)

Opened      == Nat \cup {None}
Statuses    == {"pending", "awaiting_closure", "inferred", "unmatched", "ambiguous"}
EpisodeType == [issue : Issues, opened : Opened, closed : Opened, status : Statuses,
                cr : ChangeRequests \cup {None}, candidates : SUBSET ChangeRequests]

\* The change requests that may have closed issue i at time t.
MayHaveClosed(F, i, t) ==
    {c \in ChangeRequests :
        /\ \E f \in F : f.ent = c /\ f.type = "change_request.merged" /\ f.at < t
        /\ c \in Declaring(F, i, "active") \cup Declaring(F, i, "parked")}

LEMMA MergedIs ==
    ASSUME NEW F, AreFacts(F), NEW c
    PROVE  /\ Merged(F, c) # None => Merged(F, c) \in Saw(F, c, "change_request.merged")
           /\ \A t \in Saw(F, c, "change_request.merged") : Merged(F, c) # None /\ Merged(F, c) <= t
           /\ Saw(F, c, "change_request.merged") \subseteq Nat
<1> DEFINE merges == {g \in F : g.ent = c /\ g.type = "change_request.merged"}
           times == {f.at : f \in merges}
<1>1. IsFiniteSet(merges) /\ \A f \in merges : f.at \in Nat BY FS_Subset DEF AreFacts, IsFact
<1>2. IsFiniteSet(times)
  <2> DEFINE at == [f \in merges |-> f.at]
  <2>1. times = {at[f] : f \in merges} OBVIOUS
  <2> HIDE DEF at, merges, times
  <2> QED BY <1>1, <2>1, FiniteImage
<1>3. times \subseteq Nat /\ times \in SUBSET Int BY <1>1
<1>4. Merged(F, c) = IF times = {} THEN None ELSE Min(times) BY DEF Merged
<1>5. Saw(F, c, "change_request.merged") = times BY DEF Saw
<1>6. ASSUME times # {} PROVE Min(times) \in times /\ \A t \in times : Min(times) <= t
  <2> HIDE DEF times
  <2> QED BY <1>2, <1>3, <1>6, Extremes
<1> HIDE DEF times
<1>7. ASSUME times # {} PROVE Min(times) # None BY <1>3, <1>6, <1>7, EpisodesAssumption
<1> QED BY <1>3, <1>4, <1>5, <1>6, <1>7

LEMMA EligibleIs ==
    ASSUME NEW F, AreFacts(F), NEW crs, NEW t \in Nat, NEW c
    PROVE  c \in Eligible(F, crs, t)
             <=> /\ c \in crs
                 /\ \E f \in F : f.ent = c /\ f.type = "change_request.merged" /\ f.at < t
<1>1. (\E f \in F : f.ent = c /\ f.type = "change_request.merged" /\ f.at < t)
        <=> \E s \in Saw(F, c, "change_request.merged") : s < t
  BY DEF Saw
<1>2. Merged(F, c) # None /\ Merged(F, c) < t <=> \E s \in Saw(F, c, "change_request.merged") : s < t
  <2>1. ASSUME NEW s \in Saw(F, c, "change_request.merged"), s < t
        PROVE  Merged(F, c) # None /\ Merged(F, c) < t
    <3>1. Merged(F, c) # None /\ Merged(F, c) <= s /\ s \in Nat BY MergedIs
    <3>2. Merged(F, c) \in Nat BY <3>1, MergedIs
    <3> QED BY <2>1, <3>1, <3>2
  <2> QED BY <2>1, MergedIs
<1> QED BY <1>1, <1>2 DEF Eligible

LEMMA DeclaringIs ==
    ASSUME NEW F, AreFacts(F), NEW i, NEW state
    PROVE  /\ Declaring(F, i, state) \subseteq ChangeRequests
           /\ \A c \in Declaring(F, i, state) : LinkIsTrue(F, c, <<"declares_closure", i>>)
<1>1. Declaring(F, i, state) \subseteq ChangeRequests BY DEF Declaring
<1>2. ASSUME NEW c \in Declaring(F, i, state) PROVE LinkIsTrue(F, c, <<"declares_closure", i>>)
  <2> DEFINE l == <<"declares_closure", i>>
  <2>1. l \in DOMAIN DeriveLinkStates(F, c) BY DEF Declaring
  <2>2. l \in LinksOf(Counting(F, c, Instants(F, c))) BY <2>1, StatesAre
  <2> HIDE DEF l
  <2>3. PICK f \in Counting(F, c, Instants(F, c)) : l \in IssueLinks(f) BY <2>2 DEF LinksOf
  <2>4. f \in Snapshots(F, c)
    <3>1. PICK t \in Instants(F, c) : f \in Decisive(Group(F, c, t)) BY DEF Counting
    <3> QED BY <3>1, AppliedIs
  <2> QED BY <2>3, <2>4 DEF LinkIsTrue, l
<1> QED BY <1>1, <1>2

LEMMA ClosedIs ==
    ASSUME NEW F, AreFacts(F), NEW i \in Issues, NEW o \in Opened, NEW t \in Nat
    PROVE  LET e == ClosedEpisode(F, i, o, t)
           IN  /\ e \in EpisodeType /\ e.issue = i /\ e.opened = o /\ e.closed = t
               /\ e.status \in {"inferred", "unmatched", "ambiguous"}
               /\ e.cr # None => MayHaveClosed(F, i, t) = {e.cr}
<1> DEFINE act == Eligible(F, Declaring(F, i, "active"), t)
           parked == Eligible(F, Declaring(F, i, "parked"), t)
           e == Credited(i, o, t, act, parked)
<1>1. ClosedEpisode(F, i, o, t) = e BY DEF ClosedEpisode
<1>2. act \subseteq ChangeRequests /\ parked \subseteq ChangeRequests /\ IsFiniteSet(act)
  BY DeclaringIs, FS_Subset, EpisodesAssumption DEF Eligible
<1>3. MayHaveClosed(F, i, t) = act \cup parked
  <2>1. ASSUME NEW c PROVE c \in MayHaveClosed(F, i, t) <=> c \in act \cup parked
    <3> DEFINE merged == \E f \in F : f.ent = c /\ f.type = "change_request.merged" /\ f.at < t
               A == Declaring(F, i, "active")
               B == Declaring(F, i, "parked")
    <3>1. c \in MayHaveClosed(F, i, t) <=> c \in ChangeRequests /\ merged /\ c \in A \cup B
      BY DEF MayHaveClosed
    <3>2. (c \in act <=> c \in A /\ merged) /\ (c \in parked <=> c \in B /\ merged)
      <4> HIDE DEF A, B
      <4>1. \A crs : c \in Eligible(F, crs, t) <=> c \in crs /\ merged BY EligibleIs
      <4> QED BY <4>1 DEF A, B
    <3>3. A \subseteq ChangeRequests /\ B \subseteq ChangeRequests BY DeclaringIs
    <3> HIDE DEF A, B, merged, act, parked
    <3> QED BY <3>1, <3>2, <3>3
  <2> QED BY <2>1
<1> HIDE DEF act, parked
<1>4. /\ e.issue = i /\ e.opened = o /\ e.closed = t
      /\ e.status = IF parked # {} \/ Cardinality(act) > 1 THEN "ambiguous"
                    ELSE IF act = {} THEN "unmatched" ELSE "inferred"
      /\ e.cr = IF e.status = "inferred" THEN CHOOSE c \in act : TRUE ELSE None
      /\ e.candidates = IF e.status = "ambiguous" THEN act \cup parked ELSE {}
      /\ e = [issue |-> e.issue, opened |-> e.opened, closed |-> e.closed, status |-> e.status,
              cr |-> e.cr, candidates |-> e.candidates]
  BY DEF Credited
<1> HIDE DEF e
<1>5. e.status \in {"inferred", "unmatched", "ambiguous"} BY <1>4
<1>6. ASSUME e.status = "inferred" PROVE parked = {} /\ act = {e.cr}
  <2>1. parked = {} /\ ~ (Cardinality(act) > 1) /\ act # {} BY <1>4, <1>6
  <2>2. Cardinality(act) = 1 BY <1>2, <2>1, FS_CardinalityType, FS_EmptySet
  <2>3. PICK c : act = {c} BY <1>2, <2>2, FS_Singleton
  <2> QED BY <1>4, <1>6, <2>1, <2>3
<1>7. e.cr # None => e.status = "inferred" BY <1>4
<1>8. e \in EpisodeType
  <2>1. e.cr \in ChangeRequests \cup {None} BY <1>2, <1>4, <1>6
  <2>2. e.candidates \in SUBSET ChangeRequests BY <1>2, <1>4
  <2>3. e.closed \in Opened /\ e.opened \in Opened BY <1>4 DEF Opened
  <2>4. e.status \in Statuses BY <1>5 DEF Statuses
  <2> QED BY <1>4, <2>1, <2>2, <2>3, <2>4 DEF EpisodeType
<1> QED BY <1>1, <1>3, <1>4, <1>5, <1>6, <1>7, <1>8

-----------------------------------------------------------------------------
(* The walk through the lifecycle of an issue.                             *)

ClosedOnes(F, i) == {ClosedEpisode(F, i, x[1], x[2]) : x \in Opened \X Nat}
WalkType(F, i)   == [open : Opened, done : Seq(ClosedOnes(F, i))]
NoWalk           == [open |-> None, done |-> <<>>]

Closes(S) == {f.at : f \in {g \in S : g.type = "issue.closed"}}

\* done has an episode for each close of S, in the order of the closes.
InOrder(done, S) ==
    /\ {done[k].closed : k \in DOMAIN done} = Closes(S)
    /\ \A j, k \in DOMAIN done : j < k => done[j].closed < done[k].closed

\* e is what a close of issue i may have become.
Closed(F, i, e) ==
    /\ e \in EpisodeType /\ e.issue = i /\ e.closed \in Nat
    /\ e.status \in {"inferred", "unmatched", "ambiguous"}
    /\ e.cr # None => MayHaveClosed(F, i, e.closed) = {e.cr}

LEMMA ClosedOne ==
    ASSUME NEW F, AreFacts(F), NEW i \in Issues, NEW e \in ClosedOnes(F, i)
    PROVE  Closed(F, i, e)
<1>1. PICK x \in Opened \X Nat : e = ClosedEpisode(F, i, x[1], x[2]) BY DEF ClosedOnes
<1> DEFINE o == x[1]
           t == x[2]
<1>2. o \in Opened /\ t \in Nat /\ e = ClosedEpisode(F, i, o, t) BY <1>1
<1> HIDE DEF o, t
<1> DEFINE c == ClosedEpisode(F, i, o, t)
<1>3. /\ c \in EpisodeType /\ c.issue = i /\ c.opened = o /\ c.closed = t
      /\ c.status \in {"inferred", "unmatched", "ambiguous"}
      /\ c.cr # None => MayHaveClosed(F, i, t) = {c.cr}
  BY <1>2, ClosedIs
<1> HIDE DEF c
<1> QED BY <1>2, <1>3 DEF c, Closed

LEMMA LatestIs ==
    ASSUME NEW S, IsFiniteSet(S), S # {}, \A f \in S : f.at \in Nat
    PROVE  Latest(S) \in S /\ \A g \in S : ~ Before(Latest(S), g)
<1> DEFINE ats == {f.at : f \in S}
           top == {f \in S : f.at = Max(ats)}
           ranks == {Rank(f.type) : f \in top}
<1>1. Max(ats) \in ats /\ \A t \in ats : t <= Max(ats)
  <2> DEFINE at == [f \in S |-> f.at]
  <2>1. ats = {at[f] : f \in S} OBVIOUS
  <2>2. ats \in SUBSET Int /\ ats # {} OBVIOUS
  <2>3. IsFiniteSet(ats)
    <3> HIDE DEF at, ats
    <3> QED BY <2>1, FiniteImage
  <2> HIDE DEF ats
  <2> QED BY <2>2, <2>3, Extremes
<1>2. top # {} /\ IsFiniteSet(top) BY <1>1, FS_Subset
<1>3. \A f \in S : Rank(f.type) \in 0..2 BY DEF Rank
<1>4. Max(ranks) \in ranks /\ \A r \in ranks : r <= Max(ranks)
  <2> DEFINE rank == [f \in top |-> Rank(f.type)]
  <2>1. ranks = {rank[f] : f \in top} OBVIOUS
  <2>2. ranks \in SUBSET Int /\ ranks # {}
    <3>1. \A f \in top : Rank(f.type) \in Int BY <1>3
    <3> HIDE DEF top
    <3> QED BY <1>2, <3>1
  <2>3. IsFiniteSet(ranks)
    <3> HIDE DEF rank, ranks, top
    <3> QED BY <1>2, <2>1, FiniteImage
  <2> HIDE DEF ranks
  <2> QED BY <2>2, <2>3, Extremes
<1>5. PICK f \in top : Rank(f.type) = Max(ranks) BY <1>4
<1>6. ASSUME NEW g \in S PROVE ~ Before(f, g)
  <2>1. f.at = Max(ats) /\ g.at <= Max(ats) /\ f.at \in Nat /\ g.at \in Nat BY <1>1
  <2>2. ASSUME g.at = f.at PROVE Rank(g.type) <= Rank(f.type)
    <3>1. g \in top BY <2>1, <2>2
    <3>2. Rank(g.type) \in ranks BY <3>1
    <3> QED BY <1>4, <1>5, <3>2
  <2>3. Rank(g.type) \in 0..2 /\ Rank(f.type) \in 0..2 BY <1>3
  <2> HIDE DEF top, ats, ranks
  <2> QED BY <2>1, <2>2, <2>3 DEF Before
<1>7. f \in S OBVIOUS
<1> HIDE DEF top
<1> QED BY <1>6, <1>7 DEF Latest

\* The fold of WalkIssue, unfolded.
Walking(g, F, i) ==
    \A s \in SUBSET Lifecycle(F, i) :
        /\ g[s] \in WalkType(F, i)
        /\ g[s] = IF s = {} THEN NoWalk ELSE Walked(F, i, Latest(s), g[s \ {Latest(s)}])

LEMMA LifecycleFacts ==
    ASSUME NEW F, AreFacts(F), NEW i
    PROVE  /\ IsFiniteSet(Lifecycle(F, i)) /\ Lifecycle(F, i) \subseteq F
           /\ \A f \in Lifecycle(F, i) : f.at \in Nat /\ f.ent = i /\ f.type \in IssueTypes
           /\ \A s \in SUBSET Lifecycle(F, i) : s # {} => Latest(s) \in s /\ \A g \in s : ~ Before(Latest(s), g)
<1>1. /\ IsFiniteSet(Lifecycle(F, i)) /\ Lifecycle(F, i) \subseteq F
      /\ \A f \in Lifecycle(F, i) : f.at \in Nat /\ f.ent = i /\ f.type \in IssueTypes
  BY FS_Subset DEF Lifecycle, AreFacts, IsFact
<1>2. ASSUME NEW s \in SUBSET Lifecycle(F, i), s # {}
      PROVE  Latest(s) \in s /\ \A g \in s : ~ Before(Latest(s), g)
  <2>1. IsFiniteSet(s) /\ \A f \in s : f.at \in Nat BY <1>1, FS_Subset
  <2> QED BY <1>2, <2>1, LatestIs
<1> QED BY <1>1, <1>2

LEMMA WalkedType ==
    ASSUME NEW F, AreFacts(F), NEW i, NEW f \in Lifecycle(F, i), NEW acc \in WalkType(F, i)
    PROVE  Walked(F, i, f, acc) \in WalkType(F, i)
<1> DEFINE new == Walked(F, i, f, acc)
           E == ClosedOnes(F, i)
           e == ClosedEpisode(F, i, acc.open, f.at)
<1>1. f.at \in Nat BY LifecycleFacts
<1>2. acc.open \in Opened /\ acc.done \in Seq(E) /\ acc = [open |-> acc.open, done |-> acc.done]
  BY DEF WalkType
<1>3. e \in E
  <2>1. <<acc.open, f.at>> \in Opened \X Nat BY <1>1, <1>2
  <2> QED BY <2>1 DEF ClosedOnes
<1>4. CASE f.type = "issue.opened"
  <2>1. new = [open |-> IF acc.open = None THEN f.at ELSE acc.open, done |-> acc.done]
    BY <1>2, <1>4 DEF Walked
  <2> QED BY <1>1, <1>2, <2>1 DEF WalkType, Opened
<1>5. CASE f.type = "issue.reopened"
  <2>1. new = [open |-> f.at, done |-> acc.done] BY <1>2, <1>5 DEF Walked
  <2> QED BY <1>1, <1>2, <2>1 DEF WalkType, Opened
<1>6. CASE f.type \notin {"issue.opened", "issue.reopened"}
  <2>1. new = [open |-> None, done |-> Append(acc.done, e)] BY <1>6 DEF Walked
  <2>2. Append(acc.done, e) \in Seq(E)
    <3> HIDE DEF e, E
    <3> QED BY <1>2, <1>3
  <2> QED BY <2>1, <2>2 DEF WalkType, Opened
<1> QED BY <1>4, <1>5, <1>6

LEMMA WalkUnfold ==
    ASSUME NEW F, AreFacts(F), NEW i
    PROVE  \E g : Walking(g, F, i) /\ WalkIssue(F, i, Lifecycle(F, i)) = g[Lifecycle(F, i)]
<1> DEFINE T == Lifecycle(F, i)
           V == WalkType(F, i)
           latest == [s \in SUBSET T |-> Latest(s)]
           op == [x \in T \X V |-> Walked(F, i, x[1], x[2])]
           Solves(g) == g = [s \in SUBSET T |-> IF s = {} THEN NoWalk
                                                ELSE Walked(F, i, Latest(s), g[s \ {Latest(s)}])]
           solution == CHOOSE g : Solves(g)
<1>1. IsFiniteSet(T) /\ \A s \in SUBSET T : s # {} => Latest(s) \in s BY LifecycleFacts
<1>2. Chooses(latest, T) BY <1>1 DEF Chooses
<1>3. NoWalk \in V BY DEF NoWalk, WalkType, Opened
<1>4. op \in [T \X V -> V] BY WalkedType
<1>5. PICK h \in [SUBSET T -> V] : FoldsTo(h, NoWalk, op, latest, T)
  <2> HIDE DEF T, V, latest, op
  <2> QED BY <1>1, <1>2, <1>3, <1>4, FoldExists
<1>6. Solves(h)
  <2>1. ASSUME NEW s \in SUBSET T, s # {} PROVE h[s] = Walked(F, i, Latest(s), h[s \ {Latest(s)}])
    <3>1. Latest(s) \in T /\ s \ {Latest(s)} \in SUBSET T BY <1>1, <2>1
    <3>2. h[s \ {Latest(s)}] \in V BY <1>5, <3>1
    <3> HIDE DEF V
    <3> QED BY <1>5, <2>1, <3>1, <3>2 DEF FoldsTo
  <2>2. h = [s \in SUBSET T |-> h[s]] BY <1>5
  <2>3. h[{}] = NoWalk BY <1>5 DEF FoldsTo
  <2> QED BY <2>1, <2>2, <2>3
<1>7. Solves(solution)
  <2> HIDE DEF Solves
  <2> QED BY <1>6
<1>8. WalkIssue(F, i, T) = solution[T] BY DEF WalkIssue, MapThenFoldSet, NoWalk
<1>9. \A s \in SUBSET T : solution[s] \in V
  <2> DEFINE P == {s \in SUBSET T : solution[s] \in V}
  <2> HIDE DEF solution
  <2>1. {} \in P BY <1>3, <1>7
  <2>2. ASSUME NEW s \in SUBSET T, s # {}, s \ {latest[s]} \in P PROVE s \in P
    <3>1. latest[s] = Latest(s) /\ Latest(s) \in T BY <1>1, <2>2
    <3>2. solution[s] = Walked(F, i, Latest(s), solution[s \ {Latest(s)}]) BY <1>7, <2>2
    <3>3. solution[s \ {Latest(s)}] \in V BY <2>2, <3>1
    <3> QED BY <3>1, <3>2, <3>3, WalkedType
  <2>3. Inductive(P, latest, T)
    <3> HIDE DEF P, latest, T
    <3> QED BY <2>1, <2>2 DEF Inductive
  <2>4. SUBSET T \subseteq P
    <3> HIDE DEF P, latest, T
    <3> QED BY <1>1, <1>2, <2>3, FoldInduction
  <2> QED BY <2>4
<1> HIDE DEF solution
<1> QED BY <1>7, <1>8, <1>9 DEF Walking

\* Whatever part of the facts is walked, every close of it has its episode.
LEMMA WalkSoFar ==
    ASSUME NEW F, AreFacts(F), NEW i \in Issues, NEW g, Walking(g, F, i), NEW s \in SUBSET Lifecycle(F, i)
    PROVE  InOrder(g[s].done, s)
<1> DEFINE T == Lifecycle(F, i)
           latest == [r \in SUBSET T |-> Latest(r)]
           P == {r \in SUBSET T : InOrder(g[r].done, r)}
<1>1. /\ IsFiniteSet(T) /\ T \subseteq F
      /\ \A f \in T : f.at \in Nat /\ f.ent = i /\ f.type \in IssueTypes
      /\ \A r \in SUBSET T : r # {} => Latest(r) \in r /\ \A h \in r : ~ Before(Latest(r), h)
  BY LifecycleFacts
<1>2. Chooses(latest, T) BY <1>1 DEF Chooses
<1>3. {} \in P
  <2>1. g[{}] = NoWalk BY DEF Walking
  <2>2. g[{}].done = <<>> BY <2>1 DEF NoWalk
  <2>3. InOrder(<<>>, {}) BY DEF InOrder, Closes
  <2> QED BY <2>2, <2>3
<1>4. ASSUME NEW r \in SUBSET T, r # {}, r \ {latest[r]} \in P PROVE r \in P
  <2> DEFINE f == Latest(r)
             q == r \ {f}
             acc == g[q]
             e == ClosedEpisode(F, i, acc.open, f.at)
  <2>1. f \in r /\ f \in T /\ q \in SUBSET T /\ latest[r] = f /\ r = q \cup {f} BY <1>1, <1>4
  <2>2. g[r] = Walked(F, i, f, acc) /\ acc \in WalkType(F, i) BY <1>4, <2>1 DEF Walking
  <2>3. InOrder(acc.done, q) BY <1>4, <2>1
  <2>4. CASE f.type # "issue.closed"
    <3>1. f.type \in {"issue.opened", "issue.reopened"} BY <1>1, <2>1, <2>4 DEF IssueTypes
    <3>2. g[r].done = acc.done
      <4>1. acc = [open |-> acc.open, done |-> acc.done] BY <2>2 DEF WalkType
      <4> HIDE DEF acc, f
      <4> QED BY <2>2, <3>1, <4>1 DEF Walked
    <3>3. Closes(r) = Closes(q) BY <2>1, <2>4 DEF Closes
    <3>4. InOrder(g[r].done, r) BY <2>3, <3>2, <3>3 DEF InOrder
    <3> QED BY <3>4
  <2>5. CASE f.type = "issue.closed"
    <3>1. g[r].done = Append(acc.done, e)
      <4> HIDE DEF acc, f
      <4> QED BY <2>2, <2>5 DEF Walked, e
    <3>2. acc.done \in Seq(ClosedOnes(F, i)) /\ acc.open \in Opened BY <2>2 DEF WalkType
    <3>3. f.at \in Nat BY <1>1, <2>1
    <3>4. e.closed = f.at
      <4> DEFINE o == acc.open
                 t == f.at
      <4>1. o \in Opened /\ t \in Nat BY <3>2, <3>3
      <4> HIDE DEF o, t
      <4>2. ClosedEpisode(F, i, o, t).closed = t BY <4>1, ClosedIs
      <4> QED BY <4>2 DEF o, t
    <3>5. Closes(r) = Closes(q) \cup {f.at} BY <2>1, <2>5 DEF Closes
    <3>6. ASSUME NEW c \in Closes(q) PROVE c < f.at
      <4>1. PICK h \in q : h.type = "issue.closed" /\ c = h.at BY DEF Closes
      <4>2. h \in T /\ h \in r /\ h # f /\ h \in F /\ f \in F BY <1>1, <2>1, <4>1
      <4>3. ~ Before(f, h) /\ h.at \in Nat /\ h.ent = i /\ f.ent = i BY <1>1, <1>4, <2>1, <4>2
      <4>4. h.at # f.at
        <5> SUFFICES ASSUME h.at = f.at PROVE FALSE OBVIOUS
        <5>1. SameKey(f, h) BY <2>5, <4>1, <4>3 DEF SameKey
        <5> QED BY <4>2, <5>1 DEF AreFacts
      <4>5. ~ (f.at < h.at) BY <4>3 DEF Before
      <4> HIDE DEF f
      <4> QED BY <3>3, <4>1, <4>3, <4>4, <4>5
    <3>7. InOrder(Append(acc.done, e), r)
      <4> DEFINE old == acc.done
                 new == Append(old, e)
      <4>1. /\ DOMAIN old = 1..Len(old) /\ Len(old) \in Nat /\ DOMAIN new = 1..(Len(old) + 1)
            /\ \A k \in 1..Len(old) : new[k] = old[k]
            /\ new[Len(old) + 1] = e
        <5> HIDE DEF e, acc
        <5> QED BY <3>2
      <4>2. \A k \in DOMAIN old : old[k].closed \in Closes(q) BY <2>3 DEF InOrder
      <4>3. {new[k].closed : k \in DOMAIN new} = Closes(r)
        <5>1. {old[k].closed : k \in DOMAIN old} = Closes(q) BY <2>3 DEF InOrder
        <5> HIDE DEF e, old, new, f, q
        <5>2. {new[k].closed : k \in DOMAIN new} = {old[k].closed : k \in DOMAIN old} \cup {e.closed}
          <6>1. DOMAIN new = DOMAIN old \cup {Len(old) + 1} BY <4>1
          <6>2. \A k \in DOMAIN old : new[k] = old[k] BY <4>1
          <6> QED BY <4>1, <6>1, <6>2
        <5> QED BY <3>4, <3>5, <5>1, <5>2
      <4>4. ASSUME NEW j \in DOMAIN new, NEW k \in DOMAIN new, j < k PROVE new[j].closed < new[k].closed
        <5> HIDE DEF e, old, new, f, q
        <5>1. j \in 1..Len(old) /\ new[j] = old[j] /\ j \in DOMAIN old BY <4>1, <4>4
        <5>2. CASE k = Len(old) + 1 BY <3>4, <3>6, <4>1, <4>2, <5>1, <5>2
        <5>3. CASE k # Len(old) + 1
          <6>1. k \in DOMAIN old /\ new[k] = old[k] BY <4>1, <5>3
          <6>2. InOrder(old, q) BY <2>3 DEF old
          <6> QED BY <4>4, <5>1, <6>1, <6>2 DEF InOrder
        <5> QED BY <5>2, <5>3
      <4> QED BY <4>3, <4>4 DEF InOrder
    <3> QED BY <3>1, <3>7
  <2> QED BY <2>4, <2>5
<1>5. SUBSET T \subseteq P
  <2> HIDE DEF T, latest, P
  <2>1. Inductive(P, latest, T) BY <1>3, <1>4 DEF Inductive
  <2> QED BY <1>1, <1>2, <2>1, FoldInduction
<1> QED BY <1>5

\* The closed episodes of an issue, and the open one that may follow.
LEMMA ProjectedIs ==
    ASSUME NEW F, AreFacts(F), NEW i \in Issues
    PROVE  \E done \in Seq(ClosedOnes(F, i)), o \in Opened :
               /\ InOrder(done, Lifecycle(F, i))
               /\ ProjectIssueEpisodes(F, i) \in {done, Append(done, OpenEpisode(F, i, o))}
<1> DEFINE T == Lifecycle(F, i)
           end == WalkIssue(F, i, T)
           done == end.done
           o == end.open
           open == OpenEpisode(F, i, o)
<1>1. PICK g : Walking(g, F, i) /\ end = g[T] BY WalkUnfold
<1>2. end \in WalkType(F, i) BY <1>1 DEF Walking
<1>3. done \in Seq(ClosedOnes(F, i)) /\ o \in Opened BY <1>2 DEF WalkType
<1>4. InOrder(done, T) BY <1>1, WalkSoFar
<1>5. ProjectIssueEpisodes(F, i) = done \o <<>> \/ ProjectIssueEpisodes(F, i) = done \o <<open>>
  <2> HIDE DEF open
  <2> QED BY DEF ProjectIssueEpisodes, WithOpenEpisode, open
<1>6. done \o <<>> = done /\ done \o <<open>> = Append(done, open)
  <2> HIDE DEF done, open
  <2> QED BY <1>3
<1> HIDE DEF done, o, T
<1> QED BY <1>3, <1>4, <1>5, <1>6 DEF T

LEMMA OpenIs ==
    ASSUME NEW F, NEW i \in Issues, NEW o \in Opened
    PROVE  LET e == OpenEpisode(F, i, o)
           IN  /\ e \in EpisodeType /\ e.issue = i /\ e.closed = None /\ e.cr = None
               /\ e.status \in {"pending", "awaiting_closure"}
BY DEF OpenEpisode, EpisodeType, Opened, Statuses

\* A sequence that may have got one more element.
LEMMA Prolonged ==
    ASSUME NEW S, NEW s \in Seq(S), NEW e, NEW t \in {s, Append(s, e)}
    PROVE  /\ \A k \in 1..Len(s) : t[k] = s[k]
           /\ Len(t) \in {Len(s), Len(s) + 1} /\ DOMAIN t = 1..Len(t)
           /\ Len(t) = Len(s) + 1 => t[Len(s) + 1] = e
<1>1. CASE t = s BY <1>1
<1>2. CASE t = Append(s, e)
  <2>1. Len(t) = Len(s) + 1 /\ DOMAIN t = 1..(Len(s) + 1) BY <1>2
  <2>2. \A k \in 1..Len(s) : t[k] = s[k] BY <1>2
  <2>3. t[Len(s) + 1] = e BY <1>2
  <2> QED BY <2>1, <2>2, <2>3
<1> QED BY <1>1, <1>2

LEMMA OneMore ==
    ASSUME NEW n \in Nat, NEW m, m \in {n, n + 1}, NEW k \in 1..m
    PROVE  k \in 1..n \/ (k = n + 1 /\ m = n + 1)
OBVIOUS

\* What the projector makes of one issue.
Projected(F, i, eps) ==
    /\ eps \in Seq(EpisodeType)
    /\ \A k \in DOMAIN eps : eps[k].issue = i /\ (eps[k].closed = None => k = Len(eps))
    /\ {eps[k].closed : k \in DOMAIN eps} \ {None} = Closes(Lifecycle(F, i))
    /\ \A j, k \in DOMAIN eps : j < k /\ eps[k].closed # None => eps[j].closed < eps[k].closed
    /\ \A k \in DOMAIN eps : eps[k].cr # None =>
         eps[k].closed \in Nat /\ MayHaveClosed(F, i, eps[k].closed) = {eps[k].cr}
    /\ \A k \in DOMAIN eps : eps[k].status \in {"unmatched", "ambiguous"} => eps[k].closed \in Nat

LEMMA EpisodesAre ==
    ASSUME NEW F, AreFacts(F), NEW i \in Issues
    PROVE  Projected(F, i, ProjectIssueEpisodes(F, i))
<1> DEFINE eps == ProjectIssueEpisodes(F, i)
<1>1. PICK done \in Seq(ClosedOnes(F, i)), o \in Opened :
          InOrder(done, Lifecycle(F, i)) /\ eps \in {done, Append(done, OpenEpisode(F, i, o))}
  BY ProjectedIs
<1> DEFINE e == OpenEpisode(F, i, o)
           n == Len(done)
<1> HIDE DEF eps
<1>2. /\ e \in EpisodeType /\ e.issue = i /\ e.closed = None /\ e.cr = None
      /\ e.status \in {"pending", "awaiting_closure"}
  BY OpenIs
<1> HIDE DEF e
<1>3. DOMAIN done = 1..n /\ n \in Nat /\ \A k \in 1..n : done[k] \in ClosedOnes(F, i) OBVIOUS
<1>4. ASSUME NEW k \in 1..n
      PROVE  /\ done[k] \in EpisodeType /\ done[k].issue = i /\ done[k].closed \in Nat /\ done[k].closed # None
             /\ done[k].cr # None => MayHaveClosed(F, i, done[k].closed) = {done[k].cr}
  <2> DEFINE d == done[k]
  <2>1. d \in ClosedOnes(F, i) BY <1>3
  <2> HIDE DEF d
  <2>2. /\ d \in EpisodeType /\ d.issue = i /\ d.closed \in Nat
        /\ d.cr # None => MayHaveClosed(F, i, d.closed) = {d.cr}
    <3>1. Closed(F, i, d) BY <2>1, ClosedOne
    <3> QED BY <3>1 DEF Closed
  <2>3. d.closed # None BY <2>2, EpisodesAssumption
  <2> QED BY <2>2, <2>3 DEF d
<1>5. /\ \A k \in 1..n : eps[k] = done[k]
      /\ Len(eps) \in {n, n + 1} /\ DOMAIN eps = 1..Len(eps)
      /\ Len(eps) = n + 1 => eps[n + 1] = e
  <2>1. eps \in {done, Append(done, e)} BY <1>1 DEF e
  <2> QED BY <2>1, Prolonged
<1>6. /\ Closes(Lifecycle(F, i)) = {done[k].closed : k \in 1..n}
      /\ \A j, k \in 1..n : j < k => done[j].closed < done[k].closed
  BY <1>1, <1>3 DEF InOrder
<1>7. \A k \in DOMAIN eps : (k \in 1..n /\ eps[k] = done[k]) \/ (k = n + 1 /\ eps[k] = e /\ Len(eps) = n + 1)
  <2> SUFFICES ASSUME NEW k \in DOMAIN eps
               PROVE  (k \in 1..n /\ eps[k] = done[k]) \/ (k = n + 1 /\ eps[k] = e /\ Len(eps) = n + 1)
    OBVIOUS
  <2> HIDE DEF n
  <2>1. k \in 1..Len(eps) BY <1>5
  <2>2. k \in 1..n \/ (k = n + 1 /\ Len(eps) = n + 1)
    <3> DEFINE m == Len(eps)
    <3>1. m \in {n, n + 1} /\ k \in 1..m /\ n \in Nat BY <1>3, <1>5, <2>1
    <3> HIDE DEF m
    <3>2. k \in 1..n \/ (k = n + 1 /\ m = n + 1)
      <4> HIDE DEF n
      <4> QED BY <3>1, OneMore, Zenon
    <3> QED BY <3>2 DEF m
  <2>3. CASE k \in 1..n BY <1>5, <2>3
  <2>4. CASE k = n + 1 /\ Len(eps) = n + 1
    <3>1. eps[k] = e BY <1>5, <2>4
    <3> QED BY <2>4, <3>1
  <2> QED BY <2>2, <2>3, <2>4
<1>8. eps \in Seq(EpisodeType)
  <2>1. done \in Seq(EpisodeType)
    <3>1. done \in [1..n -> EpisodeType] BY <1>3, <1>4
    <3> QED BY <1>3, <3>1
  <2>2. eps = done \/ eps = Append(done, e) BY <1>1 DEF e
  <2> QED BY <1>2, <2>1, <2>2
<1>9. {eps[k].closed : k \in DOMAIN eps} \ {None} = Closes(Lifecycle(F, i))
  <2>1. ASSUME NEW c \in {eps[k].closed : k \in DOMAIN eps} \ {None} PROVE c \in {done[k].closed : k \in 1..n}
    <3>1. PICK k \in DOMAIN eps : c = eps[k].closed BY <2>1
    <3> QED BY <1>2, <1>7, <2>1, <3>1
  <2>2. ASSUME NEW k \in 1..n PROVE done[k].closed \in {eps[j].closed : j \in DOMAIN eps} \ {None}
    <3>1. eps[k] = done[k] BY <1>5
    <3>2. k \in DOMAIN eps
      <4> DEFINE m == Len(eps)
      <4>1. m \in {n, n + 1} /\ n \in Nat /\ DOMAIN eps = 1..m BY <1>3, <1>5
      <4> HIDE DEF m, n
      <4> QED BY <4>1
    <3> QED BY <1>4, <3>1, <3>2
  <2> QED BY <1>6, <2>1, <2>2, ZenonT(60)
<1>10. ASSUME NEW k \in DOMAIN eps
       PROVE  /\ eps[k].issue = i /\ (eps[k].closed = None => k = Len(eps))
              /\ eps[k].cr # None =>
                    eps[k].closed \in Nat /\ MayHaveClosed(F, i, eps[k].closed) = {eps[k].cr}
              /\ eps[k].status \in {"unmatched", "ambiguous"} => eps[k].closed \in Nat
  BY <1>2, <1>4, <1>7
<1>11. ASSUME NEW j \in DOMAIN eps, NEW k \in DOMAIN eps, j < k, eps[k].closed # None
       PROVE  eps[j].closed < eps[k].closed
  <2>1. k \in 1..n /\ eps[k] = done[k] BY <1>2, <1>7, <1>11
  <2>2. j \in 1..n /\ eps[j] = done[j] BY <1>3, <1>7, <1>11, <2>1
  <2> QED BY <1>6, <1>11, <2>1, <2>2
<1>12. Projected(F, i, eps) BY <1>8, <1>9, <1>10, <1>11 DEF Projected
<1> QED BY <1>12 DEF eps

(* The result follows the facts, whatever set of them is known.            *)
LEMMA ProjectionFollows == ASSUME NEW F, AreFacts(F) PROVE FollowFacts(F)
<1>1. LastSnapshotDecides(F) BY LastSnapshot
<1>2. ASSUME NEW i \in Issues PROVE Follow(F, i, ProjectIssueEpisodes(F, i))
  <2> DEFINE eps == ProjectIssueEpisodes(F, i)
             closes == {f.at : f \in {g \in F : g.ent = i /\ g.type = "issue.closed"}}
             mine == Closes(Lifecycle(F, i))
             may(c, t) == /\ \E f \in F : f.ent = c /\ f.type = "change_request.merged" /\ f.at < t
                          /\ c \in Declaring(F, i, "active") \cup Declaring(F, i, "parked")
  <2>1. mine = closes BY DEF Closes, Lifecycle, IssueTypes
  <2>2. \A t : {c \in ChangeRequests : may(c, t)} = MayHaveClosed(F, i, t) BY DEF MayHaveClosed
  <2>3. Projected(F, i, eps) BY EpisodesAre
  <2>4. \A k \in DOMAIN eps : eps[k].cr # None =>
           {c \in ChangeRequests : may(c, eps[k].closed)} = {eps[k].cr}
    <3> HIDE DEF eps, may
    <3> QED BY <2>2, <2>3 DEF Projected
  <2>5. /\ \A k \in DOMAIN eps : eps[k].closed = None => k = Len(eps)
        /\ {eps[k].closed : k \in DOMAIN eps} \ {None} = closes
        /\ \A j, k \in DOMAIN eps : j < k /\ eps[k].closed # None => eps[j].closed < eps[k].closed
    <3> HIDE DEF eps, closes
    <3> QED BY <2>1, <2>3 DEF Projected
  <2> HIDE DEF eps
  <2> QED BY <2>4, <2>5, Zenon DEF Follow, eps
<1> QED BY <1>1, <1>2 DEF FollowFacts, EpisodesFollowCloses

-----------------------------------------------------------------------------
(* Correlation.                                                            *)

\* What the engine reads of the listing besides the kept copies is its set.
LEMMA SameRangeSameLocks ==
    ASSUME NEW run, NEW es, NEW fs, NEW events, CO!Range(es) = CO!Range(fs)
    PROVE  /\ CO!Correlations(run, es, events) = CO!Correlations(run, fs, events)
           /\ CO!Owning(run, es) = CO!Owning(run, fs)
           /\ CO!ChangeRequestsTitled(run, es) = CO!ChangeRequestsTitled(run, fs)
           /\ \A locked : /\ CO!UnresolvedEntries(run, es, locked) = CO!UnresolvedEntries(run, fs, locked)
                          /\ CO!Outcome(run, es, locked) = CO!Outcome(run, fs, locked)
<1>1. \A type : CO!OfType(es, type) = CO!OfType(fs, type) BY Zenon DEF CO!OfType
<1>2. CO!ChangeRequestsTitled(run, es) = CO!ChangeRequestsTitled(run, fs)
  BY <1>1, Zenon DEF CO!ChangeRequestsTitled
<1>3. \A numbers : CO!IssuesNumbered(es, numbers) = CO!IssuesNumbered(fs, numbers)
  BY <1>1, Zenon DEF CO!IssuesNumbered
<1>4. CO!IssueReferenceRule(run, es, events) = CO!IssueReferenceRule(run, fs, events)
  BY <1>2, <1>3, Zenon DEF CO!IssueReferenceRule
<1>5. CO!BranchIssueReferenceRule(run, es, events) = CO!BranchIssueReferenceRule(run, fs, events)
  BY <1>1, <1>3, Zenon DEF CO!BranchIssueReferenceRule
<1>6. CO!CommitIssueReferenceRule(run, es, events) = CO!CommitIssueReferenceRule(run, fs, events)
  BY <1>1, <1>3, Zenon DEF CO!CommitIssueReferenceRule
<1>7. CO!TemporalInferenceRule(run, es, events) = CO!TemporalInferenceRule(run, fs, events)
  BY Zenon DEF CO!TemporalInferenceRule
<1>8. CO!ExplicitRunIdRule(run, es, events) = CO!ExplicitRunIdRule(run, fs, events)
  BY Zenon DEF CO!ExplicitRunIdRule
<1>9. CO!Correlations(run, es, events) = CO!Correlations(run, fs, events)
  BY <1>4, <1>5, <1>6, <1>7, <1>8, Zenon DEF CO!Correlations
<1>10. CO!Owning(run, es) = CO!Owning(run, fs) BY <1>2 DEF CO!Owning
<1>11. \A locked : CO!UnresolvedEntries(run, es, locked) = CO!UnresolvedEntries(run, fs, locked)
  BY <1>2, Zenon DEF CO!UnresolvedEntries
<1>12. \A locked : CO!Outcome(run, es, locked) = CO!Outcome(run, fs, locked)
  <2> SUFFICES ASSUME NEW locked PROVE CO!Outcome(run, es, locked) = CO!Outcome(run, fs, locked) OBVIOUS
  <2> DEFINE o == CO!Owning(run, es)
  <2>1. {m \in CO!OfType(es, "merge_event") : m.number = o.number}
          = {m \in CO!OfType(fs, "merge_event") : m.number = CO!Owning(run, fs).number}
    BY <1>1, <1>10
  <2>2. {e.id : e \in {x \in CO!OfType(es, "issue") : x.id \in DOMAIN locked
                                        /\ locked[x.id].conf >= CO!ResolvedRoleThreshold}}
          = {e.id : e \in {x \in CO!OfType(fs, "issue") : x.id \in DOMAIN locked
                                        /\ locked[x.id].conf >= CO!ResolvedRoleThreshold}}
    BY <1>1
  <2>3. o = CO!Owning(run, fs) BY <1>10
  <2> HIDE DEF o
  <2> QED BY <2>1, <2>2, <2>3, Zenon DEF CO!Outcome, o
<1> QED BY <1>2, <1>9, <1>10, <1>11, <1>12

LEMMA SameFields ==
    ASSUME NEW es, CO!IsWindow(es), NEW e \in CO!Range(es), NEW f \in CO!Range(es), e.id = f.id
    PROVE  /\ e.type = f.type /\ e.refs = f.refs /\ e.resolves = f.resolves /\ e.number = f.number
<1>1. e = [f EXCEPT !.owner = e.owner] BY DEF CO!IsWindow
<1>2. /\ "owner" \in DOMAIN f /\ "type" \in DOMAIN f /\ "refs" \in DOMAIN f
      /\ "resolves" \in DOMAIN f /\ "number" \in DOMAIN f
  BY DEF CO!IsWindow
<1>3. e.type = f.type /\ e.refs = f.refs /\ e.resolves = f.resolves /\ e.number = f.number
  BY <1>1, <1>2
<1> QED BY <1>3

(* Of the copies of an entity the one kept is a copy of it, and one that   *)
(* the owning change request carries if any of them is.                    *)
LEMMA KeptCopy ==
    ASSUME NEW es, CO!IsWindow(es), NEW owning
    PROVE  LET kept == CO!DedupeEntities(es, owning)
           IN  /\ kept \subseteq CO!Range(es)
               /\ \A e \in CO!Range(es) : \E k \in kept : k.id = e.id
               /\ \A k, l \in kept : k.id = l.id => k = l
               /\ owning # None =>
                    \A e \in CO!Range(es) : \A k \in kept :
                       e.id = k.id /\ e.owner = owning.number => k.owner = owning.number
<1> DEFINE carried(id) == {i \in CO!Copies(es, id) : owning # None /\ es[i].owner = owning.number}
           keep(id) == es[CO!Min(IF carried(id) # {} THEN carried(id) ELSE CO!Copies(es, id))]
           kept == {keep(e.id) : e \in CO!Range(es)}
<1>1. DOMAIN es \subseteq Nat BY DEF CO!IsWindow
<1>2. CO!Range(es) = {es[i] : i \in DOMAIN es} BY DEF CO!Range
<1>3. ASSUME NEW e \in CO!Range(es)
      PROVE  /\ keep(e.id) \in CO!Range(es) /\ keep(e.id).id = e.id
             /\ owning # None /\ e.owner = owning.number => keep(e.id).owner = owning.number
  <2> DEFINE S == IF carried(e.id) # {} THEN carried(e.id) ELSE CO!Copies(es, e.id)
  <2>1. PICK i \in DOMAIN es : es[i] = e BY <1>2
  <2>2. i \in CO!Copies(es, e.id) BY <2>1 DEF CO!Copies
  <2>3. owning # None /\ e.owner = owning.number => i \in carried(e.id) BY <2>1, <2>2
  <2>4. S # {} /\ S \subseteq CO!Copies(es, e.id) BY <2>2
  <2>5. \A j \in CO!Copies(es, e.id) : j \in DOMAIN es /\ es[j].id = e.id BY DEF CO!Copies
  <2>6. S \subseteq Nat BY <1>1, <2>4, <2>5
  <2>7. CO!Min(S) \in S
    <3> HIDE DEF S
    <3> QED BY <2>4, <2>6, SmallestIndex
  <2>8. owning # None /\ e.owner = owning.number => CO!Min(S) \in carried(e.id) BY <2>3, <2>7
  <2>9. keep(e.id) = es[CO!Min(S)] OBVIOUS
  <2>10. CO!Min(S) \in DOMAIN es /\ es[CO!Min(S)].id = e.id BY <2>4, <2>5, <2>7
  <2> QED BY <1>2, <2>8, <2>9, <2>10
<1>4. CO!DedupeEntities(es, owning) = kept BY DEF CO!DedupeEntities
<1> HIDE DEF keep
<1>5. kept \subseteq CO!Range(es) BY <1>3
<1>6. \A e \in CO!Range(es) : \E k \in kept : k.id = e.id BY <1>3
<1>7. \A k \in kept : k = keep(k.id) BY <1>3
<1>8. \A k, l \in kept : k.id = l.id => k = l BY <1>7
<1>9. ASSUME owning # None, NEW e \in CO!Range(es), NEW k \in kept, e.id = k.id, e.owner = owning.number
      PROVE  k.owner = owning.number
  BY <1>3, <1>7, <1>9
<1> HIDE DEF kept
<1> QED BY <1>4, <1>5, <1>6, <1>8, <1>9

\* The links that the kept copies decide, told from the whole listing.
LineageIds(es, locked, owning) ==
    {e.id : e \in {x \in CO!Range(es) : /\ owning # None /\ x.type \in {"commit", "review"}
                                       /\ x.id \notin DOMAIN locked /\ x.owner = owning.number}}

NoiseIds(es, locked, owning) ==
    LET known == IF owning = None THEN {} ELSE owning.resolves \cup {owning.number}
    IN  {e.id : e \in {x \in CO!Range(es) : x.id \notin DOMAIN locked /\
            \/ x.type = "change_request"
            \/ /\ x.type = "commit" /\ x.refs # {} /\ ~(x.refs \subseteq known)
               /\ x.id \notin LineageIds(es, locked, owning)}}

OwnConfidence(locked, owning) == IF owning.id \in DOMAIN locked THEN locked[owning.id].conf ELSE 10

DirectLinks(locked) ==
    {CO!Link(id, CO!Role(locked[id].conf), locked[id].conf, "direct") : id \in DOMAIN locked}

LEMMA LinksOfListing ==
    ASSUME NEW es, CO!IsWindow(es), NEW locked, NEW owning
    PROVE  CO!EntityLinks(locked, CO!DedupeEntities(es, owning), owning)
             = DirectLinks(locked)
                 \cup {CO!Link(id, CO!Role(OwnConfidence(locked, owning)), OwnConfidence(locked, owning),
                              "owning_change_request") : id \in LineageIds(es, locked, owning)}
                 \cup {CO!Link(id, "noise", 0, "direct") : id \in NoiseIds(es, locked, owning)}
<1> DEFINE kept == CO!DedupeEntities(es, owning)
           lineage == IF owning = None THEN {}
                      ELSE {e \in kept : /\ e.type \in {"commit", "review"} /\ e.id \notin DOMAIN locked
                                         /\ e.owner = owning.number}
           known == IF owning = None THEN {} ELSE owning.resolves \cup {owning.number}
           noise == {e \in kept : e.id \notin DOMAIN locked /\
                      \/ e.type = "change_request"
                      \/ e.type = "commit" /\ e \notin lineage /\ e.refs # {} /\ ~(e.refs \subseteq known)}
           conf == OwnConfidence(locked, owning)
           L(id) == CO!Link(id, CO!Role(conf), conf, "owning_change_request")
           X(id) == CO!Link(id, "noise", 0, "direct")
<1>1. /\ kept \subseteq CO!Range(es)
      /\ \A e \in CO!Range(es) : \E k \in kept : k.id = e.id
      /\ \A k, l \in kept : k.id = l.id => k = l
      /\ owning # None =>
           \A e \in CO!Range(es) : \A k \in kept :
              e.id = k.id /\ e.owner = owning.number => k.owner = owning.number
  BY KeptCopy
<1>2. \A e, f \in CO!Range(es) : e.id = f.id => e.type = f.type /\ e.refs = f.refs BY SameFields
<1>3. CO!EntityLinks(locked, kept, owning)
        = DirectLinks(locked) \cup {L(e.id) : e \in lineage} \cup {X(e.id) : e \in noise}
  BY DEF CO!EntityLinks, DirectLinks, OwnConfidence
<1> HIDE DEF kept
<1>4. {e.id : e \in lineage} = LineageIds(es, locked, owning)
  <2>1. ASSUME NEW e \in lineage PROVE e.id \in LineageIds(es, locked, owning)
    BY <1>1, <2>1, Zenon DEF LineageIds
  <2>2. ASSUME NEW id \in LineageIds(es, locked, owning) PROVE id \in {e.id : e \in lineage}
    <3>1. PICK x \in CO!Range(es) : /\ x.id = id /\ owning # None /\ x.type \in {"commit", "review"}
                                   /\ x.id \notin DOMAIN locked /\ x.owner = owning.number
      BY <2>2, Zenon DEF LineageIds
    <3>2. PICK k \in kept : k.id = x.id BY <1>1
    <3>3. k \in lineage BY <1>1, <1>2, <3>1, <3>2
    <3> QED BY <3>1, <3>2, <3>3
  <2> QED BY <2>1, <2>2, Zenon
<1>5. {e.id : e \in noise} = NoiseIds(es, locked, owning)
  <2>0. \A e \in kept : e \in lineage <=> e.id \in LineageIds(es, locked, owning)
    BY <1>1, <1>4
  <2>1. ASSUME NEW e \in noise PROVE e.id \in NoiseIds(es, locked, owning)
    BY <1>1, <2>0, <2>1, Zenon DEF NoiseIds
  <2>2. ASSUME NEW id \in NoiseIds(es, locked, owning) PROVE id \in {e.id : e \in noise}
    <3>1. PICK x \in CO!Range(es) : x.id = id /\ x.id \notin DOMAIN locked /\
            \/ x.type = "change_request"
            \/ /\ x.type = "commit" /\ x.refs # {} /\ ~(x.refs \subseteq known)
               /\ x.id \notin LineageIds(es, locked, owning)
      BY <2>2, Zenon DEF NoiseIds
    <3>2. PICK k \in kept : k.id = x.id BY <1>1
    <3>3. k.type = x.type /\ k.refs = x.refs BY <1>1, <1>2, <3>2
    <3>4. k \in noise
      <4> HIDE DEF lineage, known
      <4> QED BY <2>0, <3>1, <3>2, <3>3
    <3> QED BY <3>1, <3>2, <3>4
  <2> QED BY <2>1, <2>2, Zenon
<1>6. {L(e.id) : e \in lineage} = {L(id) : id \in LineageIds(es, locked, owning)}
  <2> HIDE DEF lineage, L
  <2> QED BY <1>4
<1>7. {X(e.id) : e \in noise} = {X(id) : id \in NoiseIds(es, locked, owning)}
  <2> HIDE DEF noise, X
  <2> QED BY <1>5
<1> HIDE DEF lineage, noise
<1> QED BY <1>3, <1>6, <1>7 DEF kept

LEMMA ReversedWindow ==
    ASSUME NEW es, CO!IsWindow(es)
    PROVE  CO!Range(CO!Reverse(es)) = CO!Range(es) /\ CO!IsWindow(CO!Reverse(es))
<1> DEFINE rev == CO!Reverse(es)
           R == CO!Range(es)
           n == Len(es)
<1>1. es \in Seq(R) BY DEF CO!IsWindow
<1> HIDE DEF R
<1>2. n \in Nat /\ DOMAIN es = 1..n /\ \A i \in 1..n : es[i] \in R BY <1>1
<1>3. rev = [i \in 1..n |-> es[(n - i) + 1]] BY DEF CO!Reverse
<1>4. \A i \in 1..n : (n - i) + 1 \in 1..n /\ (n - ((n - i) + 1)) + 1 = i BY <1>2
<1>5. DOMAIN rev = 1..n /\ \A i \in 1..n : rev[i] = es[(n - i) + 1] BY <1>3
<1>6. rev \in Seq(R) BY <1>2, <1>3, <1>4
<1> HIDE DEF n
<1>7. \A i \in 1..n : es[i] = rev[(n - i) + 1] BY <1>4, <1>5
<1> HIDE DEF rev
<1>8. CO!Range(rev) = {rev[i] : i \in 1..n} BY <1>5 DEF CO!Range
<1>9. R = {es[i] : i \in 1..n} BY <1>2 DEF R, CO!Range
<1>10. CO!Range(rev) = R BY <1>4, <1>5, <1>7, <1>8, <1>9
<1>11. CO!IsWindow(rev) BY <1>6, <1>10, Zenon DEF CO!IsWindow, R
<1> QED BY <1>10, <1>11 DEF rev, R

\* The order in which a window is listed does not matter.
LEMMA ReversedWindowSameResult ==
    ASSUME NEW run, NEW es, CO!IsWindow(es), NEW events
    PROVE  CO!ListingOrderIsIrrelevant(run, es, events)
<1> DEFINE rev == CO!Reverse(es)
           locked == CO!Correlations(run, es, events)
           owning == CO!Owning(run, es)
<1>1. CO!Range(rev) = CO!Range(es) /\ CO!IsWindow(rev) BY ReversedWindow
<1> HIDE DEF rev
<1>2. /\ CO!Correlations(run, rev, events) = locked
      /\ CO!Owning(run, rev) = owning
      /\ CO!UnresolvedEntries(run, rev, locked) = CO!UnresolvedEntries(run, es, locked)
      /\ CO!Outcome(run, rev, locked) = CO!Outcome(run, es, locked)
  BY <1>1, SameRangeSameLocks
<1> HIDE DEF locked, owning
<1>3. LineageIds(rev, locked, owning) = LineageIds(es, locked, owning) BY <1>1, Zenon DEF LineageIds
<1>4. NoiseIds(rev, locked, owning) = NoiseIds(es, locked, owning) BY <1>1, <1>3, Zenon DEF NoiseIds
<1>5. CO!EntityLinks(locked, CO!DedupeEntities(rev, owning), owning)
        = CO!EntityLinks(locked, CO!DedupeEntities(es, owning), owning)
  BY <1>1, <1>3, <1>4, LinksOfListing
<1>6. CO!Resolve(run, rev, events) = CO!Resolve(run, es, events)
  BY <1>2, <1>5, Zenon DEF CO!Resolve, locked, owning
<1> QED BY <1>6 DEF CO!ListingOrderIsIrrelevant, rev

\* An entity is linked once.
LEMMA LinksAreUnique ==
    ASSUME NEW run, NEW es, CO!IsWindow(es), NEW events
    PROVE  CO!OneLinkPerEntity(run, es, events)
<1> DEFINE locked == CO!Correlations(run, es, events)
           owning == CO!Owning(run, es)
           shown == CO!Resolve(run, es, events).links
<1>1. shown = CO!EntityLinks(locked, CO!DedupeEntities(es, owning), owning) BY DEF CO!Resolve
<1> HIDE DEF locked, owning, shown
<1>2. shown = DirectLinks(locked)
                 \cup {CO!Link(id, CO!Role(OwnConfidence(locked, owning)), OwnConfidence(locked, owning),
                              "owning_change_request") : id \in LineageIds(es, locked, owning)}
                 \cup {CO!Link(id, "noise", 0, "direct") : id \in NoiseIds(es, locked, owning)}
  BY <1>1, LinksOfListing
<1>3. \A id \in LineageIds(es, locked, owning) : id \notin DOMAIN locked BY DEF LineageIds
<1>4. \A id \in NoiseIds(es, locked, owning) :
         id \notin DOMAIN locked /\ id \notin LineageIds(es, locked, owning)
  <2> SUFFICES ASSUME NEW x \in CO!Range(es), x.id \notin DOMAIN locked, x.type = "change_request"
               PROVE  x.id \notin LineageIds(es, locked, owning)
    BY DEF NoiseIds
  <2> QED BY SameFields DEF LineageIds
<1>5. \A k, l \in shown : k.id = l.id => k = l
  BY <1>2, <1>3, <1>4 DEF DirectLinks, CO!Link
<1> QED BY <1>5 DEF CO!OneLinkPerEntity, shown

\* What locked an entity first is what it is bound by.
LEMMA LockKeeps ==
    ASSUME NEW locked, NEW proposals
    PROVE  LET l == CO!Lock(locked, proposals)
           IN  /\ \A id \in DOMAIN locked : id \in DOMAIN l /\ l[id] = locked[id]
               /\ \A id \in DOMAIN l : id \notin DOMAIN locked =>
                     \E p \in proposals : p.id = id /\ l[id].conf = p.conf
               /\ \A p \in proposals : p.id \in DOMAIN l
<1> DEFINE l == CO!Lock(locked, proposals)
           first(id) == CHOOSE q \in proposals : q.id = id
<1>1. /\ DOMAIN l = DOMAIN locked \cup {p.id : p \in proposals}
      /\ \A id \in DOMAIN l : l[id] = IF id \in DOMAIN locked THEN locked[id]
                                      ELSE [conf |-> first(id).conf, method |-> first(id).method]
  BY DEF CO!Lock
<1>2. \A id \in DOMAIN l : id \notin DOMAIN locked => first(id) \in proposals /\ first(id).id = id
  BY <1>1
<1> HIDE DEF l, first
<1>3. \A id \in DOMAIN l : id \notin DOMAIN locked =>
         \E p \in proposals : p.id = id /\ l[id].conf = p.conf
  <2> SUFFICES ASSUME NEW id \in DOMAIN l, id \notin DOMAIN locked
               PROVE  \E p \in proposals : p.id = id /\ l[id].conf = p.conf
    OBVIOUS
  <2>1. first(id) \in proposals /\ first(id).id = id BY <1>2
  <2>2. l[id] = [conf |-> first(id).conf, method |-> first(id).method] BY <1>1
  <2>3. l[id].conf = first(id).conf BY <2>2
  <2> QED BY <2>1, <2>3
<1> QED BY <1>1, <1>3 DEF l

(* The change request that alone carries the run's title is bound with     *)
(* certainty: by an event with the run's id or by the reference rule.      *)
LEMMA OwnerIsBound ==
    ASSUME NEW run, NEW es, CO!IsWindow(es), NEW events,
           CO!Owning(run, es) # None
    PROVE  LET locked == CO!Correlations(run, es, events)
               o == CO!Owning(run, es)
           IN  o.id \in DOMAIN locked /\ locked[o.id].conf = 10
<1> DEFINE owners == CO!ChangeRequestsTitled(run, es)
           o == CO!Owning(run, es)
           none == [id \in {} |-> None]
           explicit == CO!Lock(none, CO!ExplicitRunIdRule(run, es, events))
           proposals == CO!IssueReferenceRule(run, es, events)
           issues == CO!Lock(explicit, proposals)
           branches == CO!Lock(issues, CO!BranchIssueReferenceRule(run, es, events))
           commits == CO!Lock(branches, CO!CommitIssueReferenceRule(run, es, events))
           locked == CO!Lock(commits, CO!TemporalInferenceRule(run, es, events))
<1>0. CO!Correlations(run, es, events) = locked BY DEF CO!Correlations
<1>1. Cardinality(owners) = 1 /\ o = CHOOSE c \in owners : TRUE BY SameCardinality DEF CO!Owning
<1>2. owners # {} BY <1>1, FS_EmptySet
<1>3. o \in owners BY <1>1, <1>2
<1>4. o \in CO!Range(es) /\ o.type = "change_request"
  BY <1>3 DEF CO!ChangeRequestsTitled, CO!OfType
<1>5. proposals = CO!Bind({o} \cup CO!IssuesNumbered(es, o.resolves), 10, "issue_reference")
                    \cup CO!Bind(CO!IssuesNumbered(es, o.mentions \ o.resolves), 1, "issue_reference")
  BY <1>1, SameCardinality DEF CO!IssueReferenceRule
<1>6. \A numbers : \A e \in CO!IssuesNumbered(es, numbers) : e.id # o.id
  BY <1>4, SameFields DEF CO!IssuesNumbered, CO!OfType
<1>7. \A p \in proposals : p.id = o.id => p.conf = 10 BY <1>5, <1>6 DEF CO!Bind
<1>8. \E p \in proposals : p.id = o.id BY <1>5 DEF CO!Bind
<1>9. \A p \in CO!ExplicitRunIdRule(run, es, events) : p.conf = 10 BY DEF CO!ExplicitRunIdRule
<1> HIDE DEF proposals, o
<1>10. \A id \in DOMAIN explicit : explicit[id].conf = 10
  <2>1. DOMAIN none = {} OBVIOUS
  <2> HIDE DEF none
  <2> QED BY <1>9, <2>1, LockKeeps
<1> HIDE DEF explicit
<1>11. o.id \in DOMAIN issues /\ issues[o.id].conf = 10
  BY <1>7, <1>8, <1>10, LockKeeps
<1> HIDE DEF issues
<1>12. o.id \in DOMAIN branches /\ branches[o.id].conf = 10 BY <1>11, LockKeeps
<1> HIDE DEF branches
<1>13. o.id \in DOMAIN commits /\ commits[o.id].conf = 10 BY <1>12, LockKeeps
<1> HIDE DEF commits
<1>14. o.id \in DOMAIN locked /\ locked[o.id].conf = 10 BY <1>13, LockKeeps
<1> QED BY <1>0, <1>14 DEF o

LEMMA OutcomeHasLinks ==
    ASSUME NEW run, NEW es, CO!IsWindow(es), NEW events
    PROVE  CO!OutcomeIsLinked(run, es, events)
<1> DEFINE r == CO!Resolve(run, es, events)
           locked == CO!Correlations(run, es, events)
           o == CO!Owning(run, es)
<1>1. /\ r.links = CO!EntityLinks(locked, CO!DedupeEntities(es, o), o)
      /\ r.outcome = CO!Outcome(run, es, locked)
      /\ r.unresolved = CO!UnresolvedEntries(run, es, locked)
  BY DEF CO!Resolve
<1>2. \A id \in DOMAIN locked : locked[id].conf >= CO!ResolvedRoleThreshold =>
         \E l \in r.links : l.id = id /\ l.role = "resolved"
  <2>1. DirectLinks(locked) \subseteq r.links BY <1>1, LinksOfListing
  <2> HIDE DEF locked, r
  <2>2. ASSUME NEW id \in DOMAIN locked, locked[id].conf >= CO!ResolvedRoleThreshold
        PROVE  \E l \in r.links : l.id = id /\ l.role = "resolved"
    <3> DEFINE l == CO!Link(id, CO!Role(locked[id].conf), locked[id].conf, "direct")
    <3>1. l \in r.links BY <2>1 DEF DirectLinks
    <3>2. l.id = id /\ l.role = "resolved" BY <2>2 DEF CO!Link, CO!Role
    <3> QED BY <3>1, <3>2
  <2> QED BY <2>2
<1>3. ASSUME r.outcome # None
      PROVE  /\ \A id \in {r.outcome.change_request} \cup r.outcome.resolved :
                   \E l \in r.links : l.id = id /\ l.role = "resolved"
             /\ r.unresolved = {}
  <2>1. o # None BY <1>1, <1>3 DEF CO!Outcome
  <2>2. o.id \in DOMAIN locked /\ locked[o.id].conf >= CO!ResolvedRoleThreshold
    BY <2>1, OwnerIsBound DEF CO!ResolvedRoleThreshold
  <2>3. /\ r.outcome.change_request = o.id
        /\ r.outcome.resolved = {e.id : e \in {x \in CO!OfType(es, "issue") : x.id \in DOMAIN locked
                                                /\ locked[x.id].conf >= CO!ResolvedRoleThreshold}}
    BY <1>1, <2>1 DEF CO!Outcome
  <2>4. r.unresolved = {}
    <3>1. Cardinality(CO!ChangeRequestsTitled(run, es)) = 1 BY <2>1, SameCardinality DEF CO!Owning
    <3>2. DOMAIN locked # {} BY <2>2
    <3> QED BY <1>1, <3>1, <3>2, SameCardinality, FS_EmptySet DEF CO!UnresolvedEntries
  <2> HIDE DEF r, o, locked
  <2> QED BY <1>2, <2>2, <2>3, <2>4
<1> QED BY <1>3 DEF CO!OutcomeIsLinked

-----------------------------------------------------------------------------
(* Change requests: the pages of the list.                                 *)

\* Every place is on exactly one page.
LEMMA PlaceHasPage ==
    ASSUME NEW limit \in Nat \ {0}, NEW place \in Nat
    PROVE  \E k \in 0..place : place \in k * limit .. k * limit + limit - 1
<1> DEFINE S == {m \in Nat : place < (m + 1) * limit}
<1>1. place \in S
  <2>1. (place + 1) * limit = place * limit + limit OBVIOUS
  <2>2. place * limit >= place OBVIOUS
  <2> QED BY <2>1, <2>2
<1>2. PICK k \in S : \A m \in S : k <= m
  <2>1. S \subseteq Nat OBVIOUS
  <2> HIDE DEF S
  <2> QED BY <1>1, <2>1, SmallestNumberIn
<1>3. k \in 0..place BY <1>1, <1>2
<1>4. (k + 1) * limit = k * limit + limit BY <1>3
<1>5. k * limit <= place
  <2>1. CASE k = 0 BY <2>1
  <2>2. CASE k # 0
    <3>1. k - 1 \in Nat /\ k - 1 \notin S BY <1>2, <1>3, <2>2
    <3>2. (k - 1) + 1 = k BY <1>3
    <3>3. ~ (place < ((k - 1) + 1) * limit) BY <3>1
    <3>4. k * limit \in Nat BY <1>3
    <3> QED BY <3>2, <3>3, <3>4
  <2> QED BY <2>1, <2>2
<1>6. place <= k * limit + limit - 1
  <2>1. place < (k + 1) * limit BY <1>2
  <2>2. k * limit \in Nat BY <1>3
  <2> QED BY <1>4, <2>1, <2>2
<1>7. k * limit \in Nat BY <1>3
<1> QED BY <1>3, <1>5, <1>6, <1>7

LEMMA PagesAreApart ==
    ASSUME NEW limit \in Nat \ {0}, NEW j \in Nat, NEW k \in Nat, j < k
    PROVE  j * limit + limit - 1 < k * limit
<1> DEFINE d == k - j - 1
<1>1. d \in Nat /\ k = (j + 1) + d OBVIOUS
<1>2. k * limit = (j + 1) * limit + d * limit
  <2> HIDE DEF d
  <2> QED BY <1>1
<1>3. (j + 1) * limit = j * limit + limit OBVIOUS
<1>4. d * limit \in Nat
  <2> HIDE DEF d
  <2> QED BY <1>1
<1>5. j * limit \in Nat OBVIOUS
<1> HIDE DEF d
<1> QED BY <1>2, <1>3, <1>4, <1>5

(* Rows in a strict total order have the places 0, 1, ..., and no two the  *)
(* same.                                                                   *)
LEMMA PlacesAreDistinct ==
    ASSUME NEW rows, IsFiniteSet(rows), NEW before,
           \A c \in rows : <<c, c>> \notin before,
           \A b, c, d \in rows : <<b, c>> \in before /\ <<c, d>> \in before => <<b, d>> \in before,
           \A c, d \in rows : c # d => <<c, d>> \in before \/ <<d, c>> \in before
    PROVE  LET place(c) == Cardinality({d \in rows : <<d, c>> \in before})
           IN  /\ \A c \in rows : place(c) \in 0 .. Cardinality(rows) - 1
               /\ \A c, d \in rows : place(c) = place(d) => c = d
<1> DEFINE ahead(c) == {d \in rows : <<d, c>> \in before}
<1>1. \A c \in rows : IsFiniteSet(ahead(c)) /\ Cardinality(ahead(c)) \in Nat
  <2>1. \A c \in rows : ahead(c) \subseteq rows OBVIOUS
  <2> HIDE DEF ahead
  <2> QED BY <2>1, FS_Subset, FS_CardinalityType
<1>2. ASSUME NEW T, IsFiniteSet(T), NEW x \in T, NEW S, S \subseteq T, x \notin S
      PROVE  Cardinality(S) < Cardinality(T)
  <2>1. S \subseteq T \ {x} BY <1>2
  <2>2. IsFiniteSet(T \ {x}) /\ Cardinality(T \ {x}) = Cardinality(T) - 1 BY <1>2, FS_RemoveElement
  <2>3. Cardinality(S) <= Cardinality(T \ {x}) BY <2>1, <2>2, FS_Subset
  <2>4. Cardinality(S) \in Nat /\ Cardinality(T) \in Nat
    BY <1>2, <2>1, <2>2, FS_Subset, FS_CardinalityType
  <2> QED BY <2>2, <2>3, <2>4
<1>3. ASSUME NEW c \in rows, NEW d \in rows, <<c, d>> \in before
      PROVE  Cardinality(ahead(c)) < Cardinality(ahead(d))
  <2>1. ahead(c) \subseteq ahead(d) /\ c \in ahead(d) /\ c \notin ahead(c) BY <1>3
  <2> HIDE DEF ahead
  <2> QED BY <1>1, <1>2, <2>1
<1>4. \A c, d \in rows : Cardinality(ahead(c)) = Cardinality(ahead(d)) => c = d
  <2> SUFFICES ASSUME NEW c \in rows, NEW d \in rows, c # d
               PROVE  Cardinality(ahead(c)) # Cardinality(ahead(d))
    OBVIOUS
  <2>1. <<c, d>> \in before \/ <<d, c>> \in before OBVIOUS
  <2> HIDE DEF ahead
  <2>2. Cardinality(ahead(c)) < Cardinality(ahead(d)) \/ Cardinality(ahead(d)) < Cardinality(ahead(c))
    BY <1>3, <2>1
  <2> QED BY <1>1, <2>2
<1>5. ASSUME NEW c \in rows PROVE Cardinality(ahead(c)) \in 0 .. Cardinality(rows) - 1
  <2>1. ahead(c) \subseteq rows /\ c \notin ahead(c) OBVIOUS
  <2> HIDE DEF ahead
  <2>2. Cardinality(ahead(c)) < Cardinality(rows) BY <1>2, <2>1
  <2>3. Cardinality(rows) \in Nat BY FS_CardinalityType
  <2> QED BY <1>1, <2>2, <2>3
<1> QED BY <1>4, <1>5

LEMMA Pages ==
    ASSUME NEW rows, IsFiniteSet(rows), NEW place,
           \A c \in rows : place[c] \in 0 .. Cardinality(rows) - 1,
           \A c, d \in rows : place[c] = place[d] => c = d,
           NEW limit \in Nat \ {0}
    PROVE  LET page(k) == {c \in rows : place[c] \in k * limit .. k * limit + limit - 1}
               n == Cardinality(rows)
           IN  /\ UNION {page(k) : k \in 0..n} = rows
               /\ \A k \in 0..n : Cardinality(page(k)) <= limit
               /\ \A j, k \in 0..n : j # k => page(j) \cap page(k) = {}
<1> DEFINE page(k) == {c \in rows : place[c] \in k * limit .. k * limit + limit - 1}
           n == Cardinality(rows)
<1>0. n \in Nat BY FS_CardinalityType
<1>1. \A c \in rows : \E k \in 0..n : c \in page(k)
  <2> SUFFICES ASSUME NEW c \in rows PROVE \E k \in 0..n : c \in page(k) OBVIOUS
  <2>1. place[c] \in Nat /\ place[c] <= n BY <1>0
  <2>2. PICK k \in 0..place[c] : place[c] \in k * limit .. k * limit + limit - 1
    BY <2>1, PlaceHasPage
  <2>3. k \in 0..n BY <1>0, <2>1
  <2> QED BY <2>2, <2>3
<1>2. UNION {page(k) : k \in 0..n} = rows
  <2>1. \A k \in 0..n : page(k) \subseteq rows OBVIOUS
  <2> HIDE DEF page, n
  <2> QED BY <1>1, <2>1
<1>3. ASSUME NEW k \in 0..n PROVE Cardinality(page(k)) <= limit
  <2> DEFINE lo == k * limit
             T == lo .. lo + limit - 1
             f == [c \in page(k) |-> place[c]]
  <2>1. lo \in Int BY <1>0
  <2>2. page(k) \subseteq rows /\ \A c \in page(k) : place[c] \in T OBVIOUS
  <2>3. f \in [page(k) -> T] /\ \A c, d \in page(k) : f[c] = f[d] => c = d BY <2>2
  <2> HIDE DEF lo, page
  <2>4. IsFiniteSet(T) /\ Cardinality(T) = limit
    <3>1. lo + limit - 1 \in Int /\ (lo + limit - 1) - lo + 1 = limit /\ lo <= lo + limit - 1 BY <2>1
    <3>2. Cardinality(T) = IF lo > lo + limit - 1 THEN 0 ELSE (lo + limit - 1) - lo + 1
      BY <2>1, <3>1, FS_Interval
    <3>3. IsFiniteSet(T) BY <2>1, <3>1, FS_Interval
    <3>4. ~ (lo > lo + limit - 1) BY <2>1
    <3> QED BY <3>1, <3>2, <3>3, <3>4
  <2> HIDE DEF T, f
  <2>5. f \in Injection(page(k), T) BY <2>3 DEF Injection, IsInjective
  <2> QED BY <2>4, <2>5, FS_Injection
<1>4. ASSUME NEW j \in 0..n, NEW k \in 0..n, j # k PROVE page(j) \cap page(k) = {}
  <2>1. j \in Nat /\ k \in Nat BY <1>0
  <2>2. ASSUME NEW a \in Nat, NEW b \in Nat, a < b PROVE page(a) \cap page(b) = {}
    <3>1. a * limit + limit - 1 < b * limit BY <2>2, PagesAreApart
    <3>2. a * limit \in Int /\ b * limit \in Int OBVIOUS
    <3>3. \A c \in rows : place[c] \in Int BY <1>0
    <3>4. \A x \in Int : ~ (x <= a * limit + limit - 1 /\ b * limit <= x) BY <3>1, <3>2
    <3> QED BY <3>2, <3>3, <3>4
  <2>3. j < k \/ k < j BY <1>4, <2>1
  <2> HIDE DEF page
  <2> QED BY <2>1, <2>2, <2>3
<1> HIDE DEF page, n
<1> QED BY <1>2, <1>3, <1>4 DEF page, n

(* Change requests: what the tables say.                                   *)

\* MAX ignores NULL.
LEMMA GreatestFacts ==
    ASSUME NEW S, IsFiniteSet(S), S \subseteq Int \cup {None}
    PROVE  /\ S \ {None} = {} => CR!Greatest(S) = None
           /\ S \ {None} # {} => /\ CR!Greatest(S) \in S \ {None}
                                 /\ \A x \in S \ {None} : x <= CR!Greatest(S)
<1> DEFINE T == S \ {None}
<1>1. IsFiniteSet(T) /\ T \subseteq Int BY FS_Subset
<1>2. CR!Greatest(S) = IF T = {} THEN None ELSE CR!Max(T) BY DEF CR!Greatest
<1>3. ASSUME T # {} PROVE CR!Max(T) \in T /\ \A x \in T : x <= CR!Max(T)
  <2> HIDE DEF T
  <2>1. PICK m \in T : \A y \in T : y <= m BY <1>1, <1>3, Extremes
  <2>2. \A y \in T : m >= y BY <1>1, <2>1
  <2>3. CR!Max(T) \in T /\ \A y \in T : CR!Max(T) >= y BY <2>2 DEF CR!Max
  <2> QED BY <1>1, <2>3
<1> QED BY <1>2, <1>3

LEMMA TablesAreFinite ==
    ASSUME NEW db, CR!AreTables(db)
    PROVE  /\ IsFiniteSet(db.events) /\ IsFiniteSet(db.runs) /\ IsFiniteSet(db.bindings)
           /\ IsFiniteSet(db.attached) /\ IsFiniteSet(db.sessions)
           /\ IsFiniteSet(CR!Identities(db))
<1>1. /\ IsFiniteSet(db.events) /\ IsFiniteSet(db.runs) /\ IsFiniteSet(db.bindings)
      /\ IsFiniteSet(db.attached) /\ IsFiniteSet(db.sessions)
  BY SameFiniteSets DEF CR!AreTables
<1> DEFINE events == [e \in db.events |-> e.cr]
           runs == [e \in db.runs |-> e.cr]
           bindings == [e \in db.bindings |-> e.cr]
<1>2. /\ IsFiniteSet({events[e] : e \in db.events}) /\ IsFiniteSet({runs[e] : e \in db.runs})
      /\ IsFiniteSet({bindings[e] : e \in db.bindings})
  <2> HIDE DEF events, runs, bindings
  <2> QED BY <1>1, FiniteImage
<1>3. CR!Identities(db) = ({events[e] : e \in db.events} \cup {runs[e] : e \in db.runs}
                            \cup {bindings[e] : e \in db.bindings}) \ {None}
  BY DEF CR!Identities
<1> HIDE DEF events, runs, bindings
<1> QED BY <1>1, <1>2, <1>3, FS_Union, FS_Subset

\* The order of the list is total.
LEMMA ListIsOrdered ==
    ASSUME NEW db, CR!AreTables(db), NEW rows, rows \subseteq CR!Identities(db)
    PROVE  /\ \A c \in rows : ~ CR!ListBefore(db, c, c)
           /\ \A b, c, d \in rows : CR!ListBefore(db, b, c) /\ CR!ListBefore(db, c, d) => CR!ListBefore(db, b, d)
           /\ \A c, d \in rows : c # d => CR!ListBefore(db, c, d) \/ CR!ListBefore(db, d, c)
<1> DEFINE at(c) == CR!ExecCounts(CR!BoundTo(db, c)).latest
<1>1. rows \subseteq Int BY DEF CR!AreTables
<1>2. \A c : at(c) \in Int \cup {None}
  <2> SUFFICES ASSUME NEW c PROVE at(c) \in Int \cup {None} OBVIOUS
  <2> DEFINE bound == CR!BoundTo(db, c)
             f == [b \in bound |-> b.at]
             times == {f[b] : b \in bound}
  <2>1. bound \subseteq db.bindings BY DEF CR!BoundTo
  <2>2. times \subseteq Int BY <2>1 DEF CR!AreTables
  <2>3. at(c) = CR!Greatest(times) BY DEF CR!ExecCounts
  <2> HIDE DEF bound, f
  <2>4. IsFiniteSet(bound) BY <2>1, FS_Subset, TablesAreFinite
  <2>5. IsFiniteSet(times) BY <2>4, FiniteImage
  <2> HIDE DEF times, at
  <2> QED BY <2>2, <2>3, <2>5, GreatestFacts
<1>3. \A c, d : CR!ListBefore(db, c, d) <=>
         \/ at(c) # None /\ (at(d) = None \/ at(c) > at(d))
         \/ at(c) = at(d) /\ c < d
  BY DEF CR!ListBefore
<1> HIDE DEF at
<1> QED BY <1>1, <1>2, <1>3

LEMMA ListPartition ==
    ASSUME NEW db, CR!AreTables(db)
    PROVE  CR!ListedHaveDetail(db)
<1> DEFINE rows == CR!Identities(db)
           before == {x \in rows \X rows : CR!ListBefore(db, x[1], x[2])}
           ahead(c) == {d \in rows : <<d, c>> \in before}
           place == [c \in rows |-> Cardinality(ahead(c))]
           n == Cardinality(rows)
<1>1. IsFiniteSet(rows) BY TablesAreFinite
<1>2. \A c, d \in rows : <<c, d>> \in before <=> CR!ListBefore(db, c, d) OBVIOUS
<1> HIDE DEF before, rows
<1>3. /\ \A c \in rows : place[c] \in 0 .. n - 1
      /\ \A c, d \in rows : place[c] = place[d] => c = d
  <2>1. /\ \A c \in rows : <<c, c>> \notin before
        /\ \A b, c, d \in rows : <<b, c>> \in before /\ <<c, d>> \in before => <<b, d>> \in before
        /\ \A c, d \in rows : c # d => <<c, d>> \in before \/ <<d, c>> \in before
    BY <1>2, ListIsOrdered DEF rows
  <2>2. /\ \A c \in rows : Cardinality(ahead(c)) \in 0 .. n - 1
        /\ \A c, d \in rows : Cardinality(ahead(c)) = Cardinality(ahead(d)) => c = d
    BY <1>1, <2>1, PlacesAreDistinct
  <2> HIDE DEF ahead
  <2> QED BY <2>2
<1>4. \A limit : \A offset : CR!ListPage(db, None, limit, offset)
                     = {c \in rows : place[c] \in offset .. offset + limit - 1}
  <2> SUFFICES ASSUME NEW limit, NEW offset
               PROVE  CR!ListPage(db, None, limit, offset)
                        = {c \in rows : place[c] \in offset .. offset + limit - 1}
    OBVIOUS
  <2> DEFINE placed(c) == CR!Cardinality({d \in rows : CR!ListBefore(db, d, c)})
  <2>1. CR!ListPage(db, None, limit, offset) = {c \in rows : placed(c) \in offset .. offset + limit - 1}
    BY DEF CR!ListPage, rows
  <2>2. \A c \in rows : ahead(c) = {d \in rows : CR!ListBefore(db, d, c)} BY <1>2
  <2>3. \A c \in rows : placed(c) = place[c]
    <3> HIDE DEF ahead
    <3> QED BY <2>2, SameCardinality
  <2> HIDE DEF placed, place
  <2> QED BY <2>1, <2>3
<1> HIDE DEF place, ahead
<1>5. \A c : c # None => (c \in rows <=> CR!Exists(db, c))
  BY DEF rows, CR!Identities, CR!Exists, CR!BoundTo
<1>6. ASSUME NEW limit \in 1 .. n + 1
      PROVE  /\ UNION {CR!ListPage(db, None, limit, k * limit) : k \in 0..n} = rows
             /\ \A k \in 0..n : CR!Cardinality(CR!ListPage(db, None, limit, k * limit)) <= limit
             /\ \A j, k \in 0..n : j # k =>
                   CR!ListPage(db, None, limit, j * limit) \cap CR!ListPage(db, None, limit, k * limit) = {}
  <2> DEFINE page(k) == {c \in rows : place[c] \in k * limit .. k * limit + limit - 1}
  <2>1. limit \in Nat \ {0} BY <1>1, FS_CardinalityType
  <2>2. /\ UNION {page(k) : k \in 0..n} = rows
        /\ \A k \in 0..n : Cardinality(page(k)) <= limit
        /\ \A j, k \in 0..n : j # k => page(j) \cap page(k) = {}
    BY <1>1, <1>3, <2>1, Pages
  <2>3. \A k : CR!ListPage(db, None, limit, k * limit) = page(k) BY <1>4
  <2> HIDE DEF page
  <2> QED BY <2>2, <2>3, SameCardinality
<1>7. CR!Cardinality(rows) = n BY SameCardinality
<1> QED BY <1>5, <1>6, <1>7 DEF CR!ListedHaveDetail, rows

-----------------------------------------------------------------------------
(* Change requests: state, times and summaries.                            *)

LEMMA EventTimes ==
    ASSUME NEW db, CR!AreTables(db), NEW es, es \subseteq db.events
    PROVE  LET times == {e.at : e \in es}
               g == CR!Greatest(times)
           IN  /\ es = {} => g = None
               /\ es # {} => g \in Nat /\ (\E e \in es : e.at = g) /\ \A e \in es : e.at <= g
<1> DEFINE f == [e \in es |-> e.at]
           times == {f[e] : e \in es}
           g == CR!Greatest(times)
<1>1. times = {e.at : e \in es} OBVIOUS
<1>2. times \subseteq Nat BY DEF CR!AreTables
<1>3. IsFiniteSet(times)
  <2>1. IsFiniteSet(es) BY TablesAreFinite, FS_Subset
  <2> HIDE DEF f
  <2> QED BY <2>1, FiniteImage
<1>a. times \subseteq Int \cup {None} BY <1>2
<1>4. times \ {None} = {} => g = None
  <2> HIDE DEF times
  <2> QED BY <1>a, <1>3, GreatestFacts
<1>5. times \ {None} # {} => g \in times \ {None} /\ \A x \in times \ {None} : x <= g
  <2> HIDE DEF times
  <2> QED BY <1>a, <1>3, GreatestFacts
<1>6. es = {} => g = None BY <1>4
<1>7. ASSUME es # {} PROVE g \in times /\ \A x \in times : x <= g
  <2>0. times # {} BY <1>7
  <2>1. \A x \in times : x # None BY <1>2, EpisodesAssumption
  <2> HIDE DEF times, g
  <2> QED BY <1>5, <2>0, <2>1
<1> HIDE DEF g
<1> QED BY <1>1, <1>2, <1>6, <1>7 DEF g

LEMMA StateIsLatest ==
    ASSUME NEW db, CR!AreTables(db)
    PROVE  CR!StateFollowsFacts(db)
<1> SUFFICES ASSUME NEW c \in CR!Identities(db)
             PROVE  LET fs == {e \in db.events : e.cr = c /\ e.type \in CR!OpenTypes \cup {"merged", "closed"}}
                        last == {e.type : e \in {f \in fs : \A g \in fs : g.at <= f.at}}
                    IN  /\ CR!ListSummary(db, c).state = IF fs = {} THEN None
                                          ELSE IF "merged" \in last THEN "merged"
                                          ELSE IF "closed" \in last THEN "closed" ELSE "open"
                        /\ CR!ListSummary(db, c).state = "merged"
                             => CR!FetchChangeRequestDetail(db, c).merge = "merged"
  BY DEF CR!StateFollowsFacts
<1> DEFINE fs == {e \in db.events : e.cr = c /\ e.type \in CR!OpenTypes \cup {"merged", "closed"}}
           latest == {f \in fs : \A g \in fs : g.at <= f.at}
           last == {e.type : e \in latest}
           of(types) == {f \in db.events : f.cr = c /\ f.type \in types}
           es == CR!EventState(db, c)
           M == es.merged
           D == es.closed
           O == es.opened
           state == CR!ProviderState(es)
<1>1. /\ M = CR!Greatest({e.at : e \in of({"merged"})}) /\ D = CR!Greatest({e.at : e \in of({"closed"})})
      /\ O = CR!Greatest({e.at : e \in of(CR!OpenTypes)})
  BY DEF CR!EventState
<1>2. CR!ListSummary(db, c).state = state BY DEF CR!ListSummary
<1>3. \A e \in db.events : e.at \in Nat BY DEF CR!AreTables
<1>4. fs = of({"merged"}) \cup of({"closed"}) \cup of(CR!OpenTypes) OBVIOUS
<1>5. /\ \A e \in of({"merged"}) : e.type = "merged"
      /\ \A e \in of({"closed"}) : e.type = "closed"
      /\ \A e \in of(CR!OpenTypes) : e.type \notin {"merged", "closed"}
  BY DEF CR!OpenTypes
<1>6. /\ of({"merged"}) = {} => M = None
      /\ of({"merged"}) # {} => M \in Nat /\ (\E e \in of({"merged"}) : e.at = M)
                                          /\ \A e \in of({"merged"}) : e.at <= M
  BY <1>1, EventTimes
<1>7. /\ of({"closed"}) = {} => D = None
      /\ of({"closed"}) # {} => D \in Nat /\ (\E e \in of({"closed"}) : e.at = D)
                                          /\ \A e \in of({"closed"}) : e.at <= D
  BY <1>1, EventTimes
<1>8. /\ of(CR!OpenTypes) = {} => O = None
      /\ of(CR!OpenTypes) # {} => O \in Nat /\ (\E e \in of(CR!OpenTypes) : e.at = O)
                                           /\ \A e \in of(CR!OpenTypes) : e.at <= O
  BY <1>1, EventTimes
<1>9. \A x \in Nat : x # None BY EpisodesAssumption
<1>10. \A e \in of({"merged"}) \cup of({"closed"}) \cup of(CR!OpenTypes) : e.at \in Nat BY <1>3
<1>11. state = IF M # None /\ (D = None \/ M >= D) /\ (O = None \/ M >= O) THEN "merged"
               ELSE IF D # None /\ (O = None \/ D >= O) THEN "closed"
               ELSE IF O # None THEN "open" ELSE None
  <2> DEFINE others == {CR!Coalesce(D, M), CR!Coalesce(O, M)}
  <2>0. {M, D, O} \subseteq Nat \cup {None} BY <1>6, <1>7, <1>8
  <2>1. ASSUME M # None PROVE M >= CR!Greatest(others) <=> (D = None \/ M >= D) /\ (O = None \/ M >= O)
    <3>1. M \in Nat BY <2>0, <2>1
    <3>2. others = {IF D = None THEN M ELSE D, IF O = None THEN M ELSE O} BY DEF CR!Coalesce
    <3>3. others \subseteq Nat /\ IsFiniteSet(others) /\ others # {}
      <4>1. others \subseteq Nat /\ others # {} BY <2>0, <3>1, <3>2
      <4>2. \A x, y : {x, y} = {x} \cup {y} /\ IsFiniteSet({x}) /\ IsFiniteSet({y})
        BY FS_Singleton
      <4>3. \A x, y : IsFiniteSet({x, y})
        <5> SUFFICES ASSUME NEW x, NEW y PROVE IsFiniteSet({x, y}) OBVIOUS
        <5>1. IsFiniteSet({x} \cup {y}) BY <4>2, FS_Union
        <5> QED BY <4>2, <5>1
      <4> QED BY <4>1, <4>3
    <3>4. None \notin others BY <1>9, <3>3
    <3>5. CR!Greatest(others) \in others /\ \A x \in others : x <= CR!Greatest(others)
      <4> HIDE DEF others
      <4>1. others \ {None} = others /\ others \subseteq Int \cup {None} BY <3>3, <3>4
      <4> QED BY <3>3, <4>1, GreatestFacts
    <3> DEFINE G == CR!Greatest(others)
    <3> HIDE DEF G, others
    <3>6. G \in others /\ \A x \in others : x <= G BY <3>5 DEF G
    <3> QED BY <2>0, <3>1, <3>2, <3>3, <3>6 DEF G
  <2>2. D # None => (D >= CR!Coalesce(O, D) <=> (O = None \/ D >= O))
    BY <2>0 DEF CR!Coalesce
  <2> HIDE DEF others, M, D, O
  <2>3. state = IF M # None /\ M >= CR!Greatest(others) THEN "merged"
                ELSE IF D # None /\ D >= CR!Coalesce(O, D) THEN "closed"
                ELSE IF O # None THEN "open" ELSE None
    BY Zenon DEF CR!ProviderState, M, D, O, others
  <2> QED BY <2>1, <2>2, <2>3
<1> DEFINE A1 == of({"merged"})
           A2 == of({"closed"})
           A3 == of(CR!OpenTypes)
<1>12. "merged" \in last <=> M # None /\ (D = None \/ M >= D) /\ (O = None \/ M >= O)
  <2>1. "merged" \in last <=> \E e \in A1 : \A g \in A1 \cup A2 \cup A3 : g.at <= e.at BY <1>4, <1>5
  <2> HIDE DEF A1, A2, A3, M, D, O, last
  <2> QED BY <1>6, <1>7, <1>8, <1>9, <1>10, <2>1 DEF A1, A2, A3
<1>13. "merged" \notin last =>
          ("closed" \in last <=> D # None /\ (O = None \/ D >= O))
  <2>1. "closed" \in last <=> \E e \in A2 : \A g \in A1 \cup A2 \cup A3 : g.at <= e.at BY <1>4, <1>5
  <2> HIDE DEF A1, A2, A3, M, D, O, last
  <2> QED BY <1>6, <1>7, <1>8, <1>9, <1>10, <1>12, <2>1 DEF A1, A2, A3
<1>14. fs = {} <=> M = None /\ D = None /\ O = None
  BY <1>4, <1>6, <1>7, <1>8, <1>9
<1>15. state = IF fs = {} THEN None
               ELSE IF "merged" \in last THEN "merged"
               ELSE IF "closed" \in last THEN "closed" ELSE "open"
  <2>1. fs = {} => last = {} OBVIOUS
  <2> HIDE DEF fs, last, M, D, O, state
  <2> QED BY <1>11, <1>12, <1>13, <1>14, <2>1
<1>16. ASSUME state = "merged" PROVE CR!FetchChangeRequestDetail(db, c).merge = "merged"
  <2>1. CR!Exists(db, c) BY DEF CR!Identities, CR!Exists, CR!BoundTo
  <2>2. CR!FetchChangeRequestDetail(db, c).merge = CR!MergeState(db, c)
    BY <2>1 DEF CR!FetchChangeRequestDetail
  <2>3. state = None \/ M # None
    <3> HIDE DEF M, D, O, state
    <3> QED BY <1>11, <1>16
  <2> HIDE DEF M, state
  <2>4. CR!MergeState(db, c) = IF state = None THEN None ELSE IF M # None THEN "merged" ELSE "not_merged"
    BY Zenon DEF CR!MergeState, M, state
  <2> QED BY <1>16, <2>2, <2>3, <2>4
<1> HIDE DEF fs, last, state
<1> QED BY <1>2, <1>15, <1>16 DEF fs, last, latest

LEMMA SummariesMatch == ASSUME NEW db PROVE CR!SummariesAgree(db)
<1> SUFFICES ASSUME NEW c \in CR!Identities(db),
                    CR!LinkedRuns(db, c) = CR!RunRefs(db, c), CR!MatchedJobs(db, c) = CR!BoundTo(db, c)
             PROVE  CR!ListSummary(db, c) = CR!FetchChangeRequestDetail(db, c).summary
  BY DEF CR!SummariesAgree
<1>1. CR!Exists(db, c) BY DEF CR!Identities, CR!Exists, CR!BoundTo
<1>2. CR!FetchChangeRequestDetail(db, c).summary = CR!DetailSummary(db, c)
  BY <1>1 DEF CR!FetchChangeRequestDetail
<1>3. CR!ListSummary(db, c) = CR!DetailSummary(db, c) BY Zenon DEF CR!ListSummary, CR!DetailSummary
<1> QED BY <1>2, <1>3

-----------------------------------------------------------------------------
(* Change requests: costs.                                                 *)

\* What sessions cost, None when no cost is known.
Known(S) == {s \in S : s.cost # None}
costs(S) == [s \in Known(S) |-> s.cost]
Cost(S) == IF Known(S) = {} THEN None ELSE SumFunctionOnSet(costs(S), Known(S))

\* The sessions of runs, and the rows of a detail with what they cost.
SessionsOf(db, runs) ==
    {s \in db.sessions : s.id \in {a.session : a \in {l \in db.attached : l.run \in runs}}}
RowCost(db, r) == Cost({s \in db.sessions : s.id = r.session})
KnownRows(db, c) == {r \in CR!SessionRows(db, c) : RowCost(db, r) # None}
rowCosts(db, c) == [r \in KnownRows(db, c) |-> RowCost(db, r)]

LEMMA CostOfOne ==
    ASSUME NEW s, s.cost \in Nat \cup {None}
    PROVE  Cost({s}) = s.cost
<1>1. CASE s.cost = None BY <1>1 DEF Cost, Known
<1>2. CASE s.cost # None
  <2>1. Known({s}) = {s} BY <1>2 DEF Known
  <2> DEFINE f == costs({s})
  <2>2. f[s] = s.cost BY <2>1 DEF costs
  <2> HIDE DEF f
  <2>3. IsFiniteSet({s}) /\ {s} \ {s} = {} BY FS_Singleton
  <2>4. \A x \in {s} : f[x] \in Int BY <1>2, <2>2
  <2>5. SumFunctionOnSet(f, {s}) = f[s] + SumFunctionOnSet(f, {s} \ {s}) BY <2>3, <2>4, SumTakesOut
  <2>6. SumFunctionOnSet(f, {s}) = s.cost + 0 BY <2>2, <2>3, <2>5, SumOfNothing
  <2> QED BY <1>2, <2>1, <2>6 DEF Cost, f
<1> QED BY <1>1, <1>2

LEMMA CostsAre ==
    ASSUME NEW db, NEW runs, NEW c
    PROVE  /\ CR!SessionCost(db, runs) = Cost(SessionsOf(db, runs))
           /\ CR!UsageCost(db, c) = IF KnownRows(db, c) = {} THEN None
                                   ELSE SumFunctionOnSet(rowCosts(db, c), KnownRows(db, c))
<1>1. \A S : Cost(S) = IF Known(S) = {} THEN None ELSE CR!SumFunction(costs(S))
  <2>1. \A S : DOMAIN costs(S) = Known(S) BY DEF costs
  <2> QED BY <2>1, SameSums DEF Cost
<1>2. \A S : Cost(S) = IF {s \in S : s.cost # None} = {} THEN None
                       ELSE CR!SumFunction([s \in {x \in S : x.cost # None} |-> s.cost])
  BY <1>1 DEF Known, costs
<1>3. CR!SessionCost(db, runs) = Cost(SessionsOf(db, runs))
  BY <1>2 DEF CR!SessionCost, CR!SumKnown, SessionsOf
<1>4. CR!UsageCost(db, c) = IF KnownRows(db, c) = {} THEN None ELSE CR!SumFunction(rowCosts(db, c))
  BY <1>2 DEF CR!UsageCost, CR!SumKnown, KnownRows, rowCosts, RowCost
<1>5. DOMAIN rowCosts(db, c) = KnownRows(db, c) BY DEF rowCosts
<1>6. CR!UsageCost(db, c) = IF KnownRows(db, c) = {} THEN None
                           ELSE SumFunctionOnSet(rowCosts(db, c), KnownRows(db, c))
  BY <1>4, <1>5, SameSums
<1> QED BY <1>3, <1>6

(* The SQL sums the sessions of the linked runs, the loop the rows it has  *)
(* made of them: a session is one row, however many runs share it.         *)
LEMMA SessionsArePaidOnce ==
    ASSUME NEW db, CR!AreTables(db), NEW c
    PROVE  CR!SessionCost(db, CR!LinkedRuns(db, c)) = CR!UsageCost(db, c)
<1> DEFINE linked == {l \in db.attached : l.run \in CR!LinkedRuns(db, c)}
           ids == {a.session : a \in linked}
           mine == {s \in db.sessions : s.id \in ids}
           row(r) == Cost({s \in db.sessions : s.id = r.session})
           rows == CR!SessionRows(db, c)
           K == {r \in rows : row(r) # None}
           f == [r \in K |-> row(r)]
           P == Known(mine)
           key == [s \in P |-> [key |-> <<s.id>>, session |-> s.id]]
           w == costs(mine)
           part(r) == {s \in P : key[s] = r}
<1>1. /\ CR!SessionCost(db, CR!LinkedRuns(db, c)) = Cost(mine)
      /\ CR!UsageCost(db, c) = IF K = {} THEN None ELSE SumFunctionOnSet(f, K)
  <2>1. mine = SessionsOf(db, CR!LinkedRuns(db, c)) BY DEF SessionsOf
  <2>2. K = KnownRows(db, c) BY DEF KnownRows, RowCost
  <2>3. f = rowCosts(db, c) BY <2>2 DEF rowCosts, RowCost
  <2> HIDE DEF mine, K, f
  <2> QED BY <2>1, <2>2, <2>3, CostsAre
<1>2. rows = {[key |-> IF a.session # None THEN <<a.session>> ELSE <<"external", a.name>>,
               session |-> a.session] : a \in linked}
  BY DEF CR!SessionRows
<1>3. /\ \A s \in db.sessions : s.id # None /\ s.cost \in Nat \cup {None}
      /\ \A s, t \in db.sessions : s.id = t.id => s = t
  BY DEF CR!AreTables
<1>4. P \subseteq db.sessions /\ IsFiniteSet(P) /\ \A s \in P : s.cost \in Nat /\ s.id \in ids
  <2>1. P \subseteq db.sessions /\ \A s \in P : s.cost # None /\ s.id \in ids BY DEF Known
  <2> HIDE DEF P
  <2> QED BY <1>3, <2>1, TablesAreFinite, FS_Subset
<1>5. \A r : {s \in db.sessions : s.id = r.session} = {} =>  row(r) = None
  BY DEF Cost, Known
<1>6. ASSUME NEW s \in db.sessions, NEW r, r.session = s.id PROVE row(r) = s.cost
  <2>1. {t \in db.sessions : t.id = r.session} = {s} BY <1>3, <1>6
  <2>2. row(r) = Cost({s}) BY <2>1
  <2> HIDE DEF row
  <2> QED BY <1>3, <2>2, CostOfOne
<1> HIDE DEF row, rows
<1>7. ASSUME NEW s \in P PROVE key[s] \in K /\ row(key[s]) = s.cost
  <2>1. PICK a \in linked : a.session = s.id BY <1>4
  <2>2. s.id # None /\ s \in db.sessions /\ s.cost # None BY <1>3, <1>4 DEF Known
  <2>3. key[s] = [key |-> <<a.session>>, session |-> a.session] BY <2>1
  <2>4. key[s] \in rows
    <3> HIDE DEF key, linked
    <3> QED BY <1>2, <2>1, <2>2, <2>3
  <2>5. key[s].session = s.id BY <2>1, <2>3
  <2> HIDE DEF key, P
  <2> QED BY <1>6, <2>2, <2>4, <2>5
<1>8. ASSUME NEW r \in K PROVE \E s \in P : part(r) = {s} /\ row(r) = s.cost
  <2>1. PICK a \in linked : r = [key |-> IF a.session # None THEN <<a.session>> ELSE <<"external", a.name>>,
                                 session |-> a.session]
    BY <1>2
  <2>2. r.session = a.session BY <2>1
  <2>3. PICK s \in db.sessions : s.id = a.session BY <1>5, <2>2
  <2>4. s.id # None /\ r = [key |-> <<s.id>>, session |-> s.id] BY <1>3, <2>1, <2>3
  <2>5. row(r) = s.cost /\ s.cost # None BY <1>6, <2>2, <2>3
  <2>6. s \in P BY <2>3, <2>5 DEF Known
  <2>7. key[s] = r BY <2>4, <2>6
  <2>8. \A t \in P : key[t] = r => t.id = s.id
    <3>1. \A t \in P : key[t].session = t.id OBVIOUS
    <3> HIDE DEF key
    <3> QED BY <2>2, <2>3, <3>1
  <2> HIDE DEF key
  <2>9. part(r) = {s} BY <1>3, <1>4, <2>6, <2>7, <2>8
  <2> QED BY <2>5, <2>6, <2>9
<1>9. K = {key[s] : s \in P}
  <2>1. ASSUME NEW r \in K PROVE \E s \in P : key[s] = r
    <3>1. PICK s \in P : part(r) = {s} BY <1>8
    <3> HIDE DEF key
    <3> QED BY <3>1
  <2> HIDE DEF key, K, P
  <2> QED BY <1>7, <2>1
<1>10. IsFiniteSet(K)
  <2> HIDE DEF K, key, P
  <2> QED BY <1>4, <1>9, FiniteImage
<1>11. \A s \in P : w[s] = s.cost BY DEF costs
<1> DEFINE h == [r \in K |-> SumFunctionOnSet(w, part(r))]
<1>12. \A r \in K : SumFunctionOnSet(w, part(r)) = row(r)
  <2> SUFFICES ASSUME NEW r \in K PROVE SumFunctionOnSet(w, part(r)) = row(r) OBVIOUS
  <2>1. PICK s \in P : part(r) = {s} /\ row(r) = s.cost BY <1>8
  <2>2. IsFiniteSet({s}) /\ {s} \ {s} = {} BY FS_Singleton
  <2> HIDE DEF w, P
  <2>3. \A x \in {s} : w[x] \in Int BY <1>4, <1>11
  <2>4. SumFunctionOnSet(w, {s}) = w[s] + SumFunctionOnSet(w, {s} \ {s}) BY <2>2, <2>3, SumTakesOut
  <2>5. SumFunctionOnSet(w, {s}) = s.cost + 0 BY <1>11, <2>2, <2>4, SumOfNothing
  <2> HIDE DEF part
  <2> QED BY <1>4, <2>1, <2>5
<1>13. h = f
  <2> HIDE DEF part, w, K
  <2> QED BY <1>12
<1>14. SumFunctionOnSet(h, K) = SumFunctionOnSet(w, P)
  <2>1. \A s \in P : w[s] \in Int /\ key[s] \in K
    <3> HIDE DEF w, key, K, P
    <3> QED BY <1>4, <1>7, <1>11
  <2> HIDE DEF w, key, K, P
  <2> QED BY <1>4, <1>10, <2>1, SumByKey
<1>15. P = {} <=> K = {}
  <2> HIDE DEF P, K, key
  <2> QED BY <1>9
<1>16. Cost(mine) = IF P = {} THEN None ELSE SumFunctionOnSet(w, P) BY DEF Cost
<1> HIDE DEF P, K, w, f, h
<1> QED BY <1>1, <1>13, <1>14, <1>15, <1>16

LEMMA PaidOnce ==
    ASSUME NEW db, CR!AreTables(db)
    PROVE  CR!CostsAgree(db)
<1> SUFFICES ASSUME NEW c \in CR!Identities(db)
             PROVE  LET detail == CR!FetchChangeRequestDetail(db, c)
                        rows == {a \in db.attached : a.run \in detail.runs}
                        names == {a.name : a \in rows}
                        plain == /\ \A a \in rows : {s.id : s \in CR!SessionsNamed(db, a.name)} = {a.session}
                                 /\ \A s \in db.sessions : s.cost # None
                    IN  /\ detail.summary.cost = detail.usage
                        /\ \A x \in detail.executions :
                             plain /\ names # {} /\ x.names = names => x.cost = detail.usage
  BY DEF CR!CostsAgree
<1> DEFINE detail == CR!FetchChangeRequestDetail(db, c)
           rows == {a \in db.attached : a.run \in detail.runs}
           names == {a.name : a \in rows}
           plain == /\ \A a \in rows : {s.id : s \in CR!SessionsNamed(db, a.name)} = {a.session}
                    /\ \A s \in db.sessions : s.cost # None
           ids == {a.session : a \in rows}
           mine == {s \in db.sessions : s.id \in ids}
<1>1. CR!Exists(db, c) BY DEF CR!Identities, CR!Exists, CR!BoundTo
<1>2. detail = [summary |-> CR!DetailSummary(db, c), runs |-> CR!LinkedRuns(db, c),
                sessions |-> CR!SessionRows(db, c),
                executions |-> {[job |-> b.job, names |-> IF b.several = None THEN {} ELSE CR!Range(b.several),
                                 cost |-> CR!ExecutionCost(db, b)] : b \in CR!MatchedJobs(db, c)},
                usage |-> CR!UsageCost(db, c), merge |-> CR!MergeState(db, c)]
  BY <1>1 DEF CR!FetchChangeRequestDetail
<1>3. /\ detail.summary.cost = CR!SessionCost(db, CR!LinkedRuns(db, c))
      /\ detail.usage = CR!UsageCost(db, c)
      /\ detail.runs = CR!LinkedRuns(db, c)
      /\ detail.executions = {[job |-> b.job, names |-> IF b.several = None THEN {} ELSE CR!Range(b.several),
                               cost |-> CR!ExecutionCost(db, b)] : b \in CR!MatchedJobs(db, c)}
  BY <1>2 DEF CR!DetailSummary
<1> HIDE DEF detail
<1>4. detail.summary.cost = detail.usage BY <1>3, SessionsArePaidOnce
<1>5. detail.usage = Cost(mine)
  <2>1. mine = SessionsOf(db, CR!LinkedRuns(db, c)) BY <1>3 DEF SessionsOf
  <2> HIDE DEF mine
  <2> QED BY <1>3, <1>4, <2>1, CostsAre
<1>6. ASSUME NEW x \in detail.executions, plain, names # {}, x.names = names
      PROVE  x.cost = detail.usage
  <2>1. PICK b \in CR!MatchedJobs(db, c) :
          x = [job |-> b.job, names |-> IF b.several = None THEN {} ELSE CR!Range(b.several),
               cost |-> CR!ExecutionCost(db, b)]
    BY <1>3, <1>6
  <2>2. b.several # None /\ CR!Range(b.several) = names /\ x.cost = CR!ExecutionCost(db, b) BY <1>6, <2>1
  <2> DEFINE named(n) == CR!SessionsNamed(db, n)
             paid == UNION {named(n) : n \in names}
  <2>3. /\ \A s \in db.sessions : s.cost # None
        /\ \A s, t \in db.sessions : s.id = t.id => s = t
    BY <1>6 DEF CR!AreTables
  <2>4. \A n \in names : named(n) \subseteq db.sessions BY DEF CR!SessionsNamed
  <2>5. \A a \in rows : {s.id : s \in named(a.name)} = {a.session} BY <1>6
  <2> HIDE DEF named, rows
  <2>6. \A a \in rows : \E s \in db.sessions : named(a.name) = {s} /\ s.id = a.session
    <3> SUFFICES ASSUME NEW a \in rows PROVE \E s \in db.sessions : named(a.name) = {s} /\ s.id = a.session
      OBVIOUS
    <3>1. named(a.name) \subseteq db.sessions BY <2>4
    <3>2. \A s \in named(a.name) : s.id = a.session BY <2>5
    <3>3. PICK s \in named(a.name) : s.id = a.session BY <2>5
    <3>4. named(a.name) = {s} BY <2>3, <3>1, <3>2, <3>3
    <3> QED BY <3>1, <3>3, <3>4
  <2>7. \A n \in names : Cardinality(named(n)) = 1
    <3>1. \A s : Cardinality({s}) = 1 BY FS_Singleton
    <3> QED BY <2>6, <3>1
  <2>8. paid = mine
    <3>1. ASSUME NEW s \in paid PROVE s \in mine
      <4>1. PICK a \in rows : s \in named(a.name) OBVIOUS
      <4> QED BY <2>6, <4>1
    <3>2. ASSUME NEW s \in mine PROVE s \in paid
      <4>1. s \in db.sessions /\ \E a \in rows : a.session = s.id OBVIOUS
      <4>2. PICK a \in rows : a.session = s.id BY <4>1
      <4>3. s \in named(a.name) BY <2>3, <2>6, <4>1, <4>2
      <4> QED BY <4>3
    <3> QED BY <3>1, <3>2
  <2>9. \A s \in paid : s.cost # None BY <2>3, <2>8
  <2> HIDE DEF paid, mine, names
  <2>10. \A n \in names : CR!Cardinality(named(n)) = 1 BY <2>7, SameCardinality
  <2>11. \A S : Cost(S) = IF {s \in S : s.cost # None} = {} THEN None
                          ELSE CR!SumFunction([s \in {y \in S : y.cost # None} |-> s.cost])
    <3>1. \A S : DOMAIN costs(S) = Known(S) BY DEF costs
    <3>2. \A S : Cost(S) = IF Known(S) = {} THEN None ELSE CR!SumFunction(costs(S))
      BY <3>1, SameSums DEF Cost
    <3> QED BY <3>2 DEF Known, costs
  <2>12. CR!ExecutionCost(db, b) = IF {s \in paid : s.cost # None} = {} THEN None
                                  ELSE CR!SumFunction([s \in {y \in paid : y.cost # None} |-> s.cost])
    BY <2>2, <2>9, <2>10 DEF CR!ExecutionCost, CR!SumKnown, paid, named
  <2> QED BY <1>5, <2>2, <2>8, <2>11, <2>12
<1> QED BY <1>4, <1>6 DEF detail

-----------------------------------------------------------------------------
(* Usage queries.                                                          *)

tokens(S) == [x \in S |-> x.tokens]

LEMMA TokensAreSummed == ASSUME NEW S PROVE UQ!Tokens(S) = SumFunctionOnSet(tokens(S), S)
BY SameSums DEF UQ!Tokens, tokens

\* The rows of one group, and one key for each group.
Keyed(S, key, v) == {x \in S : key[x] = v}
Keys(S, key) == {key[x] : x \in S}

(* Rows in groups: the tokens and the numbers of the groups add up to the  *)
(* tokens and the number of the rows, whatever the rows are grouped by.    *)
LEMMA GroupsAddUp ==
    ASSUME NEW S, IsFiniteSet(S), \A x \in S : x.tokens \in Int, NEW key
    PROVE  /\ UQ!SumFunction([v \in Keys(S, key) |-> UQ!Tokens(Keyed(S, key, v))]) = UQ!Tokens(S)
           /\ UQ!SumFunction([v \in Keys(S, key) |-> UQ!Cardinality(Keyed(S, key, v))]) = UQ!Cardinality(S)
<1> DEFINE K == Keys(S, key)
           t == [v \in K |-> UQ!Tokens(Keyed(S, key, v))]
           r == [v \in K |-> UQ!Cardinality(Keyed(S, key, v))]
           part(v) == {x \in S : key[x] = v}
           ones == [x \in S |-> 1]
           weights == tokens(S)
           byTokens == [v \in K |-> SumFunctionOnSet(weights, part(v))]
           byOnes == [v \in K |-> SumFunctionOnSet(ones, part(v))]
<1>0. \A v \in K : t[v] = UQ!Tokens(part(v)) /\ r[v] = UQ!Cardinality(part(v)) BY DEF Keyed
<1>1. IsFiniteSet(K)
  <2>1. IsFiniteSet({key[x] : x \in S}) BY FiniteImage
  <2> QED BY <2>1 DEF Keys
<1>2. \A x \in S : key[x] \in K BY DEF Keys
<1>3. (\A x \in S : weights[x] \in Int) /\ (\A x \in S : ones[x] \in Int) BY DEF tokens
<1>4. \A v \in K : IsFiniteSet(part(v)) /\ part(v) \subseteq S
  <2>1. \A v \in K : part(v) \subseteq S OBVIOUS
  <2> HIDE DEF part
  <2> QED BY <2>1, FS_Subset
<1>5. \A v \in K : t[v] = byTokens[v]
  <2> SUFFICES ASSUME NEW v \in K PROVE UQ!Tokens(part(v)) = SumFunctionOnSet(tokens(S), part(v))
    BY <1>0
  <2>1. \A x \in part(v) : tokens(S)[x] = tokens(part(v))[x] BY DEF tokens
  <2> HIDE DEF part
  <2>2. SumFunctionOnSet(tokens(S), part(v)) = SumFunctionOnSet(tokens(part(v)), part(v))
    BY <1>4, <2>1, SumAgrees
  <2> QED BY <2>2, TokensAreSummed
<1>6. \A v \in K : r[v] = byOnes[v]
  <2> SUFFICES ASSUME NEW v \in K PROVE UQ!Cardinality(part(v)) = SumFunctionOnSet(ones, part(v))
    BY <1>0
  <2>1. \A x \in part(v) : ones[x] = 1 OBVIOUS
  <2> HIDE DEF part, ones
  <2>2. SumFunctionOnSet(ones, part(v)) = 1 * Cardinality(part(v)) BY <1>4, <2>1, SumOfConstant
  <2>3. Cardinality(part(v)) \in Nat BY <1>4, FS_CardinalityType
  <2> QED BY <2>2, <2>3, SameCardinality
<1>7. SumFunctionOnSet(byTokens, K) = SumFunctionOnSet(weights, S)
  <2> HIDE DEF weights
  <2> QED BY <1>1, <1>2, <1>3, SumByKey
<1>8. SumFunctionOnSet(byOnes, K) = SumFunctionOnSet(ones, S)
  <2> HIDE DEF ones
  <2> QED BY <1>1, <1>2, <1>3, SumByKey
<1>9. SumFunctionOnSet(ones, S) = Cardinality(S)
  <2>1. \A x \in S : ones[x] = 1 OBVIOUS
  <2> HIDE DEF ones
  <2>2. SumFunctionOnSet(ones, S) = 1 * Cardinality(S) BY <2>1, SumOfConstant
  <2>3. Cardinality(S) \in Nat BY FS_CardinalityType
  <2> QED BY <2>2, <2>3
<1>10. t = byTokens
  <2> HIDE DEF byTokens
  <2> QED BY <1>5 DEF byTokens
<1>11. r = byOnes
  <2> HIDE DEF byOnes
  <2> QED BY <1>6 DEF byOnes
<1>12. DOMAIN byTokens = K /\ DOMAIN byOnes = K OBVIOUS
<1> HIDE DEF byTokens, byOnes, ones
<1>13. UQ!SumFunction(byTokens) = UQ!Tokens(S) BY <1>7, <1>12, SameSums, TokensAreSummed
<1>14. UQ!SumFunction(byOnes) = UQ!Cardinality(S) BY <1>8, <1>9, <1>12, SameCardinality, SameSums
<1> QED BY <1>10, <1>11, <1>13, <1>14

LEMMA GroupsPartition ==
    ASSUME NEW db, UQ!AreTables(db), NEW f
    PROVE  UQ!GroupsPartitionTheTotal(db, f)
<1> DEFINE rows == UQ!Selected(db, f)
           total == UQ!FetchTotal(db, f)
<1>1. IsFiniteSet(rows) /\ \A e \in rows : e.tokens \in Int
  <2>1. rows \subseteq db.events BY DEF UQ!Selected
  <2> HIDE DEF rows
  <2> QED BY <2>1, FS_Subset, SameFiniteSets DEF UQ!AreTables
<1> HIDE DEF rows
<1>2. ASSUME NEW parts
      PROVE  LET g == UQ!Grouped(db, f, parts)
             IN  /\ UQ!SumFunction([v \in DOMAIN g |-> g[v].tokens]) = UQ!Tokens(rows)
                 /\ UQ!SumFunction([v \in DOMAIN g |-> g[v].records]) = UQ!Cardinality(rows)
  <2> DEFINE g == UQ!Grouped(db, f, parts)
             key == [e \in rows |-> [p \in parts |-> UQ!Fragment(db, e, p)]]
  <2>1. g = [v \in {key[e] : e \in rows} |-> UQ!Row({e \in rows : key[e] = v})]
    BY DEF UQ!Grouped, rows
  <2>2. \A S : UQ!Row(S).tokens = UQ!Tokens(S) /\ UQ!Row(S).records = UQ!Cardinality(S) BY DEF UQ!Row
  <2> DEFINE part(v) == {x \in rows : key[x] = v}
             K == Keys(rows, key)
             t == [v \in DOMAIN g |-> g[v].tokens]
             r == [v \in DOMAIN g |-> g[v].records]
  <2>3. DOMAIN g = K /\ \A v \in K : g[v] = UQ!Row(part(v)) BY <2>1 DEF Keys
  <2>4. \A v : part(v) = Keyed(rows, key, v) BY DEF Keyed
  <2> HIDE DEF g, part, key
  <2>5. /\ t = [v \in K |-> UQ!Tokens(Keyed(rows, key, v))]
        /\ r = [v \in K |-> UQ!Cardinality(Keyed(rows, key, v))]
    <3> HIDE DEF K
    <3> QED BY <2>2, <2>3, <2>4
  <2>6. UQ!SumFunction(t) = UQ!Tokens(rows) /\ UQ!SumFunction(r) = UQ!Cardinality(rows)
    <3> HIDE DEF t, r
    <3> QED BY <1>1, <2>5, GroupsAddUp
  <2> QED BY <2>6 DEF g
<1>3. total # None => total.tokens = UQ!Tokens(rows) /\ total.records = UQ!Cardinality(rows)
  BY DEF UQ!FetchTotal, UQ!Row, rows
<1> HIDE DEF total
<1> QED BY <1>2, <1>3, Zenon DEF UQ!GroupsPartitionTheTotal, total

(* Rows of the rollup and events in step: the rows have the tokens of the  *)
(* events, if the events are all those that have the key of one of the     *)
(* rows.                                                                   *)
LEMMA RollupTokens ==
    ASSUME NEW db, UQ!AreTables(db), UQ!RollupIsSum(db),
           NEW R, R \subseteq db.rollup, NEW E, E \subseteq UQ!Attributed(db.events),
           \A r \in R, e \in UQ!Attributed(db.events) : UQ!RollupKey(e) = UQ!RollupKey(r) => e \in E,
           \A e \in E, r \in db.rollup : UQ!RollupKey(e) = UQ!RollupKey(r) => r \in R
    PROVE  /\ UQ!Tokens(R) = UQ!Tokens(E)
           /\ IsFiniteSet(R) /\ \A r \in R : r.tokens \in Int
<1> DEFINE known == UQ!Attributed(db.events)
           own(x) == {e \in known : UQ!RollupKey(e) = UQ!RollupKey(x)}
<1>1. /\ \A r, s \in db.rollup : UQ!RollupKey(r) = UQ!RollupKey(s) => r = s
      /\ \A r \in db.rollup : \E e \in known : UQ!RollupKey(e) = UQ!RollupKey(r)
      /\ \A e \in known : \E r \in db.rollup : UQ!RollupKey(e) = UQ!RollupKey(r)
      /\ \A r \in db.rollup : r.tokens = UQ!Tokens(own(r))
  <2>1. known = {e \in db.events : e.project # None} BY DEF UQ!Attributed
  <2> HIDE DEF known
  <2>2. /\ \A r, s \in db.rollup : UQ!RollupKey(r) = UQ!RollupKey(s) => r = s
        /\ {UQ!RollupKey(r) : r \in db.rollup} = {UQ!RollupKey(e) : e \in known}
        /\ \A r \in db.rollup : r.tokens = UQ!Tokens(own(r))
    BY <2>1, Zenon DEF UQ!RollupIsSum
  <2>3. /\ \A r \in db.rollup : UQ!RollupKey(r) \in {UQ!RollupKey(e) : e \in known}
        /\ \A e \in known : UQ!RollupKey(e) \in {UQ!RollupKey(r) : r \in db.rollup}
    BY <2>2
  <2> QED BY <2>2, <2>3, Zenon
<1>2. IsFiniteSet(known) /\ \A e \in known : e.tokens \in Int
  <2>1. known \subseteq db.events BY DEF UQ!Attributed
  <2> HIDE DEF known
  <2> QED BY <2>1, FS_Subset, SameFiniteSets DEF UQ!AreTables
<1> HIDE DEF known
<1>3. IsFiniteSet(E) /\ \A e \in E : e \in known /\ e.tokens \in Int
  BY <1>2, FS_Subset DEF known
<1> DEFINE key == [e \in E |-> CHOOSE x \in R : UQ!RollupKey(x) = UQ!RollupKey(e)]
<1>4. ASSUME NEW e \in E PROVE key[e] \in R /\ UQ!RollupKey(key[e]) = UQ!RollupKey(e)
  <2>1. PICK x \in db.rollup : UQ!RollupKey(e) = UQ!RollupKey(x) BY <1>1, <1>3
  <2>2. x \in R BY <2>1
  <2>3. key[e] = CHOOSE y \in R : UQ!RollupKey(y) = UQ!RollupKey(e) OBVIOUS
  <2> HIDE DEF key
  <2> QED BY <2>1, <2>2, <2>3
<1> HIDE DEF key
<1>5. ASSUME NEW x \in R
      PROVE  {e \in E : key[e] = x} = own(x) /\ \E e \in E : key[e] = x
  <2>1. \A e \in known : UQ!RollupKey(e) = UQ!RollupKey(x) => e \in E BY DEF known
  <2>2. \A e \in E : key[e] = x <=> UQ!RollupKey(e) = UQ!RollupKey(x) BY <1>1, <1>4
  <2>3. \E e \in known : UQ!RollupKey(e) = UQ!RollupKey(x) BY <1>1
  <2> QED BY <1>3, <2>1, <2>2, <2>3
<1>6. R = {key[e] : e \in E} BY <1>4, <1>5
<1>7. IsFiniteSet(R) BY <1>3, <1>6, FiniteImage
<1> DEFINE weights == tokens(E)
           part(x) == {e \in E : key[e] = x}
<1>8. \A e \in E : weights[e] \in Int BY <1>3 DEF tokens
<1>9. ASSUME NEW x \in R
      PROVE  x.tokens = SumFunctionOnSet(weights, part(x)) /\ x.tokens \in Int
  <2>1. x.tokens = UQ!Tokens(part(x)) BY <1>1, <1>5
  <2>2. \A e \in part(x) : weights[e] = tokens(part(x))[e] BY DEF tokens
  <2>3. part(x) \subseteq E OBVIOUS
  <2> HIDE DEF part, weights
  <2>4. IsFiniteSet(part(x)) /\ \A e \in part(x) : weights[e] \in Int BY <1>3, <1>8, <2>3, FS_Subset
  <2>5. SumFunctionOnSet(weights, part(x)) = SumFunctionOnSet(tokens(part(x)), part(x))
    BY <2>2, <2>4, SumAgrees
  <2>6. SumFunctionOnSet(weights, part(x)) \in Int BY <2>4, SumIsInt
  <2> QED BY <2>1, <2>5, <2>6, TokensAreSummed
<1> DEFINE h == [x \in R |-> SumFunctionOnSet(weights, part(x))]
<1>10. SumFunctionOnSet(h, R) = SumFunctionOnSet(weights, E)
  <2> HIDE DEF weights
  <2> QED BY <1>3, <1>4, <1>7, <1>8, SumByKey
<1>11. tokens(R) = h BY <1>9 DEF tokens
<1> HIDE DEF h
<1>12. UQ!Tokens(R) = UQ!Tokens(E) BY <1>10, <1>11, TokensAreSummed
<1> QED BY <1>7, <1>9, <1>12

(* The hybrid answer.  Client, project and day of an event decide whether  *)
(* the filter takes it and which names it may go by, so the rows the first *)
(* statement takes and the events are in step; so are, under a name that   *)
(* is certain, those that got it.                                          *)
LEMMA RollupSound ==
    ASSUME NEW q, UQ!IsQuestion(q)
    PROVE  UQ!RollupIsSound(q)
<1> DEFINE db == q.db
           later == q.later
           f == q.f
           rows == {r \in db.rollup : r.day \in f.lo..f.hi /\ f.client \in {None, r.client}}
           events == UQ!Attributed(UQ!Selected(db, f))
           value(r) == <<r.client, q.sumPick[r]>>
           mine(g) == {r \in rows : value(r) = g}
           sums == UQ!SumsByGroup(db, f, q.sumPick)
           counts == UQ!CountsByGroup(later, f, q.countPick)
           answer == UQ!FetchRollup(db, later, f, q.sumPick, q.countPick)
<1> SUFFICES ASSUME UQ!UsesRollup(f, {"client", "project"}), UQ!RollupIsSum(db)
             PROVE  /\ UQ!SumFunction([g \in DOMAIN answer |-> answer[g].tokens]) = UQ!Tokens(events)
                    /\ \A g \in DOMAIN answer :
                         UQ!IsCertain(db, f, g) /\ UQ!IsCertain(later, f, g)
                         => answer[g] = [UQ!Row(UQ!Own(later, f, g)) EXCEPT !.tokens = UQ!Tokens(UQ!Own(db, f, g))]
  BY DEF UQ!RollupIsSound
<1>0. /\ UQ!AreTables(db) /\ UQ!AreTables(later)
      /\ \A r \in db.rollup : q.sumPick[r] \in UQ!LabelsOf(db, r)
      /\ \A e \in UQ!Attributed(later.events) : q.countPick[e] \in UQ!LabelsOf(later, e)
  BY DEF UQ!IsQuestion, UQ!Picks
<1>1. \A d, e : e \in UQ!Attributed(UQ!Selected(d, f)) <=>
              e \in UQ!Attributed(d.events) /\ e.day \in f.lo..f.hi /\ f.client \in {None, e.client}
  BY DEF UQ!Selected, UQ!UsesRollup, UQ!Attributed
<1>2. \A x, y : UQ!RollupKey(x) = UQ!RollupKey(y) =>
              x.client = y.client /\ x.day = y.day /\ UQ!LabelsOf(db, x) = UQ!LabelsOf(db, y)
  BY DEF UQ!RollupKey, UQ!LabelsOf
<1>3. sums = [g \in {value(r) : r \in rows} |-> UQ!Tokens(mine(g))] BY DEF UQ!SumsByGroup
<1>4. answer = [g \in DOMAIN sums |->
                  [(IF g \in DOMAIN counts THEN counts[g] ELSE UQ!Row({})) EXCEPT !.tokens = sums[g]]]
  BY DEF UQ!FetchRollup
<1> DEFINE taken(g) == {e \in UQ!Attributed(UQ!Selected(later, f)) : <<e.client, q.countPick[e]>> = g}
<1>5. counts = [g \in {<<e.client, q.countPick[e]>> : e \in UQ!Attributed(UQ!Selected(later, f))} |->
                  UQ!Row(taken(g))]
  BY DEF UQ!CountsByGroup
<1>6. ASSUME NEW g PROVE (IF g \in DOMAIN counts THEN counts[g] ELSE UQ!Row({})) = UQ!Row(taken(g))
  <2> HIDE DEF counts
  <2>1. CASE g \in DOMAIN counts BY <1>5, <2>1
  <2>2. CASE g \notin DOMAIN counts
    <3>1. taken(g) = {} BY <1>5, <2>2
    <3> QED BY <2>2, <3>1
  <2> QED BY <2>1, <2>2
<1> HIDE DEF sums, counts, answer
<1>7. /\ DOMAIN answer = {value(r) : r \in rows}
      /\ \A g \in DOMAIN answer : answer[g] = [UQ!Row(taken(g)) EXCEPT !.tokens = UQ!Tokens(mine(g))]
  <2> HIDE DEF rows, value, mine, taken
  <2> QED BY <1>3, <1>4, <1>6
<1> HIDE DEF taken
<1>8. \A g \in DOMAIN answer : answer[g].tokens = UQ!Tokens(mine(g)) BY <1>7 DEF UQ!Row
<1>9. UQ!SumFunction([g \in DOMAIN answer |-> answer[g].tokens]) = UQ!Tokens(events)
  <2>1. /\ rows \subseteq db.rollup /\ events \subseteq UQ!Attributed(db.events)
        /\ \A r \in rows, e \in UQ!Attributed(db.events) :
             UQ!RollupKey(e) = UQ!RollupKey(r) => e \in events
        /\ \A e \in events, r \in db.rollup : UQ!RollupKey(e) = UQ!RollupKey(r) => r \in rows
    BY <1>1, <1>2
  <2> HIDE DEF rows, events
  <2>2. UQ!Tokens(rows) = UQ!Tokens(events) /\ IsFiniteSet(rows) /\ \A r \in rows : r.tokens \in Int
    BY <1>0, <2>1, RollupTokens
  <2> DEFINE key == [r \in rows |-> value(r)]
             byKey == [v \in Keys(rows, key) |-> UQ!Tokens(Keyed(rows, key, v))]
  <2>3. UQ!SumFunction(byKey) = UQ!Tokens(rows)
    <3> HIDE DEF key
    <3> QED BY <2>2, GroupsAddUp
  <2>4. DOMAIN answer = Keys(rows, key) BY <1>7 DEF Keys
  <2>5. \A g : mine(g) = Keyed(rows, key, g) BY DEF Keyed
  <2> HIDE DEF key, mine
  <2>6. [g \in DOMAIN answer |-> answer[g].tokens] = byKey BY <1>8, <2>4, <2>5
  <2> QED BY <2>2, <2>3, <2>6
<1>10. ASSUME NEW g \in DOMAIN answer, UQ!IsCertain(db, f, g), UQ!IsCertain(later, f, g)
       PROVE  answer[g] = [UQ!Row(UQ!Own(later, f, g)) EXCEPT !.tokens = UQ!Tokens(UQ!Own(db, f, g))]
  <2>1. g = <<g[1], g[2]>>
    <3>1. PICK r \in rows : g = value(r) BY <1>7
    <3>2. g = <<r.client, q.sumPick[r]>> BY <3>1
    <3> QED BY <3>2
  <2>2. \A d, e : e \in UQ!Own(d, f, g) <=> /\ e \in UQ!Attributed(UQ!Selected(d, f))
                                         /\ e.client = g[1] /\ g[2] \in UQ!LabelsOf(d, e)
    BY DEF UQ!Own
  <2>3. /\ \A e \in UQ!Own(db, f, g) : UQ!LabelsOf(db, e) = {g[2]}
        /\ \A e \in UQ!Own(later, f, g) : UQ!LabelsOf(later, e) = {g[2]}
    BY <1>10 DEF UQ!IsCertain
  <2>4. taken(g) = UQ!Own(later, f, g)
    <3>1. \A e \in UQ!Attributed(UQ!Selected(later, f)) : q.countPick[e] \in UQ!LabelsOf(later, e) BY <1>0, <1>1
    <3>2. ASSUME NEW e \in taken(g) PROVE e \in UQ!Own(later, f, g)
      <4>1. e \in UQ!Attributed(UQ!Selected(later, f)) /\ e.client = g[1] /\ q.countPick[e] = g[2] BY DEF taken
      <4> QED BY <2>2, <3>1, <4>1
    <3>3. ASSUME NEW e \in UQ!Own(later, f, g) PROVE e \in taken(g)
      <4>1. e \in UQ!Attributed(UQ!Selected(later, f)) /\ e.client = g[1] BY <2>2
      <4>2. q.countPick[e] = g[2] BY <2>3, <3>1, <4>1
      <4> QED BY <2>1, <4>1, <4>2 DEF taken
    <3> QED BY <3>2, <3>3
  <2>5. /\ mine(g) \subseteq db.rollup /\ UQ!Own(db, f, g) \subseteq UQ!Attributed(db.events)
        /\ \A r \in mine(g), e \in UQ!Attributed(db.events) :
             UQ!RollupKey(e) = UQ!RollupKey(r) => e \in UQ!Own(db, f, g)
        /\ \A e \in UQ!Own(db, f, g), r \in db.rollup :
             UQ!RollupKey(e) = UQ!RollupKey(r) => r \in mine(g)
    <3>1. mine(g) \subseteq db.rollup /\ UQ!Own(db, f, g) \subseteq UQ!Attributed(db.events) BY <1>1, <2>2
    <3>2. ASSUME NEW r \in mine(g), NEW e \in UQ!Attributed(db.events), UQ!RollupKey(e) = UQ!RollupKey(r)
          PROVE  e \in UQ!Own(db, f, g)
      <4>1. r \in db.rollup /\ r.day \in f.lo..f.hi /\ f.client \in {None, r.client} OBVIOUS
      <4>2. r.client = g[1] /\ q.sumPick[r] = g[2] BY <2>1
      <4> QED BY <1>0, <1>1, <1>2, <2>2, <3>2, <4>1, <4>2
    <3>3. ASSUME NEW e \in UQ!Own(db, f, g), NEW r \in db.rollup, UQ!RollupKey(e) = UQ!RollupKey(r)
          PROVE  r \in mine(g)
      <4>1. r \in rows /\ r.client = g[1] BY <1>1, <1>2, <2>2, <3>3
      <4>2. q.sumPick[r] = g[2] BY <1>0, <1>2, <2>3, <3>3
      <4> QED BY <2>1, <4>1, <4>2
    <3> QED BY <3>1, <3>2, <3>3
  <2> HIDE DEF mine
  <2>6. UQ!Tokens(mine(g)) = UQ!Tokens(UQ!Own(db, f, g)) BY <1>0, <2>5, RollupTokens
  <2> QED BY <1>7, <2>4, <2>6
<1> QED BY <1>9, <1>10

-----------------------------------------------------------------------------
(* Agent runs.                                                             *)

LEMMA SameStatus ==
    ASSUME NEW last \in Int \cup {None}, NEW messages, NEW parent, NEW now \in Int,
           NEW t, {t.quiet, t.stale, t.unknown} \subseteq Int
    PROVE  AR!StatusesAgree(last, messages, parent, now, t)
<1>1. CASE messages = 0 \/ last = None
  BY <1>1 DEF AR!StatusesAgree, AR!ComputeStatus, AR!StatusCase
<1>2. CASE ~ (messages = 0 \/ last = None)
  <2>1. last \in Int BY <1>2
  <2>2. /\ now - last < t.quiet <=> last > now - t.quiet
        /\ now - last < t.stale <=> last > now - t.stale
        /\ now - last < t.unknown <=> last > now - t.unknown
    BY <2>1
  <2>3. AR!ComputeStatus(last, messages, parent # None, now, t)
          = IF last > now - t.quiet THEN "running"
            ELSE IF last > now - t.stale THEN IF parent # None THEN "blocked" ELSE "completed"
            ELSE IF last > now - t.unknown THEN "stale" ELSE "unknown"
    BY <1>2, <2>2, Zenon DEF AR!ComputeStatus
  <2>4. AR!StatusCase(last, messages, parent, now, t)
          = IF last > now - t.quiet THEN "running"
            ELSE IF last > now - t.stale /\ parent = None THEN "completed"
            ELSE IF last > now - t.stale THEN "blocked"
            ELSE IF last > now - t.unknown THEN "stale" ELSE "unknown"
    BY <1>2 DEF AR!StatusCase
  <2> QED BY <2>3, <2>4, Zenon DEF AR!StatusesAgree
<1> QED BY <1>1, <1>2

\* The provider ranked first is the one that is sorted first.
LEMMA SameProvider ==
    ASSUME NEW db, IsFiniteSet(db.events), \A e \in db.events : e.provider \in Nat \cup {None}, NEW s
    PROVE  AR!RankedProvider(db, s) = AR!TopProvider(db, s)
<1> DEFINE named == {e \in AR!EventsOf(db, s) : e.provider \notin {None, 0}}
           count(p) == AR!Cardinality({e \in named : e.provider = p})
           before(p, q) == count(p) > count(q) \/ (count(p) = count(q) /\ p < q)
           providers == {e.provider : e \in named}
           ahead(p) == {q \in providers : before(q, p)}
           rank(p) == 1 + AR!Cardinality(ahead(p))
           first == {p \in providers : rank(p) = 1}
           top(p) == \A q \in providers : count(p) > count(q) \/ (count(p) = count(q) /\ p <= q)
<1>1. AR!RankedProvider(db, s) = IF first = {} THEN None ELSE CHOOSE p \in first : TRUE
  BY DEF AR!RankedProvider
<1>2. AR!TopProvider(db, s) = IF providers = {} THEN None ELSE CHOOSE p \in providers : top(p)
  BY DEF AR!TopProvider
<1>3. IsFiniteSet(named) /\ providers \subseteq Nat
  <2>1. named \subseteq db.events BY DEF AR!EventsOf
  <2>2. \A e \in named : e.provider \in Nat BY <2>1
  <2> HIDE DEF named
  <2>3. providers \subseteq Nat BY <2>2
  <2> QED BY <2>1, <2>3, FS_Subset
<1>4. IsFiniteSet(providers)
  <2> DEFINE f == [e \in named |-> e.provider]
  <2> HIDE DEF named
  <2>1. f \in Surjection(named, providers) BY DEF Surjection
  <2> QED BY <1>3, <2>1, FS_Surjection
<1> DEFINE bound == Cardinality(named)
<1>5. bound \in Nat /\ \A p : count(p) \in Nat /\ count(p) <= bound
  <2> HIDE DEF named
  <2>1. \A p : {e \in named : e.provider = p} \subseteq named OBVIOUS
  <2> QED BY <1>3, <2>1, FS_Subset, FS_CardinalityType, SameCardinality
<1> HIDE DEF count, providers, bound
<1>6. \A p \in providers : rank(p) = 1 <=> ahead(p) = {}
  <2> SUFFICES ASSUME NEW p \in providers PROVE rank(p) = 1 <=> ahead(p) = {} OBVIOUS
  <2>1. ahead(p) \subseteq providers OBVIOUS
  <2> HIDE DEF ahead
  <2>2. IsFiniteSet(ahead(p)) BY <1>4, <2>1, FS_Subset
  <2>3. Cardinality(ahead(p)) \in Nat /\ (Cardinality(ahead(p)) = 0 <=> ahead(p) = {})
    BY <2>2, FS_CardinalityType, FS_EmptySet
  <2> QED BY <2>3, SameCardinality
<1> HIDE DEF rank
<1>7. \A p \in providers : ahead(p) = {} <=> top(p)
  <2> SUFFICES ASSUME NEW p \in providers PROVE ahead(p) = {} <=> top(p) OBVIOUS
  <2>1. \A q \in providers : count(p) \in Nat /\ count(q) \in Nat /\ p \in Nat /\ q \in Nat BY <1>3, <1>5
  <2>2. \A q \in providers : before(q, p) <=> ~(count(p) > count(q) \/ (count(p) = count(q) /\ p <= q))
    <3> TAKE q \in providers
    <3>1. count(p) \in Nat /\ count(q) \in Nat /\ p \in Nat /\ q \in Nat BY <2>1
    <3> QED BY <3>1
  <2>3. ahead(p) = {} <=> \A q \in providers : ~before(q, p)
    <3> HIDE DEF before
    <3> QED OBVIOUS
  <2> HIDE DEF before, ahead
  <2> QED BY <2>2, <2>3
<1>8. \A p, q \in providers : top(p) /\ top(q) => p = q
  <2> TAKE p, q \in providers
  <2>1. count(p) \in Nat /\ count(q) \in Nat /\ p \in Nat /\ q \in Nat BY <1>3, <1>5
  <2> QED BY <2>1
<1>9. ASSUME providers # {} PROVE \E p \in providers : top(p)
  <2> DEFINE counts == {count(p) : p \in providers}
  <2>1. counts \subseteq Nat /\ counts # {} /\ \A n \in counts : n <= bound BY <1>5, <1>9
  <2>2. PICK m \in counts : \A n \in counts : n <= m
    <3> HIDE DEF counts
    <3> QED BY <1>5, <2>1, LargestNumberIn
  <2> DEFINE best == {p \in providers : count(p) = m}
  <2>3. best \subseteq Nat /\ best # {} BY <1>3
  <2>4. PICK p \in best : \A q \in best : p <= q
    <3> HIDE DEF best
    <3> QED BY <2>3, SmallestNumberIn
  <2>5. \A q \in providers : count(q) <= m BY <2>2
  <2>6. \A q \in providers : count(q) < m \/ q \in best BY <1>5, <2>1, <2>5
  <2>7. p \in providers /\ count(p) = m OBVIOUS
  <2>8. top(p) BY <2>4, <2>6, <2>7
  <2> QED BY <2>7, <2>8
<1> HIDE DEF ahead, top
<1>10. first = {p \in providers : top(p)} BY <1>6, <1>7
<1> HIDE DEF first
<1>11. CASE providers = {} BY <1>1, <1>2, <1>10, <1>11
<1>12. CASE providers # {}
  <2>1. PICK p \in providers : top(p) BY <1>9, <1>12
  <2>2. first = {p} BY <1>8, <1>10, <2>1
  <2>3. (CHOOSE q \in first : TRUE) = p BY <2>2
  <2>4. (CHOOSE q \in providers : top(q)) = p BY <1>8, <2>1
  <2> QED BY <1>1, <1>2, <1>12, <2>2, <2>3, <2>4
<1> QED BY <1>11, <1>12

LEMMA RowMatchesDetail ==
    ASSUME NEW db, NEW now, NEW t, AR!AreRuns(db, now, t)
    PROVE  AR!ViewsAgree(db, now, t)
<1>1. \A c \in db.sessions :
         /\ AR!StatusesAgree(c.last, c.messages, c.parent, now, t)
         /\ AR!ComputeStatus(c.last, c.messages, c.parent # None, now, t)
              = AR!StatusCase(c.last, c.messages, c.parent, now, t)
  BY SameStatus DEF AR!AreRuns, AR!StatusesAgree
<1>2. ASSUME NEW s \in db.sessions
      PROVE  /\ AR!AgentRunSummary(db, s, now, t) = AR!AgentRunDetail(db, s, now, t)
             /\ \A c \in db.sessions : c.parent = s.name =>
                  [id |-> c.id, status |-> AR!AgentRunSummary(db, c, now, t).status]
                    \in AR!ChildSummaries(db, s, now, t)
  <2> DEFINE children == {x \in db.sessions : x.parent = s.name}
             status(c) == AR!ComputeStatus(c.last, c.messages, TRUE, now, t)
             row(c) == [id |-> c.id, status |-> status(c)]
             shown == AR!ChildSummaries(db, s, now, t)
  <2>1. shown = {row(c) : c \in children} BY DEF AR!ChildSummaries
  <2>2. IsFiniteSet(children) /\ \A c, d \in children : c.id = d.id => c = d
    <3>1. children \subseteq db.sessions OBVIOUS
    <3> HIDE DEF children
    <3>2. IsFiniteSet(db.sessions) BY DEF AR!AreRuns, AR!IsFiniteSet, IsFiniteSet
    <3> QED BY <3>1, <3>2, FS_Subset DEF AR!AreRuns
  <2> HIDE DEF shown
  <2>3. Cardinality(shown) = Cardinality(children)
    <3> DEFINE f == [c \in children |-> row(c)]
    <3> HIDE DEF children, status
    <3>1. f \in Surjection(children, shown) BY <2>1 DEF Surjection
    <3>2. f \in Injection(children, shown)
      <4>1. \A c \in children : f[c].id = c.id OBVIOUS
      <4>2. f \in [children -> shown] BY <3>1 DEF Surjection
      <4> HIDE DEF f
      <4>3. \A c, d \in children : f[c] = f[d] => c = d BY <2>2, <4>1
      <4> QED BY <4>2, <4>3 DEF Injection, IsInjective
    <3> QED BY <2>2, <3>1, <3>2, FS_Surjection
  <2>4. AR!ChildCount(db, s) = AR!Cardinality(shown) BY <2>3, SameCardinality DEF AR!ChildCount
  <2>5. AR!RankedProvider(db, s) = AR!TopProvider(db, s)
    BY SameProvider DEF AR!AreRuns, AR!IsFiniteSet, IsFiniteSet
  <2>6. AR!AgentRunSummary(db, s, now, t) = AR!AgentRunDetail(db, s, now, t)
    BY <1>1, <2>4, <2>5, Zenon DEF AR!AgentRunSummary, AR!AgentRunDetail, shown
  <2>7. ASSUME NEW c \in db.sessions, c.parent = s.name
        PROVE  [id |-> c.id, status |-> AR!AgentRunSummary(db, c, now, t).status] \in shown
    <3>1. (c.parent # None) = TRUE BY <2>7 DEF AR!AreRuns
    <3>2. status(c) = AR!StatusCase(c.last, c.messages, c.parent, now, t) BY <1>1, <3>1
    <3>3. AR!AgentRunSummary(db, c, now, t).status = AR!StatusCase(c.last, c.messages, c.parent, now, t)
      BY DEF AR!AgentRunSummary
    <3> HIDE DEF status
    <3> QED BY <2>1, <2>7, <3>2, <3>3
  <2> QED BY <2>6, <2>7 DEF shown
<1> QED BY <1>1, <1>2 DEF AR!ViewsAgree, AR!ListMatchesDetail

-----------------------------------------------------------------------------
(* The properties of the algorithms.                                       *)

(* A message that passes validation has a canonical event: no action that  *)
(* the allowlist admits is dead-lettered as unmappable, whatever the rest  *)
(* of the message says (validate_normalized_event and                      *)
(* map_normalized_event keep separate vocabularies).                       *)
THEOREM EveryValidMessageMaps == AlgorithmsSpec => []ValidatedAlwaysMaps
<1>1. ValidatedAlwaysMaps BY ValidMessagesMap, Zenon DEF ValidatedAlwaysMaps
<1> QED BY <1>1, PTL

(* Every spelling of a repository with http or https and no port or the    *)
(* scheme's own is one fact, for any message (normalize_repository_url).   *)
THEOREM SpellingsAreOneFact == AlgorithmsSpec => []SpellingsConverge
<1>1. AlgorithmsInit => SpellingsConverge
  <2> SUFFICES ASSUME AlgorithmsInit, input.of = "message" PROVE SpellingsConverge
    BY DEF SpellingsConverge
  <2>1. PICK m \in Messages : input = [of |-> "message", message |-> m] BY InputIsNamed
  <2>2. input.message = m /\ NE!IsMessage(m) BY <2>1, AlgorithmsAssumption
  <2> DEFINE Plain(x) == [m.repository_url EXCEPT !.scheme = x, !.port = 0]
             Explicit(x) == [Plain(x) EXCEPT !.port = NE!DefaultPort(x)]
             Identity(url) == NE!map_normalized_event([m EXCEPT !.repository_url = url])
             repo == IF m.repository_url.host = "" \/ m.repository_url.path = "" THEN NE!NoIdentity
                     ELSE <<m.repository_url.host, 0, m.repository_url.path>>
  <2>3. ASSUME NEW s \in {"http", "https"}, NEW t \in {"http", "https"}
        PROVE  Identity(Plain(s)) = Identity(Plain(t)) /\ Identity(Explicit(s)) = Identity(Plain(t))
    <3>1. /\ NE!normalize_repository_url(Plain(s)) = repo /\ NE!normalize_repository_url(Explicit(s)) = repo
          /\ NE!normalize_repository_url(Plain(t)) = repo
      BY <2>2, SpellingsHaveOneIdentity
    <3> HIDE DEF Plain, Explicit, repo
    <3> QED BY <2>2, <3>1, SameRepositorySameEvent
  <2> QED BY <2>2, <2>3 DEF SpellingsConverge
<1> QED BY <1>1, InputIsGiven, PTL

(* The episodes of every issue follow its facts, whatever set of facts     *)
(* about any number of issues and change requests is known: the last       *)
(* snapshot of a change request decides which links it has, every observed *)
(* close has exactly one episode, in the order of the closes, and one that *)
(* names a change request names the only one that may have closed the      *)
(* issue (project_closure_episodes).                                       *)
THEOREM EpisodesAreTheFacts == AlgorithmsSpec => []EpisodesFollowFacts
<1>1. AlgorithmsInit => EpisodesFollowFacts
  <2> SUFFICES ASSUME AlgorithmsInit, input.of = "facts" PROVE FollowFacts(input.facts)
    BY DEF EpisodesFollowFacts
  <2>1. PICK F \in FactSets : input = [of |-> "facts", facts |-> F] BY InputIsNamed
  <2> QED BY <2>1, AlgorithmsAssumption, ProjectionFollows
<1> QED BY <1>1, InputIsGiven, PTL

(* Correlation keeps one link for each entity, says the same of a listing  *)
(* in the reverse order, and credits only what is linked, for any run and  *)
(* any window whose copies of an entity agree (CorrelationEngine.resolve). *)
THEOREM CorrelationConcludesSoundly == AlgorithmsSpec => []CorrelationIsSound
<1>1. AlgorithmsInit => CorrelationIsSound
  <2> SUFFICES ASSUME AlgorithmsInit, input.of = "window"
               PROVE  CO!IsSound(input.window.run, input.window.es, input.window.events)
    BY DEF CorrelationIsSound
  <2>1. PICK w \in CorrelationWindows : input = [of |-> "window", window |-> w] BY InputIsNamed
  <2>2. input.window = w /\ CO!IsWindow(w.es) BY <2>1, AlgorithmsAssumption
  <2> QED BY <2>2, LinksAreUnique, ReversedWindowSameResult, OutcomeHasLinks DEF CO!IsSound
<1> QED BY <1>1, InputIsGiven, PTL

(* The list and the detail of change requests tell one story over any      *)
(* tables: every page size shows each request once, its state is that of   *)
(* its last facts, its sessions are paid for once, and the two summaries   *)
(* agree (list_change_requests, get_change_request).                       *)
THEOREM ChangeRequestsAreOneStory == AlgorithmsSpec => []ChangeRequestViewsAgree
<1>1. AlgorithmsInit => ChangeRequestViewsAgree
  <2> SUFFICES ASSUME AlgorithmsInit, input.of = "changes" PROVE CR!ViewsAgree(input.db)
    BY DEF ChangeRequestViewsAgree
  <2>1. PICK db \in Databases : input = [of |-> "changes", db |-> db] BY InputIsNamed
  <2>2. input.db = db /\ CR!AreTables(db) BY <2>1, AlgorithmsAssumption
  <2> QED BY <2>2, ListPartition, StateIsLatest, PaidOnce, SummariesMatch DEF CR!ViewsAgree
<1> QED BY <1>1, InputIsGiven, PTL

(* Over any tables: the groups of the usage endpoints add up to the total; *)
(* the sums of the hybrid answer add up to the events, whichever rows its  *)
(* two lookups take and whatever is written between its two statements,    *)
(* and a row that can have no other name has the tokens and counts of its  *)
(* events; the list of agent runs agrees with their detail and SQL with    *)
(* Python about their status, at any time and for any thresholds           *)
(* (_fetch_aggregates, _fetch_aggregates_rollup, compute_status).          *)
THEOREM UsageIsOneStory == AlgorithmsSpec => []UsageViewsAgree
<1>1. AlgorithmsInit => UsageViewsAgree
  <2>1. ASSUME AlgorithmsInit, input.of = "usage"
        PROVE  UQ!ViewsAgree(input.query)
    <3>1. PICK q \in UsageQuestions : input = [of |-> "usage", query |-> q] BY <2>1, InputIsNamed
    <3>2. input.query = q /\ UQ!IsQuestion(q) BY <3>1, AlgorithmsAssumption
    <3>3. UQ!AreTables(q.db) BY <3>2 DEF UQ!IsQuestion
    <3> QED BY <3>2, <3>3, GroupsPartition, RollupSound DEF UQ!ViewsAgree
  <2>2. ASSUME AlgorithmsInit, input.of = "agents"
        PROVE  AR!ViewsAgree(input.query.db, input.query.now, input.query.t)
    <3>1. PICK q \in AgentQuestions : input = [of |-> "agents", query |-> q] BY <2>2, InputIsNamed
    <3>2. input.query = q /\ AR!AreRuns(q.db, q.now, q.t) BY <3>1, AlgorithmsAssumption
    <3> QED BY <3>2, RowMatchesDetail
  <2> QED BY <2>1, <2>2 DEF UsageViewsAgree
<1> QED BY <1>1, InputIsGiven, PTL

-----------------------------------------------------------------------------
(* What may be written.  F are the facts stored and E the episode rows.    *)

TrueLinks(F) == {x \in [cr : ChangeRequests, link : Links, state : LinkStates] :
                    LinkIsTrue(F, x.cr, x.link)}

TrueRows(F) == {r \in Rows : RowIsTrue(F, r) /\ (r.current \/ r.status = "superseded")}

UnresolvedRows == [issue : Issues, closed : Nat, reason : {"unmatched", "ambiguous"},
                   candidates : SUBSET ChangeRequests]

Inserts(F) == [id : {0}, row : TrueRows(F)]

\* A statement about a stored row supersedes it or is about the same close.
Updates(F, E) ==
    {s \in [id : DOMAIN E, row : TrueRows(F) \cup {None}] :
        s.row = None \/ (/\ s.row \in TrueRows(F)
                         /\ s.row.issue = E[s.id].issue /\ s.row.closed = E[s.id].closed)}

Statements(F, E) == Inserts(F) \cup Updates(F, E)

\* The jobs at work, with plans that the facts bear out.
Jobs(F, E) ==
    {job \in [pc : {"affected", "issues", "crfacts", "load", "links", "episodes",
                    "absent", "absent_unresolved", "raised", "done"},
              seed : Deliveries \cup {None}, window : Windows \cup {None},
              issues : SUBSET Issues, crs : SUBSET ChangeRequests, loaded : SUBSET F,
              links : Seq(TrueLinks(F)), writes : Seq(Statements(F, E)),
              unresolved : SUBSET UnresolvedRows, clean : BOOLEAN] :
        job.pc = "affected" => job.seed \in Deliveries}

\* Rows are neither deleted nor turned into the rows of other closes.
Keeps(E, G) ==
    /\ Len(G) >= Len(E)
    /\ \A k \in DOMAIN E : k \in DOMAIN G /\ G[k].issue = E[k].issue /\ G[k].closed = E[k].closed

LEMMA LinksStayTrue ==
    ASSUME NEW F, NEW G, F \subseteq G, NEW c, NEW l, LinkIsTrue(F, c, l)
    PROVE  LinkIsTrue(G, c, l)
<1>1. PICK f \in Snapshots(F, c) : l \in IssueLinks(f) BY DEF LinkIsTrue
<1>2. f \in Snapshots(G, c) BY DEF Snapshots
<1> QED BY <1>1, <1>2 DEF LinkIsTrue

LEMMA RowsStayTrue ==
    ASSUME NEW F, NEW G, F \subseteq G
    PROVE  TrueRows(F) \subseteq TrueRows(G) /\ TrueLinks(F) \subseteq TrueLinks(G)
<1>1. ASSUME NEW r \in Rows, RowIsTrue(F, r) PROVE RowIsTrue(G, r)
  <2>1. \A e, type : Saw(F, e, type) \subseteq Saw(G, e, type) BY DEF Saw
  <2>2. \A c, l : LinkIsTrue(F, c, l) => LinkIsTrue(G, c, l) BY LinksStayTrue
  <2> QED BY <1>1, <2>1, <2>2 DEF RowIsTrue
<1>2. TrueRows(F) \subseteq TrueRows(G) BY <1>1 DEF TrueRows
<1>3. TrueLinks(F) \subseteq TrueLinks(G) BY LinksStayTrue DEF TrueLinks
<1> QED BY <1>2, <1>3

LEMMA StatementsStayGood ==
    ASSUME NEW F, NEW G, F \subseteq G, NEW D, NEW E, Keeps(D, E)
    PROVE  Statements(F, D) \subseteq Statements(G, E)
<1>1. TrueRows(F) \subseteq TrueRows(G) BY RowsStayTrue
<1>2. Inserts(F) \subseteq Inserts(G) BY <1>1 DEF Inserts
<1>3. Updates(F, D) \subseteq Updates(G, E)
  <2> SUFFICES ASSUME NEW s \in Updates(F, D) PROVE s \in Updates(G, E) OBVIOUS
  <2>1. /\ s \in [id : DOMAIN D, row : TrueRows(F) \cup {None}]
        /\ s.row = None \/ (/\ s.row \in TrueRows(F)
                            /\ s.row.issue = D[s.id].issue /\ s.row.closed = D[s.id].closed)
    BY DEF Updates
  <2>2. s.id \in DOMAIN E /\ E[s.id].issue = D[s.id].issue /\ E[s.id].closed = D[s.id].closed
    BY <2>1 DEF Keeps
  <2>3. s \in [id : DOMAIN E, row : TrueRows(G) \cup {None}] BY <1>1, <2>1, <2>2
  <2> QED BY <1>1, <2>1, <2>2, <2>3 DEF Updates
<1> QED BY <1>2, <1>3 DEF Statements

LEMMA SeqGrows == ASSUME NEW S, NEW T, S \subseteq T PROVE Seq(S) \subseteq Seq(T)
<1> SUFFICES ASSUME NEW s \in Seq(S) PROVE s \in Seq(T) OBVIOUS
<1>1. Len(s) \in Nat /\ s \in [1..Len(s) -> S] OBVIOUS
<1>2. s \in [1..Len(s) -> T] BY <1>1
<1> QED BY <1>1, <1>2

\* A plan stays good while facts arrive and other jobs write.
LEMMA JobsStayGood ==
    ASSUME NEW F, NEW G, F \subseteq G, NEW D, NEW E, Keeps(D, E)
    PROVE  Jobs(F, D) \subseteq Jobs(G, E)
<1>1. Seq(TrueLinks(F)) \subseteq Seq(TrueLinks(G)) BY RowsStayTrue, SeqGrows
<1>2. Seq(Statements(F, D)) \subseteq Seq(Statements(G, E)) BY StatementsStayGood, SeqGrows
<1>3. SUBSET F \subseteq SUBSET G OBVIOUS
<1> QED BY <1>1, <1>2, <1>3 DEF Jobs

LEMMA FactsOfFacts == ASSUME NEW F, AreFacts(F), NEW G, G \subseteq F PROVE AreFacts(G)
BY FS_Subset DEF AreFacts

\* SetToSeq lists the elements of a finite set.
LEMMA Listed == ASSUME NEW S, IsFiniteSet(S) PROVE SetToSeq(S) \in Seq(S)
<1> DEFINE n == Cardinality(S)
<1>1. n \in Nat /\ ExistsBijection(1..n, S) BY FS_CardinalityType
<1>2. PICK f : f \in Bijection(1..n, S) BY <1>1 DEF ExistsBijection
<1>3. f \in [1..n -> S] /\ IsInjective(f) BY <1>2 DEF Bijection, Injection, IsInjective
<1>4. SetToSeq(S) \in [1..n -> S] BY <1>3 DEF SetToSeq
<1> HIDE DEF n
<1> QED BY <1>1, <1>4

\* _project_links: what the links of the projection say.
LEMMA LinksPlanned ==
    ASSUME NEW F, AreFacts(F)
    PROVE  ProjectLinks(F) \subseteq TrueLinks(F) /\ IsFiniteSet(ProjectLinks(F))
<1> DEFINE K == {x \in ChangeRequests \X Links : x[2] \in DOMAIN DeriveLinkStates(F, x[1])}
           of(k) == [cr |-> k[1], link |-> k[2], state |-> DeriveLinkStates(F, k[1])[k[2]]]
<1>1. ASSUME NEW k \in K PROVE of(k) \in TrueLinks(F)
  <2> DEFINE c == k[1]
             l == k[2]
  <2>1. c \in ChangeRequests /\ l \in Links /\ l \in DOMAIN DeriveLinkStates(F, c) OBVIOUS
  <2> HIDE DEF c, l
  <2>2. DeriveLinkStates(F, c)[l] \in LinkStates BY <2>1, StatesAre
  <2>3. l \in LinksOf(Counting(F, c, Instants(F, c))) BY <2>1, StatesAre
  <2>4. LinkIsTrue(F, c, l)
    <3>1. PICK f \in Counting(F, c, Instants(F, c)) : l \in IssueLinks(f) BY <2>3 DEF LinksOf
    <3>2. PICK t \in Instants(F, c) : f \in Decisive(Group(F, c, t)) BY DEF Counting
    <3>3. f \in Snapshots(F, c) BY <3>2, AppliedIs
    <3> QED BY <3>1, <3>3 DEF LinkIsTrue
  <2>5. [cr |-> c, link |-> l, state |-> DeriveLinkStates(F, c)[l]] \in TrueLinks(F)
    BY <2>1, <2>2, <2>4 DEF TrueLinks
  <2> QED BY <2>5 DEF c, l
<1>2. IsFiniteSet(K)
  <2>1. IsFiniteSet({"declares_closure", "references"})
    <3>1. IsFiniteSet({"declares_closure"}) BY FS_Singleton
    <3>2. {"declares_closure", "references"} = {"declares_closure"} \cup {"references"} OBVIOUS
    <3> QED BY <3>1, <3>2, FS_AddElement
  <2>2. IsFiniteSet(Links) BY <2>1, FS_Product, EpisodesAssumption DEF Links
  <2>3. IsFiniteSet(ChangeRequests \X Links) BY <2>2, FS_Product, EpisodesAssumption
  <2> QED BY <2>3, FS_Subset
<1>3. ProjectLinks(F) = {of(k) : k \in K} BY DEF ProjectLinks
<1>4. IsFiniteSet(ProjectLinks(F))
  <2> DEFINE f == [k \in K |-> of(k)]
  <2> HIDE DEF K, of
  <2>1. {f[k] : k \in K} = {of(k) : k \in K} OBVIOUS
  <2>2. IsFiniteSet({f[k] : k \in K})
    <3> HIDE DEF f
    <3> QED BY <1>2, FiniteImage
  <2> QED BY <1>3, <2>1, <2>2
<1> HIDE DEF K, of
<1> QED BY <1>1, <1>3, <1>4

\* The row of an episode is true of the facts it was projected from.
LEMMA RowIsBornTrue ==
    ASSUME NEW F, AreFacts(F), NEW i \in Issues,
           NEW k \in DOMAIN ProjectIssueEpisodes(F, i), NEW current \in BOOLEAN
    PROVE  LET e == ProjectIssueEpisodes(F, i)[k]
               r == Row(e, current)
           IN  r \in TrueRows(F) /\ r.issue = i /\ r.closed = e.closed /\ e.closed \in Opened
<1> DEFINE eps == ProjectIssueEpisodes(F, i)
           e == eps[k]
           r == Row(e, current)
<1>0. k \in DOMAIN eps OBVIOUS
<1>1. /\ eps \in Seq(EpisodeType) /\ e.issue = i
      /\ {eps[j].closed : j \in DOMAIN eps} \ {None} = Closes(Lifecycle(F, i))
      /\ e.cr # None => e.closed \in Nat /\ MayHaveClosed(F, i, e.closed) = {e.cr}
  <2>1. Projected(F, i, eps) BY EpisodesAre
  <2> HIDE DEF eps
  <2> QED BY <1>0, <2>1 DEF Projected
<1>2. e \in EpisodeType
  <2> HIDE DEF eps
  <2> QED BY <1>0, <1>1
<1>3. e.closed # None => e.closed \in Saw(F, i, "issue.closed")
  <2>1. e.closed # None => e.closed \in Closes(Lifecycle(F, i))
    <3> HIDE DEF eps
    <3> QED BY <1>0, <1>1
  <2>2. Closes(Lifecycle(F, i)) \subseteq Saw(F, i, "issue.closed") BY DEF Closes, Lifecycle, Saw
  <2> QED BY <2>1, <2>2
<1> HIDE DEF e
<1>4. ASSUME e.cr # None
      PROVE  /\ \E t \in Saw(F, e.cr, "change_request.merged") : t < e.closed
             /\ LinkIsTrue(F, e.cr, <<"declares_closure", i>>)
  <2>1. e.cr \in MayHaveClosed(F, i, e.closed) BY <1>1, <1>4
  <2>2. PICK f \in F : f.ent = e.cr /\ f.type = "change_request.merged" /\ f.at < e.closed
    BY <2>1 DEF MayHaveClosed
  <2>3. f.at \in Saw(F, e.cr, "change_request.merged") BY <2>2 DEF Saw
  <2>4. e.cr \in Declaring(F, i, "active") \/ e.cr \in Declaring(F, i, "parked")
    BY <2>1 DEF MayHaveClosed
  <2>5. LinkIsTrue(F, e.cr, <<"declares_closure", i>>) BY <2>4, DeclaringIs
  <2> QED BY <2>2, <2>3, <2>5
<1>5. /\ r.issue = i /\ r.closed = e.closed /\ r.cr = e.cr
      /\ r \in Rows /\ (r.current \/ r.status = "superseded")
  BY <1>1, <1>2 DEF Row, Rows, EpisodeType, Opened, Statuses
<1>6. RowIsTrue(F, r)
  <2> HIDE DEF r
  <2> QED BY <1>3, <1>4, <1>5 DEF RowIsTrue
<1>7. e.closed \in Opened BY <1>2 DEF EpisodeType
<1> QED BY <1>5, <1>6, <1>7 DEF TrueRows, e

StoredFor(i) == {k \in DOMAIN episodes : episodes[k].issue = i}

\* Row m is about issue i and the close of e.
SameClose(m, i, e) == m \in DOMAIN episodes /\ episodes[m].issue = i /\ episodes[m].closed = e.closed

\* A stored row that matches an episode has its issue and its close.
LEMMA MatchIs ==
    ASSUME episodes \in Seq(Rows), NEW i, NEW e, Match(StoredFor(i), e) # {}
    PROVE  SameClose(Max(Match(StoredFor(i), e)), i, e)
<1> DEFINE M == Match(StoredFor(i), e)
<1>1. M \subseteq StoredFor(i) /\ \A k \in M : episodes[k].closed = e.closed BY DEF Match
<1>2. StoredFor(i) \subseteq DOMAIN episodes /\ DOMAIN episodes = 1..Len(episodes) /\ Len(episodes) \in Nat
  BY DEF StoredFor
<1>3. IsFiniteSet(M)
  <2>1. IsFiniteSet(DOMAIN episodes) BY <1>2, FS_Interval
  <2> HIDE DEF M
  <2> QED BY <1>1, <1>2, <2>1, FS_Subset
<1>4. M \in SUBSET Int /\ M # {}
  <2> HIDE DEF M
  <2>1. M # {} BY DEF M
  <2> QED BY <1>1, <1>2, <2>1
<1>5. Max(M) \in M
  <2> HIDE DEF M
  <2> QED BY <1>3, <1>4, Extremes
<1> HIDE DEF M
<1>6. SameClose(Max(M), i, e) BY <1>1, <1>5 DEF SameClose, StoredFor
<1> QED BY <1>6 DEF M

\* _reconcile_closure_episodes, one issue: every statement inserts a true row
\* or changes a row of the same close.
LEMMA PlanIsGood ==
    ASSUME episodes \in Seq(Rows), NEW F, AreFacts(F), NEW i \in Issues
    PROVE  PlanIssue(i, ProjectIssueEpisodes(F, i)) \in Seq(Statements(F, episodes))
<1> DEFINE eps == ProjectIssueEpisodes(F, i)
           stored == {k \in DOMAIN episodes : episodes[k].issue = i}
           id(e) == IF Match(stored, e) = {} THEN 0 ELSE Max(Match(stored, e))
           gone == {k \in stored : episodes[k].current /\ \A e \in Range(eps) : id(e) # k}
           first == [k \in DOMAIN eps |-> [id |-> id(eps[k]), row |-> Row(eps[k], k = Len(eps))]]
           rest == {[id |-> k, row |-> None] : k \in gone}
           G == Statements(F, episodes)
<1>1. ASSUME NEW k \in DOMAIN eps
      PROVE  [id |-> id(eps[k]), row |-> Row(eps[k], k = Len(eps))] \in G
  <2> DEFINE e == eps[k]
             r == Row(e, k = Len(eps))
  <2>1. r \in TrueRows(F) /\ r.issue = i /\ r.closed = e.closed
    <3> DEFINE current == (k = Len(eps))
    <3>1. current \in BOOLEAN OBVIOUS
    <3> HIDE DEF current
    <3>2. Row(e, current) \in TrueRows(F) /\ Row(e, current).issue = i /\ Row(e, current).closed = e.closed
      BY <3>1, RowIsBornTrue
    <3> QED BY <3>2 DEF current
  <2> HIDE DEF e, r
  <2>2. CASE Match(stored, e) = {}
    <3>1. id(e) = 0 BY <2>2
    <3>2. [id |-> id(e), row |-> r] \in Inserts(F) BY <2>1, <3>1 DEF Inserts
    <3> QED BY <3>2 DEF Statements, e, r
  <2>3. CASE Match(stored, e) # {}
    <3> DEFINE m == id(e)
    <3>1. SameClose(m, i, e)
      <4>1. stored = StoredFor(i) BY DEF StoredFor
      <4>2. m = Max(Match(StoredFor(i), e)) BY <2>3, <4>1
      <4>3. Match(StoredFor(i), e) # {} BY <2>3, <4>1
      <4> HIDE DEF stored, m
      <4> QED BY <4>2, <4>3, MatchIs
    <3> HIDE DEF m
    <3>2. [id |-> m, row |-> r] \in Updates(F, episodes) BY <2>1, <3>1 DEF Updates, SameClose
    <3> QED BY <3>2 DEF Statements, e, r, m
  <2> QED BY <2>2, <2>3
<1>2. first \in Seq(G)
  <2>1. eps \in Seq(EpisodeType) BY EpisodesAre DEF Projected
  <2>2. DOMAIN eps = 1..Len(eps) /\ Len(eps) \in Nat
    <3> HIDE DEF eps
    <3> QED BY <2>1
  <2>3. first \in [1..Len(eps) -> G]
    <3> HIDE DEF G, eps, id
    <3> QED BY <1>1, <2>2
  <2> HIDE DEF first, G, eps
  <2> QED BY <2>2, <2>3
<1>3. SetToSeq(rest) \in Seq(G)
  <2>1. IsFiniteSet(rest)
    <3> DEFINE f == [k \in gone |-> [id |-> k, row |-> None]]
    <3>1. IsFiniteSet(gone)
      <4>1. DOMAIN episodes = 1..Len(episodes) /\ Len(episodes) \in Nat OBVIOUS
      <4>2. IsFiniteSet(DOMAIN episodes) BY <4>1, FS_Interval
      <4>3. gone \subseteq DOMAIN episodes OBVIOUS
      <4> HIDE DEF gone
      <4> QED BY <4>2, <4>3, FS_Subset
    <3>2. rest = {f[k] : k \in gone} OBVIOUS
    <3> HIDE DEF f, gone, rest
    <3> QED BY <3>1, <3>2, FiniteImage
  <2>2. rest \subseteq G
    <3> SUFFICES ASSUME NEW k \in DOMAIN episodes PROVE [id |-> k, row |-> None] \in Updates(F, episodes)
      BY DEF Statements
    <3> QED BY DEF Updates
  <2>3. SetToSeq(rest) \in Seq(rest)
    <3> HIDE DEF rest
    <3> QED BY <2>1, Listed
  <2> HIDE DEF rest, G
  <2> QED BY <2>2, <2>3, SeqGrows
<1>4. PlanIssue(i, eps) = first \o SetToSeq(rest) BY DEF PlanIssue
<1>5. first \o SetToSeq(rest) \in Seq(G)
  <2> HIDE DEF first, rest, G
  <2> QED BY <1>2, <1>3
<1> QED BY <1>4, <1>5

\* The statements of all issues, one issue after the other.
Collected(eps, S) == FoldSet(LAMBDA i, s : s \o PlanIssue(i, eps[i]), <<>>, S)

\* The fold over the issues, unfolded.
Collects(g, eps, S) ==
    /\ g[{}] = <<>> /\ Collected(eps, S) = g[S]
    /\ \A s \in SUBSET S : s # {} => g[s] = g[s \ {Pick(s)}] \o PlanIssue(Pick(s), eps[Pick(s)])

LEMMA PlansUnfold ==
    ASSUME NEW eps, NEW S, IsFiniteSet(S), NEW W, \A i \in S : PlanIssue(i, eps[i]) \in Seq(W)
    PROVE  \E g : Collects(g, eps, S)
<1> DEFINE V == Seq(W)
           ch == [s \in SUBSET S |-> Pick(s)]
           op == [x \in S \X V |-> x[2] \o PlanIssue(x[1], eps[x[1]])]
           Solves(g) == g = [s \in SUBSET S |-> IF s = {} THEN <<>>
                                   ELSE g[s \ {Pick(s)}] \o PlanIssue(Pick(s), eps[Pick(s)])]
           solution == CHOOSE g : Solves(g)
<1>1. Chooses(ch, S) BY PickIsIn DEF Chooses
<1>2. op \in [S \X V -> V]
  <2> SUFFICES ASSUME NEW i \in S, NEW s \in V PROVE s \o PlanIssue(i, eps[i]) \in V OBVIOUS
  <2> QED OBVIOUS
<1>3. PICK h \in [SUBSET S -> V] : FoldsTo(h, <<>>, op, ch, S)
  <2>1. <<>> \in V OBVIOUS
  <2> HIDE DEF V, ch, op
  <2> QED BY <1>1, <1>2, <2>1, FoldExists
<1>4. Solves(h)
  <2>1. ASSUME NEW s \in SUBSET S, s # {}
        PROVE  h[s] = h[s \ {Pick(s)}] \o PlanIssue(Pick(s), eps[Pick(s)])
    <3>1. Pick(s) \in S /\ s \ {Pick(s)} \in SUBSET S /\ ch[s] = Pick(s) BY <2>1, PickIsIn
    <3>2. h[s \ {Pick(s)}] \in V BY <1>3, <3>1
    <3> HIDE DEF V, ch
    <3> QED BY <1>3, <2>1, <3>1, <3>2 DEF FoldsTo
  <2>2. h = [s \in SUBSET S |-> h[s]] BY <1>3
  <2>3. h[{}] = <<>> BY <1>3 DEF FoldsTo
  <2> QED BY <2>1, <2>2, <2>3
<1>5. Solves(solution)
  <2> HIDE DEF Solves
  <2> QED BY <1>4
<1>6. Collected(eps, S) = solution[S]
  BY DEF Collected, FoldSet, MapThenFoldSet, Pick
<1> HIDE DEF solution
<1>7. /\ solution[{}] = <<>>
      /\ \A s \in SUBSET S : s # {} =>
            solution[s] = solution[s \ {Pick(s)}] \o PlanIssue(Pick(s), eps[Pick(s)])
  BY <1>5
<1> QED BY <1>6, <1>7 DEF Collects

LEMMA PlansCollected ==
    ASSUME NEW eps, NEW S, IsFiniteSet(S), NEW W, \A i \in S : PlanIssue(i, eps[i]) \in Seq(W)
    PROVE  Collected(eps, S) \in Seq(W)
<1>1. PICK g : Collects(g, eps, S) BY PlansUnfold
<1> DEFINE ch == [s \in SUBSET S |-> Pick(s)]
           P == {s \in SUBSET S : g[s] \in Seq(W)}
<1>2. Chooses(ch, S) BY PickIsIn DEF Chooses
<1>3. {} \in P
  <2>1. g[{}] = <<>> BY <1>1, Zenon DEF Collects
  <2>2. g[{}] \in Seq(W) BY <2>1
  <2> QED BY <2>2, Zenon
<1>4. ASSUME NEW s \in SUBSET S, s # {}, s \ {ch[s]} \in P PROVE s \in P
  <2>1. ch[s] = Pick(s) /\ Pick(s) \in S BY <1>4, PickIsIn
  <2>2. g[s] = g[s \ {Pick(s)}] \o PlanIssue(Pick(s), eps[Pick(s)]) BY <1>1, <1>4 DEF Collects
  <2> DEFINE a == g[s \ {Pick(s)}]
             b == PlanIssue(Pick(s), eps[Pick(s)])
  <2>3. a \in Seq(W) /\ b \in Seq(W) BY <1>4, <2>1
  <2>4. a \o b \in Seq(W)
    <3> HIDE DEF a, b
    <3> QED BY <2>3
  <2> QED BY <2>2, <2>4
<1>5. Inductive(P, ch, S)
  <2> HIDE DEF P, ch
  <2> QED BY <1>3, <1>4 DEF Inductive
<1>6. S \in P
  <2> HIDE DEF P, ch
  <2> QED BY <1>2, <1>5, FoldInduction
<1> QED BY <1>1, <1>6 DEF Collects

-----------------------------------------------------------------------------
(* The inductive invariant: what is stored is true of the facts, and so is *)
(* whatever a job at work still has to write.                              *)

FactsGood == facts \subseteq Deliveries /\ AreFacts(facts)

LinksGood ==
    /\ links \in [LinkKeys -> LinkStates \cup {None}]
    /\ \A x \in LinkKeys : links[x] # None => LinkIsTrue(facts, x[1], x[2])

EpisodesGood == episodes \in Seq(TrueRows(facts)) /\ OneCurrentPerIssue(episodes)

UnresolvedGood == unresolved \subseteq UnresolvedRows

WorkersGood == worker \in [Workers -> {Idle} \cup Jobs(facts, episodes)]

TablesGood == LinksGood /\ EpisodesGood /\ UnresolvedGood

ClosureInv == FactsGood /\ TablesGood /\ WorkersGood

LEMMA Kept == ASSUME episodes \in Seq(Rows) PROVE Keeps(episodes, episodes)
BY DEF Keeps

LEMMA AtWork ==
    ASSUME WorkersGood, NEW w \in Workers, worker[w].pc # "idle"
    PROVE  worker[w] \in Jobs(facts, episodes)
BY DEF WorkersGood, Idle

LEMMA TrueRowsAreRows ==
    ASSUME EpisodesGood
    PROVE  episodes \in Seq(Rows)
<1>1. TrueRows(facts) \subseteq Rows BY DEF TrueRows
<1> QED BY <1>1, SeqGrows DEF EpisodesGood

LEMMA UnresolvedIs ==
    ASSUME NEW F, AreFacts(F), NEW i \in Issues
    PROVE  Unresolved(ProjectIssueEpisodes(F, i)) \subseteq UnresolvedRows
<1> DEFINE eps == ProjectIssueEpisodes(F, i)
<1>1. Projected(F, i, eps) BY EpisodesAre
<1> HIDE DEF eps
<1>2. ASSUME NEW e \in Range(eps), e.status \in {"unmatched", "ambiguous"}
      PROVE  [issue |-> e.issue, closed |-> e.closed, reason |-> e.status, candidates |-> e.candidates]
                \in UnresolvedRows
  <2>1. PICK k \in DOMAIN eps : e = eps[k] BY DEF Range
  <2>2. e \in EpisodeType /\ e.closed \in Nat BY <1>1, <1>2, <2>1 DEF Projected
  <2> QED BY <1>2, <2>2 DEF EpisodeType, UnresolvedRows
<1>3. Unresolved(eps) \subseteq UnresolvedRows BY <1>2 DEF Unresolved
<1> QED BY <1>3 DEF eps

\* _persist and the loads: the plan of what was loaded is true of all facts.
LEMMA PlannedIsGood ==
    ASSUME AreFacts(facts), NEW job \in Jobs(facts, episodes), NEW loaded \in SUBSET facts,
           NEW issues \in SUBSET Issues, NEW linkIssues
    PROVE  Planned(job, loaded, issues, linkIssues) \in Jobs(facts, episodes)
<1> DEFINE S == {x \in ProjectLinks(loaded) : x.link[2] \in linkIssues}
           p == Planned(job, loaded, issues, linkIssues)
<1>1. AreFacts(loaded) BY FactsOfFacts
<1>2. S \subseteq TrueLinks(facts) /\ IsFiniteSet(S)
  <2>1. ProjectLinks(loaded) \subseteq TrueLinks(loaded) /\ IsFiniteSet(ProjectLinks(loaded))
    BY <1>1, LinksPlanned
  <2>2. TrueLinks(loaded) \subseteq TrueLinks(facts) BY RowsStayTrue
  <2> QED BY <2>1, <2>2, FS_Subset
<1>3. SetToSeq(S) \in Seq(TrueLinks(facts))
  <2> HIDE DEF S
  <2> QED BY <1>2, Listed, SeqGrows
<1> DEFINE s == SetToSeq(S)
<1>4. p = [job EXCEPT !.pc = "links", !.issues = issues, !.loaded = loaded, !.links = s,
                      !.seed = None, !.crs = {}]
  BY DEF Planned
<1> HIDE DEF s, p
<1>5. s \in Seq(TrueLinks(facts)) BY <1>3 DEF s
<1>6. p \in Jobs(facts, episodes) BY <1>4, <1>5 DEF Jobs
<1> QED BY <1>6 DEF p

\* _reconcile_closure_episodes: so are the statements.
LEMMA ReadIsGood ==
    ASSUME AreFacts(facts), episodes \in Seq(Rows), NEW job \in Jobs(facts, episodes)
    PROVE  ReconcileClosureEpisodes(job, [i \in job.issues |-> ProjectIssueEpisodes(job.loaded, i)])
              \in Jobs(facts, episodes)
<1> DEFINE eps == [i \in job.issues |-> ProjectIssueEpisodes(job.loaded, i)]
           has == {i \in job.issues : eps[i] # <<>>}
           W == Statements(facts, episodes)
           writes == Collected(eps, has)
           records == UNION {Unresolved(eps[i]) : i \in job.issues}
           r == ReconcileClosureEpisodes(job, eps)
<1>1. job.issues \subseteq Issues /\ job.loaded \subseteq facts /\ AreFacts(job.loaded)
  <2>1. job.issues \subseteq Issues /\ job.loaded \subseteq facts BY DEF Jobs
  <2> QED BY <2>1, FactsOfFacts
<1>2. IsFiniteSet(has)
  <2>1. has \subseteq Issues BY <1>1
  <2> HIDE DEF has
  <2> QED BY <2>1, FS_Subset, EpisodesAssumption
<1>3. ASSUME NEW i \in job.issues PROVE PlanIssue(i, eps[i]) \in Seq(W)
  <2>1. eps[i] = ProjectIssueEpisodes(job.loaded, i) OBVIOUS
  <2>2. PlanIssue(i, ProjectIssueEpisodes(job.loaded, i)) \in Seq(Statements(job.loaded, episodes))
    BY <1>1, PlanIsGood
  <2>3. Statements(job.loaded, episodes) \subseteq W BY <1>1, Kept, StatementsStayGood
  <2>4. Seq(Statements(job.loaded, episodes)) \subseteq Seq(W) BY <2>3, SeqGrows
  <2> HIDE DEF eps, W
  <2> QED BY <2>1, <2>2, <2>4
<1>4. writes \in Seq(W)
  <2>1. \A i \in has : PlanIssue(i, eps[i]) \in Seq(W) BY <1>3
  <2> HIDE DEF has, eps, W
  <2> QED BY <1>2, <2>1, PlansCollected
<1>5. records \subseteq UnresolvedRows
  <2>1. ASSUME NEW i \in job.issues PROVE Unresolved(eps[i]) \subseteq UnresolvedRows
    <3>1. eps[i] = ProjectIssueEpisodes(job.loaded, i) OBVIOUS
    <3> QED BY <1>1, <3>1, UnresolvedIs
  <2> HIDE DEF eps
  <2> QED BY <2>1
<1>6. r = [job EXCEPT !.pc = "episodes", !.writes = writes, !.unresolved = records]
  BY DEF ReconcileClosureEpisodes, Collected
<1> HIDE DEF writes, records, r, W
<1>7. r \in Jobs(facts, episodes) BY <1>4, <1>5, <1>6 DEF Jobs, W
<1> QED BY <1>7 DEF r

LEMMA ClosureInitInv == Init => ClosureInv
<1> SUFFICES ASSUME Init PROVE ClosureInv OBVIOUS
<1>1. FactsGood BY FS_EmptySet DEF Init, FactsGood, AreFacts
<1>2. LinksGood BY DEF Init, LinksGood
<1>3. EpisodesGood BY DEF Init, EpisodesGood, OneCurrentPerIssue
<1>4. UnresolvedGood /\ WorkersGood BY DEF Init, UnresolvedGood, WorkersGood
<1> QED BY <1>1, <1>2, <1>3, <1>4 DEF ClosureInv, TablesGood

\* One job goes on, the others keep what they had planned.
LEMMA OneGoesOn ==
    ASSUME WorkersGood, facts \subseteq facts', Keeps(episodes, episodes'), NEW w \in Workers,
           worker' = [worker EXCEPT ![w] = worker'[w]],
           worker'[w] \in {Idle} \cup Jobs(facts', episodes')
    PROVE  WorkersGood'
<1>1. Jobs(facts, episodes) \subseteq Jobs(facts', episodes') BY JobsStayGood
<1>2. ASSUME NEW v \in Workers PROVE worker'[v] \in {Idle} \cup Jobs(facts', episodes')
  <2>1. CASE v = w BY <2>1
  <2>2. CASE v # w
    <3>1. worker'[v] = worker[v] BY <2>2 DEF WorkersGood
    <3> QED BY <1>1, <3>1 DEF WorkersGood
  <2> QED BY <2>1, <2>2
<1>3. worker' \in [Workers -> {Idle} \cup Jobs(facts', episodes')]
  <2>1. DOMAIN worker' = Workers /\ worker' = [v \in Workers |-> worker'[v]] BY DEF WorkersGood
  <2> QED BY <1>2, <2>1
<1> QED BY <1>3 DEF WorkersGood

\* A job starts, and others learn that they are not alone.
LEMMA JobStarts ==
    ASSUME WorkersGood, facts \subseteq facts', UNCHANGED episodes, episodes \in Seq(Rows),
           NEW w \in Workers, NEW job \in Jobs(facts, episodes), Starts(w, job)
    PROVE  WorkersGood'
<1> DEFINE alone == \A u \in Workers : worker[u].pc = "idle"
           J == Jobs(facts, episodes)
<1>1. J \subseteq Jobs(facts', episodes')
  <2>1. Keeps(episodes, episodes') BY Kept
  <2> QED BY <2>1, JobsStayGood
<1>2. worker' = [v \in Workers |->
           IF v = w THEN [job EXCEPT !.clean = alone]
           ELSE IF worker[v].pc = "idle" THEN Idle ELSE [worker[v] EXCEPT !.clean = FALSE]]
  BY DEF Starts
<1>3. ASSUME NEW j \in J, NEW c \in BOOLEAN PROVE [j EXCEPT !.clean = c] \in J BY ZenonT(60) DEF Jobs
<1>4. alone \in BOOLEAN OBVIOUS
<1>5. ASSUME NEW v \in Workers PROVE worker'[v] \in {Idle} \cup J
  <2>1. CASE v = w
    <3>1. worker'[v] = [job EXCEPT !.clean = alone] BY <1>2, <2>1
    <3> HIDE DEF alone
    <3> QED BY <1>3, <1>4, <3>1
  <2>2. CASE v # w /\ worker[v].pc = "idle" BY <1>2, <2>2
  <2>3. CASE v # w /\ worker[v].pc # "idle"
    <3>1. worker'[v] = [worker[v] EXCEPT !.clean = FALSE] BY <1>2, <2>3
    <3>2. worker[v] \in J BY <2>3, AtWork
    <3> QED BY <1>3, <3>1, <3>2
  <2> QED BY <2>1, <2>2, <2>3
<1>6. worker' \in [Workers -> {Idle} \cup J]
  <2>1. worker' = [v \in Workers |-> worker'[v]] BY <1>2
  <2> HIDE DEF J
  <2> QED BY <1>5, <2>1
<1> HIDE DEF J
<1> QED BY <1>1, <1>6 DEF WorkersGood

\* As long as no table and no fact changes, only the jobs are to be looked at.
LEMMA OnlyJobsMove ==
    ASSUME ClosureInv, UNCHANGED <<facts, tables>>, WorkersGood'
    PROVE  ClosureInv' /\ Keeps(episodes, episodes')
<1>1. FactsGood' /\ TablesGood'
  BY DEF ClosureInv, FactsGood, TablesGood, LinksGood, EpisodesGood, OneCurrentPerIssue, UnresolvedGood, tables
<1>2. Keeps(episodes, episodes') BY TrueRowsAreRows, Kept DEF ClosureInv, TablesGood, tables
<1> QED BY <1>1, <1>2 DEF ClosureInv

\* An action that only moves the job of w, to a good one or to none.
LEMMA JobMoves ==
    ASSUME ClosureInv, UNCHANGED <<facts, tables>>, NEW w \in Workers,
           worker' = [worker EXCEPT ![w] = worker'[w]],
           worker'[w] \in {Idle} \cup Jobs(facts, episodes)
    PROVE  ClosureInv' /\ Keeps(episodes, episodes')
<1>1. Keeps(episodes, episodes') BY TrueRowsAreRows, Kept DEF ClosureInv, TablesGood, tables
<1>2. facts' = facts /\ episodes' = episodes BY DEF tables
<1>3. WorkersGood' BY <1>1, <1>2, OneGoesOn DEF ClosureInv
<1> QED BY <1>3, OnlyJobsMove

LEMMA FindAffectedStep ==
    ASSUME ClosureInv, NEW w \in Workers, FindAffected(w)
    PROVE  ClosureInv' /\ Keeps(episodes, episodes')
<1> DEFINE job == worker[w]
           linked == {k[2][2] : k \in {x \in LinkKeys : x[1] = job.seed.ent /\ links[x] # None}}
           hit == TouchedBy(job.seed) \cup linked
           next == IF hit = {} THEN Idle ELSE [job EXCEPT !.issues = hit, !.pc = "issues"]
<1>1. worker' = [worker EXCEPT ![w] = next] /\ job.pc = "affected" /\ UNCHANGED <<facts, tables>>
  BY DEF FindAffected
<1>2. job \in Jobs(facts, episodes) BY <1>1, AtWork DEF ClosureInv
<1>3. hit \subseteq Issues
  <2>1. linked \subseteq Issues BY DEF LinkKeys, Links
  <2>2. IsFact(job.seed) BY <1>1, <1>2, ClosureAssumption DEF Jobs
  <2>3. TouchedBy(job.seed) \subseteq Issues
    <3> DEFINE f == job.seed
    <3>1. IssueLinks(f) # None => IssueLinks(f) \subseteq Links BY <2>2 DEF IsFact, IssueLinks
    <3>2. CASE f.ent \in Issues BY <3>2 DEF TouchedBy
    <3>3. ASSUME f.ent \notin Issues PROVE TouchedBy(f) \subseteq Issues
      <4> HIDE DEF f
      <4> QED BY <3>1, <3>3 DEF TouchedBy, Links
    <3> QED BY <3>2, <3>3
  <2> QED BY <2>1, <2>3
<1> HIDE DEF hit
<1>4. next \in {Idle} \cup Jobs(facts, episodes) BY <1>2, <1>3 DEF Jobs
<1> HIDE DEF next
<1>5. worker'[w] = next /\ worker' = [worker EXCEPT ![w] = worker'[w]]
  BY <1>1 DEF ClosureInv, WorkersGood
<1> QED BY <1>1, <1>4, <1>5, JobMoves

LEMMA LoadIssueFactsStep ==
    ASSUME ClosureInv, NEW w \in Workers, LoadIssueFacts(w)
    PROVE  ClosureInv' /\ Keeps(episodes, episodes')
<1> DEFINE job == worker[w]
           loaded == {f \in facts : f.ent \in job.issues}
           crs == {k[1] : k \in {x \in LinkKeys : x[2][2] \in job.issues /\ links[x] # None}}
                  \cup ({job.seed.ent} \cap ChangeRequests)
           next == [job EXCEPT !.pc = "crfacts", !.loaded = loaded, !.crs = crs]
<1>1. /\ worker' = [worker EXCEPT ![w].pc = "crfacts", ![w].loaded = loaded, ![w].crs = crs]
      /\ job.pc = "issues" /\ UNCHANGED <<facts, tables>>
  BY DEF LoadIssueFacts
<1>2. job \in Jobs(facts, episodes) BY <1>1, AtWork DEF ClosureInv
<1>3. loaded \subseteq facts /\ crs \subseteq ChangeRequests BY DEF LinkKeys
<1> HIDE DEF loaded, crs
<1>4. worker'[w] = next /\ worker' = [worker EXCEPT ![w] = worker'[w]]
  BY <1>1 DEF ClosureInv, WorkersGood
<1>5. next \in Jobs(facts, episodes) BY <1>2, <1>3 DEF Jobs
<1> HIDE DEF next
<1> QED BY <1>1, <1>4, <1>5, JobMoves

LEMMA LoadChangeRequestFactsStep ==
    ASSUME ClosureInv, NEW w \in Workers, LoadChangeRequestFacts(w)
    PROVE  ClosureInv' /\ Keeps(episodes, episodes')
<1> DEFINE job == worker[w]
           loaded == job.loaded \cup {f \in facts : f.ent \in job.crs}
           issues == job.issues
           next == Planned(job, loaded, issues, Issues)
<1>1. worker' = [worker EXCEPT ![w] = next] /\ job.pc = "crfacts" /\ UNCHANGED <<facts, tables>>
  BY DEF LoadChangeRequestFacts
<1>2. job \in Jobs(facts, episodes) BY <1>1, AtWork DEF ClosureInv
<1>3. loaded \in SUBSET facts /\ issues \in SUBSET Issues BY <1>2 DEF Jobs
<1> HIDE DEF job, loaded, issues
<1>4. next \in Jobs(facts, episodes)
  <2>1. AreFacts(facts) BY DEF ClosureInv, FactsGood
  <2> QED BY <1>2, <1>3, <2>1, PlannedIsGood
<1> HIDE DEF next
<1>5. worker'[w] = next /\ worker' = [worker EXCEPT ![w] = worker'[w]]
  BY <1>1 DEF ClosureInv, WorkersGood
<1> QED BY <1>1, <1>4, <1>5, JobMoves

LEMMA LoadAllStep ==
    ASSUME ClosureInv, NEW w \in Workers, LoadAll(w)
    PROVE  ClosureInv' /\ Keeps(episodes, episodes')
<1> DEFINE job == worker[w]
           loaded == {f \in facts : f.type \in RelevantTypes /\ Inside(f, job.window)}
           whole == WholeWindow(job.window)
           next == Planned(job, loaded, whole, whole)
<1>1. worker' = [worker EXCEPT ![w] = next] /\ job.pc = "load" /\ UNCHANGED <<facts, tables>>
  BY DEF LoadAll
<1>2. job \in Jobs(facts, episodes) BY <1>1, AtWork DEF ClosureInv
<1>3. loaded \in SUBSET facts /\ whole \in SUBSET Issues BY DEF WholeWindow
<1> HIDE DEF job, loaded, whole
<1>4. next \in Jobs(facts, episodes)
  <2>1. AreFacts(facts) BY DEF ClosureInv, FactsGood
  <2> QED BY <1>2, <1>3, <2>1, PlannedIsGood
<1> HIDE DEF next
<1>5. worker'[w] = next /\ worker' = [worker EXCEPT ![w] = worker'[w]]
  BY <1>1 DEF ClosureInv, WorkersGood
<1> QED BY <1>1, <1>4, <1>5, JobMoves

LEMMA ReadEpisodesStep ==
    ASSUME ClosureInv, NEW w \in Workers, ReadEpisodes(w)
    PROVE  ClosureInv' /\ Keeps(episodes, episodes')
<1> DEFINE job == worker[w]
           next == ReconcileClosureEpisodes(job, [i \in job.issues |-> ProjectIssueEpisodes(job.loaded, i)])
<1>1. worker' = [worker EXCEPT ![w] = next] /\ job.pc = "links" /\ UNCHANGED <<facts, tables>>
  BY DEF ReadEpisodes
<1>2. job \in Jobs(facts, episodes) BY <1>1, AtWork DEF ClosureInv
<1> HIDE DEF job
<1>3. next \in Jobs(facts, episodes)
  <2>1. AreFacts(facts) /\ episodes \in Seq(Rows)
    BY TrueRowsAreRows DEF ClosureInv, FactsGood, TablesGood
  <2> QED BY <1>2, <2>1, ReadIsGood
<1> HIDE DEF next
<1>4. worker'[w] = next /\ worker' = [worker EXCEPT ![w] = worker'[w]]
  BY <1>1 DEF ClosureInv, WorkersGood
<1> QED BY <1>1, <1>3, <1>4, JobMoves

LEMMA FinishStep ==
    ASSUME ClosureInv, NEW w \in Workers, Finish(w)
    PROVE  ClosureInv' /\ Keeps(episodes, episodes')
<1>1. worker'[w] = Idle /\ worker' = [worker EXCEPT ![w] = worker'[w]] /\ UNCHANGED <<facts, tables>>
  BY DEF Finish, ClosureInv, WorkersGood
<1> QED BY <1>1, JobMoves

LEMMA StartRebuildStep ==
    ASSUME ClosureInv, NEW w \in Workers, NEW window \in Windows, StartRebuild(w, window)
    PROVE  ClosureInv' /\ Keeps(episodes, episodes')
<1>1. NewJob(None, window) \in Jobs(facts, episodes) BY ClosureAssumption DEF NewJob, Jobs
<1>2. UNCHANGED <<facts, tables>> /\ Starts(w, NewJob(None, window)) BY DEF StartRebuild
<1>3. episodes \in Seq(Rows) BY TrueRowsAreRows DEF ClosureInv, TablesGood
<1>4. WorkersGood' BY <1>1, <1>2, <1>3, JobStarts DEF ClosureInv, tables
<1> QED BY <1>2, <1>4, OnlyJobsMove

LEMMA PersistStep ==
    ASSUME ClosureInv, NEW w \in Workers, NEW f \in Deliveries, Persist(w, f)
    PROVE  ClosureInv' /\ Keeps(episodes, episodes')
<1>1. /\ facts' = IF \E g \in facts : SameKey(f, g) THEN facts ELSE facts \cup {f}
      /\ UNCHANGED tables /\ facts \subseteq facts'
  BY DEF Persist
<1>2. FactsGood'
  <2>1. CASE facts' = facts BY <2>1 DEF ClosureInv, FactsGood
  <2>2. CASE facts' = facts \cup {f} /\ ~ \E g \in facts : SameKey(f, g)
    <3>1. AreFacts(facts) /\ facts \subseteq Deliveries BY DEF ClosureInv, FactsGood
    <3>2. IsFact(f) BY ClosureAssumption
    <3>3. IsFiniteSet(facts \cup {f}) BY <3>1, FS_AddElement DEF AreFacts
    <3>4. \A g, h \in facts \cup {f} : SameKey(g, h) => g = h BY <2>2, <3>1 DEF AreFacts, SameKey
    <3>5. AreFacts(facts \cup {f}) BY <3>1, <3>2, <3>3, <3>4 DEF AreFacts
    <3> QED BY <2>2, <3>1, <3>5 DEF FactsGood
  <2> QED BY <1>1, <2>1, <2>2
<1>3. TablesGood'
  <2>1. LinksGood'
    <3>1. \A c, l : LinkIsTrue(facts, c, l) => LinkIsTrue(facts', c, l) BY <1>1, LinksStayTrue
    <3> QED BY <1>1, <3>1 DEF ClosureInv, TablesGood, LinksGood, tables
  <2>2. EpisodesGood'
    <3>1. Seq(TrueRows(facts)) \subseteq Seq(TrueRows(facts')) BY <1>1, RowsStayTrue, SeqGrows
    <3>2. episodes \in Seq(TrueRows(facts)) /\ OneCurrentPerIssue(episodes) /\ episodes' = episodes
      BY <1>1 DEF ClosureInv, TablesGood, EpisodesGood, tables
    <3> QED BY <3>1, <3>2 DEF EpisodesGood, OneCurrentPerIssue
  <2>3. UnresolvedGood' BY <1>1 DEF ClosureInv, TablesGood, UnresolvedGood, tables
  <2> QED BY <2>1, <2>2, <2>3 DEF TablesGood
<1>4. episodes \in Seq(Rows) BY TrueRowsAreRows DEF ClosureInv, TablesGood
<1>5. Keeps(episodes, episodes') /\ UNCHANGED episodes BY <1>1, <1>4, Kept DEF tables
<1>6. WorkersGood'
  <2>1. CASE f.type \in RelevantTypes
    <3>1. Starts(w, NewJob(f, None)) BY <2>1 DEF Persist
    <3>2. NewJob(f, None) \in Jobs(facts, episodes) BY DEF NewJob, Jobs
    <3> QED BY <1>1, <1>4, <1>5, <3>1, <3>2, JobStarts DEF ClosureInv
  <2>2. CASE f.type \notin RelevantTypes
    <3>1. worker' = worker BY <2>2 DEF Persist
    <3>2. Jobs(facts, episodes) \subseteq Jobs(facts', episodes') BY <1>1, <1>5, JobsStayGood
    <3> QED BY <3>1, <3>2 DEF ClosureInv, WorkersGood
  <2> QED BY <2>1, <2>2
<1> QED BY <1>2, <1>3, <1>5, <1>6 DEF ClosureInv

\* What a statement that writes a table leaves alone.
LEMMA JobWrites ==
    ASSUME ClosureInv, UNCHANGED facts, Keeps(episodes, episodes'), TablesGood', NEW w \in Workers,
           worker' = [worker EXCEPT ![w] = worker'[w]],
           worker'[w] \in {Idle} \cup Jobs(facts, episodes')
    PROVE  ClosureInv'
<1>1. FactsGood' BY DEF ClosureInv, FactsGood
<1>2. WorkersGood' BY OneGoesOn DEF ClosureInv
<1> QED BY <1>1, <1>2 DEF ClosureInv

LEMMA UpsertLinkStep ==
    ASSUME ClosureInv, NEW w \in Workers, UpsertLink(w)
    PROVE  ClosureInv' /\ Keeps(episodes, episodes')
<1> DEFINE job == worker[w]
           x == Head(job.links)
           rest == Tail(job.links)
           next == [job EXCEPT !.links = rest]
<1>1. /\ job.pc = "links" /\ job.links # <<>> /\ links' = [links EXCEPT ![<<x.cr, x.link>>] = x.state]
      /\ worker' = [worker EXCEPT ![w].links = Tail(@)] /\ UNCHANGED <<facts, episodes, unresolved>>
  BY DEF UpsertLink
<1>2. job \in Jobs(facts, episodes) BY <1>1, AtWork DEF ClosureInv
<1>3. x \in TrueLinks(facts) /\ rest \in Seq(TrueLinks(facts))
  <2>1. job.links \in Seq(TrueLinks(facts)) BY <1>2 DEF Jobs
  <2> QED BY <1>1, <2>1
<1>4. worker'[w] = next /\ worker' = [worker EXCEPT ![w] = worker'[w]]
  BY <1>1 DEF ClosureInv, WorkersGood
<1> HIDE DEF x, rest
<1>5. next \in Jobs(facts, episodes) BY <1>2, <1>3 DEF Jobs
<1>6. LinksGood'
  <2>1. /\ links \in [LinkKeys -> LinkStates \cup {None}]
        /\ \A k \in LinkKeys : links[k] # None => LinkIsTrue(facts, k[1], k[2])
    BY DEF ClosureInv, TablesGood, LinksGood
  <2>2. x.cr \in ChangeRequests /\ x.link \in Links /\ x.state \in LinkStates /\ LinkIsTrue(facts, x.cr, x.link)
    BY <1>3 DEF TrueLinks
  <2>3. links' \in [LinkKeys -> LinkStates \cup {None}] BY <1>1, <2>1, <2>2 DEF LinkKeys
  <2>4. ASSUME NEW k \in LinkKeys, links'[k] # None PROVE LinkIsTrue(facts, k[1], k[2])
    <3>1. CASE k = <<x.cr, x.link>> BY <2>2, <3>1
    <3>2. CASE k # <<x.cr, x.link>> BY <1>1, <2>1, <2>4, <3>2
    <3> QED BY <3>1, <3>2
  <2> QED BY <1>1, <2>3, <2>4 DEF LinksGood
<1>7. TablesGood' BY <1>1, <1>6 DEF ClosureInv, TablesGood, EpisodesGood, OneCurrentPerIssue, UnresolvedGood
<1>8. Keeps(episodes, episodes') BY <1>1, TrueRowsAreRows, Kept DEF ClosureInv, TablesGood
<1> HIDE DEF next
<1>9. ClosureInv' BY <1>1, <1>4, <1>5, <1>7, <1>8, JobWrites
<1> QED BY <1>8, <1>9

LEMMA NoLess == ASSUME NEW n \in Nat PROVE n >= n
OBVIOUS

\* A statement leaves true rows, and every row with its issue and its close.
LEMMA StatementIsGood ==
    ASSUME episodes \in Seq(TrueRows(facts)), NEW s \in Statements(facts, episodes),
           NEW rows, rows = IF s.id = 0 THEN Append(episodes, s.row)
                            ELSE [episodes EXCEPT ![s.id] = IF s.row = None THEN Supersede(@) ELSE s.row]
    PROVE  rows \in Seq(TrueRows(facts)) /\ Keeps(episodes, rows)
<1> DEFINE T == TrueRows(facts)
           n == Len(episodes)
<1>1. n \in Nat /\ DOMAIN episodes = 1..n /\ \A k \in 1..n : episodes[k] \in T OBVIOUS
<1>2. CASE s \in Inserts(facts)
  <2>1. s.id = 0 /\ s.row \in T BY <1>2 DEF Inserts
  <2>2. rows = Append(episodes, s.row) BY <2>1
  <2>3. rows \in Seq(T)
    <3> DEFINE r == s.row
    <3>1. r \in T /\ rows = Append(episodes, r) BY <2>1, <2>2
    <3> HIDE DEF T, r
    <3>2. episodes \in Seq(T) BY DEF T
    <3> QED BY <3>1, <3>2
  <2>4. Len(rows) >= n /\ \A k \in 1..n : k \in DOMAIN rows /\ rows[k] = episodes[k]
    <3> DEFINE r == s.row
               m == Len(rows)
    <3>1. rows \in {episodes, Append(episodes, r)} BY <2>2
    <3> HIDE DEF T, r
    <3>2. (\A k \in 1..n : rows[k] = episodes[k]) /\ m \in {n, n + 1} /\ DOMAIN rows = 1..m
      BY <3>1, Prolonged DEF T
    <3> HIDE DEF m, n
    <3>3. m >= n /\ \A k \in 1..n : k \in 1..m BY <1>1, <3>2
    <3> QED BY <3>2, <3>3 DEF m
  <2>5. n = Len(episodes) OBVIOUS
  <2> HIDE DEF T, n
  <2>6. Keeps(episodes, rows) BY <1>1, <2>4, <2>5 DEF Keeps
  <2> QED BY <2>3, <2>6 DEF T
<1>3. CASE s \in Updates(facts, episodes)
  <2> DEFINE k == s.id
             old == episodes[k]
             new == IF s.row = None THEN Supersede(old) ELSE s.row
  <2>1. k \in 1..n /\ k # 0
    <3>1. k \in DOMAIN episodes BY <1>3 DEF Updates
    <3> HIDE DEF k
    <3> QED BY <1>1, <3>1
  <2>2. old \in T BY <1>1, <2>1
  <2>3. new \in T /\ new.issue = old.issue /\ new.closed = old.closed
    <3>1. CASE s.row = None
      <4>1. old \in Rows /\ RowIsTrue(facts, old) BY <2>2 DEF TrueRows
      <4> HIDE DEF old
      <4>2. /\ Supersede(old) \in Rows /\ Supersede(old).issue = old.issue
            /\ Supersede(old).closed = old.closed /\ Supersede(old).cr = old.cr
            /\ Supersede(old).status = "superseded"
        BY <4>1 DEF Supersede, Rows
      <4>3. RowIsTrue(facts, Supersede(old)) BY <4>1, <4>2 DEF RowIsTrue
      <4> QED BY <3>1, <4>2, <4>3 DEF TrueRows
    <3>2. CASE s.row # None BY <1>3, <3>2 DEF Updates
    <3> QED BY <3>1, <3>2
  <2> HIDE DEF new
  <2>4. rows = [episodes EXCEPT ![k] = new] BY <2>1 DEF new
  <2> HIDE DEF old, T, k, n
  <2>5. rows \in [1..n -> T]
    <3>1. episodes \in [1..n -> T] BY <1>1 DEF T
    <3> QED BY <2>3, <2>4, <3>1
  <2>6. rows \in Seq(T) /\ Len(rows) = n BY <1>1, <2>5
  <2>7. \A j \in 1..n : rows[j].issue = episodes[j].issue /\ rows[j].closed = episodes[j].closed
    BY <1>1, <2>1, <2>3, <2>4 DEF old
  <2>8. n = Len(episodes) /\ DOMAIN rows = 1..n BY <2>5 DEF n
  <2>9. Keeps(episodes, rows)
    <3>1. Len(rows) >= Len(episodes) BY <1>1, <2>6, <2>8, NoLess, Zenon
    <3>2. DOMAIN episodes = 1..n BY <1>1
    <3> QED BY <2>7, <2>8, <3>1, <3>2, Zenon DEF Keeps
  <2> QED BY <2>6, <2>9 DEF T
<1> QED BY <1>2, <1>3 DEF Statements

LEMMA WriteEpisodeStep ==
    ASSUME ClosureInv, NEW w \in Workers, WriteEpisode(w)
    PROVE  ClosureInv' /\ Keeps(episodes, episodes')
<1> DEFINE job == worker[w]
           stmt == Head(job.writes)
           rest == Tail(job.writes)
           rows == IF stmt.id = 0 THEN Append(episodes, stmt.row)
                   ELSE [episodes EXCEPT ![stmt.id] = IF stmt.row = None THEN Supersede(@) ELSE stmt.row]
<1>1. /\ job.pc = "episodes" /\ job.writes # <<>>
      /\ IF OneCurrentPerIssue(rows)
         THEN episodes' = rows /\ worker' = [worker EXCEPT ![w].writes = Tail(@)]
         ELSE worker' = [worker EXCEPT ![w].pc = "raised"] /\ UNCHANGED episodes
      /\ UNCHANGED <<facts, links, unresolved>>
  BY DEF WriteEpisode, bounds
<1>2. job \in Jobs(facts, episodes) BY <1>1, AtWork DEF ClosureInv
<1>3. CASE OneCurrentPerIssue(rows)
  <2> DEFINE next == [job EXCEPT !.writes = rest]
             good == Statements(facts, episodes)
  <2>1. stmt \in good /\ rest \in Seq(good)
    <3>1. job.writes \in Seq(good) BY <1>2 DEF Jobs
    <3> HIDE DEF good
    <3> QED BY <1>1, <3>1
  <2>2. episodes \in Seq(TrueRows(facts)) BY DEF ClosureInv, TablesGood, EpisodesGood
  <2>3. episodes' = rows /\ OneCurrentPerIssue(rows) BY <1>1, <1>3
  <2>4. rows \in Seq(TrueRows(facts)) /\ Keeps(episodes, rows)
    <3> HIDE DEF stmt
    <3> QED BY <2>1, <2>2, StatementIsGood
  <2>5. worker'[w] = next /\ worker' = [worker EXCEPT ![w] = worker'[w]]
    BY <1>1, <1>3 DEF ClosureInv, WorkersGood
  <2>6. next \in Jobs(facts, episodes)
    <3> HIDE DEF rest
    <3> QED BY <1>2, <2>1 DEF Jobs
  <2> HIDE DEF rows, next
  <2>7. TablesGood'
    <3>1. EpisodesGood' BY <1>1, <2>3, <2>4 DEF EpisodesGood, OneCurrentPerIssue
    <3> QED BY <1>1, <3>1 DEF ClosureInv, TablesGood, LinksGood, UnresolvedGood
  <2>8. Keeps(episodes, episodes') BY <2>3, <2>4
  <2>9. next \in Jobs(facts, episodes')
    <3>1. Jobs(facts, episodes) \subseteq Jobs(facts, episodes') BY <2>8, JobsStayGood
    <3> QED BY <2>6, <3>1
  <2> QED BY <1>1, <2>5, <2>7, <2>8, <2>9, JobWrites
<1>4. CASE ~ OneCurrentPerIssue(rows)
  <2> DEFINE next == [job EXCEPT !.pc = "raised"]
  <2>1. worker'[w] = next /\ worker' = [worker EXCEPT ![w] = worker'[w]] /\ UNCHANGED <<facts, tables>>
    BY <1>1, <1>4 DEF ClosureInv, WorkersGood, tables
  <2>2. next \in Jobs(facts, episodes) BY <1>2 DEF Jobs
  <2> HIDE DEF next
  <2> QED BY <2>1, <2>2, JobMoves
<1> QED BY <1>3, <1>4

LEMMA UpsertUnresolvedStep ==
    ASSUME ClosureInv, NEW w \in Workers, UpsertUnresolved(w)
    PROVE  ClosureInv' /\ Keeps(episodes, episodes')
<1> DEFINE job == worker[w]
           pc == IF job.window = All THEN "absent" ELSE "done"
           next == [job EXCEPT !.pc = pc]
<1>1. /\ job.pc = "episodes" /\ worker' = [worker EXCEPT ![w].pc = pc]
      /\ unresolved' \subseteq unresolved \cup job.unresolved /\ UNCHANGED <<facts, links, episodes>>
  BY DEF UpsertUnresolved
<1>2. job \in Jobs(facts, episodes) BY <1>1, AtWork DEF ClosureInv
<1>3. worker'[w] = next /\ worker' = [worker EXCEPT ![w] = worker'[w]]
  BY <1>1 DEF ClosureInv, WorkersGood
<1>4. next \in Jobs(facts, episodes) BY <1>2 DEF Jobs
<1>5. job.unresolved \subseteq UnresolvedRows BY <1>2 DEF Jobs
<1>6. TablesGood'
  BY <1>1, <1>5 DEF ClosureInv, TablesGood, LinksGood, EpisodesGood, OneCurrentPerIssue, UnresolvedGood
<1>7. Keeps(episodes, episodes') BY <1>1, TrueRowsAreRows, Kept DEF ClosureInv, TablesGood
<1> HIDE DEF next
<1> QED BY <1>1, <1>3, <1>4, <1>6, <1>7, JobWrites

LEMMA DeleteAbsentLinksStep ==
    ASSUME ClosureInv, NEW w \in Workers, DeleteAbsentLinks(w)
    PROVE  ClosureInv' /\ Keeps(episodes, episodes')
<1> DEFINE job == worker[w]
           fresh == {<<x.cr, x.link>> : x \in ProjectLinks(job.loaded)}
           next == [job EXCEPT !.pc = "absent_unresolved"]
<1>1. /\ job.pc = "absent" /\ worker' = [worker EXCEPT ![w].pc = "absent_unresolved"]
      /\ links' = [k \in LinkKeys |-> IF k \in fresh THEN links[k] ELSE None]
      /\ UNCHANGED <<facts, episodes, unresolved>>
  BY DEF DeleteAbsentLinks
<1> HIDE DEF fresh
<1>2. job \in Jobs(facts, episodes) BY <1>1, AtWork DEF ClosureInv
<1>3. worker'[w] = next /\ worker' = [worker EXCEPT ![w] = worker'[w]]
  BY <1>1 DEF ClosureInv, WorkersGood
<1>4. next \in Jobs(facts, episodes) BY <1>2 DEF Jobs
<1>5. LinksGood' BY <1>1 DEF ClosureInv, TablesGood, LinksGood
<1>6. TablesGood' BY <1>1, <1>5 DEF ClosureInv, TablesGood, EpisodesGood, OneCurrentPerIssue, UnresolvedGood
<1>7. Keeps(episodes, episodes') BY <1>1, TrueRowsAreRows, Kept DEF ClosureInv, TablesGood
<1> HIDE DEF next
<1> QED BY <1>1, <1>3, <1>4, <1>6, <1>7, JobWrites

LEMMA DeleteAbsentUnresolvedStep ==
    ASSUME ClosureInv, NEW w \in Workers, DeleteAbsentUnresolved(w)
    PROVE  ClosureInv' /\ Keeps(episodes, episodes')
<1> DEFINE job == worker[w]
           next == [job EXCEPT !.pc = "done"]
<1>1. /\ job.pc = "absent_unresolved" /\ worker' = [worker EXCEPT ![w].pc = "done"]
      /\ unresolved' \subseteq unresolved /\ UNCHANGED <<facts, links, episodes>>
  BY DEF DeleteAbsentUnresolved
<1>2. job \in Jobs(facts, episodes) BY <1>1, AtWork DEF ClosureInv
<1>3. worker'[w] = next /\ worker' = [worker EXCEPT ![w] = worker'[w]]
  BY <1>1 DEF ClosureInv, WorkersGood
<1>4. next \in Jobs(facts, episodes) BY <1>2 DEF Jobs
<1>5. TablesGood'
  BY <1>1 DEF ClosureInv, TablesGood, LinksGood, EpisodesGood, OneCurrentPerIssue, UnresolvedGood
<1>6. Keeps(episodes, episodes') BY <1>1, TrueRowsAreRows, Kept DEF ClosureInv, TablesGood
<1> HIDE DEF next
<1> QED BY <1>1, <1>3, <1>4, <1>5, <1>6, JobWrites

LEMMA ClosureNextInv ==
    ASSUME ClosureInv, [Next]_vars
    PROVE  ClosureInv' /\ Keeps(episodes, episodes')
<1>1. CASE UNCHANGED vars
  <2>1. UNCHANGED <<facts, tables>> /\ worker' = worker BY <1>1 DEF vars, tables
  <2>2. WorkersGood' BY <2>1 DEF ClosureInv, WorkersGood, tables
  <2> QED BY <2>1, <2>2, OnlyJobsMove
<1>2. ASSUME NEW w \in Workers, NEW f \in Deliveries, Persist(w, f)
      PROVE  ClosureInv' /\ Keeps(episodes, episodes')
  BY <1>2, PersistStep
<1>3. ASSUME NEW w \in Workers, NEW window \in Windows, StartRebuild(w, window)
      PROVE  ClosureInv' /\ Keeps(episodes, episodes')
  BY <1>3, StartRebuildStep
<1>4. ASSUME NEW w \in Workers,
             \/ FindAffected(w) \/ LoadIssueFacts(w) \/ LoadChangeRequestFacts(w) \/ LoadAll(w)
             \/ ReadEpisodes(w) \/ Finish(w)
      PROVE  ClosureInv' /\ Keeps(episodes, episodes')
  BY <1>4, FindAffectedStep, LoadIssueFactsStep, LoadChangeRequestFactsStep, LoadAllStep, ReadEpisodesStep,
     FinishStep
<1>5. ASSUME NEW w \in Workers,
             \/ UpsertLink(w) \/ WriteEpisode(w) \/ UpsertUnresolved(w) \/ DeleteAbsentLinks(w)
             \/ DeleteAbsentUnresolved(w)
      PROVE  ClosureInv' /\ Keeps(episodes, episodes')
  BY <1>5, UpsertLinkStep, WriteEpisodeStep, UpsertUnresolvedStep, DeleteAbsentLinksStep,
     DeleteAbsentUnresolvedStep
<1> QED BY <1>1, <1>2, <1>3, <1>4, <1>5 DEF Next

\* The tables hold rows of their types, and one current row per issue: the
\* partial unique index is the only thing the statements rely on.
THEOREM ClosureTypeCorrect == Spec => []TypeOK
<1>1. ClosureInv => TypeOK
  <2> SUFFICES ASSUME ClosureInv PROVE TypeOK OBVIOUS
  <2>1. episodes \in Seq(Rows) BY TrueRowsAreRows DEF ClosureInv, TablesGood
  <2>2. \A w \in Workers : worker[w].pc \in
           {"idle", "affected", "issues", "crfacts", "load", "links", "episodes",
            "absent", "absent_unresolved", "raised", "done"}
    BY DEF ClosureInv, WorkersGood, Jobs, Idle
  <2> QED BY <2>1, <2>2
      DEF ClosureInv, FactsGood, TablesGood, LinksGood, LinkStates, EpisodesGood, UnresolvedGood,
          UnresolvedRows, TypeOK
<1>2. ClosureInv /\ [Next]_vars => ClosureInv' BY ClosureNextInv
<1> QED BY ClosureInitInv, <1>1, <1>2, PTL DEF Spec

(* However stale, interrupted or interleaved the recomputes and rebuilds   *)
(* are, and however many there are, no row says more than the facts: a     *)
(* closed row stands for an observed close, a row that names a change      *)
(* request names one that declared the issue and was merged before the     *)
(* close, and a link row was in some snapshot (closure_projection.py).     *)
THEOREM ClosureIsNeverInvented == Spec => []NothingIsInvented
<1>1. ClosureInv => NothingIsInvented
  <2> SUFFICES ASSUME ClosureInv PROVE NothingIsInvented OBVIOUS
  <2>1. episodes \in Seq(TrueRows(facts)) BY DEF ClosureInv, TablesGood, EpisodesGood
  <2>2. \A k \in DOMAIN episodes : episodes[k] \in TrueRows(facts) BY <2>1
  <2> QED BY <2>2 DEF ClosureInv, TablesGood, LinksGood, NothingIsInvented, TrueRows
<1>2. ClosureInv /\ [Next]_vars => ClosureInv' BY ClosureNextInv
<1> QED BY ClosureInitInv, <1>1, <1>2, PTL DEF Spec

(* No statement of any job deletes an episode row or turns it into the row *)
(* of another close, although each was planned from rows read before other *)
(* jobs wrote theirs (_reconcile_closure_episodes).                        *)
THEOREM RowsKeepTheirClose == Spec => EpisodesKeepTheirClose
<1>1. ClosureInv /\ [Next]_vars =>
        [/\ Len(episodes') >= Len(episodes)
         /\ \A k \in DOMAIN episodes : /\ episodes'[k].issue = episodes[k].issue
                                       /\ episodes'[k].closed = episodes[k].closed]_vars
  <2> SUFFICES ASSUME ClosureInv, [Next]_vars
               PROVE  /\ Len(episodes') >= Len(episodes)
                      /\ \A k \in DOMAIN episodes : /\ episodes'[k].issue = episodes[k].issue
                                                    /\ episodes'[k].closed = episodes[k].closed
    OBVIOUS
  <2> QED BY ClosureNextInv DEF Keeps
<1>2. ClosureInv /\ [Next]_vars => ClosureInv' BY ClosureNextInv
<1> QED BY ClosureInitInv, <1>1, <1>2, PTL DEF Spec, EpisodesKeepTheirClose

-----------------------------------------------------------------------------
(* A job that meets no other.  What it has loaded decides the rows, links  *)
(* and records it has to leave: D, P and Records below.  The invariant     *)
(* says of each of them that it is there for good or that a statement      *)
(* still to come will make it, and that this statement is the only one     *)
(* about its row.                                                          *)

\* The rows a projection of episodes leaves, and what statements will do.
RowsOf(eps)    == {Row(eps[k], k = Len(eps)) : k \in DOMAIN eps}
RowsMade(todo) == {todo[n].row : n \in DOMAIN todo}
Touched(todo)  == {todo[n].id : n \in DOMAIN todo} \ {0}

\* No two of the statements are about the same stored row.
Apart(todo) == \A m, n \in DOMAIN todo : todo[m].id = todo[n].id /\ todo[m].id # 0 => m = n

\* Each of the rows in D is in the table E, where no statement of todo will
\* touch it, or is made by a statement of todo.
RowsOnTrack(E, todo, D) ==
    /\ Apart(todo)
    /\ \A r \in D : r \in RowsMade(todo) \/ \E q \in DOMAIN E : E[q] = r /\ q \notin Touched(todo)

Key(x) == <<x.cr, x.link>>

\* Each of the links P has its state in the table L or is still to be written.
LinksOnTrack(L, todo, P) ==
    /\ Range(todo) \subseteq P
    /\ \A x \in P : x \in Range(todo) \/ L[Key(x)] = x.state

Due(job)     == UNION {RowsOf(ProjectIssueEpisodes(job.loaded, i)) : i \in job.issues}
Records(job) == UNION {Unresolved(ProjectIssueEpisodes(job.loaded, i)) : i \in job.issues}
Relevant(F)  == {f \in F : f.type \in RelevantTypes}

SameRecord(u, v) == u.issue = v.issue /\ u.closed = v.closed /\ u.reason = v.reason

Recomputing == {"affected", "issues", "crfacts"}
Ended       == {"absent", "absent_unresolved", "done"}
Writing     == Ended \cup {"episodes"}
Reconciling == Writing \cup {"links"}

\* Only relevant facts tell two projections apart.
StatesOf(S) ==
    LET apply(t, states) == ApplyViews(states, ResolveTimestampGroup(At(S, t)))
    IN  MapThenFoldSet(apply, [l \in {} |-> None], LAMBDA t : t, Max, {f.at : f \in S})

LEMMA SameStates ==
    ASSUME NEW F, NEW G, Relevant(F) = Relevant(G)
    PROVE  /\ \A c : DeriveLinkStates(F, c) = DeriveLinkStates(G, c) /\ Merged(F, c) = Merged(G, c)
           /\ \A i : Lifecycle(F, i) = Lifecycle(G, i)
           /\ \A i, state : Declaring(F, i, state) = Declaring(G, i, state)
<1>1. ASSUME NEW c PROVE DeriveLinkStates(F, c) = DeriveLinkStates(G, c)
  <2>1. Snapshots(F, c) = Snapshots(G, c) BY DEF Snapshots, Relevant, RelevantTypes
  <2>2. DeriveLinkStates(F, c) = StatesOf(Snapshots(F, c)) BY Zenon DEF DeriveLinkStates, StatesOf
  <2>3. DeriveLinkStates(G, c) = StatesOf(Snapshots(G, c)) BY Zenon DEF DeriveLinkStates, StatesOf
  <2> QED BY <2>1, <2>2, <2>3
<1>2. ASSUME NEW c PROVE Merged(F, c) = Merged(G, c)
  <2>1. {g \in F : g.ent = c /\ g.type = "change_request.merged"}
          = {g \in G : g.ent = c /\ g.type = "change_request.merged"}
    BY DEF Relevant, RelevantTypes
  <2> QED BY <2>1, Zenon DEF Merged
<1>3. ASSUME NEW i PROVE Lifecycle(F, i) = Lifecycle(G, i)
  BY DEF Lifecycle, Relevant, RelevantTypes
<1>4. ASSUME NEW i, NEW state PROVE Declaring(F, i, state) = Declaring(G, i, state)
  BY <1>1 DEF Declaring
<1> QED BY <1>1, <1>2, <1>3, <1>4

LEMMA SameLinks ==
    ASSUME NEW F, NEW G, Relevant(F) = Relevant(G)
    PROVE  ProjectLinks(F) = ProjectLinks(G)
<1>1. \A c : DeriveLinkStates(F, c) = DeriveLinkStates(G, c) BY SameStates
<1> QED BY <1>1 DEF ProjectLinks

LEMMA SameEpisodes ==
    ASSUME NEW F, AreFacts(F), NEW G, AreFacts(G), Relevant(F) = Relevant(G), NEW i \in Issues
    PROVE  ProjectIssueEpisodes(F, i) = ProjectIssueEpisodes(G, i)
<1> DEFINE T == Lifecycle(F, i)
<1>1. /\ \A c : Merged(F, c) = Merged(G, c)
      /\ Lifecycle(G, i) = T
      /\ \A state : Declaring(F, i, state) = Declaring(G, i, state)
  BY SameStates
<1>2. \A crs, t : Eligible(F, crs, t) = Eligible(G, crs, t) BY <1>1 DEF Eligible
<1>3. \A o, t : ClosedEpisode(F, i, o, t) = ClosedEpisode(G, i, o, t) BY <1>1, <1>2 DEF ClosedEpisode
<1>4. \A f, acc : Walked(F, i, f, acc) = Walked(G, i, f, acc) BY <1>3 DEF Walked
<1>5. PICK g : Walking(g, F, i) /\ WalkIssue(F, i, T) = g[T] BY WalkUnfold
<1>6. PICK h : Walking(h, G, i) /\ WalkIssue(G, i, T) = h[T] BY <1>1, WalkUnfold
<1>7. SUBSET T \subseteq {s \in SUBSET T : g[s] = h[s]}
  <2> DEFINE ch == [s \in SUBSET T |-> Latest(s)]
             P == {s \in SUBSET T : g[s] = h[s]}
  <2>1. IsFiniteSet(T) /\ \A s \in SUBSET T : s # {} => Latest(s) \in s BY LifecycleFacts
  <2>2. /\ g[{}] = NoWalk /\ h[{}] = NoWalk
        /\ \A s \in SUBSET T : s # {} => /\ g[s] = Walked(F, i, Latest(s), g[s \ {Latest(s)}])
                                         /\ h[s] = Walked(G, i, Latest(s), h[s \ {Latest(s)}])
    BY <1>1, <1>5, <1>6 DEF Walking
  <2> HIDE DEF T
  <2>3. ASSUME NEW s \in SUBSET T, s # {}, s \ {ch[s]} \in P PROVE s \in P
    BY <1>4, <2>2, <2>3
  <2>4. {} \in P BY <2>2
  <2>5. Chooses(ch, T) BY <2>1 DEF Chooses
  <2>6. Inductive(P, ch, T)
    <3> HIDE DEF P, ch
    <3> QED BY <2>3, <2>4 DEF Inductive
  <2> HIDE DEF P, ch
  <2>7. SUBSET T \subseteq P BY <2>1, <2>5, <2>6, FoldInduction
  <2> QED BY <2>7 DEF P
<1>8. WalkIssue(F, i, T) = WalkIssue(G, i, T) BY <1>5, <1>6, <1>7
<1>9. \A o : OpenEpisode(F, i, o) = OpenEpisode(G, i, o) BY <1>1 DEF OpenEpisode
<1> HIDE DEF T
<1>10. \A end, unseen, declared :
          WithOpenEpisode(F, i, end, unseen, declared) = WithOpenEpisode(G, i, end, unseen, declared)
  BY <1>9 DEF WithOpenEpisode
<1> QED BY <1>1, <1>8, <1>10 DEF ProjectIssueEpisodes, T

\* SetToSeq lists every element of a finite set once.
LEMMA ListedOnce ==
    ASSUME NEW S, IsFiniteSet(S)
    PROVE  LET q == SetToSeq(S)
           IN  q \in Seq(S) /\ Range(q) = S /\ \A m, n \in DOMAIN q : q[m] = q[n] => m = n
<1> DEFINE n == Cardinality(S)
           q == SetToSeq(S)
<1>1. n \in Nat /\ ExistsBijection(1..n, S) BY FS_CardinalityType
<1>2. PICK f : f \in Bijection(1..n, S) BY <1>1 DEF ExistsBijection
<1>3. f \in [1..n -> S] /\ IsInjective(f) BY <1>2 DEF Bijection, Injection, IsInjective
<1>4. q \in [1..n -> S] /\ IsInjective(q) BY <1>3 DEF SetToSeq
<1>5. Range(q) = S
  <2>1. q \in Injection(1..n, S) BY <1>4 DEF Injection, IsInjective
  <2>2. Cardinality(1..n) = Cardinality(S) /\ IsFiniteSet(1..n)
    <3> HIDE DEF q
    <3>1. IsFiniteSet(1..n) /\ Cardinality(1..n) = n BY <1>1, FS_Interval
    <3> QED BY <3>1
  <2> HIDE DEF n, q
  <2>3. q \in Surjection(1..n, S) BY <2>1, <2>2, FS_Injection
  <2> QED BY <1>4, <2>3 DEF Surjection, Range
<1> HIDE DEF n, q
<1>6. q \in Seq(S) /\ \A m, k \in DOMAIN q : q[m] = q[k] => m = k BY <1>1, <1>4 DEF IsInjective
<1> QED BY <1>5, <1>6 DEF q

\* One list of statements after another.
LEMMA Together ==
    ASSUME NEW S, NEW V \in Seq(S), NEW U \in Seq(S), Apart(V), Apart(U),
           Touched(V) \cap Touched(U) = {}
    PROVE  LET W == V \o U
           IN  /\ W \in Seq(S) /\ Apart(W) /\ Touched(W) = Touched(V) \cup Touched(U)
               /\ RowsMade(W) = RowsMade(V) \cup RowsMade(U)
<1> DEFINE W == V \o U
           a == Len(V)
           b == Len(U)
<1>1. /\ a \in Nat /\ b \in Nat /\ W \in Seq(S) /\ DOMAIN W = 1..(a + b)
      /\ DOMAIN V = 1..a /\ DOMAIN U = 1..b
      /\ \A n \in 1..a : W[n] = V[n]
      /\ \A n \in 1..b : W[a + n] = U[n]
  OBVIOUS
<1> HIDE DEF W, a, b
<1>2. \A n \in DOMAIN W : \/ n \in 1..a /\ W[n] = V[n]
                          \/ \E k \in 1..b : n = a + k /\ W[n] = U[k]
  <2> SUFFICES ASSUME NEW n \in 1..(a + b), n \notin 1..a PROVE \E k \in 1..b : n = a + k /\ W[n] = U[k]
    BY <1>1
  <2>1. n - a \in 1..b /\ n = a + (n - a) BY <1>1
  <2> QED BY <1>1, <2>1
<1>3. /\ \A n \in 1..a : n \in DOMAIN W
      /\ \A n \in 1..b : a + n \in DOMAIN W
  BY <1>1
<1>0. DOMAIN V = 1..a /\ DOMAIN U = 1..b BY <1>1
<1>4. ASSUME NEW n \in 1..b PROVE \E k \in DOMAIN W : W[k] = U[n]
  <2>1. a + n \in DOMAIN W BY <1>3
  <2>2. W[a + n] = U[n] BY <1>1
  <2> QED BY <2>1, <2>2, Zenon
<1>5. /\ Touched(W) = Touched(V) \cup Touched(U)
      /\ RowsMade(W) = RowsMade(V) \cup RowsMade(U)
  <2>1. ASSUME NEW n \in DOMAIN W
        PROVE  /\ W[n].id # 0 => W[n].id \in Touched(V) \cup Touched(U)
               /\ W[n].row \in RowsMade(V) \cup RowsMade(U)
    <3>1. CASE n \in 1..a /\ W[n] = V[n] BY <1>1, <3>1 DEF Touched, RowsMade
    <3>2. ASSUME NEW k \in 1..b, W[n] = U[k]
          PROVE  /\ W[n].id # 0 => W[n].id \in Touched(V) \cup Touched(U)
                 /\ W[n].row \in RowsMade(V) \cup RowsMade(U)
      BY <1>1, <3>2 DEF Touched, RowsMade
    <3> QED BY <1>2, <3>1, <3>2
  <2>2. \A n \in 1..a : (V[n].id # 0 => V[n].id \in Touched(W)) /\ V[n].row \in RowsMade(W)
    BY <1>1, <1>3 DEF Touched, RowsMade
  <2>3. \A n \in 1..b : (U[n].id # 0 => U[n].id \in Touched(W)) /\ U[n].row \in RowsMade(W)
    BY <1>4 DEF Touched, RowsMade
  <2>4. Touched(W) \subseteq Touched(V) \cup Touched(U)
    <3>1. \A k \in Touched(W) : k # 0 /\ \E n \in DOMAIN W : k = W[n].id BY Zenon DEF Touched
    <3> QED BY <2>1, <3>1
  <2>5. RowsMade(W) \subseteq RowsMade(V) \cup RowsMade(U)
    <3>1. \A r \in RowsMade(W) : \E n \in DOMAIN W : r = W[n].row BY Zenon DEF RowsMade
    <3> QED BY <2>1, <3>1
  <2>6. Touched(V) \subseteq Touched(W) /\ RowsMade(V) \subseteq RowsMade(W)
    <3>1. \A k \in Touched(V) : k # 0 /\ \E n \in DOMAIN V : k = V[n].id BY Zenon DEF Touched
    <3>2. \A r \in RowsMade(V) : \E n \in DOMAIN V : r = V[n].row BY Zenon DEF RowsMade
    <3> QED BY <1>0, <2>2, <3>1, <3>2
  <2>7. Touched(U) \subseteq Touched(W) /\ RowsMade(U) \subseteq RowsMade(W)
    <3>1. \A k \in Touched(U) : k # 0 /\ \E n \in DOMAIN U : k = U[n].id BY Zenon DEF Touched
    <3>2. \A r \in RowsMade(U) : \E n \in DOMAIN U : r = U[n].row BY Zenon DEF RowsMade
    <3> QED BY <1>0, <2>3, <3>1, <3>2
  <2> QED BY <2>4, <2>5, <2>6, <2>7
<1>6. Apart(W)
  <2> SUFFICES ASSUME NEW m \in DOMAIN W, NEW n \in DOMAIN W, W[m].id = W[n].id, W[m].id # 0
               PROVE  m = n
    BY DEF Apart
  <2>1. \A k \in 1..a : V[k].id # 0 => V[k].id \in Touched(V) BY <1>0 DEF Touched
  <2>2. \A k \in 1..b : U[k].id # 0 => U[k].id \in Touched(U) BY <1>0 DEF Touched
  <2>3. CASE m \in 1..a /\ W[m] = V[m] /\ n \in 1..a /\ W[n] = V[n] BY <1>1, <2>3 DEF Apart
  <2>4. CASE \E j, k \in 1..b : m = a + j /\ W[m] = U[j] /\ n = a + k /\ W[n] = U[k]
    BY <1>1, <2>4 DEF Apart
  <2> QED BY <1>2, <2>1, <2>2, <2>3, <2>4
<1> QED BY <1>1, <1>5, <1>6 DEF W

\* The statements for one issue make each row once, and touch no row of
\* another issue.
Plans(todo, i, eps) ==
    /\ RowsOf(eps) \subseteq RowsMade(todo)
    /\ Touched(todo) \subseteq StoredFor(i)
    /\ Apart(todo)

LEMMA PlanIsWhole ==
    ASSUME episodes \in Seq(Rows), NEW F, AreFacts(F), NEW i \in Issues
    PROVE  Plans(PlanIssue(i, ProjectIssueEpisodes(F, i)), i, ProjectIssueEpisodes(F, i))
<1> DEFINE eps == ProjectIssueEpisodes(F, i)
           stored == StoredFor(i)
           id(e) == IF Match(stored, e) = {} THEN 0 ELSE Max(Match(stored, e))
           gone == {k \in stored : episodes[k].current /\ \A e \in Range(eps) : id(e) # k}
           V == [k \in DOMAIN eps |-> [id |-> id(eps[k]), row |-> Row(eps[k], k = Len(eps))]]
           rest == {[id |-> k, row |-> None] : k \in gone}
           U == SetToSeq(rest)
<1>1. PlanIssue(i, eps) = V \o U
  <2>1. stored = {k \in DOMAIN episodes : episodes[k].issue = i} BY DEF StoredFor
  <2> QED BY <2>1 DEF PlanIssue
<1>2. Projected(F, i, eps) BY EpisodesAre
<1>3. DOMAIN episodes = 1..Len(episodes) /\ Len(episodes) \in Nat OBVIOUS
<1>4. \A e : id(e) # 0 => SameClose(id(e), i, e) BY MatchIs
<1>5. \A e : id(e) # 0 => id(e) \in stored BY <1>4 DEF SameClose, StoredFor
<1>6. IsFiniteSet(rest)
  <2> DEFINE f == [k \in gone |-> [id |-> k, row |-> None]]
  <2>1. IsFiniteSet(DOMAIN episodes) BY <1>3, FS_Interval
  <2>2. gone \subseteq DOMAIN episodes BY DEF StoredFor
  <2>3. rest = {f[k] : k \in gone} OBVIOUS
  <2> HIDE DEF f, gone, rest
  <2> QED BY <2>1, <2>2, <2>3, FS_Subset, FiniteImage
<1>7. U \in Seq(rest) /\ Range(U) = rest /\ \A m, n \in DOMAIN U : U[m] = U[n] => m = n
  <2> HIDE DEF rest
  <2> QED BY <1>6, ListedOnce
<1>8. \A n \in DOMAIN U : \E k \in gone : U[n] = [id |-> k, row |-> None]
  <2> HIDE DEF U, gone
  <2>1. \A n \in DOMAIN U : U[n] \in rest BY <1>7 DEF Range
  <2> QED BY <2>1
<1>9. gone \subseteq stored /\ \A k \in gone : \A e \in Range(eps) : id(e) # k OBVIOUS
<1> HIDE DEF U, gone
<1>10. \A n \in DOMAIN eps : V[n].id = id(eps[n]) /\ V[n].row = Row(eps[n], n = Len(eps)) OBVIOUS
<1>11. DOMAIN V = DOMAIN eps OBVIOUS
<1>12. ASSUME NEW m \in DOMAIN eps, NEW n \in DOMAIN eps, m < n PROVE eps[m].closed # eps[n].closed
  <2> HIDE DEF eps
  <2>1. eps[m] \in EpisodeType /\ eps[n] \in EpisodeType BY <1>2 DEF Projected
  <2>2. eps[m].closed = None => m = Len(eps) BY <1>2 DEF Projected
  <2>3. DOMAIN eps = 1..Len(eps) /\ Len(eps) \in Nat BY <1>2 DEF Projected
  <2>4. eps[m].closed # None BY <1>12, <2>2, <2>3
  <2>5. eps[n].closed # None => eps[m].closed < eps[n].closed BY <1>2, <1>12 DEF Projected
  <2>6. eps[m].closed \in Nat /\ (eps[n].closed # None => eps[n].closed \in Nat)
    BY <2>1, <2>4 DEF EpisodeType, Opened
  <2> QED BY <2>4, <2>5, <2>6
<1> HIDE DEF V, id
<1>13. Apart(V)
  <2> SUFFICES ASSUME NEW m \in DOMAIN eps, NEW n \in DOMAIN eps, V[m].id = V[n].id, V[m].id # 0, m # n
               PROVE  FALSE
    BY <1>11 DEF Apart
  <2>1. SameClose(id(eps[m]), i, eps[m]) /\ SameClose(id(eps[m]), i, eps[n]) BY <1>4, <1>10
  <2>2. eps[m].closed = eps[n].closed BY <2>1 DEF SameClose
  <2>3. m < n \/ n < m
    <3>1. DOMAIN eps = 1..Len(eps) /\ Len(eps) \in Nat
      <4> HIDE DEF eps
      <4> QED BY <1>2 DEF Projected
    <3> HIDE DEF eps
    <3> QED BY <3>1
  <2> HIDE DEF eps
  <2> QED BY <1>12, <2>2, <2>3
<1>14. Apart(U)
  <2> SUFFICES ASSUME NEW m \in DOMAIN U, NEW n \in DOMAIN U, U[m].id = U[n].id PROVE m = n
    BY DEF Apart
  <2>1. U[m] = U[n] BY <1>8
  <2> QED BY <1>7, <2>1
<1>15. Touched(V) \subseteq stored BY <1>5, <1>10, <1>11 DEF Touched
<1>16. Touched(U) \subseteq stored BY <1>8, <1>9 DEF Touched
<1>17. Touched(V) \cap Touched(U) = {}
  <2> SUFFICES ASSUME NEW m \in DOMAIN eps, NEW n \in DOMAIN U, V[m].id = U[n].id PROVE FALSE
    BY <1>11 DEF Touched
  <2>1. PICK k \in gone : U[n] = [id |-> k, row |-> None] BY <1>8
  <2>2. eps[m] \in Range(eps) BY DEF Range
  <2> QED BY <1>9, <1>10, <2>1, <2>2
<1>18. RowsOf(eps) \subseteq RowsMade(V) BY <1>10, <1>11 DEF RowsOf, RowsMade
<1>19. \E S : V \in Seq(S) /\ U \in Seq(S)
  <2> DEFINE S == {V[n] : n \in DOMAIN eps} \cup rest
  <2>1. DOMAIN eps = 1..Len(eps) /\ Len(eps) \in Nat
    <3> HIDE DEF eps
    <3> QED BY <1>2 DEF Projected
  <2>2. V = [n \in DOMAIN eps |-> V[n]] BY DEF V
  <2>3. V \in [1..Len(eps) -> S]
    <3> HIDE DEF eps, rest
    <3> QED BY <2>1, <2>2
  <2>4. rest \subseteq S OBVIOUS
  <2> HIDE DEF S, rest, eps
  <2>5. V \in Seq(S) BY <2>1, <2>3
  <2>6. U \in Seq(S) BY <1>7, <2>4, SeqGrows
  <2> QED BY <2>5, <2>6
<1> HIDE DEF eps, rest, stored
<1>20. PICK S : V \in Seq(S) /\ U \in Seq(S) BY <1>19
<1>21. /\ Apart(V \o U) /\ Touched(V \o U) = Touched(V) \cup Touched(U)
       /\ RowsMade(V \o U) = RowsMade(V) \cup RowsMade(U)
  BY <1>13, <1>14, <1>17, <1>20, Together
<1>22. Plans(V \o U, i, eps) BY <1>15, <1>16, <1>18, <1>21 DEF Plans, stored
<1> QED BY <1>1, <1>22 DEF eps

LEMMA PlansAreWhole ==
    ASSUME NEW eps, NEW S, IsFiniteSet(S), NEW W,
           \A i \in S : PlanIssue(i, eps[i]) \in Seq(W) /\ Plans(PlanIssue(i, eps[i]), i, eps[i])
    PROVE  /\ Apart(Collected(eps, S))
           /\ \A i \in S : RowsOf(eps[i]) \subseteq RowsMade(Collected(eps, S))
<1>0. PICK g : Collects(g, eps, S)
  <2>1. \A i \in S : PlanIssue(i, eps[i]) \in Seq(W) OBVIOUS
  <2> QED BY <2>1, PlansUnfold
<1>1. /\ g[{}] = <<>> /\ Collected(eps, S) = g[S]
      /\ \A s \in SUBSET S : s # {} =>
            g[s] = g[s \ {Pick(s)}] \o PlanIssue(Pick(s), eps[Pick(s)])
  BY <1>0 DEF Collects
<1> DEFINE ch == [s \in SUBSET S |-> Pick(s)]
           Whole(s) == /\ g[s] \in Seq(W) /\ Apart(g[s])
                       /\ Touched(g[s]) \subseteq {k \in DOMAIN episodes : episodes[k].issue \in s}
                       /\ \A i \in s : RowsOf(eps[i]) \subseteq RowsMade(g[s])
           P == {s \in SUBSET S : Whole(s)}
<1>2. Chooses(ch, S) BY PickIsIn DEF Chooses
<1>3. {} \in P
  <2>1. <<>> \in Seq(W) /\ DOMAIN <<>> = {} OBVIOUS
  <2>2. Apart(<<>>) /\ Touched(<<>>) = {} BY <2>1, Zenon DEF Apart, Touched
  <2> QED BY <1>1, <2>1, <2>2
<1>4. ASSUME NEW s \in SUBSET S, s # {}, s \ {ch[s]} \in P PROVE s \in P
  <2> DEFINE i == Pick(s)
             t == s \ {i}
             a == g[t]
             b == PlanIssue(i, eps[i])
  <2>1. i \in s /\ i \in S /\ ch[s] = i BY <1>4, PickIsIn
  <2>2. Whole(t) BY <1>4, <2>1
  <2>3. g[s] = a \o b BY <1>1, <1>4
  <2>4. b \in Seq(W) /\ Plans(b, i, eps[i]) BY <2>1
  <2> HIDE DEF i, a, b
  <2>5. Touched(a) \cap Touched(b) = {} BY <2>2, <2>4 DEF Plans, StoredFor, a
  <2>6. /\ g[s] \in Seq(W) /\ Apart(g[s]) /\ Touched(g[s]) = Touched(a) \cup Touched(b)
        /\ RowsMade(g[s]) = RowsMade(a) \cup RowsMade(b)
    <3>1. a \in Seq(W) /\ Apart(a) /\ Apart(b) BY <2>2, <2>4 DEF Plans, a
    <3> QED BY <2>3, <2>4, <2>5, <3>1, Together
  <2>7. Touched(g[s]) \subseteq {k \in DOMAIN episodes : episodes[k].issue \in s}
    BY <2>1, <2>2, <2>4, <2>6 DEF Plans, StoredFor, a
  <2>8. ASSUME NEW j \in s PROVE RowsOf(eps[j]) \subseteq RowsMade(g[s])
    <3>1. CASE j = i BY <2>4, <2>6, <3>1 DEF Plans
    <3>2. CASE j \in t BY <2>2, <2>6, <3>2 DEF a
    <3> QED BY <3>1, <3>2
  <2> QED BY <2>6, <2>7, <2>8
<1>5. Inductive(P, ch, S)
  <2> HIDE DEF P, ch
  <2> QED BY <1>3, <1>4 DEF Inductive
<1>6. S \in P
  <2> HIDE DEF P, ch
  <2> QED BY <1>2, <1>5, FoldInduction
<1>7. Whole(S) BY <1>6
<1> QED BY <1>1, <1>7

\* What reconciling plans: every row that is due is made by a statement.
LEMMA ReadIsOnTrack ==
    ASSUME AreFacts(facts), episodes \in Seq(Rows), NEW job \in Jobs(facts, episodes)
    PROVE  LET next == ReconcileClosureEpisodes(job, [i \in job.issues |-> ProjectIssueEpisodes(job.loaded, i)])
           IN  RowsOnTrack(episodes, next.writes, Due(job)) /\ next.unresolved = Records(job)
<1> DEFINE eps == [i \in job.issues |-> ProjectIssueEpisodes(job.loaded, i)]
           has == {i \in job.issues : eps[i] # <<>>}
           W == Statements(job.loaded, episodes)
           writes == Collected(eps, has)
           next == ReconcileClosureEpisodes(job, eps)
<1>1. job.issues \subseteq Issues /\ AreFacts(job.loaded)
  <2>1. job.issues \subseteq Issues /\ job.loaded \subseteq facts BY DEF Jobs
  <2> QED BY <2>1, FactsOfFacts
<1>2. IsFiniteSet(has)
  <2>1. has \subseteq Issues BY <1>1
  <2> HIDE DEF has
  <2> QED BY <2>1, FS_Subset, EpisodesAssumption
<1>3. \A i \in has : PlanIssue(i, eps[i]) \in Seq(W) /\ Plans(PlanIssue(i, eps[i]), i, eps[i])
  <2> SUFFICES ASSUME NEW i \in job.issues
               PROVE  PlanIssue(i, eps[i]) \in Seq(W) /\ Plans(PlanIssue(i, eps[i]), i, eps[i])
    OBVIOUS
  <2>1. eps[i] = ProjectIssueEpisodes(job.loaded, i) OBVIOUS
  <2> HIDE DEF eps
  <2> QED BY <1>1, <2>1, PlanIsGood, PlanIsWhole
<1>4. Apart(writes) /\ \A i \in has : RowsOf(eps[i]) \subseteq RowsMade(writes)
  <2> HIDE DEF has, eps, W
  <2> QED BY <1>2, <1>3, PlansAreWhole
<1>5. Due(job) \subseteq RowsMade(writes)
  <2> SUFFICES ASSUME NEW i \in job.issues PROVE RowsOf(eps[i]) \subseteq RowsMade(writes)
    BY DEF Due
  <2>1. CASE eps[i] = <<>>
    <3>1. DOMAIN eps[i] = {} BY <2>1
    <3> QED BY <3>1 DEF RowsOf
  <2>2. CASE eps[i] # <<>> BY <1>4, <2>2
  <2> QED BY <2>1, <2>2
<1>6. next.writes = writes /\ next.unresolved = UNION {Unresolved(eps[i]) : i \in job.issues}
  <2>1. next = [job EXCEPT !.pc = "episodes", !.writes = writes,
                           !.unresolved = UNION {Unresolved(eps[i]) : i \in job.issues}]
    BY DEF ReconcileClosureEpisodes, Collected
  <2> HIDE DEF next, writes, eps
  <2> QED BY <2>1 DEF Jobs
<1>7. UNION {Unresolved(eps[i]) : i \in job.issues} = Records(job) BY DEF Records
<1> HIDE DEF next, writes, eps
<1>8. RowsOnTrack(episodes, next.writes, Due(job)) /\ next.unresolved = Records(job)
  BY <1>4, <1>5, <1>6, <1>7 DEF RowsOnTrack
<1> QED BY <1>8 DEF next, eps

\* A statement that is carried out makes its row, where no other will touch it.
LEMMA StatementIsOnTrack ==
    ASSUME NEW F, NEW E \in Seq(TrueRows(F)), NEW todo \in Seq(Statements(F, E)), todo # <<>>,
           NEW D, D \subseteq Rows, RowsOnTrack(E, todo, D),
           NEW rows, rows = IF Head(todo).id = 0 THEN Append(E, Head(todo).row)
                            ELSE [E EXCEPT ![Head(todo).id] = IF Head(todo).row = None THEN Supersede(@)
                                                              ELSE Head(todo).row]
    PROVE  RowsOnTrack(rows, Tail(todo), D)
<1> DEFINE s == Head(todo)
           rest == Tail(todo)
           n == Len(E)
           m == Len(todo)
<1>1. n \in Nat /\ DOMAIN E = 1..n /\ m \in Nat /\ m # 0 /\ DOMAIN todo = 1..m /\ s = todo[1]
  OBVIOUS
<1>2. DOMAIN rest = 1..(m - 1) /\ \A k \in 1..(m - 1) : rest[k] = todo[k + 1] OBVIOUS
<1>3. \A k \in 1..m : todo[k].id = 0 \/ todo[k].id \in 1..n
  <2> SUFFICES ASSUME NEW k \in 1..m PROVE todo[k].id = 0 \/ todo[k].id \in 1..n OBVIOUS
  <2> DEFINE x == todo[k]
  <2>1. x \in Statements(F, E) OBVIOUS
  <2> HIDE DEF x, n
  <2>2. x.id = 0 \/ x.id \in DOMAIN E BY <2>1 DEF Statements, Inserts, Updates
  <2> QED BY <1>1, <2>2 DEF x
<1> HIDE DEF s, rest, n, m
<1>4. 1 \in 1..m /\ \A k \in 1..(m - 1) : k + 1 \in 1..m /\ k + 1 # 1 BY <1>1
<1>5. Apart(rest)
  <2> SUFFICES ASSUME NEW j \in 1..(m - 1), NEW k \in 1..(m - 1), rest[j].id = rest[k].id, rest[j].id # 0
               PROVE  j = k
    BY <1>2 DEF Apart
  <2> DEFINE a == j + 1
             b == k + 1
  <2>1. a \in DOMAIN todo /\ b \in DOMAIN todo /\ rest[j] = todo[a] /\ rest[k] = todo[b]
    BY <1>1, <1>2, <1>4
  <2> HIDE DEF a, b
  <2>2. a = b BY <2>1 DEF RowsOnTrack, Apart
  <2> QED BY <2>2 DEF a, b
<1>6. Touched(rest) \subseteq Touched(todo) /\ (s.id # 0 => s.id \notin Touched(rest))
  <2>1. Touched(rest) \subseteq Touched(todo) BY <1>1, <1>2, <1>4 DEF Touched
  <2>2. ASSUME s.id # 0, s.id \in Touched(rest) PROVE FALSE
    <3>1. PICK k \in 1..(m - 1) : s.id = rest[k].id BY <1>2, <2>2 DEF Touched
    <3> DEFINE b == k + 1
    <3>2. 1 \in DOMAIN todo /\ b \in DOMAIN todo /\ rest[k] = todo[b] /\ b # 1 BY <1>1, <1>2, <1>4
    <3> HIDE DEF b
    <3> QED BY <1>1, <2>2, <3>1, <3>2 DEF RowsOnTrack, Apart
  <2> QED BY <2>1, <2>2
<1>7. Touched(todo) \subseteq 1..n BY <1>1, <1>3 DEF Touched
<1>8. \A r \in RowsMade(todo) : r = s.row \/ r \in RowsMade(rest)
  <2> SUFFICES ASSUME NEW k \in 1..m, k # 1 PROVE todo[k].row \in RowsMade(rest)
    BY <1>1 DEF RowsMade
  <2>1. k - 1 \in 1..(m - 1) /\ (k - 1) + 1 = k BY <1>1
  <2>2. rest[k - 1] = todo[k] BY <1>2, <2>1
  <2> QED BY <1>2, <2>1, <2>2 DEF RowsMade
<1>9. s.id # 0 => s.id \in 1..n /\ s.id \in Touched(todo) BY <1>1, <1>3, <1>4 DEF Touched
<1>10. /\ \A q \in 1..n : q \in DOMAIN rows /\ (q # s.id => rows[q] = E[q])
       /\ s.row \in Rows => \E q \in DOMAIN rows : rows[q] = s.row /\ q \notin Touched(rest)
  <2>1. CASE s.id = 0
    <3>1. rows = Append(E, s.row) BY <2>1 DEF s
    <3>2. /\ DOMAIN rows = 1..(n + 1) /\ rows[n + 1] = s.row
          /\ \A q \in 1..n : rows[q] = E[q]
      BY <3>1 DEF n
    <3>3. n + 1 \notin Touched(rest) BY <1>1, <1>6, <1>7
    <3>4. n + 1 \in 1..(n + 1) /\ \A q \in 1..n : q \in 1..(n + 1) BY <1>1
    <3> QED BY <3>2, <3>3, <3>4
  <2>2. CASE s.id # 0
    <3>1. rows = [E EXCEPT ![s.id] = IF s.row = None THEN Supersede(@) ELSE s.row] BY <2>2 DEF s
    <3>2. DOMAIN rows = 1..n /\ \A q \in 1..n : q # s.id => rows[q] = E[q] BY <1>1, <3>1
    <3>3. s.row \in Rows => rows[s.id] = s.row BY <1>1, <1>9, <2>2, <3>1, RowsAssumption
    <3> QED BY <1>6, <1>9, <2>2, <3>2, <3>3
  <2> QED BY <2>1, <2>2
<1>11. ASSUME NEW r \in D
       PROVE  r \in RowsMade(rest) \/ \E q \in DOMAIN rows : rows[q] = r /\ q \notin Touched(rest)
  <2>1. CASE r \in RowsMade(todo) BY <1>8, <1>10, <2>1
  <2>2. ASSUME NEW q \in DOMAIN E, E[q] = r, q \notin Touched(todo)
        PROVE  \E p \in DOMAIN rows : rows[p] = r /\ p \notin Touched(rest)
    <3>1. q # s.id /\ q \in 1..n BY <1>1, <1>9, <2>2
    <3> QED BY <1>6, <1>10, <2>2, <3>1
  <2> QED BY <2>1, <2>2 DEF RowsOnTrack
<1> QED BY <1>5, <1>11 DEF RowsOnTrack, rest

-----------------------------------------------------------------------------
(* The invariant of such a job, and what a finished one leaves.            *)

\* How far a job that is alone has got with what it loaded.
OnTrack(job) ==
    /\ job.pc \in Recomputing => job.window = None
    /\ job.pc \in Reconciling /\ job.window = All =>
         /\ job.issues = Issues /\ job.loaded = Relevant(facts)
         /\ LinksOnTrack(links, job.links, ProjectLinks(job.loaded))
    /\ job.pc \in Writing =>
         job.links = <<>> /\ RowsOnTrack(episodes, job.writes, Due(job)) /\ job.unresolved = Records(job)
    /\ job.pc \in Ended =>
         /\ job.writes = <<>>
         /\ job.unresolved \subseteq unresolved
         /\ \A u \in unresolved : (\E v \in job.unresolved : SameRecord(u, v)) => u \in job.unresolved
    /\ job.pc \in {"absent_unresolved", "done"} /\ job.window = All =>
         \A k \in LinkKeys : links[k] # None => \E x \in ProjectLinks(job.loaded) : Key(x) = k
    /\ job.pc = "done" /\ job.window = All => unresolved = job.unresolved

AtRest(w) == worker[w].pc = "idle"

\* A job that met no other is alone, and on its way.
AloneOnTrack ==
    \A w \in Workers : ~ AtRest(w) /\ worker[w].clean =>
        (\A v \in Workers \ {w} : AtRest(v)) /\ OnTrack(worker[w])

LEMMA LinksHaveKeys ==
    ASSUME NEW F, AreFacts(F)
    PROVE  /\ \A x \in ProjectLinks(F) :
                  /\ x = [cr |-> x.cr, link |-> x.link, state |-> x.state]
                  /\ x.cr \in ChangeRequests /\ x.link \in Links /\ x.link[2] \in Issues
                  /\ Key(x) \in LinkKeys /\ x.state \in LinkStates
           /\ \A x, y \in ProjectLinks(F) : Key(x) = Key(y) => x = y
<1>1. \A x \in ProjectLinks(F) : x \in [cr : ChangeRequests, link : Links, state : LinkStates]
  BY LinksPlanned DEF TrueLinks
<1>2. ASSUME NEW x \in ProjectLinks(F), NEW y \in ProjectLinks(F), Key(x) = Key(y) PROVE x = y
  <2>1. x.state = DeriveLinkStates(F, x.cr)[x.link] /\ y.state = DeriveLinkStates(F, y.cr)[y.link]
    BY DEF ProjectLinks
  <2>2. x.cr = y.cr /\ x.link = y.link BY <1>2 DEF Key
  <2>3. x = [cr |-> x.cr, link |-> x.link, state |-> x.state] BY <1>1
  <2>4. y = [cr |-> y.cr, link |-> y.link, state |-> y.state] BY <1>1
  <2> QED BY <2>1, <2>2, <2>3, <2>4
<1>3. \A l \in Links : l[2] \in Issues BY DEF Links
<1> QED BY <1>1, <1>2, <1>3 DEF Key, LinkKeys

\* A job that goes on, alone if it was alone before.
LEMMA TrackMoves ==
    ASSUME ClosureInv, AloneOnTrack, NEW w \in Workers, NEW job, job = worker[w], job.pc # "idle",
           NEW next, worker' = [worker EXCEPT ![w] = next],
           next.pc = "idle" \/ (next.clean = job.clean /\ (OnTrack(job) => OnTrack(next)'))
    PROVE  AloneOnTrack'
<1> SUFFICES ASSUME NEW u \in Workers, worker'[u].pc # "idle", worker'[u].clean
             PROVE  (\A v \in Workers \ {u} : worker'[v].pc = "idle") /\ OnTrack(worker[u])'
  BY DEF AloneOnTrack, AtRest
<1>1. DOMAIN worker = Workers BY DEF ClosureInv, WorkersGood
<1>2. CASE u = w
  <2>1. worker'[u] = next BY <1>1, <1>2
  <2>2. next.clean = job.clean /\ (OnTrack(job) => OnTrack(next)') BY <2>1
  <2>3. (\A v \in Workers \ {w} : worker[v].pc = "idle") /\ OnTrack(job)
    BY <2>1, <2>2 DEF AloneOnTrack, AtRest
  <2>4. OnTrack(next)' BY <2>2, <2>3
  <2>5. OnTrack(worker[u])' BY <2>1, <2>4 DEF OnTrack
  <2> QED BY <1>1, <1>2, <2>3, <2>5
<1>3. CASE u # w
  <2>1. worker'[u] = worker[u] BY <1>1, <1>3
  <2>2. worker[w].pc = "idle" BY <1>3, <2>1 DEF AloneOnTrack, AtRest
  <2> QED BY <2>2
<1> QED BY <1>2, <1>3

\* Nothing that tells where a job is has happened.
LEMMA JobAt ==
    ASSUME ClosureInv, NEW w \in Workers, worker[w].pc # "idle"
    PROVE  \E job \in Jobs(facts, episodes) : job = worker[w]
BY AtWork DEF ClosureInv

LEMMA FindAffectedOnTrack ==
    ASSUME ClosureInv, AloneOnTrack, NEW w \in Workers, FindAffected(w)
    PROVE  AloneOnTrack'
<1>1. worker[w].pc = "affected" BY DEF FindAffected
<1>2. PICK job \in Jobs(facts, episodes) : job = worker[w] BY <1>1, JobAt
<1>3. \E hit : worker' = [worker EXCEPT ![w] = IF hit = {} THEN Idle
                                                 ELSE [job EXCEPT !.issues = hit, !.pc = "issues"]]
  BY <1>2 DEF FindAffected
<1>4. PICK hit : worker' = [worker EXCEPT ![w] = IF hit = {} THEN Idle
                                                   ELSE [job EXCEPT !.issues = hit, !.pc = "issues"]]
  BY <1>3
<1>5. CASE hit = {}
  <2>1. worker' = [worker EXCEPT ![w] = Idle] BY <1>4, <1>5
  <2>2. Idle.pc = "idle" BY DEF Idle
  <2> QED BY <1>1, <1>2, <2>1, <2>2, TrackMoves
<1>6. CASE hit # {}
  <2>1. PICK next : next = [job EXCEPT !.issues = hit, !.pc = "issues"] OBVIOUS
  <2>2. worker' = [worker EXCEPT ![w] = next] BY <1>4, <1>6, <2>1
  <2>3. next.pc = "issues" /\ next.clean = job.clean /\ next.window = job.window BY <2>1 DEF Jobs
  <2>4. OnTrack(job) => OnTrack(next)'
    BY <1>1, <1>2, <2>3 DEF OnTrack, Recomputing, Ended, Writing, Reconciling
  <2> QED BY <1>1, <1>2, <2>2, <2>3, <2>4, TrackMoves
<1> QED BY <1>5, <1>6

LEMMA LoadIssueFactsOnTrack ==
    ASSUME ClosureInv, AloneOnTrack, NEW w \in Workers, LoadIssueFacts(w)
    PROVE  AloneOnTrack'
<1>1. worker[w].pc = "issues" BY DEF LoadIssueFacts
<1>2. PICK job \in Jobs(facts, episodes) : job = worker[w] BY <1>1, JobAt
<1>3. \E loaded, crs : worker' = [worker EXCEPT ![w].pc = "crfacts", ![w].loaded = loaded, ![w].crs = crs]
  BY <1>2 DEF LoadIssueFacts
<1>4. PICK loaded, crs : worker' = [worker EXCEPT ![w].pc = "crfacts", ![w].loaded = loaded, ![w].crs = crs]
  BY <1>3
<1>5. PICK next : next = [job EXCEPT !.pc = "crfacts", !.loaded = loaded, !.crs = crs] OBVIOUS
<1>6. worker' = [worker EXCEPT ![w] = next] BY <1>2, <1>4, <1>5 DEF ClosureInv, WorkersGood
<1>7. next.pc = "crfacts" /\ next.clean = job.clean /\ next.window = job.window BY <1>5 DEF Jobs
<1>8. OnTrack(job) => OnTrack(next)'
  BY <1>1, <1>2, <1>7 DEF OnTrack, Recomputing, Ended, Writing, Reconciling
<1> QED BY <1>1, <1>2, <1>6, <1>7, <1>8, TrackMoves

\* The fields of a plan.
LEMMA PlannedFields ==
    ASSUME NEW job \in Jobs(facts, episodes), NEW loaded, NEW issues, NEW linkIssues
    PROVE  LET next == Planned(job, loaded, issues, linkIssues)
           IN  /\ next.pc = "links" /\ next.clean = job.clean /\ next.window = job.window
               /\ next.issues = issues /\ next.loaded = loaded
               /\ next.links = SetToSeq({x \in ProjectLinks(loaded) : x.link[2] \in linkIssues})
<1> DEFINE s == SetToSeq({x \in ProjectLinks(loaded) : x.link[2] \in linkIssues})
           next == Planned(job, loaded, issues, linkIssues)
<1>1. next = [job EXCEPT !.pc = "links", !.issues = issues, !.loaded = loaded, !.links = s,
                         !.seed = None, !.crs = {}]
  BY DEF Planned
<1> HIDE DEF next, s
<1>2. /\ next.pc = "links" /\ next.clean = job.clean /\ next.window = job.window
      /\ next.issues = issues /\ next.loaded = loaded /\ next.links = s
  BY <1>1 DEF Jobs
<1> QED BY <1>2 DEF next, s

LEMMA LoadChangeRequestFactsOnTrack ==
    ASSUME ClosureInv, AloneOnTrack, NEW w \in Workers, LoadChangeRequestFacts(w)
    PROVE  AloneOnTrack'
<1>1. worker[w].pc = "crfacts" BY DEF LoadChangeRequestFacts
<1>2. PICK job \in Jobs(facts, episodes) : job = worker[w] BY <1>1, JobAt
<1>3. \E loaded, issues : worker' = [worker EXCEPT ![w] = Planned(job, loaded, issues, Issues)]
  BY <1>2 DEF LoadChangeRequestFacts
<1>4. PICK loaded, issues : worker' = [worker EXCEPT ![w] = Planned(job, loaded, issues, Issues)] BY <1>3
<1>5. PICK next : next = Planned(job, loaded, issues, Issues) OBVIOUS
<1>6. next.pc = "links" /\ next.clean = job.clean /\ next.window = job.window
  <2>1. /\ next.pc = "links" /\ next.clean = job.clean /\ next.window = job.window
        /\ next.issues = issues /\ next.loaded = loaded
        /\ next.links = SetToSeq({x \in ProjectLinks(loaded) : x.link[2] \in Issues})
    BY <1>5, PlannedFields
  <2> QED BY <2>1
<1>7. OnTrack(job) => OnTrack(next)'
  BY <1>1, <1>2, <1>6, ClosureAssumption DEF OnTrack, Recomputing, Ended, Writing, Reconciling
<1> QED BY <1>1, <1>2, <1>4, <1>5, <1>6, <1>7, TrackMoves

LEMMA LoadAllOnTrack ==
    ASSUME ClosureInv, AloneOnTrack, NEW w \in Workers, LoadAll(w)
    PROVE  AloneOnTrack'
<1>1. worker[w].pc = "load" BY DEF LoadAll
<1>2. PICK job \in Jobs(facts, episodes) : job = worker[w] BY <1>1, JobAt
<1>3. PICK F, loaded, whole : /\ F = facts
                              /\ loaded = {f \in F : f.type \in RelevantTypes /\ Inside(f, job.window)}
                              /\ whole = WholeWindow(job.window)
  OBVIOUS
<1>4. worker' = [worker EXCEPT ![w] = Planned(job, loaded, whole, whole)] /\ facts' = F
  BY <1>2, <1>3 DEF LoadAll
<1>5. PICK next : next = Planned(job, loaded, whole, whole) OBVIOUS
<1>6. /\ next.pc = "links" /\ next.clean = job.clean /\ next.window = job.window
      /\ next.issues = whole /\ next.loaded = loaded
      /\ next.links = SetToSeq({x \in ProjectLinks(loaded) : x.link[2] \in whole})
  BY <1>5, PlannedFields
<1>7. ASSUME job.window = All
      PROVE  whole = Issues /\ loaded = Relevant(F) /\ Range(next.links) = ProjectLinks(loaded)
  <2>1. whole = Issues BY <1>3, <1>7 DEF WholeWindow
  <2>2. loaded = Relevant(F) BY <1>3, <1>7 DEF Inside, Relevant
  <2>3. AreFacts(loaded) BY <1>3, <2>2, FactsOfFacts DEF ClosureInv, FactsGood, Relevant
  <2>4. {x \in ProjectLinks(loaded) : x.link[2] \in whole} = ProjectLinks(loaded)
    BY <2>1, <2>3, LinksHaveKeys
  <2>5. IsFiniteSet(ProjectLinks(loaded)) BY <2>3, LinksPlanned
  <2>6. Range(SetToSeq(ProjectLinks(loaded))) = ProjectLinks(loaded) BY <2>5, ListedOnce
  <2> QED BY <1>6, <2>1, <2>2, <2>4, <2>6
<1>8. OnTrack(next)'
  <2>1. ASSUME next.window = All
        PROVE  /\ next.issues = Issues /\ next.loaded = Relevant(facts')
               /\ LinksOnTrack(links', next.links, ProjectLinks(next.loaded))
    BY <1>4, <1>6, <1>7, <2>1 DEF LinksOnTrack
  <2> QED BY <1>6, <2>1 DEF OnTrack, Recomputing, Ended, Writing, Reconciling
<1> QED BY <1>1, <1>2, <1>4, <1>5, <1>6, <1>8, TrackMoves

LEMMA UpsertLinkOnTrack ==
    ASSUME ClosureInv, AloneOnTrack, NEW w \in Workers, UpsertLink(w)
    PROVE  AloneOnTrack'
<1>1. worker[w].pc = "links" /\ worker[w].links # <<>> BY DEF UpsertLink
<1>2. PICK job \in Jobs(facts, episodes) : job = worker[w] BY <1>1, JobAt
<1>3. PICK L : L = links OBVIOUS
<1>4. PICK x, rest : x = Head(job.links) /\ rest = Tail(job.links) OBVIOUS
<1>5. /\ links' = [L EXCEPT ![Key(x)] = x.state] /\ UNCHANGED facts
      /\ worker' = [worker EXCEPT ![w].links = Tail(@)]
  BY <1>2, <1>3, <1>4 DEF UpsertLink, Key
<1>6. PICK next : next = [job EXCEPT !.links = rest] OBVIOUS
<1>7. worker' = [worker EXCEPT ![w] = next] BY <1>2, <1>4, <1>5, <1>6 DEF ClosureInv, WorkersGood
<1>8. /\ next.pc = "links" /\ next.clean = job.clean /\ next.window = job.window
      /\ next.issues = job.issues /\ next.loaded = job.loaded /\ next.links = rest
  BY <1>1, <1>2, <1>6 DEF Jobs
<1>9. ASSUME LinksOnTrack(L, job.links, ProjectLinks(job.loaded))
      PROVE  LinksOnTrack(links', rest, ProjectLinks(job.loaded))
  <2> DEFINE P == ProjectLinks(job.loaded)
             todo == job.links
  <2>1. AreFacts(job.loaded)
    <3>1. job.loaded \subseteq facts BY DEF Jobs
    <3> QED BY <3>1, FactsOfFacts DEF ClosureInv, FactsGood
  <2>2. /\ \A y, z \in P : Key(y) = Key(z) => y = z
        /\ \A y \in P : Key(y) \in LinkKeys
    BY <2>1, LinksHaveKeys
  <2>3. todo \in Seq(TrueLinks(facts)) /\ todo # <<>> BY <1>1, <1>2 DEF Jobs
  <2>4. DOMAIN L = LinkKeys BY <1>3 DEF ClosureInv, TablesGood, LinksGood
  <2> HIDE DEF P, todo
  <2>5. x \in Range(todo) /\ Range(todo) = {x} \cup Range(rest)
    <3> DEFINE m == Len(todo)
    <3>1. /\ m \in Nat /\ m # 0 /\ DOMAIN todo = 1..m /\ x = todo[1] /\ DOMAIN rest = 1..(m - 1)
          /\ \A k \in 1..(m - 1) : rest[k] = todo[k + 1]
      BY <1>4, <2>3 DEF todo
    <3> HIDE DEF m
    <3>2. \A k \in 1..m : k = 1 \/ (k - 1 \in 1..(m - 1) /\ todo[k] = rest[k - 1])
      <4> SUFFICES ASSUME NEW k \in 1..m, k # 1 PROVE k - 1 \in 1..(m - 1) /\ todo[k] = rest[k - 1]
        OBVIOUS
      <4>1. k - 1 \in 1..(m - 1) /\ (k - 1) + 1 = k BY <3>1
      <4> QED BY <3>1, <4>1
    <3>3. 1 \in 1..m /\ \A k \in 1..(m - 1) : k + 1 \in 1..m BY <3>1
    <3>4. x \in Range(todo) BY <3>1, <3>3 DEF Range
    <3>5. Range(rest) \subseteq Range(todo) BY <3>1, <3>3 DEF Range
    <3>6. ASSUME NEW k \in 1..m, k # 1 PROVE todo[k] \in Range(rest)
      <4> DEFINE j == k - 1
      <4>1. j \in DOMAIN rest /\ todo[k] = rest[j] BY <3>1, <3>2, <3>6
      <4> HIDE DEF j
      <4> QED BY <4>1 DEF Range
    <3>7. Range(todo) \subseteq {x} \cup Range(rest) BY <3>1, <3>6 DEF Range
    <3> QED BY <3>4, <3>5, <3>7
  <2>6. Range(todo) \subseteq P /\ \A y \in P : y \in Range(todo) \/ L[Key(y)] = y.state
    BY <1>9 DEF LinksOnTrack, P, todo
  <2>7. ASSUME NEW y \in P PROVE y \in Range(rest) \/ links'[Key(y)] = y.state
    <3>1. CASE y = x BY <1>5, <2>2, <2>4, <3>1
    <3>2. CASE y # x
      <4>1. Key(y) # Key(x) BY <2>2, <2>5, <2>6, <3>2
      <4>2. links'[Key(y)] = L[Key(y)] BY <1>5, <2>2, <2>4, <4>1
      <4> QED BY <2>5, <2>6, <3>2, <4>2
    <3> QED BY <3>1, <3>2
  <2> QED BY <2>5, <2>6, <2>7 DEF LinksOnTrack, P
<1>10. OnTrack(job) => OnTrack(next)'
  BY <1>1, <1>2, <1>3, <1>5, <1>8, <1>9 DEF OnTrack, Recomputing, Ended, Writing, Reconciling
<1> QED BY <1>1, <1>2, <1>7, <1>8, <1>10, TrackMoves

LEMMA ReadEpisodesOnTrack ==
    ASSUME ClosureInv, AloneOnTrack, NEW w \in Workers, ReadEpisodes(w)
    PROVE  AloneOnTrack'
<1>1. worker[w].pc = "links" /\ worker[w].links = <<>> BY DEF ReadEpisodes
<1>2. PICK job \in Jobs(facts, episodes) : job = worker[w] BY <1>1, JobAt
<1>3. PICK next : next = ReconcileClosureEpisodes(job, [i \in job.issues |-> ProjectIssueEpisodes(job.loaded, i)])
  OBVIOUS
<1>4. worker' = [worker EXCEPT ![w] = next] /\ UNCHANGED <<facts, links, episodes>>
  BY <1>2, <1>3 DEF ReadEpisodes, tables
<1>5. /\ next.pc = "episodes" /\ next.clean = job.clean /\ next.window = job.window
      /\ next.issues = job.issues /\ next.loaded = job.loaded /\ next.links = job.links
  <2>1. \E writes, records : next = [job EXCEPT !.pc = "episodes", !.writes = writes, !.unresolved = records]
    BY <1>3 DEF ReconcileClosureEpisodes
  <2> QED BY <2>1 DEF Jobs
<1>6. RowsOnTrack(episodes, next.writes, Due(job)) /\ next.unresolved = Records(job)
  <2>1. AreFacts(facts) /\ episodes \in Seq(Rows)
    BY TrueRowsAreRows DEF ClosureInv, FactsGood, TablesGood
  <2> QED BY <1>3, <2>1, ReadIsOnTrack
<1>7. Due(next) = Due(job) /\ Records(next) = Records(job) BY <1>5 DEF Due, Records
<1>8. RowsOnTrack(episodes', next.writes, Due(next)) /\ next.unresolved = Records(next)
  BY <1>4, <1>6, <1>7
<1>9. OnTrack(job) => OnTrack(next)'
  BY <1>1, <1>2, <1>4, <1>5, <1>8 DEF OnTrack, Recomputing, Ended, Writing, Reconciling
<1> QED BY <1>1, <1>2, <1>4, <1>5, <1>9, TrackMoves

\* The rows a job has to leave are rows.
LEMMA DueAreRows ==
    ASSUME AreFacts(facts), NEW job \in Jobs(facts, episodes)
    PROVE  Due(job) \subseteq Rows
<1>1. job.issues \subseteq Issues /\ AreFacts(job.loaded)
  <2>1. job.issues \subseteq Issues /\ job.loaded \subseteq facts BY DEF Jobs
  <2> QED BY <2>1, FactsOfFacts
<1> SUFFICES ASSUME NEW i \in job.issues PROVE RowsOf(ProjectIssueEpisodes(job.loaded, i)) \subseteq Rows
  BY DEF Due
<1> DEFINE eps == ProjectIssueEpisodes(job.loaded, i)
<1>2. ASSUME NEW k \in DOMAIN eps PROVE Row(eps[k], k = Len(eps)) \in Rows
  <2> DEFINE current == (k = Len(eps))
  <2>1. current \in BOOLEAN /\ i \in Issues BY <1>1
  <2> HIDE DEF current
  <2>2. Row(eps[k], current) \in TrueRows(job.loaded) BY <1>1, <2>1, RowIsBornTrue
  <2> QED BY <2>2 DEF TrueRows, current
<1> HIDE DEF eps
<1>3. RowsOf(eps) \subseteq Rows BY <1>2 DEF RowsOf
<1> QED BY <1>3 DEF eps

LEMMA WriteEpisodeOnTrack ==
    ASSUME ClosureInv, AloneOnTrack, NEW w \in Workers, WriteEpisode(w)
    PROVE  AloneOnTrack'
<1>1. worker[w].pc = "episodes" /\ worker[w].writes # <<>> BY DEF WriteEpisode
<1>2. PICK job \in Jobs(facts, episodes) : job = worker[w] BY <1>1, JobAt
<1>3. PICK F, E, stmt, rest, rows :
         /\ F = facts /\ E = episodes /\ stmt = Head(job.writes) /\ rest = Tail(job.writes)
         /\ rows = IF stmt.id = 0 THEN Append(E, stmt.row)
                   ELSE [E EXCEPT ![stmt.id] = IF stmt.row = None THEN Supersede(@) ELSE stmt.row]
  OBVIOUS
<1>4. /\ IF OneCurrentPerIssue(rows)
         THEN episodes' = rows /\ worker' = [worker EXCEPT ![w].writes = Tail(@)]
         ELSE worker' = [worker EXCEPT ![w].pc = "raised"]
      /\ facts' = F /\ links' = links
  BY <1>2, <1>3 DEF WriteEpisode
<1>5. CASE OneCurrentPerIssue(rows)
  <2>1. PICK next : next = [job EXCEPT !.writes = rest] OBVIOUS
  <2>2. worker' = [worker EXCEPT ![w] = next] /\ episodes' = rows
    BY <1>2, <1>3, <1>4, <1>5, <2>1 DEF ClosureInv, WorkersGood
  <2>3. /\ next.pc = "episodes" /\ next.clean = job.clean /\ next.window = job.window
        /\ next.issues = job.issues /\ next.loaded = job.loaded /\ next.links = job.links
        /\ next.writes = rest /\ next.unresolved = job.unresolved
    BY <1>1, <1>2, <2>1 DEF Jobs
  <2>4. Due(next) = Due(job) /\ Records(next) = Records(job) BY <2>3 DEF Due, Records
  <2>5. ASSUME RowsOnTrack(E, job.writes, Due(job)) PROVE RowsOnTrack(rows, rest, Due(job))
    <3>1. E \in Seq(TrueRows(F)) BY <1>3 DEF ClosureInv, TablesGood, EpisodesGood
    <3>2. job.writes \in Seq(Statements(F, E)) /\ job.writes # <<>> BY <1>1, <1>2, <1>3 DEF Jobs
    <3>3. Due(job) \subseteq Rows BY <1>2, DueAreRows DEF ClosureInv, FactsGood
    <3> DEFINE D == Due(job)
               todo == job.writes
    <3>4. /\ D \subseteq Rows /\ todo \in Seq(Statements(F, E)) /\ todo # <<>> /\ RowsOnTrack(E, todo, D)
          /\ rows = IF Head(todo).id = 0 THEN Append(E, Head(todo).row)
                    ELSE [E EXCEPT ![Head(todo).id] = IF Head(todo).row = None THEN Supersede(@)
                                                      ELSE Head(todo).row]
          /\ rest = Tail(todo)
      BY <1>3, <2>5, <3>2, <3>3
    <3> HIDE DEF D, todo
    <3>5. RowsOnTrack(rows, Tail(todo), D) BY <3>1, <3>4, StatementIsOnTrack
    <3> QED BY <3>4, <3>5 DEF D
  <2>6. OnTrack(job) => OnTrack(next)'
    BY <1>1, <1>2, <1>3, <1>4, <2>2, <2>3, <2>4, <2>5 DEF OnTrack, Recomputing, Ended, Writing, Reconciling
  <2> QED BY <1>1, <1>2, <2>2, <2>3, <2>6, TrackMoves
<1>6. CASE ~ OneCurrentPerIssue(rows)
  <2>1. PICK next : next = [job EXCEPT !.pc = "raised"] OBVIOUS
  <2>2. worker' = [worker EXCEPT ![w] = next]
    BY <1>2, <1>4, <1>6, <2>1 DEF ClosureInv, WorkersGood
  <2>3. next.pc = "raised" /\ next.clean = job.clean BY <2>1 DEF Jobs
  <2>4. OnTrack(next)' BY <2>3 DEF OnTrack, Recomputing, Ended, Writing, Reconciling
  <2> QED BY <1>1, <1>2, <2>2, <2>3, <2>4, TrackMoves
<1> QED BY <1>5, <1>6

LEMMA UpsertUnresolvedOnTrack ==
    ASSUME ClosureInv, AloneOnTrack, NEW w \in Workers, UpsertUnresolved(w)
    PROVE  AloneOnTrack'
<1>1. worker[w].pc = "episodes" BY DEF UpsertUnresolved
<1>2. PICK job \in Jobs(facts, episodes) : job = worker[w] BY <1>1, JobAt
<1>3. PICK pc : pc = IF job.window = All THEN "absent" ELSE "done" OBVIOUS
<1>4. /\ job.writes = <<>> /\ UNCHANGED <<facts, links, episodes>>
      /\ unresolved' = {v \in unresolved : ~ \E u \in job.unresolved : SameRecord(u, v)} \cup job.unresolved
      /\ worker' = [worker EXCEPT ![w].pc = pc]
  BY <1>2, <1>3 DEF UpsertUnresolved, SameRecord
<1>5. PICK next : next = [job EXCEPT !.pc = pc] OBVIOUS
<1>6. worker' = [worker EXCEPT ![w] = next] BY <1>2, <1>4, <1>5 DEF ClosureInv, WorkersGood
<1>7. /\ next.pc = pc /\ next.clean = job.clean /\ next.window = job.window
      /\ next.issues = job.issues /\ next.loaded = job.loaded /\ next.links = job.links
      /\ next.writes = job.writes /\ next.unresolved = job.unresolved
  BY <1>5 DEF Jobs
<1>8. Due(next) = Due(job) /\ Records(next) = Records(job) BY <1>7 DEF Due, Records
<1>9. /\ job.unresolved \subseteq unresolved'
      /\ \A u \in unresolved' : (\E v \in job.unresolved : SameRecord(u, v)) => u \in job.unresolved
  BY <1>4 DEF SameRecord
<1>10. OnTrack(job) => OnTrack(next)'
  BY <1>1, <1>2, <1>3, <1>4, <1>7, <1>8, <1>9 DEF OnTrack, Recomputing, Ended, Writing, Reconciling
<1> QED BY <1>1, <1>2, <1>3, <1>6, <1>7, <1>10, TrackMoves

LEMMA DeleteAbsentLinksOnTrack ==
    ASSUME ClosureInv, AloneOnTrack, NEW w \in Workers, DeleteAbsentLinks(w)
    PROVE  AloneOnTrack'
<1>1. worker[w].pc = "absent" BY DEF DeleteAbsentLinks
<1>2. PICK job \in Jobs(facts, episodes) : job = worker[w] BY <1>1, JobAt
<1>3. PICK L, P : L = links /\ P = ProjectLinks(job.loaded) OBVIOUS
<1>4. /\ links' = [k \in LinkKeys |-> IF k \in {Key(x) : x \in P} THEN L[k] ELSE None]
      /\ worker' = [worker EXCEPT ![w].pc = "absent_unresolved"]
      /\ UNCHANGED <<facts, episodes, unresolved>>
  BY <1>2, <1>3 DEF DeleteAbsentLinks, Key
<1>5. PICK next : next = [job EXCEPT !.pc = "absent_unresolved"] OBVIOUS
<1>6. worker' = [worker EXCEPT ![w] = next] BY <1>2, <1>4, <1>5 DEF ClosureInv, WorkersGood
<1>7. /\ next.pc = "absent_unresolved" /\ next.clean = job.clean /\ next.window = job.window
      /\ next.issues = job.issues /\ next.loaded = job.loaded /\ next.links = job.links
      /\ next.writes = job.writes /\ next.unresolved = job.unresolved
  BY <1>5 DEF Jobs
<1>8. Due(next) = Due(job) /\ Records(next) = Records(job) BY <1>7 DEF Due, Records
<1>9. \A x \in P : Key(x) \in LinkKeys
  <2>1. AreFacts(job.loaded)
    <3>1. job.loaded \subseteq facts BY DEF Jobs
    <3> QED BY <3>1, FactsOfFacts DEF ClosureInv, FactsGood
  <2> QED BY <1>3, <2>1, LinksHaveKeys
<1>10. \A x \in P : links'[Key(x)] = L[Key(x)] BY <1>4, <1>9
<1>11. \A k \in LinkKeys : links'[k] # None => \E x \in P : Key(x) = k BY <1>4
<1>12. LinksOnTrack(L, job.links, P) => LinksOnTrack(links', job.links, P) BY <1>10 DEF LinksOnTrack
<1>13. OnTrack(job) => OnTrack(next)'
  BY <1>1, <1>2, <1>3, <1>4, <1>7, <1>8, <1>11, <1>12
     DEF OnTrack, Recomputing, Ended, Writing, Reconciling
<1> QED BY <1>1, <1>2, <1>6, <1>7, <1>13, TrackMoves

LEMMA DeleteAbsentUnresolvedOnTrack ==
    ASSUME ClosureInv, AloneOnTrack, NEW w \in Workers, DeleteAbsentUnresolved(w)
    PROVE  AloneOnTrack'
<1>1. worker[w].pc = "absent_unresolved" BY DEF DeleteAbsentUnresolved
<1>2. PICK job \in Jobs(facts, episodes) : job = worker[w] BY <1>1, JobAt
<1>3. PICK known : known = unresolved OBVIOUS
<1>4. /\ unresolved' = {u \in known : \E v \in job.unresolved : SameRecord(u, v)}
      /\ worker' = [worker EXCEPT ![w].pc = "done"]
      /\ UNCHANGED <<facts, links, episodes>>
  BY <1>2, <1>3 DEF DeleteAbsentUnresolved, SameRecord
<1>5. PICK next : next = [job EXCEPT !.pc = "done"] OBVIOUS
<1>6. worker' = [worker EXCEPT ![w] = next] BY <1>2, <1>4, <1>5 DEF ClosureInv, WorkersGood
<1>7. /\ next.pc = "done" /\ next.clean = job.clean /\ next.window = job.window
      /\ next.issues = job.issues /\ next.loaded = job.loaded /\ next.links = job.links
      /\ next.writes = job.writes /\ next.unresolved = job.unresolved
  BY <1>5 DEF Jobs
<1>8. Due(next) = Due(job) /\ Records(next) = Records(job) BY <1>7 DEF Due, Records
<1>9. ASSUME job.unresolved \subseteq known,
             \A u \in known : (\E v \in job.unresolved : SameRecord(u, v)) => u \in job.unresolved
      PROVE  unresolved' = job.unresolved
  BY <1>4, <1>9 DEF SameRecord
<1>10. OnTrack(job) => OnTrack(next)'
  BY <1>1, <1>2, <1>3, <1>4, <1>7, <1>8, <1>9 DEF OnTrack, Recomputing, Ended, Writing, Reconciling
<1> QED BY <1>1, <1>2, <1>6, <1>7, <1>10, TrackMoves

LEMMA FinishOnTrack ==
    ASSUME ClosureInv, AloneOnTrack, NEW w \in Workers, Finish(w)
    PROVE  AloneOnTrack'
<1>1. worker[w].pc # "idle" /\ worker' = [worker EXCEPT ![w] = Idle] BY DEF Finish
<1>2. PICK job \in Jobs(facts, episodes) : job = worker[w] BY <1>1, JobAt
<1>3. Idle.pc = "idle" BY DEF Idle
<1> QED BY <1>1, <1>2, <1>3, TrackMoves

\* A job that starts is alone only if all others were at rest.
LEMMA StartsOnTrack ==
    ASSUME ClosureInv, NEW w \in Workers, NEW job \in Jobs(facts, episodes),
           job.pc \in {"affected", "load"}, job.pc = "affected" => job.window = None, Starts(w, job)
    PROVE  AloneOnTrack'
<1>1. PICK alone \in BOOLEAN : alone = \A u \in Workers : worker[u].pc = "idle"
  <2> DEFINE b == \A u \in Workers : worker[u].pc = "idle"
  <2>1. b \in BOOLEAN OBVIOUS
  <2> HIDE DEF b
  <2>2. \E c \in BOOLEAN : c = b BY <2>1
  <2> QED BY <2>2 DEF b
<1>2. PICK next : next = [job EXCEPT !.clean = alone] OBVIOUS
<1>3. worker' = [v \in Workers |-> IF v = w THEN next
                                   ELSE IF worker[v].pc = "idle" THEN Idle
                                   ELSE [worker[v] EXCEPT !.clean = FALSE]]
  BY <1>1, <1>2 DEF Starts
<1>4. next.pc = job.pc /\ next.clean = alone /\ next.window = job.window BY <1>2, ZenonT(60) DEF Jobs
<1>5. OnTrack(next)' BY <1>4 DEF OnTrack, Recomputing, Ended, Writing, Reconciling
<1> SUFFICES ASSUME NEW u \in Workers, worker'[u].pc # "idle", worker'[u].clean
             PROVE  (\A v \in Workers \ {u} : worker'[v].pc = "idle") /\ OnTrack(worker[u])'
  BY DEF AloneOnTrack, AtRest
<1>6. CASE u = w
  <2>1. worker'[u] = next BY <1>3, <1>6
  <2>2. \A v \in Workers : worker[v].pc = "idle" BY <1>1, <1>4, <2>1
  <2>3. OnTrack(worker[u])' BY <1>5, <2>1 DEF OnTrack
  <2> QED BY <1>3, <1>6, <2>2, <2>3 DEF Idle
<1>7. CASE u # w
  <2>1. worker[u].pc # "idle" BY <1>3, <1>7 DEF Idle
  <2>2. worker'[u] = [worker[u] EXCEPT !.clean = FALSE] BY <1>3, <1>7, <2>1
  <2>3. PICK j \in Jobs(facts, episodes) : j = worker[u] BY <2>1, JobAt
  <2>4. worker'[u].clean = FALSE BY <2>2, <2>3 DEF Jobs
  <2> QED BY <2>4
<1> QED BY <1>6, <1>7

LEMMA StartRebuildOnTrack ==
    ASSUME ClosureInv, NEW w \in Workers, NEW window \in Windows, StartRebuild(w, window)
    PROVE  AloneOnTrack'
<1>1. NewJob(None, window) \in Jobs(facts, episodes) BY ClosureAssumption DEF NewJob, Jobs
<1>2. NewJob(None, window).pc = "load" BY ClosureAssumption DEF NewJob
<1>3. Starts(w, NewJob(None, window)) BY DEF StartRebuild
<1> QED BY <1>1, <1>2, <1>3, StartsOnTrack

\* A fact that is not relevant disturbs nobody.
LEMMA PersistOnTrack ==
    ASSUME ClosureInv, AloneOnTrack, NEW w \in Workers, NEW f \in Deliveries, Persist(w, f)
    PROVE  AloneOnTrack'
<1>1. CASE f.type \in RelevantTypes
  <2>1. NewJob(f, None) \in Jobs(facts, episodes) BY DEF NewJob, Jobs
  <2>2. NewJob(f, None).pc = "affected" /\ NewJob(f, None).window = None BY DEF NewJob
  <2>3. Starts(w, NewJob(f, None)) BY <1>1 DEF Persist
  <2> QED BY <2>1, <2>2, <2>3, StartsOnTrack
<1>2. CASE f.type \notin RelevantTypes
  <2>1. worker' = worker /\ UNCHANGED <<links, episodes, unresolved>> BY <1>2 DEF Persist, tables
  <2>2. Relevant(facts') = Relevant(facts) BY <1>2 DEF Persist, Relevant
  <2>3. ASSUME NEW u \in Workers, OnTrack(worker[u]) PROVE OnTrack(worker[u])'
    <3>1. PICK job : job = worker[u] OBVIOUS
    <3>2. worker'[u] = job /\ OnTrack(job) BY <2>1, <2>3, <3>1
    <3> QED BY <2>1, <2>2, <3>2 DEF OnTrack
  <2> QED BY <2>1, <2>3 DEF AloneOnTrack, AtRest
<1> QED BY <1>1, <1>2

LEMMA InitOnTrack == Init => AloneOnTrack
<1> SUFFICES ASSUME Init PROVE AloneOnTrack OBVIOUS
<1>1. \A w \in Workers : worker[w].pc = "idle" BY DEF Init, Idle
<1> QED BY <1>1 DEF AloneOnTrack, AtRest

LEMMA NextOnTrack ==
    ASSUME ClosureInv, AloneOnTrack, [Next]_vars
    PROVE  AloneOnTrack'
<1>1. CASE UNCHANGED vars
  <2>1. UNCHANGED <<facts, links, episodes, unresolved, worker>> BY <1>1 DEF vars
  <2>2. ASSUME NEW u \in Workers, OnTrack(worker[u]) PROVE OnTrack(worker[u])'
    BY <2>1, <2>2 DEF OnTrack
  <2> QED BY <2>1, <2>2 DEF AloneOnTrack, AtRest
<1>2. ASSUME NEW w \in Workers, NEW f \in Deliveries, Persist(w, f) PROVE AloneOnTrack'
  BY <1>2, PersistOnTrack
<1>3. ASSUME NEW w \in Workers, NEW window \in Windows, StartRebuild(w, window) PROVE AloneOnTrack'
  BY <1>3, StartRebuildOnTrack
<1>4. ASSUME NEW w \in Workers,
             \/ FindAffected(w) \/ LoadIssueFacts(w) \/ LoadChangeRequestFacts(w) \/ LoadAll(w)
             \/ ReadEpisodes(w) \/ Finish(w)
      PROVE  AloneOnTrack'
  BY <1>4, FindAffectedOnTrack, LoadIssueFactsOnTrack, LoadChangeRequestFactsOnTrack, LoadAllOnTrack,
     ReadEpisodesOnTrack, FinishOnTrack
<1>5. ASSUME NEW w \in Workers,
             \/ UpsertLink(w) \/ WriteEpisode(w) \/ UpsertUnresolved(w) \/ DeleteAbsentLinks(w)
             \/ DeleteAbsentUnresolved(w)
      PROVE  AloneOnTrack'
  BY <1>5, UpsertLinkOnTrack, WriteEpisodeOnTrack, UpsertUnresolvedOnTrack, DeleteAbsentLinksOnTrack,
     DeleteAbsentUnresolvedOnTrack
<1> QED BY <1>1, <1>2, <1>3, <1>4, <1>5 DEF Next

\* What the job leaves for one issue.
LEMMA DoneIsStored ==
    ASSUME ClosureInv, NEW job \in Jobs(facts, episodes), job.pc = "done", OnTrack(job), NEW i \in job.issues
    PROVE  Stored(i, ProjectIssueEpisodes(job.loaded, i))
<1> DEFINE eps == ProjectIssueEpisodes(job.loaded, i)
           mine == {episodes[k] : k \in {j \in DOMAIN episodes : episodes[j].issue = i}}
<1>1. i \in Issues /\ AreFacts(job.loaded)
  <2>1. job.issues \subseteq Issues /\ job.loaded \subseteq facts BY DEF Jobs
  <2> QED BY <2>1, FactsOfFacts DEF ClosureInv, FactsGood
<1>2. /\ RowsOnTrack(episodes, <<>>, Due(job)) /\ job.unresolved = Records(job)
      /\ job.unresolved \subseteq unresolved
  BY DEF OnTrack, Writing, Ended
<1>3. \A r \in RowsOf(eps) : \E q \in DOMAIN episodes : episodes[q] = r
  <2>1. RowsMade(<<>>) = {} BY DEF RowsMade
  <2>2. RowsOf(eps) \subseteq Due(job) BY DEF Due
  <2> HIDE DEF eps
  <2> QED BY <1>2, <2>1, <2>2 DEF RowsOnTrack
<1>4. Projected(job.loaded, i, eps) BY <1>1, EpisodesAre
<1>5. Unresolved(eps) \subseteq unresolved BY <1>2 DEF Records
<1> HIDE DEF eps
<1>6. DOMAIN eps = 1..Len(eps) /\ Len(eps) \in Nat /\ \A k \in DOMAIN eps : eps[k].issue = i
  BY <1>4 DEF Projected
<1>7. ASSUME NEW k \in DOMAIN eps PROVE Row(eps[k], k = Len(eps)) \in mine
  <2>1. PICK q \in DOMAIN episodes : episodes[q] = Row(eps[k], k = Len(eps)) BY <1>3 DEF RowsOf
  <2>2. episodes[q].issue = i BY <1>6, <2>1 DEF Row
  <2> QED BY <2>1, <2>2
<1>8. ASSUME NEW r \in mine, NEW s \in mine, r.current, s.current PROVE r = s
  <2>1. PICK j \in DOMAIN episodes : r = episodes[j] /\ episodes[j].issue = i OBVIOUS
  <2>2. PICK k \in DOMAIN episodes : s = episodes[k] /\ episodes[k].issue = i OBVIOUS
  <2> HIDE DEF mine
  <2> QED BY <1>8, <2>1, <2>2 DEF ClosureInv, TablesGood, EpisodesGood, OneCurrentPerIssue
<1>9. \A r \in mine : ~ r.current => r.status = "superseded"
  <2>1. episodes \in Seq(TrueRows(facts)) BY DEF ClosureInv, TablesGood, EpisodesGood
  <2>2. \A k \in DOMAIN episodes : episodes[k] \in TrueRows(facts) BY <2>1
  <2> QED BY <2>2 DEF TrueRows
<1> HIDE DEF mine
<1>10. ASSUME eps # <<>>
       PROVE  /\ {r \in mine : r.current} = {Row(Last(eps), TRUE)}
              /\ \A e \in Range(Front(eps)) : Row(e, FALSE) \in mine
  <2> DEFINE n == Len(eps)
  <2>1. n \in Nat /\ n # 0 /\ DOMAIN eps = 1..n /\ Last(eps) = eps[n]
    BY <1>4, <1>6, <1>10 DEF Projected, Last
  <2> HIDE DEF n
  <2>2. n \in DOMAIN eps BY <2>1
  <2>3. Row(Last(eps), TRUE) \in mine
    <3>1. Row(eps[n], n = Len(eps)) \in mine BY <1>7, <2>2
    <3>2. (n = Len(eps)) = TRUE BY DEF n
    <3> QED BY <2>1, <3>1, <3>2
  <2>4. Row(Last(eps), TRUE).current = TRUE BY DEF Row
  <2>5. {r \in mine : r.current} = {Row(Last(eps), TRUE)} BY <1>8, <2>3, <2>4
  <2>6. ASSUME NEW k \in 1..(n - 1) PROVE Row(eps[k], FALSE) \in mine
    <3>1. k \in DOMAIN eps /\ k # n BY <2>1
    <3>2. Row(eps[k], k = Len(eps)) \in mine BY <1>7, <3>1
    <3>3. (k = Len(eps)) = FALSE BY <3>1 DEF n
    <3> QED BY <3>2, <3>3
  <2>7. Range(Front(eps)) = {eps[k] : k \in 1..(n - 1)}
    <3>1. Front(eps) = SubSeq(eps, 1, n - 1) BY DEF Front, n
    <3>2. SubSeq(eps, 1, n - 1) = [k \in 1..(n - 1) |-> eps[k]] BY <2>1
    <3> QED BY <3>1, <3>2 DEF Range
  <2> QED BY <2>5, <2>6, <2>7
<1>11. Stored(i, eps) BY <1>5, <1>9, <1>10 DEF Stored, mine
<1> QED BY <1>11 DEF eps

\* The one answer of an issue whose rows and unresolved records are the
\* projection's.
LEMMA StoredIsAnswered ==
    ASSUME NEW F, AreFacts(F), NEW i \in Issues, Stored(i, ProjectIssueEpisodes(F, i)),
           unresolved = UNION {Unresolved(ProjectIssueEpisodes(F, j)) : j \in Issues}
    PROVE  Answered(i, ProjectIssueEpisodes(F, i))
<1> DEFINE eps == ProjectIssueEpisodes(F, i)
           cur == {k \in DOMAIN episodes : episodes[k].issue = i /\ episodes[k].current}
           last == Row(Last(eps), TRUE)
           row == episodes[CHOOSE k \in cur : TRUE]
           rec == {u \in unresolved : u.issue = i /\ u.closed = row.closed}
           open == {u \in Unresolved(eps) : u.closed = Last(eps).closed}
<1>1. \A j \in Issues : \A u \in Unresolved(ProjectIssueEpisodes(F, j)) : u.issue = j
  <2> SUFFICES ASSUME NEW j \in Issues PROVE \A u \in Unresolved(ProjectIssueEpisodes(F, j)) : u.issue = j
    OBVIOUS
  <2> DEFINE e == ProjectIssueEpisodes(F, j)
  <2>1. Projected(F, j, e) BY EpisodesAre
  <2> HIDE DEF e
  <2>2. \A k \in DOMAIN e : e[k].issue = j BY <2>1 DEF Projected
  <2>3. \A u \in Unresolved(e) : u.issue = j BY <2>2 DEF Unresolved, Range
  <2> QED BY <2>3 DEF e
<1>2. \A u : u \in unresolved /\ u.issue = i <=> u \in Unresolved(eps) BY <1>1
<1> HIDE DEF eps
<1> SUFFICES ASSUME eps # <<>>
             PROVE  CurrentAnswer(i) = [status |-> last.status, cr |-> Last(eps).cr,
                                        candidates |-> UNION {u.candidates : u \in open}]
  BY DEF Answered, eps
<1>3. {r \in {episodes[k] : k \in {j \in DOMAIN episodes : episodes[j].issue = i}} : r.current} = {last}
  BY DEF Stored, eps
<1>4. cur # {} /\ \A k \in cur : episodes[k] = last
  <2> HIDE DEF last
  <2>1. \A k \in cur : episodes[k] \in {last} BY <1>3
  <2>2. PICK r \in {episodes[k] : k \in {j \in DOMAIN episodes : episodes[j].issue = i}} : r.current BY <1>3
  <2> QED BY <2>1, <2>2
<1>5. row = last
  <2>1. (CHOOSE k \in cur : TRUE) \in cur BY <1>4
  <2> QED BY <1>4, <2>1
<1>6. last.cr = Last(eps).cr /\ last.closed = Last(eps).closed BY DEF Row
<1>7. CurrentAnswer(i) = [status |-> row.status, cr |-> row.cr,
                          candidates |-> UNION {u.candidates : u \in rec}]
  BY <1>4 DEF CurrentAnswer
<1> HIDE DEF row, last
<1>8. rec = open BY <1>2, <1>5, <1>6
<1> QED BY <1>5, <1>6, <1>7, <1>8

(* A recompute or a full rebuild that met no other and ran to its end has  *)
(* left exactly the projection of what it loaded, whatever an earlier one  *)
(* that died half way had left and however many stand ready: the last      *)
(* episode of each issue is its one current row, every other row is        *)
(* superseded, and after a full rebuild links, unresolved records and the  *)
(* API's answers are those of the facts (_reconcile, rebuild_closure_      *)
(* projection).                                                            *)
THEOREM AloneJobIsExact == Spec => []UndisturbedJobIsExact
<1>1. ClosureInv /\ AloneOnTrack => UndisturbedJobIsExact
  <2> SUFFICES ASSUME ClosureInv, AloneOnTrack, NEW w \in Workers, worker[w].pc = "done", worker[w].clean
               PROVE  LET job == worker[w]
                      IN  /\ \A i \in job.issues : Stored(i, ProjectIssueEpisodes(job.loaded, i))
                          /\ job.window = All =>
                               /\ job.loaded = {f \in facts : f.type \in RelevantTypes}
                               /\ {[cr |-> x[1], link |-> x[2], state |-> links[x]] :
                                      x \in {y \in LinkKeys : links[y] # None}} = ProjectLinks(facts)
                               /\ unresolved = UNION {Unresolved(ProjectIssueEpisodes(facts, i)) : i \in Issues}
                               /\ \A i \in job.issues : Answered(i, ProjectIssueEpisodes(facts, i))
    BY DEF UndisturbedJobIsExact
  <2>1. PICK job \in Jobs(facts, episodes) : job = worker[w] BY JobAt
  <2>2. OnTrack(job) /\ job.pc = "done" BY <2>1 DEF AloneOnTrack, AtRest
  <2>3. \A i \in job.issues : Stored(i, ProjectIssueEpisodes(job.loaded, i)) BY <2>2, DoneIsStored
  <2>4. ASSUME job.window = All
        PROVE  /\ job.loaded = {f \in facts : f.type \in RelevantTypes}
               /\ {[cr |-> x[1], link |-> x[2], state |-> links[x]] :
                      x \in {y \in LinkKeys : links[y] # None}} = ProjectLinks(facts)
               /\ unresolved = UNION {Unresolved(ProjectIssueEpisodes(facts, i)) : i \in Issues}
               /\ \A i \in job.issues : Answered(i, ProjectIssueEpisodes(facts, i))
    <3> DEFINE P == ProjectLinks(job.loaded)
    <3>1. /\ job.issues = Issues /\ job.loaded = Relevant(facts)
          /\ LinksOnTrack(links, <<>>, P) /\ job.unresolved = Records(job) /\ unresolved = job.unresolved
          /\ \A k \in LinkKeys : links[k] # None => \E x \in P : Key(x) = k
      BY <2>2, <2>4 DEF OnTrack, Ended, Writing, Reconciling
    <3>2. AreFacts(facts) /\ AreFacts(job.loaded) BY <3>1, FactsOfFacts DEF ClosureInv, FactsGood, Relevant
    <3>3. Relevant(job.loaded) = Relevant(facts) BY <3>1 DEF Relevant
    <3>4. P = ProjectLinks(facts) BY <3>3, SameLinks
    <3>5. \A i \in Issues : ProjectIssueEpisodes(job.loaded, i) = ProjectIssueEpisodes(facts, i)
      BY <3>2, <3>3, SameEpisodes
    <3>6. {[cr |-> x[1], link |-> x[2], state |-> links[x]] : x \in {y \in LinkKeys : links[y] # None}} = P
      <4>1. /\ \A x \in P : /\ x = [cr |-> x.cr, link |-> x.link, state |-> x.state]
                            /\ Key(x) \in LinkKeys /\ x.state \in LinkStates
        BY <3>2, LinksHaveKeys
      <4>2. \A x \in P : links[Key(x)] = x.state
        <5>1. Range(<<>>) = {} BY DEF Range
        <5> QED BY <3>1, <5>1 DEF LinksOnTrack
      <4> HIDE DEF P
      <4>3. ASSUME NEW k \in LinkKeys, links[k] # None
            PROVE  [cr |-> k[1], link |-> k[2], state |-> links[k]] \in P
        <5>1. PICK x \in P : Key(x) = k BY <3>1, <4>3
        <5>2. k[1] = x.cr /\ k[2] = x.link /\ links[k] = x.state BY <4>2, <5>1 DEF Key
        <5> QED BY <4>1, <5>2
      <4>4. ASSUME NEW x \in P
            PROVE  \E k \in LinkKeys : links[k] # None /\ x = [cr |-> k[1], link |-> k[2], state |-> links[k]]
        <5>1. Key(x)[1] = x.cr /\ Key(x)[2] = x.link BY DEF Key
        <5>2. links[Key(x)] # None BY <4>1, <4>2, ClosureAssumption DEF LinkStates
        <5> QED BY <4>1, <4>2, <5>1, <5>2
      <4> QED BY <4>3, <4>4
    <3> HIDE DEF P
    <3>7. unresolved = UNION {Unresolved(ProjectIssueEpisodes(facts, i)) : i \in Issues}
      BY <3>1, <3>5 DEF Records
    <3>8. \A i \in Issues : Answered(i, ProjectIssueEpisodes(facts, i))
      BY <2>3, <3>1, <3>2, <3>5, <3>7, StoredIsAnswered
    <3> QED BY <3>1, <3>4, <3>6, <3>7, <3>8 DEF Relevant
  <2> QED BY <2>1, <2>3, <2>4
<1>2. Init => ClosureInv /\ AloneOnTrack BY ClosureInitInv, InitOnTrack
<1>3. ClosureInv /\ AloneOnTrack /\ [Next]_vars => ClosureInv' /\ AloneOnTrack'
  BY ClosureNextInv, NextOnTrack
<1> QED BY <1>1, <1>2, <1>3, PTL DEF Spec
=============================================================================
