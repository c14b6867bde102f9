----------------------------- MODULE Algorithms -----------------------------
(***************************************************************************)
(* The pure algorithms of the gateway over any inputs: one initial state   *)
(* for each input, a record that names in `of' the algorithm it is for.    *)
(* A property speaks about the inputs of its own algorithm.  TLC takes the *)
(* inputs from MCAlgorithms; the theorems are about all well-formed ones.  *)
(***************************************************************************)
EXTENDS ClosureEpisodes

CONSTANTS Messages,      \* normalized events as they are decoded
          FactSets,      \* what the store may know of issues and change requests
          CorrelationWindows, \* [run, es, events]: what correlation is asked about
          Databases,     \* the tables behind the change-request endpoints
          UsageQuestions, \* [db, later, f, sumPick, countPick]: the tables as two statements
                         \* see them, filter and the labels LIMIT 1 takes
          AgentQuestions \* [db, now, t]: tables, time and thresholds

VARIABLE input

NE == INSTANCE NormalizedEvent
CO == INSTANCE Correlation
CR == INSTANCE ChangeRequests
UQ == INSTANCE UsageQueries
AR == INSTANCE AgentRuns

ASSUME AlgorithmsAssumption ==
    /\ \A m \in Messages : NE!IsMessage(m)
    /\ \A F \in FactSets : AreFacts(F)
    /\ \A w \in CorrelationWindows : CO!IsWindow(w.es)
    /\ \A db \in Databases : CR!AreTables(db)
    /\ \A q \in UsageQuestions : UQ!IsQuestion(q)
    /\ \A q \in AgentQuestions : AR!AreRuns(q.db, q.now, q.t)

AlgorithmsInit ==
    \/ \E m \in Messages : input = [of |-> "message", message |-> m]
    \/ \E F \in FactSets : input = [of |-> "facts", facts |-> F]
    \/ \E w \in CorrelationWindows : input = [of |-> "window", window |-> w]
    \/ \E db \in Databases : input = [of |-> "changes", db |-> db]
    \/ \E q \in UsageQuestions : input = [of |-> "usage", query |-> q]
    \/ \E q \in AgentQuestions : input = [of |-> "agents", query |-> q]

AlgorithmsSpec == AlgorithmsInit /\ [][UNCHANGED input]_input

-----------------------------------------------------------------------------
(* Every message that passes validate_normalized_event has a canonical     *)
(* event: the "Unmappable message type" branch after validation is dead,   *)
(* so no producer action the allowlist admits ends in the dead-letter      *)
(* topic (_PRODUCER_ALLOWED_ACTIONS against _ACTION_TO_CANONICAL and       *)
(* _CANONICAL_EVENT_TYPES).                                                *)
ValidatedAlwaysMaps ==
    input.of = "message" /\ NE!validate_normalized_event(input.message) = "ok"
        => NE!map_normalized_event(input.message) \notin {NE!NoIdentity, NE!Raises}

(* The same resource named with http or https, with the scheme's default   *)
(* port or none, is the same fact (normalize_repository_url), so the two   *)
(* spellings are deduplicated by the engineering_events identity.          *)
SpellingsConverge ==
    input.of = "message" =>
        LET Plain(scheme) == [input.message.repository_url EXCEPT !.scheme = scheme, !.port = 0]
            Explicit(scheme) == [Plain(scheme) EXCEPT !.port = NE!DefaultPort(scheme)]
            Identity(url) == NE!map_normalized_event([input.message EXCEPT !.repository_url = url])
        IN \A s, t \in {"http", "https"} :
               /\ Identity(Plain(s)) = Identity(Plain(t))
               /\ Identity(Explicit(s)) = Identity(Plain(t))

(* The episodes of an issue are a function of its facts, independent of    *)
(* the order and number of deliveries: which links count and which close   *)
(* is credited to whom.                                                    *)
EpisodesFollowFacts == input.of = "facts" => FollowFacts(input.facts)

(* What correlation concludes from a window of the code host: one link for *)
(* each entity, whatever the order of the listing, and an outcome that     *)
(* credits only what is linked (CorrelationEngine.resolve).                *)
CorrelationIsSound ==
    input.of = "window" => CO!IsSound(input.window.run, input.window.es, input.window.events)

(* List, detail, state and costs of change requests, computed by different *)
(* queries, tell one story (list_change_requests, get_change_request).     *)
ChangeRequestViewsAgree == input.of = "changes" => CR!ViewsAgree(input.db)

(* The usage views agree: groups add up to the total, and the sums of the  *)
(* hybrid answer to the tokens of the events, whichever labels its         *)
(* lookups take; a row of it that can have no other name has the tokens    *)
(* and counts of its events (_fetch_aggregates, _fetch_aggregates_rollup). *)
(* The list of agent runs agrees with their detail, the SQL status with    *)
(* the Python status.                                                      *)
UsageViewsAgree ==
    /\ input.of = "usage" => UQ!ViewsAgree(input.query)
    /\ input.of = "agents" => AR!ViewsAgree(input.query.db, input.query.now, input.query.t)
=============================================================================
