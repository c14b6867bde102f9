--------------------------- MODULE NormalizedEvent ---------------------------
(***************************************************************************)
(* What the AFK outcome consumer does with the content of one Kafka        *)
(* message before it touches the database: decode, parse, validate, and    *)
(* map to the canonical engineering event (app/consumer/afk_consumer.py,   *)
(* app/core/repository.py).                                                *)
(*                                                                         *)
(* A message is a record of the fields those steps branch on.  Strings are *)
(* abstracted to the classes the code tells apart; "bogus" stands for any  *)
(* value outside a vocabulary.                                             *)
(***************************************************************************)
EXTENDS Naturals

(* A repository URL as urlparse splits it.  port 0 is "no port"; BadPort   *)
(* stands for a port that is not a number in 0..65535, on which reading    *)
(* parsed.port raises ValueError.                                          *)
BadPort == 99999

NoIdentity == <<>>
Raises == <<"ValueError">>

\* urlparse accepts a scheme of any kind; only http and https pass the regex.
DefaultPort(scheme) == IF scheme = "http" THEN 80 ELSE 443

\* Mutant: an explicit default port is kept.
normalize_repository_url_KeepsPort(url) ==
    IF url.scheme \notin {"http", "https"} \/ url.host = "" THEN NoIdentity
    ELSE IF url.port = BadPort THEN Raises
    ELSE IF url.path = "" THEN NoIdentity
    ELSE <<url.host, url.port, url.path>>

(* normalize_repository_url: the deterministic identity <<host, port, path>>, *)
(* NoIdentity where the code returns None, Raises where reading             *)
(* parsed.port, which is outside the try block, raises.                     *)
normalize_repository_url(url) ==
    IF url.scheme \notin {"http", "https"} \/ url.host = "" THEN NoIdentity
    ELSE IF url.port = BadPort THEN Raises
    ELSE IF url.path = "" THEN NoIdentity
    ELSE << url.host,
            IF url.port = DefaultPort(url.scheme) THEN 0 ELSE url.port,
            url.path >>  \* a trailing slash and a terminal .git are stripped

_VALID_SCHEMA_VERSIONS == {"1.0"}
_VALID_EVENT_TYPE == "normalized"

_PRODUCER_ALLOWED_ACTIONS ==
    [ issue         |-> {"opened", "edited", "updated", "reopened", "closed"},
      pull_request  |-> {"opened", "edited", "reopened", "closed", "merged"},
      merge_request |-> {"opened", "updated", "reopened", "closed", "merged"} ]

_RESOURCE_TYPE_TO_ENTITY_TYPE ==
    [ issue         |-> "issue",
      pull_request  |-> "change_request",
      merge_request |-> "change_request" ]

\* Mutant: an action the allowlist admits has no canonical name.
_ACTION_TO_CANONICAL_NoEdited ==
    [ opened |-> "opened", updated |-> "updated", reopened |-> "reopened",
      closed |-> "closed", merged |-> "merged" ]

_ACTION_TO_CANONICAL ==
    [ opened |-> "opened", edited |-> "updated", updated |-> "updated",
      reopened |-> "reopened", closed |-> "closed", merged |-> "merged" ]

_CANONICAL_EVENT_TYPES ==
    ({"issue", "change_request"} \X {"opened", "updated", "reopened", "closed"})
        \cup {<<"change_request", "merged">>}

(* validate_normalized_event: "ok", "reject" (the distinct DLQ reasons are *)
(* one class here), or "raise" when normalize_repository_url itself does.  *)
validate_normalized_event(m) ==
    IF \/ m.schema_version \notin _VALID_SCHEMA_VERSIONS
       \/ m.event_type # _VALID_EVENT_TYPE
       \/ m.resource_type \notin DOMAIN _RESOURCE_TYPE_TO_ENTITY_TYPE
    THEN "reject"
    ELSE IF m.action \notin _PRODUCER_ALLOWED_ACTIONS[m.resource_type]
    THEN "reject"
    ELSE LET repo == normalize_repository_url(m.repository_url) IN
         IF repo = Raises THEN "raise"
         ELSE IF repo = NoIdentity \/ m.ref_provider # m.provider
                                   \/ m.ref_delivery_id # m.delivery_id
         THEN "reject" ELSE "ok"

(* map_normalized_event: the identity of the engineering event written     *)
(* (provider, repository, entity type, external id, event type,            *)
(* occurred_at), or NoIdentity where the code returns None.  occurred_at 0 *)
(* is None; the ingestion time then stands in for it.                      *)
map_normalized_event(m) ==
    IF \/ m.resource_type \notin DOMAIN _RESOURCE_TYPE_TO_ENTITY_TYPE
       \/ m.action \notin DOMAIN _ACTION_TO_CANONICAL
    THEN NoIdentity
    ELSE LET entity_type == _RESOURCE_TYPE_TO_ENTITY_TYPE[m.resource_type]
             event_type  == <<entity_type, _ACTION_TO_CANONICAL[m.action]>>
             repository  == normalize_repository_url(m.repository_url)
         IN IF event_type \notin _CANONICAL_EVENT_TYPES \/ repository = NoIdentity
            THEN NoIdentity
            ELSE << m.provider, repository, entity_type, m.number, event_type,
                    IF m.occurred_at # 0 THEN m.occurred_at ELSE m.ingested_at >>

(* The route _process_message takes through a message before any await:    *)
(* "dlq" for every poison class, "persist" for a mapped event, "raise" for *)
(* an exception no handler of _process_message catches.  A null body       *)
(* (tombstone) is caught as AttributeError, and the handler then decodes   *)
(* the null again and raises.                                              *)
Route(m) ==
    IF m.body = "null" THEN "raise"
    ELSE IF m.body = "undecodable" \/ ~m.shape THEN "dlq"
    ELSE LET v == validate_normalized_event(m) IN
         IF v = "raise" THEN "raise"
         ELSE IF v = "reject" \/ map_normalized_event(m) = NoIdentity THEN "dlq"
         ELSE "persist"

-----------------------------------------------------------------------------
(* Properties of a message.                                                *)

\* The fields that pydantic's model has after parsing.
IsMessage(m) ==
    /\ DOMAIN m = { "body", "shape", "schema_version", "event_type", "provider",
                    "delivery_id", "resource_type", "action", "repository_url", "number", "occurred_at",
                    "ingested_at", "ref_provider", "ref_delivery_id" }
    /\ DOMAIN m.repository_url = {"scheme", "host", "port", "path"}

=============================================================================
