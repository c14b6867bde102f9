---------------------------- MODULE MCAFKConsumer ----------------------------
(* Finite instances of AFKConsumer: named message classes and streams.     *)
EXTENDS AFKConsumer, TLC

CONSTANTS c1, c2

Url == [scheme |-> "https", host |-> "h", port |-> 0, path |-> "r"]

Message(delivery, action, occurred, ingested) ==
    [ body |-> "json", shape |-> TRUE, schema_version |-> "1.0",
      event_type |-> "normalized", provider |-> "github",
      delivery_id |-> delivery, resource_type |-> "issue", action |-> action,
      repository_url |-> Url, number |-> 1, occurred_at |-> occurred,
      ingested_at |-> ingested, ref_provider |-> "github",
      ref_delivery_id |-> delivery ]

Opened == Message("d1", "opened", 1, 1)
Undecodable == [Message("d3", "edited", 3, 3) EXCEPT !.body = "undecodable"]
Tombstone == [Message("d4", "edited", 4, 4) EXCEPT !.body = "null"]

TwoConsumers == {c1, c2}
TwoPartitions == {0, 1}

\* One delivery on both partitions, a message to dead-letter behind it on the
\* one, and on the other a message on which _process_message itself raises.
SplitStream == 0 :> (0 :> Opened @@ 1 :> Undecodable) @@ 1 :> (0 :> Tombstone @@ 1 :> Opened)
=============================================================================
