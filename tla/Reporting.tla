------------------------------ MODULE Reporting ------------------------------
(***************************************************************************)
(* Reporting deliveries: POST /api/v1/reporting/ingest/deliveries persists *)
(* a batch, one transaction per delivery, in three tables: the delivery,   *)
(* its state trail, and the current aggregate of the resource it is about. *)
(* The transaction takes the resource's advisory lock, so that deliveries  *)
(* of one resource are serialised; a delivery is one step here.  Requests  *)
(* interleave between deliveries, and may be cut off and sent again.       *)
(*                                                                         *)
(* A payload is a function from the keys it has to a value or None.  jsonb *)
(* comes back from asyncpg as text (the pool registers no codec): the      *)
(* second delivery of a resource raises in dict(stored_payload).           *)
(***************************************************************************)
EXTENDS Values, Integers, Sequences, FiniteSets, Functions

CONSTANTS
    Deliveries,  \* [id, resource (or None), at, payload]
    Clients,     \* concurrent requests
    Batches,     \* the batches clients send: sequences of deliveries
    MaxPosts     \* bound on the requests of a client

VARIABLES
    deliveryRow,  \* reporting_deliveries: delivery id -> delivery, or None
    trailRow,     \* ids with a 'persisted' row in delivery_state_trails
    aggregate,    \* resource -> [payload, provenance, last], or None
    post,         \* client -> the request it has under way
    acceptedBy    \* delivery id -> how often it was answered 'accepted'

repVars == <<deliveryRow, trailRow, aggregate, post, acceptedBy>>

Ids == {d.id : d \in Deliveries}
Resources == {d.resource : d \in Deliveries} \ {None}

-----------------------------------------------------------------------------
(* The forward-only merge.  A writer is the pair of time and delivery id.  *)

Writer(d) == <<d.at, d.id>>

\* is_newer: later, or at the same time with the lower delivery id.
IsNewer(incoming, stored) ==
    incoming[1] > stored[1] \/ (incoming[1] = stored[1] /\ incoming[2] < stored[2])

AdvanceLast(stored, incoming) == IF IsNewer(incoming, stored) THEN incoming ELSE stored

Given(payload) == {k \in DOMAIN payload : payload[k] # None}

\* The row of a resource's first delivery.
FirstAggregate(d) ==
    [payload    |-> [k \in Given(d.payload) |-> d.payload[k]],
     provenance |-> [k \in Given(d.payload) |-> Writer(d)],
     last       |-> Writer(d)]

\* Times and delivery ids are ordered; a stored row is not NULL.
ASSUME ReportingAssumption ==
    /\ MaxPosts \in Nat
    /\ \A d \in Deliveries : d.at \in Int /\ d.id \in Int /\ d # None /\ FirstAggregate(d) # None
    /\ Batches \subseteq Seq(Deliveries)

\* forward_merge and advance_last, given the stored row as a mapping.
ForwardMerge(stored, d) ==
    LET keys == DOMAIN stored.payload \cup Given(d.payload)
        WriterOf(k) == IF k \in DOMAIN stored.provenance THEN stored.provenance[k] ELSE stored.last
        Takes(k) == k \in Given(d.payload) /\
                      (k \notin Given(stored.payload) \/ IsNewer(Writer(d), WriterOf(k)))
    IN  [payload    |-> [k \in keys |-> IF Takes(k) THEN d.payload[k] ELSE stored.payload[k]],
         provenance |-> [k \in DOMAIN stored.provenance \cup {k \in keys : Takes(k)} |->
                            IF Takes(k) THEN Writer(d) ELSE stored.provenance[k]],
         last       |-> AdvanceLast(stored.last, Writer(d))]

\* The aggregate that deliveries produce, merged in the order given.
Merged(ds) ==
    LET Upto[n \in 1..Len(ds)] == IF n = 1 THEN FirstAggregate(ds[1])
                                           ELSE ForwardMerge(Upto[n - 1], ds[n])
    IN  Upto[Len(ds)]

\* The final aggregate does not depend on the order of arrival: deliveries
\* that come late fill in what newer ones left out and regress nothing, ties
\* and None values included.
MergeIsOrderFree(ds) ==
    \A p \in Bijection(1..Len(ds), 1..Len(ds)) : Merged([i \in 1..Len(ds) |-> ds[p[i]]]) = Merged(ds)

-----------------------------------------------------------------------------
(* The endpoint.                                                           *)

NoPost == [batch |-> <<>>, next |-> 1, sent |-> 0]

DeliveryOutcome(d) ==
    IF deliveryRow[d.id] # None THEN "duplicate"
    ELSE IF d.resource # None /\ aggregate[d.resource] # None THEN "rejected"
    ELSE "accepted"

SendPost(c) ==
    /\ post[c].batch = <<>> /\ post[c].sent < MaxPosts
    /\ \E b \in Batches : post' = [post EXCEPT ![c] = [batch |-> b, next |-> 1, sent |-> @.sent + 1]]
    /\ UNCHANGED <<deliveryRow, trailRow, aggregate, acceptedBy>>

Advance(c) ==
    LET p == post[c]
    IN  post' = [post EXCEPT ![c] =
                   IF p.next = Len(p.batch) THEN [NoPost EXCEPT !.sent = p.sent] ELSE [p EXCEPT !.next = @ + 1]]

\* Mutant: a redelivery is stored and answered like a new delivery.
PersistDelivery_NoDedup(c) ==
    LET d == post[c].batch[post[c].next] IN
    /\ post[c].batch # <<>>
    /\ deliveryRow' = [deliveryRow EXCEPT ![d.id] = d]
    /\ trailRow' = trailRow \cup {d.id}
    /\ acceptedBy' = [acceptedBy EXCEPT ![d.id] = @ + 1]
    /\ UNCHANGED aggregate
    /\ Advance(c)

\* _persist_delivery: an exception rolls the whole delivery back.
PersistDelivery(c) ==
    LET d == post[c].batch[post[c].next] IN
    /\ post[c].batch # <<>>
    /\ IF DeliveryOutcome(d) = "accepted"
       THEN /\ deliveryRow' = [deliveryRow EXCEPT ![d.id] = d]
            /\ trailRow' = trailRow \cup {d.id}
            /\ aggregate' = IF d.resource = None THEN aggregate
                            ELSE [aggregate EXCEPT ![d.resource] = FirstAggregate(d)]
            /\ acceptedBy' = [acceptedBy EXCEPT ![d.id] = @ + 1]
       ELSE UNCHANGED <<deliveryRow, trailRow, aggregate, acceptedBy>>
    /\ Advance(c)

\* The request is cut off between two deliveries; the client may repeat it.
DropPost(c) ==
    /\ post[c].batch # <<>>
    /\ post' = [post EXCEPT ![c] = [NoPost EXCEPT !.sent = post[c].sent]]
    /\ UNCHANGED <<deliveryRow, trailRow, aggregate, acceptedBy>>

ReportingInit ==
    /\ deliveryRow = [i \in Ids |-> None]
    /\ trailRow = {}
    /\ aggregate = [r \in Resources |-> None]
    /\ post = [c \in Clients |-> NoPost]
    /\ acceptedBy = [i \in Ids |-> 0]

ReportingNext == \E c \in Clients : SendPost(c) \/ PersistDelivery(c) \/ DropPost(c)

ReportingSpec == ReportingInit /\ [][ReportingNext]_repVars

-----------------------------------------------------------------------------
(* Properties.                                                             *)

\* The three tables tell one story, whatever is rejected, repeated or cut
\* off: a delivery has a trail exactly when it is stored, and an aggregate
\* points at a stored delivery of its resource.
ReportingTablesAgree ==
    /\ trailRow = {i \in Ids : deliveryRow[i] # None}
    /\ \A r \in Resources : aggregate[r] # None =>
          LET d == deliveryRow[aggregate[r].last[2]] IN d # None /\ d.resource = r

\* A delivery is accepted once, however many requests carry it.
AcceptedOnce == \A i \in Ids : acceptedBy[i] = IF deliveryRow[i] # None THEN 1 ELSE 0

\* A delivery counts once, in all three tables.
DeliveriesCountOnce == ReportingTablesAgree /\ AcceptedOnce
=============================================================================
