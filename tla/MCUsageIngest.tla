--------------------------- MODULE MCUsageIngest ---------------------------
(* Small deliveries for UsageIngest: a first delivery, its enriched replay *)
(* reported on another day, a cost correction, and a divergent replay.     *)
EXTENDS UsageIngest, TLC

CONSTANTS A, B, r1, d1, d2, t1, w1, w2

MCWorkers == Permutations(Workers)

First    == [rec |-> r1, tokens |-> 1, cache |-> None, cost |-> 1, text |-> None, bucket |-> d1]
Enriched == [First EXCEPT !.cache = 1, !.text = t1, !.bucket = d2]
Costlier == [First EXCEPT !.cost = 2, !.text = t1, !.bucket = None]
Diverged == [First EXCEPT !.tokens = 2]
Negative == [First EXCEPT !.tokens = -1]

\* A redelivers one record in three forms; B, an overlapping source, has its
\* own idea of the same record.
MCRequests ==
    {[source |-> A, batch |-> b] :
        b \in {<<Negative, First>>, <<Enriched>>, <<First, Costlier>>}} \cup
    {[source |-> B, batch |-> <<Diverged>>]}

RaceRequests ==
    {[source |-> A, batch |-> <<d>>] : d \in {First, Enriched}}

=============================================================================
