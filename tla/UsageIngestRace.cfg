SPECIFICATION Spec
CONSTANTS
    A = A
    B = B
    r1 = r1
    d1 = d1
    d2 = d2
    t1 = t1
    w1 = w1
    w2 = w2
    None = None
    Unknown = Unknown
    Sources = {A}
    Records = {r1}
    Buckets = {d1, d2}
    Texts = {t1}
    Workers = {w1, w2}
    Requests <- RaceRequests
    MaxResolutions = 0
SYMMETRY MCWorkers
INVARIANT ReplayNeverDoubleCounts
