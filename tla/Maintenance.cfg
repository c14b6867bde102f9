SPECIFICATION Spec
CHECK_DEADLOCK FALSE
CONSTANTS
    None = None
    DashJobs = {j1, j2}
    Plans <- MCPlans
    FactUniverse <- MCFacts
    Seeded <- MCSeeded
    Month <- MCMonth
    Int4Max = 2
    MaxFactSteps = 2
    AwxJobs = {1, 2}
    Passes = {p, q}
    Operators = {o}
    Limit = 1
    Shape <- MCShape
    EventRows <- MCEventRows
    OldEvents = {1, 2, 3}
    OldRollup <- MCOldRollup
    Admins = {a1, a2}
    Scopes <- MCScopes
    MaxBookings = 1
SYMMETRY Symmetry
INVARIANTS DashboardsAreExact RecordsAreKept RepairsAreExact
PROPERTIES CountedStaysCounted ReconciliationKeepsHistory OutcomesHaveEvidence
