SPECIFICATION AlgorithmsSpec
CONSTANTS
    i1 = i1
    a = a
    b = b
    Issues = {i1}
    ChangeRequests = {a, b}
    Malformed = Malformed
    None = None
    Messages <- MCMessages
    FactSets <- MCFactSets
    CorrelationWindows <- MCWindows
    Databases <- MCDatabases
    UsageQuestions <- MCUsageQuestions
    AgentQuestions <- MCAgentQuestions
INVARIANTS ValidatedAlwaysMaps SpellingsConverge EpisodesFollowFacts CorrelationIsSound ChangeRequestViewsAgree UsageViewsAgree
