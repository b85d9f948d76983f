\* Two issues, a requeue each, one survived error: what must happen, and how often.
SPECIFICATION FairSpec
CONSTANTS
    Issues = {1, 2}
    max_concurrent_agents = 1
    MAX_ANSWER_ATTEMPTS = 2
    MAX_ANSWER_DELIVERIES_PER_TICK = 1
    Slugs = {"valid"}
    MaxRequeues = 1
    MaxCrashes = 0
    MaxFaults = 1
INVARIANT DeliveredOnce
PROPERTY PeerIsAnswered
PROPERTY EveryIssueEnds
