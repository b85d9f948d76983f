\* Two issues with any routing labels, one crash anywhere, no survived errors.
SPECIFICATION Spec
CONSTANTS
    Issues = {1, 2}
    max_concurrent_agents = 1
    MAX_ANSWER_ATTEMPTS = 2
    MAX_ANSWER_DELIVERIES_PER_TICK = 1
    Slugs = {"valid", "invalid", "missing"}
    MaxRequeues = 0
    MaxCrashes = 1
    MaxFaults = 0
INVARIANT ClosedIsDelivered
INVARIANT FanOut
PROPERTY KeepsLifecycle
