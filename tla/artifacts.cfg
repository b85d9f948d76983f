\* One issue, up to two rounds, two crashes between any two effects.
SPECIFICATION FairSpec
CONSTANTS
    FINDINGS_MAX = 2
    FOLLOWUP_MAX_PROPOSALS = 1
    ARTIFACT_MAX = 3
    ImplementerOutputs <- MCImplementerOutputs
    AdversaryOutputs <- MCAdversaryOutputs
    n_rounds = 1
    MAX_ROUNDS = 2
    MaxCrashes = 2
INVARIANT LedgerIsHonest
INVARIANT CopiesAreCrashes
INVARIANT PostedFindingsAreBriefed
INVARIANT CleanRoundsAreAttested
PROPERTY FinishedWorkIsPublished
\* The orchestrator rests when the issue has ended.
CHECK_DEADLOCK FALSE
