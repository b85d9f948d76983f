\* Every combination of the small inputs MCLaunch defines.
SPECIFICATION Spec
CONSTANTS
    MAX_ADVERSARY_ROUNDS = 3
    TAIL_LINES = 2
    Hosts <- MCHosts
    RawIds <- MCRawIds
    Arguments <- MCArguments
    Outputs <- MCOutputs
    Calls <- MCCalls
    Scripts <- MCScripts
    DIFF_CONTEXT_LINES = 1
    SLUG_MAX = 6
INVARIANT SandboxHolds
INVARIANT NamesRoundTrip
INVARIANT TextSurvives
INVARIANT AcceptedConfigConverges
\* A launch ends.
CHECK_DEADLOCK FALSE
