\* Time unit 10 s: a 10 s budget, a 30 s HTTP client timeout, two calls.
CONSTANTS
    Results <- MCResults
    MaxCalls = 2
    Budget = 1
    HttpTimeout = 3
SPECIFICATION FairSpec
INVARIANT TypeOK
INVARIANT ParseMatchesContract
PROPERTY ExecutionTerminates
\* ExecuteDeliveryScript returns once: its end is a final state.
CHECK_DEADLOCK FALSE
