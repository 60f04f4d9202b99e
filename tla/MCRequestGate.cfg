CONSTANTS
    a = a
    b = b
    Callers = {a, b}
    Interval = 2
    Second = 1
    MaxBackoff = 1
    Retries = 1
    Slack = 1
    Timeout = 1
    MaxCalls = 2
    None = None
SPECIFICATION FairSpec
INVARIANTS
    RateKept
    NoDebt
PROPERTIES
    CallsEnd
CHECK_DEADLOCK FALSE
