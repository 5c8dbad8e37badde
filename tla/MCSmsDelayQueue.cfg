\* One ProcessDelayedSMS loop; a limit of one so that codes are delayed.
CONSTANTS
    c1 = c1
    c2 = c2
    c3 = c3
    d1 = d1
    d2 = d2
    Codes = {c1, c2, c3}
    Drainers = {d1}
    Limit = 1
    Batch = 1
    SendCap = 2
SPECIFICATION FairSpec
INVARIANT TypeOK
PROPERTY DelayedDrained
