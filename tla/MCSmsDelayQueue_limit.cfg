\* Two concurrent SendVerificationCode calls against a limit of one.
CONSTANTS
    c1 = c1
    c2 = c2
    c3 = c3
    d1 = d1
    d2 = d2
    Codes = {c1, c2}
    Drainers = {d1}
    Limit = 1
    Batch = 1
    SendCap = 2
SPECIFICATION Spec
INVARIANT DirectSendsWithinLimit
