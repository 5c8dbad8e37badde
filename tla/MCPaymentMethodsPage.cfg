\* The page may sit idle once the admin stops: deadlock is not an error.
CONSTANTS
    m1 = m1
    m2 = m2
    none = none
    noParams = noParams
    Methods = {m1, m2}
    None = none
    NoParams = noParams
    MaxOps = 3
    Templates <- MCTemplates
    Failures <- MCFailures
    FallbackMsg = ""
SPECIFICATION FairSpec
CHECK_DEADLOCK FALSE
INVARIANT TypeOK
INVARIANT ToastExplainsError
PROPERTY EnabledConverges
