CONSTANTS
    t1 = t1
    t2 = t2
    s1 = s1
    Tickets = {t1, t2}
    Sweepers = {s1}
    BatchLimit = 1
    MaxReplies = 2
SPECIFICATION FairSpec
INVARIANT TypeOK
INVARIANT NoticeMatchesAutoClose
PROPERTY IdleTicketEventuallyClosed
\* After Stop the loop returns and the service is gone: a terminal state.
CHECK_DEADLOCK FALSE
