CONSTANTS
    t1 = t1
    t2 = t2
    t3 = t3
    Threads = {t1, t2}
    FailureThreshold = 2
    SuccessThreshold = 2
    Timeout = 2
SPECIFICATION Spec
INVARIANTS CountersAgree
PROPERTIES Recovers
