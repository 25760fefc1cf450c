SPECIFICATION FairSpec
CONSTANTS
    t1 = t1
    t2 = t2
    t3 = t3
    Threads = {t1, t2, t3}
    Cap = 2
    MaxItems = 3
INVARIANTS Conservation NoLostWakeup
PROPERTIES TakenInOrder CloseReleasesAll
