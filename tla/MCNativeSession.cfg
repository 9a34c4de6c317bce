SPECIFICATION FairSpec
CONSTANTS
    t1 = t1
    t2 = t2
    ok = ok
    bad = bad
    Tools <- MCTools
    Results <- MCResults
    ReplayLimit = 2
    MaxHandle = 6
INVARIANTS
    NoForgottenRoot
    AnswersInStep
    CloseEndsBroker
    ResponseIsBacked
PROPERTY
    CallsReturn
