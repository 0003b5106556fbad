SPECIFICATION FairSpec
CONSTANTS
    Transfers = {t1, t2}
    NULL = NULL
    Modes <- MixedModes
    RetryValues <- OneRetry
    Loads <- OneOrTwo
CHECK_DEADLOCK FALSE
 
INVARIANT InfoMatchesWindows
INVARIANT RetriesBounded
PROPERTY EventuallyDone
