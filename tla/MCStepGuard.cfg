SPECIFICATION FairSpec
CONSTANTS
    test = test
    cleanup = cleanup
    w1 = w1
    w2 = w2
    NoCall = NoCall
    Keys <- TwoKeys
    RetryableKeys <- CleanupKey
    Calls <- TwoCalls
INVARIANT AtMostOneExecution
PROPERTIES
    LeaseChangesHandsFairly
    LedgerSpec
    SettledOnceFaultsStop
