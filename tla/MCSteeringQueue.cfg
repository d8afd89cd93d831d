\* The queue as an API: two processors that may replace each other, retries.
SPECIFICATION FairSpec
CONSTANTS
    p1 = p1
    p2 = p2
    w1 = w1
    w2 = w2
    Processors <- TwoProcessors
    NoProcessor = NoProcessor
    Waiters <- TwoWaiters
    MaxMessages = 4
    RetryEnabled = TRUE
INVARIANTS
    NoGuidanceLost
    NoStalledPump
PROPERTY
    WaitersReleased
\* Closed, with nothing left to do, the queue rests.
CHECK_DEADLOCK FALSE
