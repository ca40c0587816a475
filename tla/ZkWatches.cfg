\* One path, two watchers, two lost connections, watchers that poll the handle.
CONSTANTS
    Paths = {p1}
    Watchers = {w1, w2}
    DefaultWatcher = w1
    MaxRequests = 2
    MaxWrites = 2
    MaxErrors = 2
    MaxDepth = 2
SPECIFICATION FairSpec
INVARIANTS TypeOK WatchCovered EventBeforeData OneShot OnlyNewChanges
PROPERTIES WatchFires
CHECK_DEADLOCK FALSE
