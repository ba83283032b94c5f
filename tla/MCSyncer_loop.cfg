SPECIFICATION FairSpec
CONSTANTS
    Debounce = 1  Poll = 2  MaxWait = 2  Full = 3  Retry = 1
    MaxListen = 2  MaxFaults = 2  MaxEvents = 1
INVARIANTS TypeOK AnnouncedIsPending DiscoveryFresh DebounceBounded
PROPERTY FollowsListeners
