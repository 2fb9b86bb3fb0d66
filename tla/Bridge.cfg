\* The channel as it is in main.rs, and the most signals it can take.
CONSTANTS
    Capacity = 16
    MaxSignals = 14
    MaxSockets = 2
SPECIFICATION FairSpec
INVARIANTS
    TypeOK
    Listening
    FlushedAtBreak
    NeverBlocked
    NothingLeaked
PROPERTIES
    ImplementsLifecycle
    AnnouncesItself
    SignalLeadsToExit
