\* The announcement that the architecture document asks of a shutdown.
CONSTANTS
    Capacity = 16
    MaxSignals = 1
    MaxSockets = 1
SPECIFICATION Spec
INVARIANT OfflineAnnounced
