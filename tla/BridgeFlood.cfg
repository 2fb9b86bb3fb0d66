\* One termination signal more than the channel has room for.  The process
\* really does stop dead here, so deadlock is not what is being asked.
CONSTANTS
    Capacity = 16
    MaxSignals = 15
    MaxSockets = 1
SPECIFICATION FairSpec
PROPERTY SignalLeadsToExit
CHECK_DEADLOCK FALSE
