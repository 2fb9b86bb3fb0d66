\* Up to three addresses over two devices and an alias.
CONSTANTS
    Devices <- MCDevices
    Indices <- MCIndices
    Names <- MCNames
    DeviceOf <- MCDeviceOf
    FlagChoices <- MCFlagChoices
    Addresses <- MCAddresses
    Sections <- MCSections
    MaxEntries = 3
SPECIFICATION Spec
INVARIANTS
    TypeOK
    SavedWhole
    OneMember
    MembersPerDevice
PROPERTY ImplementsConnector
\* initialise returns.
CHECK_DEADLOCK FALSE
