\* An interface entry without a port.
CONSTANTS
    Devices <- MCDevices
    Indices <- MCIndices
    Names <- MCNames
    DeviceOf <- MCDeviceOf
    FlagChoices <- MCFlagChoices
    Addresses <- MCAddresses
    Sections <- NoPortSections
    MaxEntries = 1
SPECIFICATION Spec
INVARIANT StandardPort
\* initialise returns.
CHECK_DEADLOCK FALSE
