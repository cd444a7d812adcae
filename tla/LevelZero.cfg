\* The Level Zero globals and the resources created in them, with every
\* driver call failing except the second zeDeviceGet and the property query.
SPECIFICATION Spec
CONSTANTS
    Platform <- MCPlatform
    Faults <- MCFaultsLZ
    MaxCalls = 6
    Null = Null
    NoContext = NoContext
INVARIANTS
    TypeOK
    InitializedUsable
    ResourcesInContext
