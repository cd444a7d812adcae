\* A failing second zeDeviceGet on the only driver with devices leaves
\* null handles in g_devices, and initialisation still succeeds.
SPECIFICATION Spec
CONSTANTS
    Platform <- MCPlatformEmptySecond
    Faults = {"deviceGetList"}
    MaxCalls = 4
    Null = Null
    NoContext = NoContext
INVARIANT
    InitializedUsable
