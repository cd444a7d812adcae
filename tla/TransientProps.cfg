\* is_igpu is evaluated twice; a property query that fails only the first
\* time lets an iGPU-only list pass all_of and then be emptied by remove_if.
SPECIFICATION Spec
CONSTANTS
    Platform <- MCPlatform
    Faults = {"deviceGet", "props"}
    MaxCalls = 4
    Null = Null
    NoContext = NoContext
INVARIANT
    InitializedUsable
