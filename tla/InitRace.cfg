CONSTANTS
    Threads <- MCThreads
    NoKey = NoKey
SPECIFICATION Spec
INVARIANT BufferInCurrentContext
