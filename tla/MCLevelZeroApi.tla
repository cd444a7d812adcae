--------------------------- MODULE MCLevelZeroApi ---------------------------
EXTENDS LevelZeroApi

\* Driver 1 reports a single iGPU; driver 2 two dGPUs around an iGPU.
MCPlatform == << <<"iGPU">>, <<"dGPU", "iGPU", "dGPU">> >>

\* A first driver with one dGPU, a second with none.
MCPlatformEmptySecond == << <<"dGPU">>, <<>> >>

\* One driver with two dGPUs.
MCPlatformTwoDGpu == << <<"dGPU", "dGPU">> >>

\* Failures that leave the globals consistent.
MCFaultsLZ == {"initDrivers", "deviceGet", "context", "alloc", "queue",
               "pool", "event", "cmdList"}
=============================================================================
