\* The barrier allreduce may fail on one rank.  A peer then waits in
\* streamSynchronize, which has no timeout, so the system really stops:
\* deadlock is not reported separately and shows as a liveness violation.
SPECIFICATION FairSpec
CONSTANTS
    N = 2
    MaxAttempts = 1
    Faults <- MCFaultsBarrier
    Methods <- MCMethods
    NoStore = NoStore
    ExtStore = ExtStore
    NoValue = NoValue
    NoId = NoId
    NoKey = NoKey
CHECK_DEADLOCK FALSE
PROPERTY
    AttemptReturns
