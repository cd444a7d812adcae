\* Identity convergence across retries when every failure strikes after the
\* store key is taken.  A barrier allreduce failing on one rank leaves its
\* peers in streamSynchronize for good, so the system really may stop.
SPECIFICATION Spec
CONSTANTS
    N = 3
    MaxAttempts = 2
    Faults <- MCFaultsAfterKeyBarrier
    Methods <- MCMethods
    NoStore = NoStore
    ExtStore = ExtStore
    NoValue = NoValue
    NoId = NoId
    NoKey = NoKey
CHECK_DEADLOCK FALSE
INVARIANTS
    TypeOK
    SameRendezvousId
PROPERTY
    RendezvousRefined
