\* Barrier safety of the internal-store teardown, and the return of every
\* attempt, under every failure except a failing barrier allreduce,
\* including the ones that put the ranks' counters out of step.  Deadlock
\* is checked: no rank waits forever.
SPECIFICATION FairSpec
CONSTANTS
    N = 3
    MaxAttempts = 2
    Faults <- MCFaultsBeforeKey
    Methods <- MCMethodsDefault
    NoStore = NoStore
    ExtStore = ExtStore
    NoValue = NoValue
    NoId = NoId
    NoKey = NoKey
INVARIANTS
    StoreReleasedOnReturn
PROPERTY
    AttemptReturns
