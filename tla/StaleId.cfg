\* A rank whose constructor or StoreManager call fails takes no store key in
\* that attempt, so its counter_ can fall behind rank 0's.
SPECIFICATION Spec
CONSTANTS
    N = 2
    MaxAttempts = 2
    Faults <- MCFaultsBeforeKey
    Methods <- MCMethods
    NoStore = NoStore
    ExtStore = ExtStore
    NoValue = NoValue
    NoId = NoId
    NoKey = NoKey
INVARIANT
    NoStaleId
