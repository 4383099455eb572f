\* Four keys in a table that grows from two buckets to eight.
SPECIFICATION Spec
CONSTANTS
    k1 = k1
    k2 = k2
    k3 = k3
    k4 = k4
    none = none
    v1 = v1
    v2 = v2
    null = null
    Key = {k1, k2, k3, k4}
    NoKey = none
    Value = {v1, v2}
    Null = null
    Hash <- SomeHash
    InitialOrder = 1
SYMMETRY Symmetry
INVARIANTS
    BucketsPartitionTheList
    IterationIsComplete
PROPERTIES
    ImplementsKeyMap
