\* Four values at a time.
SPECIFICATION Spec
CONSTANTS
    Node = {n1, n2, n3, n4}
    true = true
    Key = {k, l}
    BadKey = bad
    Text = {"t", "u"}
    None = None
    FirstSize = 1
    MaxWeight = 4
    MaxOwned = 1
SYMMETRY Symmetry
INVARIANTS
    CountsAreExact
    OnlyCyclesLeak
    DeepCopiesAreEqualAndApart
\* The program can have leaked every value it may allocate.
CHECK_DEADLOCK FALSE
