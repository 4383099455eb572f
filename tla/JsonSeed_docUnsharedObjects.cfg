\* The fallback jansson/Makefile builds, against the README.
SPECIFICATION SeedSpec
CONSTANTS
    t1 = t1
    t2 = t2
    t3 = t3
    k1 = k1
    k2 = k2
    Thread = {t1, t2}
    Key = {k1}
    Seed = {1, 2}
    Variants = {"fallback"}
INVARIANTS
    DocUnsharedObjectsAreSafe
