\* Three threads race, in the builds that synchronise.
SPECIFICATION SeedSpec
CONSTANTS
    t1 = t1
    t2 = t2
    t3 = t3
    k1 = k1
    k2 = k2
    Thread = {t1, t2, t3}
    Key = {k1, k2}
    Seed = {1, 2}
    Variants = {"atomic", "windows", "sync"}
INVARIANTS
    KeysAreFound
    SeededBeforeUse
PROPERTIES
    SeedIsFinal
    SeedingEnds
