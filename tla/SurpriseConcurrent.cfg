SPECIFICATION FairSpec
CONSTANTS
    Users = {ana, bia, caio}
    Couples = {c1}
    Workers = {w1}
    Texts = {t1, t2}
    Reqs = {r1, r2}
    Jobs = {j1, j2}
    None = None
INVARIANTS TypeOK RowsAgree
PROPERTIES EventuallyUnlocked LifecycleUnlessStale EarlyOnlyIfReplaced
