SPECIFICATION Spec
CONSTANTS
    Users = {ana, bia, caio}
    Couples = {c1}
    Workers = {w1, w2}
    Reqs = {r1, r2}
    None = None
SYMMETRY Symmetry
INVARIANTS TypeOK RowsAgree
PROPERTIES LifecycleUnlessStale UnsentReadOnlyIfReplaced
