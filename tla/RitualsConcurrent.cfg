SPECIFICATION Spec
CONSTANTS
    Users = {ana, bia}
    Couples = {c1, c2}
    RitualIds = {i1}
    EntryIds = {e1, e2}
    Reqs = {r1, r2}
    Limits = {1}
    MaxDay = 2
    Horizon = 7
    None = None
INVARIANTS TypeOK EntriesHaveTheirRitual StreaksAreRuns
PROPERTIES BookUnlessStale SecondOnlyIfStale
SYMMETRY Symmetry
