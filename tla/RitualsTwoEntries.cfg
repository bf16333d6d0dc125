SPECIFICATION Spec
CONSTANTS
    Users = {ana, bia}
    Couples = {c1}
    RitualIds = {i1}
    EntryIds = {e1, e2}
    Reqs = {r1, r2}
    Limits = {1}
    MaxDay = 1
    Horizon = 1
    None = None
INVARIANT OneEntryPerDay
SYMMETRY Symmetry
