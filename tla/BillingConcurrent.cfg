SPECIFICATION Spec
CONSTANTS
    Users = {ana}
    Intervals = {monthly, yearly}
    TrialDays = 7
    Customers = {k1, k2}
    Sessions = {s1, s2}
    Workers = {w1, w2}
    Reqs = {r1, r2}
    Jobs = {}
    MaxEvents = 2
    MaxPeriods = 1
    Outcomes = {"canceled"}
    None = None
SYMMETRY Symmetry
INVARIANTS TypeOK PremiumIsSubscribed 
PROPERTIES AppliedOnce SecondRowOnlyIfStale
CHECK_DEADLOCK FALSE
