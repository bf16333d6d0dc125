SPECIFICATION Spec
CONSTANTS
    Users = {ana}
    Intervals = {monthly}
    TrialDays = 0
    Customers = {k1}
    Sessions = {s1}
    Workers = {w1, w2}
    Reqs = {r1, r2}
    Jobs = {j1}
    MaxEvents = 2
    MaxPeriods = 2
    Outcomes = {"active", "past_due", "canceled"}
    None = None
SYMMETRY Symmetry
INVARIANTS  PremiumIsSubscribed
PROPERTIES AppliedOnce
