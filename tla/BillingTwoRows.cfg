SPECIFICATION Spec
CONSTANTS
    Users = {ana}
    Intervals = {monthly, yearly}
    TrialDays = 7
    Customers = {k1}
    Sessions = {s1, s2}
    Workers = {w1, w2}
    Reqs = {r1, r2}
    Jobs = {}
    MaxEvents = 2
    MaxPeriods = 1
    Outcomes = {}
    None = None
INVARIANT OneRowPerUser
