SPECIFICATION Spec
CONSTANTS
    Users = {ana, bia, caio}
    Workers = {w1}
    Reqs = {r1, r2}
    None = None
INVARIANT AtMostTwoMembers
