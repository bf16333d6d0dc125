SPECIFICATION Spec
CONSTANTS
    Users = {ana, bia, caio, duda, eva}
    Workers = {w1, w2}
    Reqs = {r1, r2, r3}
    None = None
SYMMETRY Symmetry
INVARIANTS TypeOK SeatsBounded NoDanglingCouple
PROPERTIES PairingUnlessStale LeavesOnlyIfStale
