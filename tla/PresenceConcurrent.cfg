SPECIFICATION Spec
CONSTANTS
    Users = {ana, bia}
    Tabs = {t1, t2, t3}
    MaxTabs = 2
    MaxCasts = 2
    None = None
INVARIANTS TypeOK PresentIsListed GoneIsSeenGone
PROPERTIES MissesOnlyBesideALeave KeyOutlivesOnlyFailures
SYMMETRY Symmetry
