SPECIFICATION Spec
CONSTANTS
    Users = {ana, bia}
    Couples = {c1}
    Workers = {w1}
    Texts = {t1}
    Reqs = {r1}
    Jobs = {j1}
    None = None
PROPERTY OpenedIsFinal
