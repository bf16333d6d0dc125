SPECIFICATION Spec
CONSTANTS
    Runs = {p1, p2, p3}
INVARIANTS TypeOK SchemaIsOfVersion RefusedOnlyByLeftTypes
PROPERTIES CommandsAreSerial HistoryIsSerial
SYMMETRY Symmetry
