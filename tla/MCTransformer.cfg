SPECIFICATION Spec
CONSTANTS
    Length = 4
    Actions = {"allow", "mask", "redact"}
    Confidences = {1, 2}
    MaxFindings = 3
CHECK_DEADLOCK FALSE
INVARIANTS
    TypeOK
    OffsetsHold
    MarkersOfOriginals
    SeverestHides
    NothingElseHidden
