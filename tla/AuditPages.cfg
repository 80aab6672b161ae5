CONSTANTS
    w1 = w1
    w2 = w2
    Writers = {w1, w2}
    Limit = 2
    MaxFirst = 6
    MaxOthers = 4
SYMMETRY Symmetric
CHECK_DEADLOCK FALSE
SPECIFICATION Spec
INVARIANT TypeOK
INVARIANT NothingSkipped
INVARIANT MissedOnlyByRace
INVARIANT HeadwayPerPage
