SPECIFICATION RekeySpec
CONSTANTS
    Write = {w1, w2}
    Conn = {c1, c2}
    MaxKeys = 2
    MaxRekeys = 2
    MaxKills = 2
INVARIANTS
    OnlyRacesLoseCommits
PROPERTIES
    DuePlainRekeyed
CHECK_DEADLOCK FALSE
