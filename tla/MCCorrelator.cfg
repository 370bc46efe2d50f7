CONSTANTS
    numdatastreams = 2
    numcores = 2
    RING = 2
    Subints = 5
    Files = 2
    Eager = TRUE
    Deaf = {2}
SPECIFICATION Spec
INVARIANTS DataMatch NothingLeft FairTurns
PROPERTY Ends
