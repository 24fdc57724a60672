SPECIFICATION FairSpec
CONSTANTS
    Requests = {r1}
    Principal = 2
    Interest = 1
    MayFail = FALSE
PROPERTIES
    AutoRelease
