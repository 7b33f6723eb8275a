SPECIFICATION Spec
CONSTANTS
    MaxCtx = 3
    Check = {k1}
    Signal = {w1}
    Caller = {}
SYMMETRY MCSymmetry
INVARIANT
    EveryContextReleasable
