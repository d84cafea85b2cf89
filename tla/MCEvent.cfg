CONSTANTS
    Threads = {t1, t2}
    MaxSubs = 2
    MaxPosts = 2
    MaxCalls = 3
SYMMETRY ThreadSymmetry
SPECIFICATION Spec
INVARIANTS ListInv EmitCallsItsSnapshot PostedOnce
