CONSTANTS
    r1 = r1
    r2 = r2
    good = good
    bad = bad
    Requests = {r1, r2}
    Passwords = {good, bad}
    InitialPassword = good
    MaxFailedLoginAttempts = 2
    LockoutMinutes = 1
    MaxTime = 3
    MaxSessions = 3
SYMMETRY Slots
SPECIFICATION Spec
INVARIANT TypeOK
INVARIANT IndInv
INVARIANT RetiredNeverCurrent
INVARIANT CounterBelowLimit
PROPERTY LockLiftedOnlyByStaleExpiry
PROPERTY ImplementsRegister
