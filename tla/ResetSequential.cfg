CONSTANTS
    e1 = e1
    o1 = o1
    r1 = r1
    pa = pa
    pb = pb
    pc = pc
    pd = pd
    q1 = q1
    Requests = {r1}
    Passwords = {pa, pb, pc, pd}
    InitialPassword = pa
    MaxFailedLoginAttempts = 2
    LockoutMinutes = 1
    MaxTime = 2
    MaxSessions = 1
    OtpRequests = {o1}
    Emails = {e1}
    OtpExpiryMinutes = 1
    OtpThrottleWindow = 1
    OtpMaxRequests = 1
    Resets = {q1}
    PasswordHistoryDepth = 2
    MaxEntries = 3
    MaxAborts = 0
SYMMETRY Symmetric
SPECIFICATION WatchedSpec
INVARIANT ResetTypeOK
INVARIANT HistoryIsPast
INVARIANT OtpSingleUse
INVARIANT CodesThrottled
PROPERTY ResetClearsWhatItRead
PROPERTY ImplementsRegister
PROPERTY NoRecentReuse
PROPERTY TrimSparesRecent
