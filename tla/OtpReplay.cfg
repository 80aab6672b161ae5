CONSTANTS
    e1 = e1
    o1 = o1
    pa = pa
    pb = pb
    pc = pc
    q1 = q1
    q2 = q2
    Requests = {}
    Passwords = {pa, pb, pc}
    InitialPassword = pa
    MaxFailedLoginAttempts = 1
    LockoutMinutes = 1
    MaxTime = 2
    MaxSessions = 1
    OtpRequests = {o1}
    Emails = {e1}
    OtpExpiryMinutes = 5
    OtpThrottleWindow = 1
    OtpMaxRequests = 2
    Resets = {q1, q2}
    PasswordHistoryDepth = 1
    MaxEntries = 2
    MaxAborts = 0
SPECIFICATION WatchedSpec
INVARIANT OtpSingleUse
