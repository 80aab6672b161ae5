CONSTANTS
    r1 = r1
    r2 = r2
    good = good
    bad = bad
    Requests = {r1}
    Passwords = {good, bad}
    InitialPassword = good
    MaxFailedLoginAttempts = 3
    LockoutMinutes = 2
    MaxTime = 5
    MaxSessions = 3
SPECIFICATION ObservedSpec
INVARIANT LockRunsItsCourse
INVARIANT CounterExact
INVARIANT LogoutEndsSession
