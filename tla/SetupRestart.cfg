SPECIFICATION FairSpec
CONSTANTS
    w1 = w1
    w2 = w2
    b1 = b1
    b2 = b2
    u1 = u1
    u2 = u2
    None = None
    Workers = {w1, w2}
    Backups = {}
    Usernames = {u1}
    Passwords = {"weak", "strong"}
    MaxCrashes = 0
    MaxFaults = 0
    MaxExpiries = 0
PROPERTY RestartRecovers
