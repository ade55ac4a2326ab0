SPECIFICATION Spec
CONSTANTS
    h1 = h1
    h2 = h2
    ann = ann
    bob = bob
    cyd = cyd
    Requests = {h1, h2}
    Emails = {ann, bob, cyd}
    InviteLifetime = 1
    SessionLifetime = 1
    MaxLoginAttempts = 1
    LoginWindow = 1
    MaxAccounts = 3
    MaxInvites = 2
    MaxSessions = 1
    MaxLogged = 3
    MaxFaults = 1
    MaxClock = 2
INVARIANT TypeOK
INVARIANT OneFounder
INVARIANT InviteRedeemedOnce
INVARIANT SpentInviteIsAccountedFor
INVARIANT LoginOvershootBounded
PROPERTY RevocationHolds
CONSTRAINT Bounded
SYMMETRY Symmetry
