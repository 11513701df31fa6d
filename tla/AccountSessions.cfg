SPECIFICATION Spec
CONSTANTS
    None = None
    Ended = Ended
    Emails = {eA, eB}
    Invites = {inv}
    InviteEmail <- ToAny
    Registration = "invite"
    Codes = {c1, c2}
    Tokens = {t1,t2,t3}
    Tasks = {k1,k2,k3,k4}
    MayFail = TRUE
SYMMETRY Symmetric
INVARIANTS InviteAdmitsOne MailboxOwnsSession RegisteredIsMailed
PROPERTY ImplementsChains
CHECK_DEADLOCK FALSE
