SPECIFICATION Spec
CONSTANTS
    None = None
    Ended = Ended
    SignIns = {s1}
    Tokens = {t1, t2}
    Ops = {k1, k2, k3}
    Kinds = {"signIn", "signOut", "use"}
    Networks = {"reliable"}
INVARIANT SignedOutIsCleared
CHECK_DEADLOCK FALSE
