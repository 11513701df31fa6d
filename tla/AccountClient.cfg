SPECIFICATION MCSpec
CONSTANTS
    None = None
    Ended = Ended
    SignIns = {s1, s2}
    Tokens = {t1, t2, t3}
    Ops = {k1, k2, k3, k4}
    Kinds = {"signIn", "signOut", "use"}
    Networks = {"reliable", "faulty"}
    MaxFaultyOps = 3
    MaxFaultySignIns = 1
SYMMETRY Symmetric
INVARIANT NobodyIsStranded
PROPERTY StoreNeverGoesBack
CHECK_DEADLOCK FALSE
