--------------------------- MODULE MCAccountClient ---------------------------
(* An instance of AccountClient for TLC.  What may fail is explored less   *)
(* far than what may overlap.                                              *)
EXTENDS AccountClient, Naturals, TLC

CONSTANTS
    MaxFaultyOps,       \* bound on the operations begun while anything may fail
    MaxFaultySignIns    \* bound on the sign-ins among them

Within ==
    /\ Cardinality({k \in Ops : op'[k].at # "new"}) <= MaxFaultyOps
    /\ Cardinality({c \in SignIns : head'[c] # None}) <= MaxFaultySignIns

MCNext == Next /\ (network = "faulty" => Within)

MCSpec == Init /\ [][MCNext]_vars

Symmetric == Permutations(Ops) \cup Permutations(SignIns)
=============================================================================
