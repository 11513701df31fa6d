----------------------------- MODULE MCMetering -----------------------------
(* Small instances of Metering for TLC.                                    *)
EXTENDS Metering, TLC

Symmetry ==
  Permutations(Users) \cup Permutations(Installations)
    \cup Permutations(Requests) \cup Permutations(Links)

=============================================================================
