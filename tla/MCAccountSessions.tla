-------------------------- MODULE MCAccountSessions --------------------------
(* An instance of AccountSessions for TLC. *)
EXTENDS AccountSessions, TLC

\* Invites may be made out to nobody.
ToAny == [i \in Invites |-> None]

\* With such invites nothing tells two addresses apart.
Symmetric == Permutations(Tasks) \cup Permutations(Emails)
=============================================================================
