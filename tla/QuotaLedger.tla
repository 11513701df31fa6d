---------------------------- MODULE QuotaLedger -----------------------------
(***************************************************************************)
(* What the account subsystem promises about completion usage, with no     *)
(* handlers, stores or failures: every installation may be claimed by one  *)
(* account, for good; a completion adds one to one balance of the current  *)
(* month and never lifts it above the largest plan; and the anonymous      *)
(* usage of an installation is credited to its owner at most once.         *)
(***************************************************************************)
EXTENDS Integers

CONSTANTS Users, Installations, None, TopLimit, MaxMonth

VARIABLES owner, balance, credited, month

vars == <<owner, balance, credited, month>>

Months   == 1..MaxMonth
Subjects == Users \cup Installations

Init ==
  /\ owner    = [i \in Installations |-> None]
  /\ balance  = [s \in Subjects |-> [m \in Months |-> 0]]
  /\ credited = {}
  /\ month    = 1

Claim(i, u) ==
  /\ owner[i] = None
  /\ owner' = [owner EXCEPT ![i] = u]
  /\ UNCHANGED <<balance, credited, month>>

Charge(s) ==
  /\ balance[s][month] < TopLimit
  /\ balance' = [balance EXCEPT ![s][month] = @ + 1]
  /\ UNCHANGED <<owner, credited, month>>

Credit(i) ==
  /\ owner[i] # None /\ i \notin credited
  /\ balance' = [balance EXCEPT ![owner[i]][month] = @ + balance[i][month]]
  /\ credited' = credited \cup {i}
  /\ UNCHANGED <<owner, month>>

NextMonth ==
  /\ month' = month + 1
  /\ UNCHANGED <<owner, balance, credited>>

Next ==
  \/ \E i \in Installations, u \in Users : Claim(i, u)
  \/ \E s \in Subjects : Charge(s)
  \/ \E i \in Installations : Credit(i)
  \/ NextMonth

Spec == Init /\ [][Next]_vars

=============================================================================
