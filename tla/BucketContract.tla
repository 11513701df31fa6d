--------------------------- MODULE BucketContract ---------------------------
(***************************************************************************)
(* What a rate limit promises: every key has a bucket of at most Capacity  *)
(* units that gains Rate units with every tick.  A request costs Unit      *)
(* units and is admitted exactly when they are there, and a refusal costs  *)
(* nothing.  A request whose answer is lost may have cost its units.       *)
(*                                                                         *)
(* A key that has not asked for longer than the term is forgotten, and     *)
(* finds a full bucket whatever its level was.  So a key that asks at      *)
(* least once in every term is never admitted more than Capacity + n *     *)
(* Rate units in n ticks; a key that stays away is given a full bucket     *)
(* once in a term, and no sooner.                                          *)
(***************************************************************************)
EXTENDS Naturals

CONSTANTS
    Keys, Unit, Rate, Capacity,
    Terms    \* the terms a store may have

VARIABLES
    term,    \* Static: ticks after which a key that does not ask is forgotten
    level,   \* the units of every key
    idle,    \* ticks since every key asked; those past the term are alike
    answer   \* the last answer every key was given

vars == <<term, level, idle, answer>>

Init ==
    /\ term \in Terms
    /\ level = [k \in Keys |-> Capacity]
    /\ idle = [k \in Keys |-> term + 1]
    /\ answer = [k \in Keys |-> "none"]

Asked(k) == idle' = [idle EXCEPT ![k] = 0]

Grant(k) ==
    /\ level[k] >= Unit
    /\ level' = [level EXCEPT ![k] = @ - Unit]
    /\ Asked(k)
    /\ answer' = [answer EXCEPT ![k] = "granted"]
    /\ UNCHANGED term

Refuse(k) ==
    /\ level[k] < Unit
    /\ Asked(k)
    /\ answer' = [answer EXCEPT ![k] = "refused"]
    /\ UNCHANGED <<term, level>>

Fail(k) ==
    /\ \/ UNCHANGED <<level, idle>>
       \/ level[k] >= Unit /\ level' = [level EXCEPT ![k] = @ - Unit] /\ Asked(k)
       \/ level[k] < Unit /\ UNCHANGED level /\ Asked(k)
    /\ answer' = [answer EXCEPT ![k] = "failed"]
    /\ UNCHANGED term

Filled(units) == IF units > Capacity THEN Capacity ELSE units

Tick ==
    /\ level' = [k \in Keys |-> IF idle[k] >= term THEN Capacity ELSE Filled(level[k] + Rate)]
    /\ idle' = [k \in Keys |-> IF idle[k] > term THEN idle[k] ELSE idle[k] + 1]
    /\ UNCHANGED <<term, answer>>

\* A restart of the only server forgets what was used.
Restart ==
    /\ level' = [k \in Keys |-> Capacity]
    /\ idle' = [k \in Keys |-> term + 1]
    /\ answer' = [k \in Keys |-> "none"]
    /\ UNCHANGED term

Next ==
    \/ \E k \in Keys : Grant(k) \/ Refuse(k) \/ Fail(k)
    \/ Tick \/ Restart

Spec == Init /\ [][Next]_vars
=============================================================================
