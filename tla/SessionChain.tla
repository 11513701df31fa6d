---------------------------- MODULE SessionChain ----------------------------
(***************************************************************************)
(* What the session endpoints of the account API promise, without their    *)
(* statements, replies and failures: every sign-in is a chain of refresh   *)
(* tokens.  A chain is opened once, at most one of its tokens can be       *)
(* exchanged at any time, exchanging it hands out a token never seen       *)
(* before, and a chain that has ended has ended for good.                  *)
(***************************************************************************)
CONSTANTS
    Chains,     \* sign-ins
    Tokens,     \* refresh tokens
    None,       \* the head of a chain that has not begun
    Ended       \* the head of a chain that is over

VARIABLES
    head,       \* the token of each chain that can be exchanged
    spent       \* the tokens handed out so far

chainVars == <<head, spent>>

Init == head = [c \in Chains |-> None] /\ spent = {}

Fresh == Tokens \ spent

\* A verified code begins a chain with a fresh token.
Open(c, t) ==
    /\ head[c] = None /\ t \in Fresh
    /\ head' = [head EXCEPT ![c] = t] /\ spent' = spent \cup {t}

\* The head of a chain is exchanged for a fresh token.
Rotate(c, t, n) ==
    /\ head[c] = t /\ t \in Tokens /\ n \in Fresh
    /\ head' = [head EXCEPT ![c] = n] /\ spent' = spent \cup {n}

\* Logout, or the end of the session's life time.
Close(c) ==
    /\ head[c] \in Tokens
    /\ head' = [head EXCEPT ![c] = Ended] /\ UNCHANGED spent

Next ==
    \E c \in Chains :
        \/ Close(c)
        \/ \E t \in Tokens : Open(c, t)
        \/ \E t, n \in Tokens : Rotate(c, t, n)

Spec == Init /\ [][Next]_chainVars
=============================================================================
