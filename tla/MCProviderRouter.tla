-------------------------- MODULE MCProviderRouter --------------------------
(* An instance of ProviderRouter for TLC. *)
EXTENDS ProviderRouter

\* All kinds of target with fewer attempts than targets, and the development set-up.
Set ==
    {[kind |-> <<"chat", "anthropic", "chat">>, attempts |-> 2],
     [kind |-> <<"raw", "chat", "mock">>, attempts |-> 4]}

\* A piece of a line, a line end, both in one chunk in either order, and a line that the
\* sanitizer takes off.
Pieces == {<<"text">>, <<"line">>, <<"text", "line">>, <<"line", "text">>, <<"extra", "line">>}
=============================================================================
