---------------------------- MODULE MCSequential ----------------------------
(* An instance of Sequential for TLC. *)
EXTENDS Sequential, SequencesExt

\* Ticks: memory forgets what seven ticks have filled again, Redis what they have not.
MCForget == [memory |-> 9, redis |-> 5]

\* The smallest settings, little room for several files, and the largest but for the
\* number of files: four of them exceed every budget.
MCSettings ==
    {[prefix |-> 500, suffix |-> 200, files |-> 1, characters |-> 1000],
     [prefix |-> 4000, suffix |-> 2000, files |-> 4, characters |-> 5000],
     [prefix |-> 20000, suffix |-> 10000, files |-> 4, characters |-> 30000]}

\* Plain text of two letters in every surrounding of two signs, and answers of a model
\* that talks around its code.
Plain == {"a", "b", "space", "newline"}
Chatter == {"a", "newline", "fence", "here", "def"}
MCInputs ==
    LET around == BoundedSeq(Plain, 2)
        next == BoundedSeq(Plain \ {"b"}, 1)
    IN  [prefix : around, suffix : around, intent : {"general", "member-access"}, raw : BoundedSeq(Plain, 4)]
        \cup [prefix : next, suffix : next, intent : {"general"}, raw : BoundedSeq(Chatter, 6)]

\* Two completions on either side of a sampling of one half.
MCBucket == [c \in {"c1", "c2"} |-> IF c = "c1" THEN 20 ELSE 70]

CONSTANT MaxTroubled   \* bound: events sent once anything is lost, time passes, or a report is made

\* Nothing is lost, no time passes and nobody looks at a report of the server that samples one half.
Calm == ~lost /\ now = 0 /\ report.at = "none" /\ server = [recording |-> TRUE, percent |-> 50]

\* What goes wrong is explored less far than what overlaps, and a report is asked of a
\* server that records every event while the reporter sends them.
Within ==
    component = "quality" =>
        \/ Calm
        \/ /\ serial <= MaxTroubled /\ shown \subseteq {"c1"}
           /\ report.at # "none" => Quality!Enabled /\ server = [recording |-> TRUE, percent |-> 100]

MCNext == ComponentsNext /\ Within'

MCSpec == ComponentsInit /\ [][MCNext]_allVars
=============================================================================
