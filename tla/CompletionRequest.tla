-------------------------- MODULE CompletionRequest --------------------------
(***************************************************************************)
(* The size of a completion request, from the editor to the service: the   *)
(* context builders collect text under the user's settings                 *)
(* (context/textWindow.ts, repository/repositoryContextBuilder.ts), the    *)
(* engine cuts it to the budget of its focus (toApiCompletionRequest), and *)
(* the API accepts or refuses it (completion.Validate).                    *)
(*                                                                         *)
(* A text is its length in UTF-16 units, which is what the extension       *)
(* counts, and the bytes each unit takes in UTF-8, which is what the API   *)
(* counts: from one to three.                                              *)
(***************************************************************************)
EXTENDS Naturals, Sequences, FiniteSets

CONSTANTS
    Documents,      \* lengths of the text before and after the cursor
    Sources,        \* lengths of the files that might be sent along
    Widths,         \* bytes per unit of source text
    SignalWidths,   \* bytes per unit of what the language server says
    Settings,       \* [prefix, suffix, files, characters] of the user
    Focuses, Modes

LengthAssumption == Documents \cup Sources \subseteq Nat

WidthAssumption == Widths \cup SignalWidths \subseteq 1..3

IsWithin(n, low, high) == n \in low..high

\* normalizeContextLimits and its kin for repository context keep the settings in these ranges.
SettingsAssumption ==
    \A s \in Settings :
      /\ IsWithin(s.prefix, 500, 20000) /\ IsWithin(s.suffix, 200, 10000)
      /\ IsWithin(s.files, 1, 8) /\ IsWithin(s.characters, 1000, 30000)

VARIABLES
    stage,     \* "collecting", "collected", "built", "accepted" or "refused"
    settings, focus, mode,
    context,   \* the windows around the cursor
    files,     \* contents collected so far, most relevant first
    timedOut,  \* the time for collecting was over
    signals,   \* the longest diagnostic, signature label and symbol signature
    wire       \* the request sent

vars == <<stage, settings, focus, mode, context, files, timedOut, signals, wire>>

Bytes(text) == text.units * text.width

Lesser(a, b) == IF a < b THEN a ELSE b

Cut(text, limit) == [text EXCEPT !.units = Lesser(@, limit)]

Empty == [units |-> 0, width |-> 1]

NoWire == [prefix |-> Empty, suffix |-> Empty, files |-> <<>>, signals |-> [diagnostic |-> Empty, label |-> Empty, symbol |-> Empty]]

PerFileCharacters == 3000

\* A window that is cut off is cut at a line break, if it has one.
Window(units, width, limit) ==
    IF units <= limit THEN {[units |-> units, width |-> width]}
    ELSE {[units |-> n, width |-> width] : n \in {limit, limit \div 2}}

Init ==
    /\ stage = "collecting" /\ settings \in Settings /\ focus \in Focuses /\ mode \in Modes
    /\ \E before, after \in Documents, w \in Widths :
         context \in [prefix : Window(before, w, settings.prefix), suffix : Window(after, w, settings.suffix)]
    /\ files = <<>> /\ timedOut = FALSE
    /\ signals = NoWire.signals /\ wire = NoWire

Total(lengths) ==
    LET sum[i \in 0..Len(lengths)] == IF i = 0 THEN 0 ELSE sum[i-1] + lengths[i] IN sum[Len(lengths)]

Units(texts) == Total([i \in DOMAIN texts |-> texts[i].units])

\* What the next file may still take.
Room == Lesser(PerFileCharacters, settings.characters - Units(files))

\* The next candidate, by score, is read; one with nothing to say is skipped.
AddFile(units, width) ==
    /\ stage = "collecting" /\ ~timedOut
    /\ Len(files) < settings.files /\ Units(files) < settings.characters
    /\ units > 0
    /\ files' = Append(files, Cut([units |-> units, width |-> width], Room))
    /\ UNCHANGED <<stage, settings, focus, mode, context, timedOut, signals, wire>>

Expire ==
    /\ stage = "collecting" /\ ~timedOut
    /\ timedOut' = TRUE
    /\ UNCHANGED <<stage, settings, focus, mode, context, files, signals, wire>>

\* Diagnostics, signature help and symbols, each cut to its length.
Collect(units, width) ==
    /\ stage = "collecting"
    /\ LET said == [units |-> units, width |-> width] IN
       signals' = [diagnostic |-> Cut(said, 300), label |-> Cut(said, 500), symbol |-> Cut(said, 700)]
    /\ stage' = "collected"
    /\ UNCHANGED <<settings, focus, mode, context, files, timedOut, wire>>

ContextLimits ==
    LET full == CASE focus = "member-access" -> [prefix |-> 1500, suffix |-> 500, repository |-> 2000]
                  [] focus \in {"component-props", "function-arguments"} ->
                       [prefix |-> 2500, suffix |-> 1000, repository |-> 4000]
                  [] focus = "tailwind-class" -> [prefix |-> 2000, suffix |-> 500, repository |-> 3000]
                  [] OTHER -> [prefix |-> 4000, suffix |-> 2000, repository |-> 8000]
    IN  CASE mode = "fast" -> [prefix |-> 1800, suffix |-> 700, repository |-> 0]
          [] mode # "fast" /\ timedOut -> [full EXCEPT !.repository = @ \div 2]
          [] OTHER -> full

\* Files in order, each cut to what remains of the budget, as long as something does.
Budgeted(budget) ==
    LET remaining[i \in 0..Len(files)] ==
            IF i = 0 THEN budget ELSE LET left == remaining[i-1] IN left - Lesser(files[i].units, left)
        kept == {i \in DOMAIN files : remaining[i-1] > 0}
    IN  [i \in 1..Cardinality(kept) |-> Cut(files[i], remaining[i-1])]

ToApiCompletionRequest ==
    /\ stage = "collected"
    /\ stage' = "built"
    /\ wire' = [prefix |-> Cut(context.prefix, ContextLimits.prefix),
                suffix |-> Cut(context.suffix, ContextLimits.suffix),
                files |-> Budgeted(ContextLimits.repository),
                signals |-> signals]
    /\ UNCHANGED <<settings, focus, mode, context, files, timedOut, signals>>

\* mutant: a file may have a thousand bytes less
FileLimit_Less == 8000

FileLimit == 10000

TotalBytes(texts) == Total([i \in DOMAIN texts |-> Bytes(texts[i])])

\* The file part of Validate: every length is in bytes.
FilesFit(texts) ==
    /\ Len(texts) <= 8
    /\ \A i \in DOMAIN texts : Bytes(texts[i]) <= FileLimit
    /\ TotalBytes(texts) <= 30000

\* Symbols, diagnostics and signature help.
SignalsFit(said) ==
    Bytes(said.symbol) <= 1000 /\ Bytes(said.diagnostic) <= 300 /\ Bytes(said.label) <= 500

Valid(request) ==
    /\ Bytes(request.prefix) <= 50000 /\ Bytes(request.suffix) <= 25000
    /\ FilesFit(request.files) /\ SignalsFit(request.signals)

Validate ==
    /\ stage = "built"
    /\ stage' = IF Valid(wire) THEN "accepted" ELSE "refused"
    /\ UNCHANGED <<settings, focus, mode, context, files, timedOut, signals, wire>>

Next ==
    \/ \E n \in Sources, w \in Widths : AddFile(n, w)
    \/ Expire
    \/ \E n \in Sources, w \in SignalWidths : Collect(n, w)
    \/ ToApiCompletionRequest \/ Validate

Spec == Init /\ [][Next]_vars

-----------------------------------------------------------------------------
(* Properties *)

\* Whatever the script the text is written in, cutting it in UTF-16 units leaves a
\* request whose source text the API accepts: what is refused is refused for a diagnostic
\* or a signature (toApiCompletionRequest against Validate).
SourceTextIsAccepted == stage = "refused" => ~SignalsFit(wire.signals)
=============================================================================
