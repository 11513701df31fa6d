--------------------------- MODULE CompletionText ---------------------------
(***************************************************************************)
(* What becomes of a provider's text before the editor inserts it          *)
(* (completion/sanitizer/sanitizer.go and the output policy of             *)
(* completion/policy.go): fences and explanations are taken off, text that *)
(* repeats what stands around the cursor is removed, and the rest is cut   *)
(* to the lines and characters the intent allows.                          *)
(*                                                                         *)
(* A text is a sequence of signs: letters, a blank, a line break, and one  *)
(* sign each for a fence (three backticks), for a line that only announces *)
(* code, and for an opening that belongs to another language.              *)
(***************************************************************************)
EXTENDS Naturals, Sequences, SequencesExt

CONSTANTS
    Letters, Blank, Break, Fence, Announcement, Foreign,
    Inputs,         \* text before and after the cursor, intent, and the provider's answer
    MaxLines, MaxChars

Around == Letters \cup {Blank, Break}

SignsAssumption == {Fence, Announcement, Foreign} \cap Around = {}
InputsAssumption ==
    \A i \in Inputs :
        /\ {i.prefix, i.suffix} \subseteq Seq(Around)
        /\ i.raw \in Seq(Around \cup {Fence, Announcement, Foreign})
LimitAssumption == MaxLines \in Nat \ {0} /\ MaxChars \in Nat \ {0}

VARIABLES prefix, suffix, intent, raw, text

vars == <<prefix, suffix, intent, raw, text>>

Pending == <<"pending">>

Init ==
    /\ \E i \in Inputs : prefix = i.prefix /\ suffix = i.suffix /\ intent = i.intent /\ raw = i.raw
    /\ text = Pending

-----------------------------------------------------------------------------

White == {Blank, Break}

Without(s, n) == SubSeq(s, n + 1, Len(s))

TrimSuffix(s, t) == IF IsSuffix(t, s) THEN SubSeq(s, 1, Len(s) - Len(t)) ELSE s

TrimSpace(s) ==
    LET solid == {i \in DOMAIN s : s[i] \notin White}
    IN  IF solid = {} THEN <<>>
        ELSE SubSeq(s, CHOOSE i \in solid : \A j \in solid : i <= j,
                       CHOOSE i \in solid : \A j \in solid : j <= i)

\* The lines of a text, at least one.
Lines(s) ==
    LET lines[i \in 0..Len(s)] ==
            IF i = 0 THEN << <<>> >>
            ELSE LET before == lines[i-1]
                 IN  IF s[i] = Break THEN Append(before, <<>>)
                     ELSE [before EXCEPT ![Len(before)] = Append(@, s[i])]
    IN  lines[Len(s)]

Joined(lines) ==
    LET whole[i \in 1..Len(lines)] == IF i = 1 THEN lines[1] ELSE whole[i-1] \o <<Break>> \o lines[i]
    IN  IF lines = <<>> THEN <<>> ELSE whole[Len(lines)]

IsBlank(line) == TrimSpace(line) = <<>>

\* mutant: what is said behind the closing fence stays
StripFence_Rest(s) ==
    LET t == TrimSpace(s)
        first == SelectInSeq(t, LAMBDA sign : sign = Break)
    IN  CASE t = <<>> \/ t[1] # Fence -> TrimSuffix(s, <<Break, Fence>>)
          [] t # <<>> /\ t[1] = Fence /\ first = 0 -> <<>>
          [] OTHER -> TrimSuffix(Without(t, first), <<Break, Fence>>)

\* The text between an opening fence with its line and the closing fence, if there is one.
StripFence(s) ==
    LET t == TrimSpace(s)
        first == SelectInSeq(t, LAMBDA sign : sign = Break)
        rest == Without(t, first)
        ends == {i \in 1..Len(rest) - 1 : rest[i] = Break /\ rest[i + 1] = Fence}
    IN  CASE t = <<>> \/ t[1] # Fence -> TrimSuffix(s, <<Break, Fence>>)
          [] t # <<>> /\ t[1] = Fence /\ first = 0 -> <<>>
          [] OTHER -> IF ends = {} THEN TrimSuffix(rest, <<Fence>>)
                      ELSE SubSeq(rest, 1, (CHOOSE i \in ends : \A j \in ends : i <= j) - 1)

StripExplanation(s) ==
    LET lines == Lines(s)
    IN  IF Len(lines) > 1 /\ TrimSpace(lines[1]) = <<Announcement>> THEN Joined(Tail(lines)) ELSE s

\* Blank lines at either end go.
TrimBlankLines(s) ==
    LET lines == Lines(s)
        solid == {i \in DOMAIN lines : ~IsBlank(lines[i])}
    IN  IF solid = {} THEN <<>>
        ELSE Joined(SubSeq(lines, CHOOSE i \in solid : \A j \in solid : i <= j,
                                  CHOOSE i \in solid : \A j \in solid : j <= i))

\* Of several blank lines in a row, the first stays.
CollapseBlankLines(s) ==
    Joined(FoldLeft(LAMBDA kept, line :
                      IF IsBlank(line) /\ kept # <<>> /\ IsBlank(Last(kept)) THEN kept ELSE Append(kept, line),
                    <<>>, Lines(s)))

Overlaps(a, b, n) == n <= Len(a) /\ n <= Len(b) /\ SubSeq(a, Len(a) - n + 1, Len(a)) = SubSeq(b, 1, n)

Lesser(a, b) == IF a < b THEN a ELSE b

MaxOverlap == 1000

\* How much of the end of a the text b repeats, at most.
Overlap(a, b) ==
    LET ns == {n \in 1..Lesser(MaxOverlap, Len(b)) : Overlaps(a, b, n)}
    IN  IF ns = {} THEN 0 ELSE CHOOSE n \in ns : \A m \in ns : m <= n

\* With the repetition goes one blank that follows it.
RemovePrefixOverlap(before, s) ==
    LET n == Overlap(before, s)
        rest == Without(s, n)
    IN  IF n > 0 /\ rest # <<>> /\ rest[1] = Blank THEN Tail(rest) ELSE rest

\* mutant: a single sign counts as a repetition
Repeats_One(n) == n >= 1

\* A single sign is not a repetition of what follows: it may be a closing bracket.
Repeats(n) == n >= 2

RemoveSuffixOverlap(s, after) ==
    LET n == Overlap(s, after) IN IF Repeats(n) THEN SubSeq(s, 1, Len(s) - n) ELSE s

WrongLanguage(s) == TrimSpace(s) # <<>> /\ TrimSpace(s)[1] = Foreign

MaxLinesForIntent(configured) ==
    CASE intent \in {"member-access", "function-arguments", "tailwind-class", "import",
                     "condition-expression"} -> Lesser(configured, 1)
      [] intent = "component-props" -> Lesser(configured, 2)
      [] intent = "object-fields" -> Lesser(configured, 8)
      [] intent = "type-definition" -> Lesser(configured, 12)
      [] OTHER -> configured

LimitLines(s, max) == Joined(SubSeq(Lines(s), 1, Lesser(max, Len(Lines(s)))))

\* A text that is too long ends with its last whole line, if there is one.
LimitChars(s, max) ==
    LET breaks == {i \in 2..Lesser(max, Len(s)) : s[i] = Break}
    IN  CASE Len(s) <= max -> s
          [] Len(s) > max /\ breaks # {} -> SubSeq(s, 1, (CHOOSE i \in breaks : \A j \in breaks : j <= i) - 1)
          [] OTHER -> SubSeq(s, 1, max)

Fitting(before, after, s) ==
    CollapseBlankLines(TrimBlankLines(
        RemoveSuffixOverlap(RemovePrefixOverlap(before, TrimBlankLines(StripExplanation(StripFence(s)))), after)))

Limited(s) == TrimBlankLines(LimitChars(LimitLines(s, MaxLinesForIntent(MaxLines)), MaxChars))

Sanitized(before, after, s) ==
    LET fit == Fitting(before, after, s) IN IF WrongLanguage(fit) THEN <<>> ELSE Limited(fit)

Sanitize ==
    /\ text = Pending
    /\ text' = Sanitized(prefix, suffix, raw)
    /\ UNCHANGED <<prefix, suffix, intent, raw>>

Next == Sanitize

Spec == Init /\ [][Next]_vars

-----------------------------------------------------------------------------
(* Properties *)

Done == text # Pending

\* A text that needs no repair.
Clean(before, after, s) ==
    /\ \A i \in DOMAIN s : s[i] \in Around
    /\ s # <<>> /\ ~IsBlank(Lines(s)[1]) /\ ~IsBlank(Last(Lines(s)))
    /\ CollapseBlankLines(s) = s
    /\ \A n \in 1..Len(s) : ~Overlaps(before, s, n)
    /\ \A n \in 2..Len(s) : ~Overlaps(s, after, n)
    /\ Len(Lines(s)) <= MaxLinesForIntent(MaxLines) /\ Len(s) <= MaxChars

\* The steps together change nothing about a text that needs no repair.
CleanIsUntouched == Done /\ Clean(prefix, suffix, raw) => text = raw

\* A fenced answer is worth what stands between its fences: the word behind the opening
\* fence and whatever is said after the closing one change nothing (stripFence).
FencedAsPlain ==
    Done =>
        \A i, j \in 3..Len(raw) :
            (/\ raw[1] = Fence /\ raw[i - 1] = Break /\ (\A k \in 2..i - 2 : raw[k] # Break)
             /\ i < j /\ raw[j] = Fence /\ raw[j - 1] = Break
             /\ \A k \in i..j - 1 : raw[k] # Fence)
            => text = Sanitized(prefix, suffix, SubSeq(raw, i, j - 2))
=============================================================================
