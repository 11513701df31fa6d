------------------------- MODULE ProviderRouterProofs -------------------------
(***************************************************************************)
(* Machine-checked proofs about ProviderRouter, for any routers, attempts, *)
(* chunks and numbers of chunks, on both endpoints.                        *)
(***************************************************************************)
EXTENDS ProviderRouter, Integers, FiniteSetTheorems, WellFoundedInduction, SequenceTheorems, TLAPS

-----------------------------------------------------------------------------
(* What FlattenSeq computes, by induction.  The prover cannot instantiate  *)
(* the library's induction theorems, which take a predicate as parameter;  *)
(* a least counterexample needs a set only.                                *)

LEMMA Smallest ==
  ASSUME NEW T \in SUBSET Nat, T # {}
  PROVE  \E m \in T : \A n \in T : m <= n
<1>1. PICK k \in T : TRUE
  OBVIOUS
<1> DEFINE Below(n) == 0..(n-1)
           U == {Below(n) : n \in {i \in T : i <= k}}
<1>2. IsFiniteSet(0..k)
  BY FS_Interval
<1>3. IsWellFoundedOn(StrictSubsetOrdering(0..k), FiniteSubsetsOf(0..k))
  BY <1>2, FS_StrictSubsetOrderingWellFounded
<1>4. U \subseteq FiniteSubsetsOf(0..k) /\ U # {}
  <2>1. \A n \in T : n <= k => Below(n) \subseteq 0..k
    OBVIOUS
  <2>2. \A n \in T : IsFiniteSet(Below(n))
    BY FS_Interval
  <2>3. QED
    BY <2>1, <2>2 DEF FiniteSubsetsOf
<1>5. PICK x \in U : \A y \in U : ~(<<y, x>> \in StrictSubsetOrdering(0..k))
  <2> HIDE DEF U
  <2>1. QED
    BY <1>3, <1>4, WFMin
<1>6. PICK m \in T : m <= k /\ x = Below(m)
  OBVIOUS
<1>7. ASSUME NEW n \in T, n < m
      PROVE  FALSE
  <2>1. Below(n) \in U
    BY <1>6, <1>7
  <2>2. Below(n) \subseteq Below(m) /\ Below(n) # Below(m)
    <3>1. n \in Below(m) /\ n \notin Below(n)
      BY <1>7
    <3>2. QED
      BY <3>1, <1>7
  <2>3. <<Below(n), x>> \in StrictSubsetOrdering(0..k)
    BY <2>2, <1>6, <1>7 DEF StrictSubsetOrdering
  <2>4. QED
    BY <2>1, <2>3, <1>5
<1>8. QED
  BY <1>7

\* The partial concatenations of a sequence of sequences: the function of FlattenSeq.
Joins(f, seqs, n) == f = [i \in 1..n |-> IF i = 1 THEN seqs[i] ELSE f[i-1] \o seqs[i]]

LEMMA JoinsExist ==
  ASSUME NEW s, NEW n \in Nat
  PROVE  \E f : Joins(f, s, n)
<1> DEFINE T == {k \in Nat : ~\E f : Joins(f, s, k)}
<1>1. ASSUME T # {}
      PROVE  FALSE
  <2>1. PICK k \in T : \A j \in T : k <= j
    BY <1>1, Smallest
  <2>2. k # 0
    <3> DEFINE e == [i \in 1..0 |-> 0]
    <3>1. Joins(e, s, 0)
      BY DEF Joins
    <3>2. QED
      BY <3>1
  <2>3. k \in Nat /\ k - 1 \in Nat /\ k - 1 \notin T
    BY <2>1, <2>2
  <2>4. PICK g : Joins(g, s, k - 1)
    BY <2>3
  <2> DEFINE f == [i \in 1..k |-> IF i < k THEN g[i] ELSE IF k = 1 THEN s[k] ELSE g[k-1] \o s[k]]
  <2>5. ASSUME NEW i \in 1..k
        PROVE  f[i] = IF i = 1 THEN s[i] ELSE f[i-1] \o s[i]
    <3>1. CASE i = k
      BY <2>3, <3>1
    <3>2. CASE i < k
      <4>1. i \in 1..(k-1) /\ f[i] = g[i] /\ (i # 1 => f[i-1] = g[i-1])
        BY <2>3, <3>2
      <4>2. g[i] = IF i = 1 THEN s[i] ELSE g[i-1] \o s[i]
        BY <2>4, <4>1 DEF Joins
      <4>3. QED
        BY <4>1, <4>2
    <3>3. QED
      BY <2>3, <3>1, <3>2
  <2>6. Joins(f, s, k)
    <3>1. f = [i \in 1..k |-> f[i]]
      OBVIOUS
    <3> HIDE DEF f
    <3>2. QED
      BY <2>5, <3>1 DEF Joins
  <2>7. QED
    BY <2>1, <2>6
<1>2. QED
  BY <1>1

LEMMA FlattenJoins ==
  ASSUME NEW q, NEW n \in Nat \ {0}, Len(q) = n
  PROVE  \E f : Joins(f, q, n) /\ FlattenSeq(q) = f[n]
<1> DEFINE F == CHOOSE f : f = [i \in 1..n |-> IF i = 1 THEN q[i] ELSE f[i-1] \o q[i]]
<1>1. Joins(F, q, n)
  <2>1. \E f : f = [i \in 1..n |-> IF i = 1 THEN q[i] ELSE f[i-1] \o q[i]]
    BY JoinsExist DEF Joins
  <2>2. QED
    BY <2>1 DEF Joins
<1>2. FlattenSeq(q) = F[n]
  BY DEF FlattenSeq
<1>3. QED
  BY <1>1, <1>2

\* An empty sequence flattens to nothing, and a piece at the end comes at the end.
LEMMA FlattenAppend ==
  ASSUME NEW S, NEW s \in Seq(Seq(S)), NEW t \in Seq(S)
  PROVE  /\ FlattenSeq(<<>>) = <<>>
         /\ FlattenSeq(Append(s, t)) = IF s = <<>> THEN t ELSE FlattenSeq(s) \o t
<1>1. PICK n \in Nat : n = Len(s)
  OBVIOUS
<1>2. PICK a : a = Append(s, t)
  OBVIOUS
<1>3. Len(a) = n + 1 /\ a[n+1] = t /\ (\A i \in 1..n : a[i] = s[i]) /\ (s = <<>> <=> n = 0)
  BY <1>1, <1>2, EmptySeq, AppendProperties
<1>4. PICK f : Joins(f, a, n+1) /\ FlattenSeq(a) = f[n+1]
  BY <1>3, FlattenJoins
<1>5. f[n+1] = IF n = 0 THEN t ELSE f[n] \o t
  <2>1. n + 1 \in 1..(n+1) /\ (n + 1) - 1 = n /\ (n + 1 = 1 <=> n = 0)
    OBVIOUS
  <2>2. \A i \in 1..(n+1) : f[i] = IF i = 1 THEN a[i] ELSE f[i-1] \o a[i]
    BY <1>4 DEF Joins
  <2>3. f[n+1] = IF n + 1 = 1 THEN a[n+1] ELSE f[(n+1)-1] \o a[n+1]
    BY <2>1, <2>2
  <2>4. QED
    BY <1>3, <2>1, <2>3
<1>6. n # 0 => FlattenSeq(s) = f[n]
  <2> SUFFICES ASSUME n # 0
               PROVE  FlattenSeq(s) = f[n]
    OBVIOUS
  <2>1. PICK g : Joins(g, s, n) /\ FlattenSeq(s) = g[n]
    BY <1>1, FlattenJoins
  <2>2. \A i \in 1..n : g[i] = f[i]
    <3> DEFINE T == {i \in 1..n : g[i] # f[i]}
    <3>1. ASSUME T # {}
          PROVE  FALSE
      <4>1. T \in SUBSET Nat
        OBVIOUS
      <4>2. PICK i \in T : \A j \in T : i <= j
        BY <3>1, <4>1, Smallest
      <4>3. i \in 1..n /\ i \in 1..(n+1) /\ g[i] # f[i] /\ s[i] = a[i]
        BY <1>3
      <4>4. /\ g[i] = IF i = 1 THEN s[i] ELSE g[i-1] \o s[i]
            /\ f[i] = IF i = 1 THEN a[i] ELSE f[i-1] \o a[i]
        BY <1>4, <2>1, <4>3 DEF Joins
      <4>5. i # 1
        BY <4>3, <4>4
      <4>6. i - 1 \in 1..n /\ i - 1 \notin T
        <5>1. i - 1 \in 1..n
          BY <4>3, <4>5, <1>1, LenProperties
        <5>2. i - 1 \notin T
          BY <4>2, <4>3
        <5>3. QED
          BY <5>1, <5>2
      <4>7. g[i-1] = f[i-1]
        BY <4>6
      <4>8. QED
        BY <4>3, <4>4, <4>5, <4>7
    <3>2. QED
      BY <3>1
  <2>3. QED
    BY <2>1, <2>2
<1>7. FlattenSeq(<<>>) = <<>>
  BY EmptySeq DEF FlattenSeq
<1>8. QED
  BY <1>2, <1>3, <1>4, <1>5, <1>6, <1>7

-----------------------------------------------------------------------------
(* The inductive invariant.                                                *)

Texts == Seq(Nat \X {"text", "line", "extra"})

Errors == ProviderErrors \cup {"none", "line", "write", "canceled", "deadline"}

Events ==
    [type : {"open", "chunk", "done", "error", "INVALID_REQUEST", "FEATURE_NOT_AVAILABLE",
             "PROVIDER_TIMEOUT", "PROVIDER_RATE_LIMITED", "PROVIDER_UNAVAILABLE", "INTERNAL_ERROR"},
     text : Texts]

TypeOK ==
    /\ router \in Routers /\ req \in Requests /\ plan \in [streaming : BOOLEAN, context : BOOLEAN]
    /\ gone \in BOOLEAN /\ ctx \in Contexts /\ call \in Contexts
    /\ at \in {"new", "route", "sent", "reading", "returned", "answer", "over"}
    /\ target \in Nat /\ emitted \in BOOLEAN /\ err \in Errors
    /\ raw \in Texts /\ sent \in Seq(Events) /\ Shown \in Texts
    /\ count \in Nat /\ ended \in Seq(Errors) /\ asked \subseteq Nat

\* A context is cancelled by the client only.
ContextsOK == (gone => ctx # "live") /\ (call = "canceled" => gone)

\* Targets are begun in order, none twice and none too many, each has ended before the
\* next one, and all but those that refuse a stream have been asked.
TargetsOK ==
    /\ target <= Len(Kind) /\ target <= MaxAttempts
    /\ at = "new" => target = 0
    /\ at \in {"sent", "reading", "returned"} => target > 0 /\ Len(ended) = target - 1
    /\ at \notin {"sent", "reading", "returned"} => Len(ended) = target
    /\ at = "route" /\ target > 0 => ended[target] \in ProviderErrors
    /\ \A n \in 1..target : n \in asked \/ (Streaming /\ Kind[n] = "raw")

\* Nothing was received or shown before the target of now, and nothing of it before it
\* emits.
Fresh ==
    \/ at \in {"new", "route", "sent"}
    \/ at = "reading" /\ ~emitted
    \/ at = "returned" /\ ~emitted /\ err \in ProviderErrors

Silence ==
    /\ Fresh => raw = <<>> /\ Shown = <<>> /\ \A n \in 1..Len(sent) : sent[n].text = <<>>
    /\ at \in {"new", "route", "sent"} => ~emitted
    /\ at = "new" => sent = <<>>
    /\ emitted => Streaming
    /\ at = "reading" /\ emitted => Kind[target] = "chat"

\* Every piece received or sent comes from the last target.
Voices ==
    /\ \A i \in 1..Len(raw) : raw[i][1] = target
    /\ \A n \in 1..Len(sent) : \A i \in 1..Len(sent[n].text) : sent[n].text[i][1] = target

\* A stream under way has been opened and has shown what was received, unless the
\* client is gone; a plain answer is not begun.
Telling ==
    /\ ~Streaming => /\ err # "line" /\ Shown = <<>>
                     /\ at # "over" => sent = <<>>
    /\ Streaming /\ at \notin {"new", "over"} =>
        /\ Len(sent) > 0 /\ sent[1].type = "open"
        /\ \A n \in 2..Len(sent) : sent[n].type = "chunk"
        /\ raw = Shown \/ (err = "write" /\ at \in {"returned", "answer"})
    /\ Streaming /\ at # "new" /\ SingleLineFocus => LineEnds(raw) = {} /\ LineEnds(Shown) = {}

\* What ends a request early: the client, a time-out of the router, something shown.
Causes ==
    /\ at \in {"new", "route"} => err \in ProviderErrors \cup {"none"}
    /\ at \in {"returned", "answer"} /\ err \in {"write", "canceled", "deadline"} => ctx # "live"
    /\ emitted => \/ Shown # <<>> \/ gone
                  \/ err = "line" /\ at \in {"returned", "answer", "over"}
    /\ at = "answer" /\ ctx = "live" /\ err \in ProviderErrors /\ Shown = <<>> => target = MayTry

\* Whatever a request ends with, it ends with the truth.
EndsWell == at = "over" => StreamTellsWhatItShowed /\ NoTargetLeftOut

IInv ==
    TypeOK /\ ContextsOK /\ TargetsOK /\ Silence /\ Voices /\ Telling /\ Causes /\ EndsWell

-----------------------------------------------------------------------------
(* What a client has been shown.                                           *)

\* An event at the end is shown at the end, if it is a chunk.
LEMMA ShownAppend ==
  ASSUME sent \in Seq(Events), Shown \in Texts, NEW e \in Events, sent' = Append(sent, e)
  PROVE  /\ Shown' \in Texts
         /\ e.type # "chunk" => Shown' = Shown
         /\ e.type = "chunk" => Shown' = Shown \o e.text
<1> DEFINE P == Nat \X {"text", "line", "extra"}
           M == [n \in DOMAIN sent |-> IF sent[n].type = "chunk" THEN sent[n].text ELSE <<>>]
           x == IF e.type = "chunk" THEN e.text ELSE <<>>
<1>1. e.text \in Seq(P) /\ x \in Seq(P) /\ \A n \in 1..Len(sent) : sent[n] \in Events /\ sent[n].text \in Seq(P)
  <2>1. \A v \in Events : v.text \in Seq(P)
    BY DEF Events, Texts
  <2>2. \A n \in 1..Len(sent) : sent[n] \in Events
    BY ElementOfSeq
  <2>3. <<>> \in Seq(P)
    BY EmptySeq
  <2>4. QED
    BY <2>1, <2>2, <2>3
<1>2. /\ Len(sent) \in Nat /\ DOMAIN sent = 1..Len(sent) /\ Len(sent') = Len(sent) + 1
      /\ DOMAIN sent' = 1..(Len(sent) + 1) /\ sent'[Len(sent) + 1] = e
      /\ \A n \in 1..Len(sent) : sent'[n] = sent[n]
  BY AppendProperties, LenProperties
<1>3. M \in Seq(Seq(P)) /\ Len(M) = Len(sent)
  <2>1. \A n \in 1..Len(sent) : M[n] \in Seq(P)
    <3>1. <<>> \in Seq(P)
      BY EmptySeq
    <3>2. QED
      BY <1>1, <1>2, <3>1
  <2>2. M \in [1..Len(sent) -> Seq(P)] /\ DOMAIN M = 1..Len(sent)
    BY <1>2, <2>1
  <2> HIDE DEF M, P
  <2>3. QED
    BY <1>2, <2>2
<1>4. M' = Append(M, x)
  <2>1. M' = [n \in 1..(Len(sent) + 1) |-> IF sent'[n].type = "chunk" THEN sent'[n].text ELSE <<>>]
    BY <1>2
  <2>2. Append(M, x) \in Seq(Seq(P)) /\ Len(Append(M, x)) = Len(sent) + 1
        /\ (\A n \in 1..Len(sent) : Append(M, x)[n] = M[n]) /\ Append(M, x)[Len(sent) + 1] = x
    <3> HIDE DEF M, x, P
    <3>1. QED
      BY <1>1, <1>3, AppendProperties
  <2>3. Append(M, x) \in [1..(Len(sent) + 1) -> Seq(P)]
    <3> HIDE DEF M, x, P
    <3>1. QED
      BY <1>2, <2>2, LenProperties
  <2>4. \A n \in 1..(Len(sent) + 1) : M'[n] = Append(M, x)[n]
    <3> SUFFICES ASSUME NEW n \in 1..(Len(sent) + 1)
                 PROVE  M'[n] = Append(M, x)[n]
      OBVIOUS
    <3>1. CASE n = Len(sent) + 1
      BY <1>2, <2>1, <2>2, <3>1
    <3>2. CASE n \in 1..Len(sent)
      <4>1. M'[n] = M[n]
        BY <1>2, <2>1, <3>2
      <4>2. QED
        BY <2>2, <3>2, <4>1
    <3>3. QED
      BY <1>2, <3>1, <3>2
  <2>5. DOMAIN M' = 1..(Len(sent) + 1) /\ M' = [n \in 1..(Len(sent) + 1) |-> M'[n]]
    BY <2>1
  <2> HIDE DEF M, x
  <2>6. QED
    BY <2>3, <2>4, <2>5
<1>5. Shown = FlattenSeq(M) /\ Shown' = FlattenSeq(M')
  BY DEF Shown
<1> HIDE DEF M, x, P
<1>6. FlattenSeq(<<>>) = <<>> /\ FlattenSeq(Append(M, x)) = IF M = <<>> THEN x ELSE FlattenSeq(M) \o x
  BY <1>1, <1>3, FlattenAppend
<1>7. Shown \in Seq(P)
  BY DEF Texts, P
<1>8. Shown' = Shown \o x
  <2>1. CASE M = <<>>
    BY <1>1, <1>4, <1>5, <1>6, <2>1, ConcatEmptySeq
  <2>2. CASE M # <<>>
    BY <1>4, <1>5, <1>6, <2>2
  <2>3. QED
    BY <2>1, <2>2
<1>9. Shown' \in Seq(P)
  BY <1>1, <1>7, <1>8, ConcatProperties
<1>10. QED
  BY <1>7, <1>8, <1>9, ConcatEmptySeq DEF x, Texts, P

-----------------------------------------------------------------------------
(* What the callback makes of a chunk.                                     *)

LEMMA TextFacts ==
  ASSUME NEW t \in Texts
  PROVE  /\ Len(t) \in Nat /\ DOMAIN t = 1..Len(t) /\ (t = <<>> <=> Len(t) = 0)
         /\ \A i \in 1..Len(t) : t[i] \in Nat \X {"text", "line", "extra"}
         /\ LineEnds(t) = {n \in 1..Len(t) : t[n][2] = "line"}
  BY EmptySeq, LenProperties DEF Texts, LineEnds

\* The first line is a prefix without a line end that cuts nothing before the first one.
LEMMA FirstLinePart ==
  ASSUME NEW t \in Texts
  PROVE  /\ FirstLine(t) \in Texts
         /\ Len(FirstLine(t)) <= Len(t)
         /\ \A i \in 1..Len(FirstLine(t)) : FirstLine(t)[i] = t[i]
         /\ LineEnds(FirstLine(t)) = {}
         /\ \A k \in 0..Len(t) :
              (\A i \in 1..k : t[i][2] # "line") => k <= Len(FirstLine(t))
<1> DEFINE P == Nat \X {"text", "line", "extra"}
<1>1. /\ Len(t) \in Nat /\ DOMAIN t = 1..Len(t)
      /\ \A i \in 1..Len(t) : t[i] \in P
      /\ LineEnds(t) = {n \in 1..Len(t) : t[n][2] = "line"}
  BY TextFacts
<1> HIDE DEF P
<1>2. CASE LineEnds(t) # {}
  <2> DEFINE f == CHOOSE n \in LineEnds(t) : \A m \in LineEnds(t) : n <= m
             u == SubSeq(t, 1, f - 1)
  <2>1. \E n \in LineEnds(t) : \A m \in LineEnds(t) : n <= m
    BY <1>1, <1>2, Smallest
  <2>2. f \in 1..Len(t) /\ t[f][2] = "line" /\ \A m \in LineEnds(t) : f <= m
    BY <1>1, <2>1
  <2>3. FirstLine(t) = u
    BY <1>2 DEF FirstLine
  <2> HIDE DEF f
  <2>4. /\ u \in Seq(P) /\ Len(u) = f - 1
        /\ \A i \in 1..(f - 1) : u[i] = t[i]
    <3>1. PICK n \in Nat : n = f - 1
      BY <1>1, <2>2
    <3>2. u = SubSeq(t, 1, n) /\ 1 \in Int /\ n \in Int /\ \A i \in 1..n : t[i] \in P
      BY <1>1, <2>2, <3>1
    <3> HIDE DEF u
    <3>3. /\ u \in Seq(P) /\ Len(u) = IF 1 <= n THEN n - 1 + 1 ELSE 0
          /\ \A i \in 1..(n - 1 + 1) : u[i] = t[1 + i - 1]
      BY <3>2, SubSeqProperties
    <3>4. n - 1 + 1 = n /\ (1 <= n \/ n = 0) /\ \A i \in 1..n : 1 + i - 1 = i
      OBVIOUS
    <3>5. QED
      BY <3>1, <3>3, <3>4
  <2> HIDE DEF u
  <2>5. LineEnds(u) = {}
    <3>1. \A i \in 1..(f - 1) : u[i][2] # "line"
      BY <1>1, <2>2, <2>4
    <3>2. LineEnds(u) = {n \in 1..Len(u) : u[n][2] = "line"}
      BY <2>4, TextFacts DEF Texts, P
    <3>3. QED
      BY <2>4, <3>1, <3>2
  <2>6. \A k \in 0..Len(t) : (\A i \in 1..k : t[i][2] # "line") => k <= Len(u)
    BY <1>1, <2>2, <2>4
  <2>7. Len(u) <= Len(t)
    BY <1>1, <2>2, <2>4
  <2>8. QED
    BY <1>2, <2>3, <2>4, <2>5, <2>6, <2>7 DEF Texts, P
<1>3. CASE LineEnds(t) = {}
  BY <1>1, <1>3 DEF FirstLine
<1>4. QED
  BY <1>2, <1>3

\* The useful part is that prefix, where only the line is wanted.
LEMMA UsefulPart ==
  ASSUME NEW t \in Texts
  PROVE  /\ Useful(t) \in Texts
         /\ Len(Useful(t)) <= Len(t)
         /\ \A i \in 1..Len(Useful(t)) : Useful(t)[i] = t[i]
         /\ SingleLineFocus => LineEnds(Useful(t)) = {}
         /\ ~SingleLineFocus => Useful(t) = t
         /\ \A k \in 0..Len(t) :
              (\A i \in 1..k : t[i][2] # "line") => k <= Len(Useful(t))
<1>1. CASE SingleLineFocus
  BY <1>1, FirstLinePart DEF Useful
<1>2. CASE ~SingleLineFocus
  BY <1>2, TextFacts DEF Useful
<1>3. QED
  BY <1>1, <1>2

\* A bounded set of numbers has a largest one.
LEMMA Largest ==
  ASSUME NEW k \in Nat, NEW T \in SUBSET (1..k), T # {}
  PROVE  \E m \in T : \A n \in T : n <= m
<1> DEFINE U == {k - n : n \in T}
<1>1. U \in SUBSET Nat /\ U # {}
  <2>1. \A n \in T : k - n \in Nat
    OBVIOUS
  <2>2. QED
    BY <2>1
<1>2. PICK u \in U : \A v \in U : u <= v
  BY <1>1, Smallest
<1>3. PICK m \in T : u = k - m
  BY <1>2
<1>4. ASSUME NEW n \in T
      PROVE  n <= m
  <2>1. k - n \in U
    OBVIOUS
  <2>2. k - m <= k - n
    BY <1>2, <1>3, <2>1
  <2>3. n \in Nat /\ m \in Nat
    OBVIOUS
  <2>4. QED
    BY ONLY <2>2, <2>3, k \in Nat
<1>5. QED
  BY <1>4

\* Sanitizing takes pieces away and adds none.
LEMMA SanitizedText ==
  ASSUME NEW t \in Texts
  PROVE  /\ Sanitize(t) \in Texts
         /\ \A i \in 1..Len(Sanitize(t)) : \E j \in 1..Len(t) : Sanitize(t)[i] = t[j]
<1> DEFINE P == Nat \X {"text", "line", "extra"}
           code == {n \in DOMAIN t : t[n][2] = "text"}
           a == CHOOSE n \in code : \A m \in code : n <= m
           b == CHOOSE n \in code : \A m \in code : m <= n
<1>1. Len(t) \in Nat /\ DOMAIN t = 1..Len(t) /\ \A i \in 1..Len(t) : t[i] \in P
  BY TextFacts
<1> HIDE DEF P
<1>2. /\ Code(t) \in Texts
      /\ \A i \in 1..Len(Code(t)) : \E j \in 1..Len(t) : Code(t)[i] = t[j]
  <2>1. CASE code = {}
    <3>1. Code(t) = <<>>
      BY <2>1 DEF Code
    <3>2. QED
      BY <3>1, EmptySeq DEF Texts
  <2>2. CASE code # {}
    <3>1. Code(t) = SubSeq(t, a, b)
      BY <2>2 DEF Code
    <3>2. code \in SUBSET Nat /\ code \in SUBSET (1..Len(t))
      BY <1>1
    <3>3. \E n \in code : \A m \in code : n <= m
      <4> HIDE DEF code
      <4>1. QED
        BY <2>2, <3>2, Smallest
    <3>4. \E n \in code : \A m \in code : m <= n
      <4> HIDE DEF code
      <4>1. QED
        BY <1>1, <2>2, <3>2, Largest
    <3>5. a \in code /\ b \in code /\ a <= b
      <4> HIDE DEF code
      <4>1. QED
        BY <3>3, <3>4
    <3>6. a \in 1..Len(t) /\ b \in 1..Len(t) /\ a <= b
      BY <1>1, <3>5
    <3> HIDE DEF a, b, code
    <3>7. \A i \in a..b : t[i] \in P
      BY <1>1, <3>6
    <3>8. /\ SubSeq(t, a, b) \in Seq(P) /\ Len(SubSeq(t, a, b)) = b - a + 1
          /\ \A i \in 1..(b - a + 1) : SubSeq(t, a, b)[i] = t[a + i - 1]
      BY <3>6, <3>7, SubSeqProperties
    <3>9. \A i \in 1..(b - a + 1) : a + i - 1 \in 1..Len(t)
      BY <1>1, <3>6
    <3>10. QED
      BY <3>1, <3>8, <3>9 DEF Texts, P
  <2>3. QED
    BY <2>1, <2>2
<1>3. /\ FirstLine(Code(t)) \in Texts
      /\ \A i \in 1..Len(FirstLine(Code(t))) : \E j \in 1..Len(t) : FirstLine(Code(t))[i] = t[j]
  <2>1. PICK c \in Texts : c = Code(t)
    BY <1>2
  <2>2. /\ FirstLine(c) \in Texts /\ Len(FirstLine(c)) <= Len(c)
        /\ \A i \in 1..Len(FirstLine(c)) : FirstLine(c)[i] = c[i]
    BY FirstLinePart
  <2>3. Len(FirstLine(c)) \in Nat /\ Len(c) \in Nat
    BY <2>2, TextFacts
  <2>4. \A i \in 1..Len(FirstLine(c)) : i \in 1..Len(c)
    BY ONLY <2>2, <2>3
  <2>5. QED
    BY <1>2, <2>1, <2>2, <2>4
<1>4. QED
  BY <1>2, <1>3 DEF Sanitize

\* A chunk of a target, as it is received.
LEMMA ChunkOf ==
  ASSUME NEW i \in Nat, NEW chunk \in Chunks \cup {<<>>}
  PROVE  /\ From(i, chunk) \in Texts
         /\ \A n \in 1..Len(From(i, chunk)) : From(i, chunk)[n][1] = i
         /\ chunk # <<>> => From(i, chunk) # <<>>
         /\ chunk = <<>> => From(i, chunk) = <<>>
<1>1. chunk \in Seq({"text", "line", "extra"})
  BY ChunkAssumption, EmptySeq
<1>2. Len(chunk) \in Nat /\ DOMAIN chunk = 1..Len(chunk) /\ (\A n \in 1..Len(chunk) : chunk[n] \in {"text", "line", "extra"})
      /\ (chunk = <<>> <=> Len(chunk) = 0)
  BY <1>1, EmptySeq, LenProperties
<1>3. From(i, chunk) = [n \in 1..Len(chunk) |-> <<i, chunk[n]>>]
  BY <1>2 DEF From
<1> DEFINE c == From(i, chunk)
<1>4. c \in [1..Len(chunk) -> Nat \X {"text", "line", "extra"}]
  BY <1>2, <1>3
<1>5. \A n \in 1..Len(chunk) : c[n][1] = i
  BY <1>3
<1> HIDE DEF c
<1>6. c \in Texts /\ Len(c) = Len(chunk)
  <2>1. c \in Seq(Nat \X {"text", "line", "extra"})
    BY <1>2, <1>4, SeqDef
  <2>2. DOMAIN c = 1..Len(chunk) /\ DOMAIN c = 1..Len(c) /\ Len(c) \in Nat
    BY <1>4, <2>1, LenProperties
  <2>3. QED
    BY <1>2, <2>1, <2>2 DEF Texts
<1>7. c = <<>> <=> chunk = <<>>
  BY <1>2, <1>6, TextFacts
<1>8. QED
  BY <1>5, <1>6, <1>7 DEF c

\* A prefix and what the rest adds to it.
LEMMA PrefixAndRest ==
  ASSUME NEW r \in Texts, NEW u \in Texts, Len(r) <= Len(u), \A i \in 1..Len(r) : u[i] = r[i]
  PROVE  /\ SubSeq(u, Len(r) + 1, Len(u)) \in Texts
         /\ r \o SubSeq(u, Len(r) + 1, Len(u)) = u
         /\ \A i \in 1..Len(SubSeq(u, Len(r) + 1, Len(u))) :
              \E j \in 1..Len(u) : SubSeq(u, Len(r) + 1, Len(u))[i] = u[j]
<1> DEFINE P == Nat \X {"text", "line", "extra"}
           d == SubSeq(u, Len(r) + 1, Len(u))
<1>1. r \in Seq(P) /\ u \in Seq(P) /\ Len(r) \in Nat /\ Len(u) \in Nat
  BY TextFacts DEF Texts
<1>2. \A i \in 1..Len(u) : u[i] \in P
  BY TextFacts
<1> HIDE DEF P
<1>3. /\ d \in Seq(P) /\ Len(d) = Len(u) - Len(r)
      /\ \A i \in 1..(Len(u) - Len(r)) : d[i] = u[Len(r) + i]
  <2>1. PICK m \in Int, n \in Int : m = Len(r) + 1 /\ n = Len(u)
    BY <1>1
  <2>2. \A i \in m..n : u[i] \in P
    BY <1>1, <1>2, <2>1
  <2>3. d = SubSeq(u, m, n)
    BY <2>1
  <2> HIDE DEF d
  <2>4. /\ d \in Seq(P) /\ Len(d) = IF m <= n THEN n - m + 1 ELSE 0
        /\ \A i \in 1..(n - m + 1) : d[i] = u[m + i - 1]
    BY <2>2, <2>3, SubSeqProperties
  <2>5. n - m + 1 = Len(u) - Len(r) /\ (m <= n \/ Len(u) - Len(r) = 0)
    BY <1>1, <2>1
  <2>6. \A i \in 1..(Len(u) - Len(r)) : m + i - 1 = Len(r) + i
    BY <1>1, <2>1
  <2>7. QED
    BY <2>4, <2>5, <2>6
<1> HIDE DEF d
<1>4. r \o d = u
  <2>1. /\ r \o d \in Seq(P) /\ Len(r \o d) = Len(r) + Len(d)
        /\ \A i \in 1..(Len(r) + Len(d)) : (r \o d)[i] = IF i <= Len(r) THEN r[i] ELSE d[i - Len(r)]
    BY <1>1, <1>3, ConcatProperties
  <2>2. Len(r) + Len(d) = Len(u)
    BY <1>1, <1>3
  <2>3. \A i \in 1..Len(u) : (r \o d)[i] = u[i]
    <3> SUFFICES ASSUME NEW i \in 1..Len(u)
                 PROVE  (r \o d)[i] = u[i]
      OBVIOUS
    <3>1. CASE i <= Len(r)
      <4>1. i \in 1..Len(r) /\ i \in 1..(Len(r) + Len(d))
        BY <1>1, <2>2, <3>1
      <4>2. (r \o d)[i] = r[i]
        BY <2>1, <3>1, <4>1
      <4>3. QED
        BY <4>1, <4>2
    <3>2. CASE i > Len(r)
      <4>1. i - Len(r) \in 1..(Len(u) - Len(r)) /\ Len(r) + (i - Len(r)) = i
        BY <1>1, <3>2
      <4>2. d[i - Len(r)] = u[i]
        BY <1>3, <4>1
      <4>3. i \in 1..(Len(r) + Len(d)) /\ ~(i <= Len(r))
        BY <1>1, <2>2, <3>2
      <4>4. (r \o d)[i] = d[i - Len(r)]
        BY <2>1, <4>3
      <4>5. QED
        BY <4>2, <4>4
    <3>3. i <= Len(r) \/ i > Len(r)
      BY ONLY <1>1, i \in 1..Len(u)
    <3>4. QED
      BY <3>1, <3>2, <3>3
  <2>4. QED
    BY <1>1, <2>1, <2>2, <2>3, SeqEqual
<1>5. \A i \in 1..Len(d) : \E j \in 1..Len(u) : d[i] = u[j]
  <2> SUFFICES ASSUME NEW i \in 1..Len(d)
               PROVE  \E j \in 1..Len(u) : d[i] = u[j]
    OBVIOUS
  <2>1. Len(r) + i \in 1..Len(u) /\ d[i] = u[Len(r) + i]
    BY <1>1, <1>3
  <2>2. QED
    BY <2>1
<1>6. QED
  BY <1>3, <1>4, <1>5 DEF d, Texts, P

\* A chunk that comes in while the client has been shown what was received: so it is
\* afterwards, unless the write fails.
LEMMA OnChunkFacts ==
  ASSUME TypeOK, Voices, raw = Shown, SingleLineFocus => LineEnds(raw) = {},
         NEW chunk \in Texts, chunk # <<>>, \A n \in 1..Len(chunk) : chunk[n][1] = target,
         NEW e, OnChunk(chunk, e)
  PROVE  /\ e \in {"none", "line", "canceled", "write"}
         /\ e \in {"canceled", "write"} => gone
         /\ raw' \in Texts /\ (\A i \in 1..Len(raw') : raw'[i][1] = target)
         /\ SingleLineFocus => LineEnds(raw') = {}
         /\ sent' \in Seq(Events) /\ Shown' \in Texts
         /\ Shown' = raw' \/ (e = "write" /\ Shown' = Shown)
         /\ e = "none" => Shown' # <<>>
         /\ \/ sent' = sent
            \/ \E v \in Events : /\ v.type = "chunk" /\ sent' = Append(sent, v)
                                 /\ \A i \in 1..Len(v.text) : v.text[i][1] = target
<1> DEFINE t == raw \o chunk
           u == Useful(t)
           d == Added(chunk)
<1>1. raw \in Texts /\ sent \in Seq(Events) /\ Shown \in Texts /\ Len(raw) \in Nat /\ Len(chunk) \in Nat \ {0}
  BY TextFacts DEF TypeOK
<1>2. /\ t \in Texts /\ Len(t) = Len(raw) + Len(chunk)
      /\ \A i \in 1..(Len(raw) + Len(chunk)) : t[i] = IF i <= Len(raw) THEN raw[i] ELSE chunk[i - Len(raw)]
  BY <1>1, ConcatProperties DEF Texts
<1>3. e \in CallbackErrors(chunk) /\ raw' = u
      /\ sent' = (IF e = "write" \/ d = <<>> THEN sent ELSE Append(sent, Event("chunk", d)))
  BY DEF OnChunk
<1>4. d = SubSeq(u, Len(raw) + 1, Len(u))
  BY DEF Added
<1> HIDE DEF t
<1>5. /\ e \in {"none", "line", "canceled", "write"}
      /\ e \in {"canceled", "write"} => gone
      /\ e = "none" => u = t
  <2>1. CASE u # t
    BY <1>3, <2>1 DEF CallbackErrors, t
  <2>2. CASE u = t /\ gone
    BY <1>3, <2>2 DEF CallbackErrors, t
  <2>3. CASE u = t /\ ~gone
    BY <1>3, <2>3 DEF CallbackErrors, t
  <2>4. QED
    BY <2>1, <2>2, <2>3
<1>6. /\ u \in Texts /\ Len(u) <= Len(t) /\ Len(u) \in Nat
      /\ \A i \in 1..Len(u) : u[i] = t[i]
      /\ SingleLineFocus => LineEnds(u) = {}
  BY <1>2, UsefulPart, TextFacts
<1>7. \A i \in 1..Len(t) : t[i][1] = target
  <2> SUFFICES ASSUME NEW i \in 1..Len(t)
               PROVE  t[i][1] = target
    OBVIOUS
  <2>1. CASE i <= Len(raw)
    <3>1. i \in 1..Len(raw) /\ t[i] = raw[i]
      BY <1>1, <1>2, <2>1
    <3>2. QED
      BY <3>1 DEF Voices
  <2>2. CASE i > Len(raw)
    <3>1. i - Len(raw) \in 1..Len(chunk) /\ t[i] = chunk[i - Len(raw)]
      BY <1>1, <1>2, <2>2
    <3>2. QED
      BY <3>1
  <2>3. i <= Len(raw) \/ i > Len(raw)
    BY ONLY <1>1, <1>2, i \in 1..Len(t)
  <2>4. QED
    BY <2>1, <2>2, <2>3
<1>8. \A i \in 1..Len(u) : u[i][1] = target
  BY <1>2, <1>6, <1>7, TextFacts
<1>9. Len(raw) <= Len(u)
  <2>1. CASE ~SingleLineFocus
    <3>1. u = t
      BY <1>2, <2>1, UsefulPart
    <3> HIDE DEF u
    <3>2. QED
      BY <1>1, <1>2, <3>1
  <2>2. CASE SingleLineFocus
    <3>1. Len(raw) \in 0..Len(t)
      BY <1>1, <1>2
    <3>2. \A i \in 1..Len(raw) : t[i] = raw[i]
      BY <1>1, <1>2
    <3>3. \A i \in 1..Len(raw) : t[i][2] # "line"
      <4>1. {n \in 1..Len(raw) : raw[n][2] = "line"} = {}
        BY <1>1, <2>2, TextFacts
      <4>2. QED
        BY <3>2, <4>1
    <3>4. QED
      BY <1>2, <3>1, <3>3, UsefulPart
  <2>3. QED
    BY <2>1, <2>2
<1> HIDE DEF u, d
<1>10. \A i \in 1..Len(raw) : u[i] = raw[i]
  BY <1>1, <1>2, <1>6, <1>9
<1>11. /\ d \in Texts /\ raw \o d = u
       /\ \A i \in 1..Len(d) : \E j \in 1..Len(u) : d[i] = u[j]
  BY <1>1, <1>4, <1>6, <1>9, <1>10, PrefixAndRest
<1>12. \A i \in 1..Len(d) : d[i][1] = target
  BY <1>8, <1>11
<1>13. CASE e = "write" \/ d = <<>>
  <2>1. sent' = sent /\ Shown' = Shown
    BY <1>3, <1>13 DEF Shown
  <2>2. d = <<>> => u = raw
    BY <1>1, <1>11, ConcatEmptySeq DEF Texts
  <2>3. Shown' = raw' \/ (e = "write" /\ Shown' = Shown)
    BY <1>3, <1>13, <2>1, <2>2
  <2>4. e = "none" => Shown' # <<>>
    <3>1. e = "none" => Shown' = t
      BY <1>3, <1>5, <2>3
    <3>2. Len(t) # 0
      BY <1>1, <1>2
    <3>3. QED
      BY <1>2, <3>1, <3>2, TextFacts
  <2>5. QED
    BY <1>1, <1>3, <1>5, <1>6, <1>8, <2>1, <2>3, <2>4
<1>14. CASE e # "write" /\ d # <<>>
  <2>1. PICK v \in Events : v = Event("chunk", d)
    BY <1>11 DEF Event, Events
  <2>2. v.type = "chunk" /\ v.text = d /\ sent' = Append(sent, v)
    BY <1>3, <1>14, <2>1 DEF Event
  <2>3. Shown' \in Texts /\ Shown' = Shown \o d
    BY <1>1, <2>2, ShownAppend
  <2>4. Shown' = raw'
    BY <1>3, <1>11, <2>3
  <2>5. sent' \in Seq(Events)
    BY <1>1, <2>2, AppendProperties
  <2>6. e = "none" => Shown' # <<>>
    <3>1. e = "none" => Shown' = t
      BY <1>3, <1>5, <2>4
    <3>2. Len(t) # 0
      BY <1>1, <1>2
    <3>3. QED
      BY <1>2, <3>1, <3>2, TextFacts
  <2>7. \A i \in 1..Len(v.text) : v.text[i][1] = target
    BY <1>12, <2>2
  <2>8. QED
    BY <1>3, <1>5, <1>6, <1>8, <2>2, <2>3, <2>4, <2>5, <2>6, <2>7
<1>15. QED
  BY <1>13, <1>14

-----------------------------------------------------------------------------
(* The steps.                                                              *)

\* Upstream answers, fails or is given up: what was received and shown stays.
LEMMA UpstreamStep ==
  ASSUME IInv, UpstreamRefuses \/ UpstreamAccepts \/ UpstreamGarbles \/ StreamEnds \/ ContextEnds
  PROVE  IInv'
<1>1. /\ UNCHANGED <<router, req, plan, gone, ctx, call, target, emitted, raw, sent, count, ended, asked>>
      /\ at \in {"sent", "reading"}
      /\ \/ at = "sent" /\ at' = "reading" /\ err' = err
         \/ /\ at' = "returned"
            /\ err' \in ProviderErrors \cup {"none", "canceled"}
            /\ err' = "canceled" => call = "canceled"
            /\ err' = "none" => at = "reading" /\ Streaming
  BY DEF UpstreamRefuses, UpstreamAccepts, UpstreamGarbles, StreamEnds, ContextEnds, Returns, Native,
         StatusErrors, ProviderErrors, Notices
<1>2. Shown' = Shown /\ Streaming' = Streaming /\ SingleLineFocus' = SingleLineFocus
  BY <1>1 DEF Shown, Streaming, SingleLineFocus
<1>3. TypeOK'
  BY <1>1, <1>2 DEF IInv, TypeOK, Errors
<1>4. ContextsOK' /\ TargetsOK'
  BY <1>1 DEF IInv, ContextsOK, TargetsOK, Kind, MaxAttempts, Streaming
<1>5. Silence'
  BY <1>1, <1>2 DEF IInv, Silence, Fresh, Kind
<1>6. Voices'
  BY <1>1 DEF IInv, Voices
<1>7. Telling'
  BY <1>1, <1>2 DEF IInv, Telling, LineEnds, ProviderErrors
<1>8. Causes'
  BY <1>1, <1>2 DEF IInv, Causes, ContextsOK, Kind, MaxAttempts, MayTry, ProviderErrors
<1>9. EndsWell'
  BY <1>1 DEF EndsWell
<1>10. QED
  BY <1>3, <1>4, <1>5, <1>6, <1>7, <1>8, <1>9 DEF IInv

\* A failure that has shown nothing goes on; everything else is the answer.
LEMMA ReturnedStep ==
  ASSUME IInv, Returned
  PROVE  IInv'
<1>1. /\ UNCHANGED <<router, req, plan, gone, ctx, call, target, emitted, err, raw, sent, count, asked>>
      /\ at = "returned" /\ ended' = Append(ended, err)
      /\ at' = IF ~emitted /\ err \in ProviderErrors THEN "route" ELSE "answer"
  BY DEF Returned, Falls, Eligible
<1>2. Shown' = Shown /\ Streaming' = Streaming /\ SingleLineFocus' = SingleLineFocus
  BY <1>1 DEF Shown, Streaming, SingleLineFocus
<1>3. /\ TypeOK /\ target \in Nat /\ target > 0 /\ Len(ended) = target - 1
      /\ ended \in Seq(Errors) /\ err \in Errors
  BY <1>1 DEF IInv, TypeOK, TargetsOK
<1>4. ended' \in Seq(Errors) /\ Len(ended') = target /\ ended'[target] = err
  <2>1. /\ ended' \in Seq(Errors) /\ Len(ended') = Len(ended) + 1
        /\ ended'[Len(ended) + 1] = err
    BY <1>1, <1>3, AppendProperties
  <2>2. Len(ended) + 1 = target
    BY <1>3
  <2>3. QED
    BY <2>1, <2>2
<1>5. TypeOK'
  BY <1>1, <1>2, <1>3, <1>4 DEF TypeOK
<1>6. ContextsOK' /\ TargetsOK'
  BY <1>1, <1>3, <1>4 DEF IInv, ContextsOK, TargetsOK, Kind, MaxAttempts, Streaming
<1>7. Silence'
  BY <1>1, <1>2 DEF IInv, Silence, Fresh, Kind
<1>8. Voices'
  BY <1>1 DEF IInv, Voices
<1>9. Telling'
  BY <1>1, <1>2 DEF IInv, Telling, LineEnds, ProviderErrors
<1>10. Causes'
  BY <1>1, <1>2 DEF IInv, Causes, ContextsOK, Kind, MaxAttempts, MayTry, ProviderErrors
<1>11. EndsWell'
  BY <1>1 DEF EndsWell
<1>12. QED
  BY <1>5, <1>6, <1>7, <1>8, <1>9, <1>10, <1>11 DEF IInv

LEMMA NextTargetStep ==
  ASSUME IInv, NextTarget
  PROVE  IInv'
<1>1. /\ UNCHANGED <<router, req, plan, gone, ctx, raw, sent, ended>> /\ at = "route"
      /\ TypeOK /\ target \in Nat /\ err \in Errors /\ count \in Nat
  BY DEF NextTarget, IInv, TypeOK
<1>2. Shown' = Shown /\ Streaming' = Streaming /\ SingleLineFocus' = SingleLineFocus
  BY <1>1 DEF Shown, Streaming, SingleLineFocus
<1>3. /\ raw = <<>> /\ Shown = <<>> /\ ~emitted
      /\ \A n \in 1..Len(sent) : sent[n].text = <<>>
  BY <1>1 DEF IInv, Silence, Fresh
<1>4. Len(raw) = 0
  BY <1>3, EmptySeq
<1>5. Len(Kind) \in Nat /\ MaxAttempts \in Nat
  BY <1>1, RouterAssumption, LenProperties DEF TypeOK, Kind, MaxAttempts
<1>6. Voices'
  <2>1. \A n \in 1..Len(sent) : Len(sent[n].text) = 0
    BY <1>3, EmptySeq
  <2>2. QED
    BY <1>1, <1>4, <2>1 DEF Voices
<1>7. CASE MoreTargets
  <2>1. /\ target' = target + 1 /\ call' = "live" /\ emitted' = FALSE /\ count' = 0
        /\ \/ at' = "returned" /\ err' = "unavailable"
           \/ at' = "sent" /\ err' = err
        /\ target < Len(Kind) /\ target < MaxAttempts /\ ctx = "live"
    BY <1>7 DEF NextTarget, MoreTargets, Returns
  <2>a. asked' \subseteq Nat
    <3>1. asked \subseteq Nat /\ target \in Nat
      BY <1>1 DEF TypeOK
    <3>2. asked' = asked \/ asked' = asked \cup {target'}
      BY <1>7 DEF NextTarget
    <3>3. target' \in Nat
      BY <2>1, <3>1
    <3>4. QED
      BY <3>1, <3>2, <3>3
  <2>t. /\ target' \in Nat /\ call' \in Contexts /\ count' \in Nat /\ err' \in Errors
        /\ at' \in {"new", "route", "sent", "reading", "returned", "answer", "over"}
    BY <1>1, <2>1 DEF Contexts, Errors, ProviderErrors
  <2>2. TypeOK'
    BY <1>1, <1>2, <2>1, <2>a, <2>t DEF TypeOK
  <2>3. ContextsOK' /\ TargetsOK'
    <3>1. Streaming' = Streaming /\ Kind' = Kind /\ MaxAttempts' = MaxAttempts
      BY <1>1, <1>2 DEF Kind, MaxAttempts
    <3>2. target' \in asked' \/ (Streaming /\ Kind[target'] = "raw")
      BY <1>7 DEF NextTarget, Refuses
    <3>3. asked \subseteq asked'
      BY <1>7 DEF NextTarget
    <3>4. \A n \in 1..target' : n \in asked' \/ (Streaming' /\ Kind'[n] = "raw")
      <4>1. \A n \in 1..target' : n \in 1..target \/ n = target'
        BY <1>1, <2>1
      <4>2. QED
        BY <3>1, <3>2, <3>3, <4>1 DEF IInv, TargetsOK
    <3>5. QED
      BY <1>1, <1>5, <2>1, <3>1, <3>4 DEF IInv, ContextsOK, TargetsOK
  <2>4. Silence'
    BY <1>1, <1>2, <1>3, <2>1 DEF IInv, Silence, Fresh, Kind
  <2>5. Telling'
    BY <1>1, <1>2, <2>1 DEF IInv, Telling, LineEnds
  <2>6. Causes' /\ EndsWell'
    BY <1>1, <2>1 DEF Causes, EndsWell
  <2>7. QED
    BY <1>6, <2>2, <2>3, <2>4, <2>5, <2>6 DEF IInv
<1>8. CASE ~MoreTargets
  <2>1. /\ at' = "answer" /\ err' = (IF ctx = "live" THEN err ELSE ctx)
        /\ UNCHANGED <<target, call, emitted, count, asked>>
    BY <1>8 DEF NextTarget
  <2>2. ctx \in Contexts /\ (ctx = "live" \/ ctx \in {"canceled", "deadline"})
    BY <1>1 DEF TypeOK, Contexts
  <2>3. TypeOK'
    BY <1>1, <1>2, <2>1, <2>2 DEF TypeOK, Errors
  <2>4. ContextsOK' /\ TargetsOK'
    BY <1>1, <2>1 DEF IInv, ContextsOK, TargetsOK, Kind, MaxAttempts, Streaming
  <2>5. Silence'
    BY <1>1, <1>3, <2>1 DEF IInv, Silence, Fresh
  <2>6. Telling'
    BY <1>1, <1>2, <2>1, <2>2 DEF IInv, Telling, LineEnds
  <2>7. Causes'
    <3>1. ctx = "live" => target = MayTry
      BY <1>1, <1>5, <1>8 DEF IInv, TargetsOK, MoreTargets, MayTry
    <3>2. err \in ProviderErrors \cup {"none"}
      BY <1>1 DEF IInv, Causes
    <3>3. err' \in {"write", "canceled", "deadline"} => ctx' # "live"
      BY <1>1, <2>1, <3>2 DEF ProviderErrors
    <3>4. ~emitted' /\ Kind' = Kind /\ MaxAttempts' = MaxAttempts
      BY <1>1, <1>3, <2>1 DEF Kind, MaxAttempts
    <3>5. QED
      BY <1>1, <2>1, <3>1, <3>3, <3>4 DEF Causes, MayTry
  <2>8. EndsWell'
    BY <2>1 DEF EndsWell
  <2>9. QED
    BY <1>6, <2>3, <2>4, <2>5, <2>6, <2>7, <2>8 DEF IInv
<1>9. QED
  BY <1>7, <1>8

\* A stream that has been opened and is sent at most one more chunk, of its target.
LEMMA Grows ==
  ASSUME TypeOK, Voices,
         Len(sent) > 0, sent[1].type = "open", \A n \in 2..Len(sent) : sent[n].type = "chunk",
         \/ sent' = sent
         \/ \E v \in Events : /\ v.type = "chunk" /\ sent' = Append(sent, v)
                              /\ \A i \in 1..Len(v.text) : v.text[i][1] = target
  PROVE  /\ Len(sent') > 0 /\ sent'[1].type = "open"
         /\ \A n \in 2..Len(sent') : sent'[n].type = "chunk"
         /\ \A n \in 1..Len(sent') : \A i \in 1..Len(sent'[n].text) : sent'[n].text[i][1] = target
<1>1. CASE sent' = sent
  BY <1>1 DEF Voices
<1>2. ASSUME NEW v \in Events, v.type = "chunk", sent' = Append(sent, v),
             \A i \in 1..Len(v.text) : v.text[i][1] = target
      PROVE  /\ Len(sent') > 0 /\ sent'[1].type = "open"
             /\ \A n \in 2..Len(sent') : sent'[n].type = "chunk"
             /\ \A n \in 1..Len(sent') : \A i \in 1..Len(sent'[n].text) : sent'[n].text[i][1] = target
  <2>1. sent \in Seq(Events) /\ Len(sent) \in Nat
    BY LenProperties DEF TypeOK
  <2>2. /\ Len(sent') = Len(sent) + 1 /\ sent'[Len(sent) + 1] = v
        /\ \A n \in 1..Len(sent) : sent'[n] = sent[n]
    BY <1>2, <2>1, AppendProperties
  <2>3. \A n \in 1..Len(sent') : n \in 1..Len(sent) \/ n = Len(sent) + 1
    BY <2>1, <2>2
  <2>4. 1 \in 1..Len(sent)
    BY <2>1
  <2>5. \A n \in 2..Len(sent') : sent'[n].type = "chunk"
    <3> SUFFICES ASSUME NEW n \in 2..Len(sent')
                 PROVE  sent'[n].type = "chunk"
      OBVIOUS
    <3>1. (n \in 2..Len(sent) /\ n \in 1..Len(sent)) \/ n = Len(sent) + 1
      BY <2>1, <2>2
    <3>2. QED
      BY <1>2, <2>2, <3>1
  <2>6. \A n \in 1..Len(sent') : \A i \in 1..Len(sent'[n].text) : sent'[n].text[i][1] = target
    <3> SUFFICES ASSUME NEW n \in 1..Len(sent')
                 PROVE  \A i \in 1..Len(sent'[n].text) : sent'[n].text[i][1] = target
      OBVIOUS
    <3>1. CASE n \in 1..Len(sent)
      BY <2>2, <3>1 DEF Voices
    <3>2. CASE n = Len(sent) + 1
      BY <1>2, <2>2, <3>2
    <3>3. QED
      BY <2>3, <3>1, <3>2
  <2>7. Len(sent') > 0
    BY <2>1, <2>2
  <2>8. QED
    BY <2>2, <2>4, <2>5, <2>6, <2>7
<1>3. QED
  BY <1>1, <1>2

\* A chunk of a stream that shows itself as it comes.
LEMMA StreamChunkStep ==
  ASSUME IInv, NEW chunk \in Chunks, StreamChunk(chunk)
  PROVE  IInv'
<1> DEFINE c == From(target, chunk)
<1>1. /\ TypeOK /\ Voices /\ at = "reading" /\ Streaming /\ Kind[target] = "chat"
      /\ UNCHANGED <<router, req, plan, gone, ctx, call, target, ended, asked>>
      /\ count' = count + 1 /\ emitted' = TRUE
  BY DEF IInv, StreamChunk, Native
<1>2. Streaming' = Streaming /\ SingleLineFocus' = SingleLineFocus /\ Kind' = Kind /\ MaxAttempts' = MaxAttempts
  BY <1>1 DEF Streaming, SingleLineFocus, Kind, MaxAttempts
<1>3. raw = Shown /\ (SingleLineFocus => LineEnds(raw) = {} /\ LineEnds(Shown) = {})
      /\ Len(sent) > 0 /\ sent[1].type = "open" /\ \A n \in 2..Len(sent) : sent[n].type = "chunk"
  BY <1>1 DEF IInv, Telling
<1>4. chunk # <<>> /\ target \in Nat
  BY <1>1, ChunkAssumption DEF TypeOK
<1>5. c \in Texts /\ c # <<>> /\ \A n \in 1..Len(c) : c[n][1] = target
  BY <1>4, ChunkOf
<1>6. PICK e \in CallbackErrors(c) :
        OnChunk(c, e) /\ IF e = "none" THEN UNCHANGED <<at, err>> ELSE Returns(e)
  BY DEF StreamChunk
<1> HIDE DEF c
<1>7. /\ e \in {"none", "line", "canceled", "write"}
      /\ e \in {"canceled", "write"} => gone
      /\ raw' \in Texts /\ (\A i \in 1..Len(raw') : raw'[i][1] = target)
      /\ SingleLineFocus => LineEnds(raw') = {}
      /\ sent' \in Seq(Events) /\ Shown' \in Texts
      /\ Shown' = raw' \/ (e = "write" /\ Shown' = Shown)
      /\ e = "none" => Shown' # <<>>
      /\ \/ sent' = sent
         \/ \E v \in Events : /\ v.type = "chunk" /\ sent' = Append(sent, v)
                              /\ \A i \in 1..Len(v.text) : v.text[i][1] = target
  BY <1>1, <1>3, <1>5, <1>6, OnChunkFacts
<1>8. \/ e = "none" /\ at' = at /\ err' = err
      \/ e # "none" /\ at' = "returned" /\ err' = e
  BY <1>6 DEF Returns
<1>9. /\ Len(sent') > 0 /\ sent'[1].type = "open" /\ (\A n \in 2..Len(sent') : sent'[n].type = "chunk")
      /\ \A n \in 1..Len(sent') : \A i \in 1..Len(sent'[n].text) : sent'[n].text[i][1] = target
  BY <1>1, <1>3, <1>7, Grows
<1>10. at' \in {"reading", "returned"} /\ err' \in Errors /\ count' \in Nat /\ emitted' \in BOOLEAN
  BY <1>1, <1>7, <1>8 DEF TypeOK, Errors
<1>11. TypeOK'
  BY <1>1, <1>7, <1>10 DEF TypeOK
<1>12. ContextsOK' /\ TargetsOK'
  BY <1>1, <1>2, <1>10 DEF IInv, ContextsOK, TargetsOK
<1>13. Silence'
  BY <1>1, <1>2, <1>7, <1>8 DEF Silence, Fresh, ProviderErrors
<1>14. Voices'
  BY <1>1, <1>7, <1>9 DEF Voices
<1>15. Telling'
  <2>1. LineEnds(raw)' = LineEnds(raw') /\ LineEnds(Shown)' = LineEnds(Shown')
    BY DEF LineEnds
  <2>2. SingleLineFocus => LineEnds(raw') = {} /\ LineEnds(Shown') = {}
    BY <1>3, <1>7
  <2>3. raw' = Shown' \/ (err' = "write" /\ at' \in {"returned", "answer"})
    BY <1>7, <1>8
  <2>4. QED
    BY <1>1, <1>2, <1>9, <2>1, <2>2, <2>3 DEF Telling
<1>16. Causes'
  <2>1. gone' = gone /\ ctx' = ctx /\ (gone => ctx # "live")
    BY <1>1 DEF IInv, ContextsOK
  <2>2. err' \in {"write", "canceled", "deadline"} /\ at' \in {"returned", "answer"} => ctx' # "live"
    BY <1>1, <1>7, <1>8, <2>1
  <2>3. \/ Shown' # <<>> \/ gone'
        \/ err' = "line" /\ at' \in {"returned", "answer", "over"}
    BY <1>7, <1>8, <2>1
  <2>4. QED
    BY <1>10, <2>2, <2>3 DEF Causes
<1>17. EndsWell'
  BY <1>10 DEF EndsWell
<1>18. QED
  BY <1>11, <1>12, <1>13, <1>14, <1>15, <1>16, <1>17 DEF IInv

\* A whole text: of a stream it is the one chunk, of a plain request it is kept.
LEMMA CompletesStep ==
  ASSUME IInv, NEW chunk \in Chunks \cup {<<>>}, Completes(chunk)
  PROVE  IInv'
<1> DEFINE c == From(target, chunk)
<1>1. /\ TypeOK /\ Voices /\ at \in {"sent", "reading"} /\ ~Native
      /\ UNCHANGED <<router, req, plan, gone, ctx, call, target, emitted, count, ended, asked>>
      /\ target \in Nat
  BY DEF IInv, TypeOK, Completes
<1>2. Streaming' = Streaming /\ SingleLineFocus' = SingleLineFocus /\ Kind' = Kind /\ MaxAttempts' = MaxAttempts
  BY <1>1 DEF Streaming, SingleLineFocus, Kind, MaxAttempts
<1>3. ~emitted
  BY <1>1 DEF IInv, Silence, Native
<1>4. raw = <<>> /\ Shown = <<>> /\ (\A n \in 1..Len(sent) : sent[n].text = <<>>)
  BY <1>1, <1>3 DEF IInv, Silence, Fresh
<1>5. \A x : x = <<>> => LineEnds(x) = {}
  BY EmptySeq DEF LineEnds
<1>6. Streaming =>
        /\ Len(sent) > 0 /\ sent[1].type = "open"
        /\ \A n \in 2..Len(sent) : sent[n].type = "chunk"
  BY <1>1 DEF IInv, Telling
<1>7. /\ c \in Texts
      /\ \A n \in 1..Len(c) : c[n][1] = target
      /\ chunk # <<>> => c # <<>>
      /\ chunk = <<>> => c = <<>>
  BY <1>1, ChunkOf
<1>8. CASE Streaming /\ chunk # <<>>
  <2>1. PICK e \in CallbackErrors(c) : OnChunk(c, e) /\ at' = "returned" /\ err' = e
    BY <1>8 DEF Completes, Returns
  <2> HIDE DEF c
  <2>2. /\ e \in {"none", "line", "canceled", "write"}
        /\ e \in {"canceled", "write"} => gone
        /\ raw' \in Texts /\ (\A i \in 1..Len(raw') : raw'[i][1] = target)
        /\ SingleLineFocus => LineEnds(raw') = {}
        /\ sent' \in Seq(Events) /\ Shown' \in Texts
        /\ Shown' = raw' \/ (e = "write" /\ Shown' = Shown)
        /\ \/ sent' = sent
           \/ \E v \in Events : /\ v.type = "chunk" /\ sent' = Append(sent, v)
                                /\ \A i \in 1..Len(v.text) : v.text[i][1] = target
    BY <1>1, <1>4, <1>5, <1>7, <1>8, <2>1, OnChunkFacts
  <2>3. /\ Len(sent') > 0 /\ sent'[1].type = "open" /\ (\A n \in 2..Len(sent') : sent'[n].type = "chunk")
        /\ \A n \in 1..Len(sent') : \A i \in 1..Len(sent'[n].text) : sent'[n].text[i][1] = target
    BY <1>1, <1>6, <1>8, <2>2, Grows
  <2>4. err' \in Errors /\ err' \notin ProviderErrors
    BY <2>1, <2>2 DEF Errors, ProviderErrors
  <2>5. TypeOK'
    BY <1>1, <2>1, <2>2, <2>4 DEF TypeOK
  <2>6. ContextsOK' /\ TargetsOK'
    BY <1>1, <1>2, <2>1 DEF IInv, ContextsOK, TargetsOK
  <2>7. Silence'
    BY <1>1, <1>3, <2>1, <2>4 DEF Silence, Fresh
  <2>8. Voices'
    BY <1>1, <2>2, <2>3 DEF Voices
  <2>9. Telling'
    <3>1. LineEnds(raw)' = LineEnds(raw') /\ LineEnds(Shown)' = LineEnds(Shown')
      BY DEF LineEnds
    <3>2. SingleLineFocus => LineEnds(raw') = {} /\ LineEnds(Shown') = {}
      BY <1>4, <1>5, <2>2
    <3>3. raw' = Shown' \/ (err' = "write" /\ at' \in {"returned", "answer"})
      BY <2>1, <2>2
    <3>4. QED
      BY <1>2, <1>8, <2>3, <3>1, <3>2, <3>3 DEF Telling
  <2>10. Causes'
    <3>1. gone' = gone /\ ctx' = ctx /\ (gone => ctx # "live")
      BY <1>1 DEF IInv, ContextsOK
    <3>2. err' \in {"write", "canceled", "deadline"} => ctx' # "live"
      BY <2>1, <2>2, <3>1
    <3>3. ~emitted'
      BY <1>1, <1>3
    <3>4. QED
      BY <2>1, <3>2, <3>3 DEF Causes
  <2>11. EndsWell'
    BY <2>1 DEF EndsWell
  <2>12. QED
    BY <2>5, <2>6, <2>7, <2>8, <2>9, <2>10, <2>11 DEF IInv
<1>9. CASE ~(Streaming /\ chunk # <<>>)
  <2>1. raw' = c /\ at' = "returned" /\ err' = "none" /\ sent' = sent
    BY <1>9 DEF Completes, Returns
  <2> HIDE DEF c
  <2>2. Shown' = Shown
    BY <2>1 DEF Shown
  <2>3. Streaming => raw' = <<>>
    BY <1>7, <1>9, <2>1
  <2>4. TypeOK'
    BY <1>1, <1>7, <2>1, <2>2 DEF TypeOK, Errors
  <2>5. ContextsOK' /\ TargetsOK'
    BY <1>1, <1>2, <2>1 DEF IInv, ContextsOK, TargetsOK
  <2>6. Silence'
    BY <1>1, <1>3, <2>1 DEF Silence, Fresh, ProviderErrors
  <2>7. Voices'
    BY <1>1, <1>7, <2>1 DEF Voices
  <2>8. Telling'
    <3>1. LineEnds(raw)' = LineEnds(raw') /\ LineEnds(Shown)' = LineEnds(Shown')
      BY DEF LineEnds
    <3>2. Streaming => LineEnds(raw') = {} /\ LineEnds(Shown') = {} /\ raw' = Shown'
      BY <1>4, <1>5, <2>2, <2>3
    <3>3. ~Streaming => sent' = <<>> /\ Shown' = <<>>
      BY <1>1, <2>1, <2>2 DEF IInv, Telling
    <3>4. QED
      BY <1>2, <1>6, <2>1, <3>1, <3>2, <3>3 DEF Telling
  <2>9. Causes'
    BY <1>1, <1>3, <2>1 DEF Causes, ProviderErrors
  <2>10. EndsWell'
    BY <2>1 DEF EndsWell
  <2>11. QED
    BY <2>4, <2>5, <2>6, <2>7, <2>8, <2>9, <2>10 DEF IInv
<1>10. QED
  BY <1>8, <1>9

\* The event that ends a request.
LEMMA FinalFacts ==
  ASSUME IInv, at \in {"new", "answer"},
         NEW e \in Events, e.type # "chunk", \A i \in 1..Len(e.text) : e.text[i][1] = target,
         Final(e),
         UNCHANGED <<router, req, plan, gone, ctx, call, target, emitted, err, raw, count, ended, asked>>
  PROVE  /\ TypeOK' /\ ContextsOK' /\ TargetsOK' /\ Silence' /\ Voices' /\ Telling' /\ Causes'
         /\ Shown' = Shown /\ Streaming' = Streaming /\ SingleLineFocus' = SingleLineFocus
         /\ Sanitize(Shown)' = Sanitize(Shown)
         /\ Len(sent) \in Nat /\ Len(sent') = Len(sent) + 1 /\ Last(sent') = e
         /\ sent'[Len(sent) + 1] = e /\ \A n \in 1..Len(sent) : sent'[n] = sent[n]
<1>1. TypeOK /\ sent \in Seq(Events) /\ Shown \in Texts /\ Len(sent) \in Nat
  BY LenProperties DEF IInv, TypeOK
<1>2. at' = "over" /\ sent' = Append(sent, e)
  BY DEF Final
<1>3. /\ sent' \in Seq(Events) /\ Len(sent') = Len(sent) + 1 /\ sent'[Len(sent) + 1] = e
      /\ \A n \in 1..Len(sent) : sent'[n] = sent[n]
  BY <1>1, <1>2, AppendProperties
<1>4. Last(sent') = e
  BY <1>3 DEF Last
<1>5. Shown' = Shown
  BY <1>1, <1>2, ShownAppend
<1>6. Streaming' = Streaming /\ SingleLineFocus' = SingleLineFocus /\ Kind' = Kind /\ MaxAttempts' = MaxAttempts
  BY DEF Streaming, SingleLineFocus, Kind, MaxAttempts
<1>7. TypeOK'
  BY <1>1, <1>2, <1>3, <1>5 DEF TypeOK
<1>8. ContextsOK' /\ TargetsOK'
  BY <1>2, <1>6 DEF IInv, ContextsOK, TargetsOK
<1>9. Silence'
  BY <1>2, <1>6 DEF IInv, Silence, Fresh
<1>10. Voices'
  <2>1. \A n \in 1..Len(sent') : \A i \in 1..Len(sent'[n].text) : sent'[n].text[i][1] = target
    <3> SUFFICES ASSUME NEW n \in 1..Len(sent')
                 PROVE  \A i \in 1..Len(sent'[n].text) : sent'[n].text[i][1] = target
      OBVIOUS
    <3>1. CASE n \in 1..Len(sent)
      BY <1>3, <3>1 DEF IInv, Voices
    <3>2. CASE n = Len(sent) + 1
      BY <1>3, <3>2
    <3>3. n \in 1..Len(sent) \/ n = Len(sent) + 1
      BY <1>1, <1>3
    <3>4. QED
      BY <3>1, <3>2, <3>3
  <2>2. QED
    BY <2>1 DEF IInv, Voices
<1>11. Telling'
  <2>1. LineEnds(raw)' = LineEnds(raw) /\ LineEnds(Shown)' = LineEnds(Shown)
    BY <1>5 DEF LineEnds
  <2>2. \A x : x = <<>> => LineEnds(x) = {}
    BY EmptySeq DEF LineEnds
  <2>3. at = "new" => raw = <<>> /\ Shown = <<>>
    BY DEF IInv, Silence, Fresh
  <2>4. Streaming /\ SingleLineFocus => LineEnds(raw) = {} /\ LineEnds(Shown) = {}
    BY <2>2, <2>3 DEF IInv, Telling
  <2>5. QED
    BY <1>2, <1>5, <1>6, <2>1, <2>4 DEF IInv, Telling
<1>12. Causes'
  BY <1>2, <1>5 DEF IInv, Causes, Silence
<1>13. Sanitize(Shown)' = Sanitize(Shown)
  BY <1>5 DEF Sanitize, Code, FirstLine, LineEnds
<1>14. QED
  BY <1>1, <1>3, <1>4, <1>5, <1>6, <1>7, <1>8, <1>9, <1>10, <1>11, <1>12, <1>13

\* The sanitized text comes from the target its raw form came from.
LEMMA SanitizedVoice ==
  ASSUME TypeOK, Voices
  PROVE  /\ Sanitize(raw) \in Texts
         /\ \A i \in 1..Len(Sanitize(raw)) : Sanitize(raw)[i][1] = target
<1>1. raw \in Texts /\ \A j \in 1..Len(raw) : raw[j][1] = target
  BY DEF TypeOK, Voices
<1>2. QED
  BY <1>1, SanitizedText

\* What the handlers send without text is an event without pieces.
LEMMA Plain ==
  ASSUME NEW type \in {"open", "error", "INVALID_REQUEST", "FEATURE_NOT_AVAILABLE",
                       "PROVIDER_TIMEOUT", "PROVIDER_RATE_LIMITED", "PROVIDER_UNAVAILABLE",
                       "INTERNAL_ERROR"}
  PROVE  /\ Event(type, <<>>) \in Events
         /\ Event(type, <<>>).type = type /\ Event(type, <<>>).text = <<>>
         /\ \A i \in 1..Len(Event(type, <<>>).text) : Event(type, <<>>).text[i][1] = target
<1>1. <<>> \in Texts /\ Len(<<>>) = 0
  BY EmptySeq DEF Texts
<1>2. QED
  BY <1>1 DEF Event, Events

LEMMA Done ==
  ASSUME NEW t \in Texts
  PROVE  /\ Event("done", t) \in Events
         /\ Event("done", t).type = "done" /\ Event("done", t).text = t
  BY DEF Event, Events

LEMMA AcceptStep ==
  ASSUME IInv, AcceptComplete \/ AcceptStream
  PROVE  IInv'
<1>1. /\ UNCHANGED <<router, plan, gone, ctx, call, target, emitted, err, raw, count, ended, asked>>
      /\ at = "new" /\ TypeOK
      /\ \/ /\ \E t \in {"INVALID_REQUEST", "FEATURE_NOT_AVAILABLE"} : Final(Event(t, <<>>))
            /\ req' = req
         \/ /\ at' = "route" /\ req' = [req EXCEPT !.focus = @ /\ plan.context]
            /\ sent' = IF Streaming THEN <<Event("open", <<>>)>> ELSE sent
  BY DEF IInv, AcceptComplete, AcceptStream
<1>2. sent = <<>> /\ Len(sent) = 0 /\ raw = <<>> /\ Shown = <<>> /\ ~emitted
  BY <1>1, EmptySeq DEF IInv, Silence, Fresh
<1>3. ASSUME NEW t \in {"INVALID_REQUEST", "FEATURE_NOT_AVAILABLE"},
             Final(Event(t, <<>>)), req' = req
      PROVE  IInv'
  <2>1. PICK e \in Events : /\ e = Event(t, <<>>) /\ e.type = t /\ e.text = <<>>
                            /\ \A i \in 1..Len(e.text) : e.text[i][1] = target
    BY Plain
  <2>2. /\ TypeOK' /\ ContextsOK' /\ TargetsOK' /\ Silence' /\ Voices' /\ Telling' /\ Causes'
        /\ Last(sent') = e /\ sent'[Len(sent) + 1] = e
    BY <1>1, <1>3, <2>1, FinalFacts
  <2>3. sent'[1].type # "open"
    BY <1>2, <2>1, <2>2
  <2>4. Last(sent').type \in {"INVALID_REQUEST", "FEATURE_NOT_AVAILABLE"}
    BY <2>1, <2>2
  <2>5. EndsWell'
    BY <2>3, <2>4 DEF EndsWell, StreamTellsWhatItShowed, NoTargetLeftOut, MayTry
  <2>6. QED
    BY <2>2, <2>5 DEF IInv
<1>4. ASSUME at' = "route", req' = [req EXCEPT !.focus = @ /\ plan.context],
             sent' = IF Streaming THEN <<Event("open", <<>>)>> ELSE sent
      PROVE  IInv'
  <2>1. PICK e \in Events : e = Event("open", <<>>) /\ e.type = "open" /\ e.text = <<>>
    BY Plain
  <2>2. req' \in Requests /\ req'.mode = req.mode
    <3>1. req \in Requests /\ (req.focus /\ plan.context) \in BOOLEAN
      BY <1>1 DEF TypeOK
    <3>2. QED
      BY <1>4, <3>1 DEF Requests
  <2>3. Streaming' = Streaming /\ Kind' = Kind /\ MaxAttempts' = MaxAttempts
    BY <1>1, <2>2 DEF Streaming, Kind, MaxAttempts
  <2>4. /\ Streaming => Len(sent') = 1 /\ sent'[1] = e
        /\ ~Streaming => sent' = sent /\ Len(sent') = 0
        /\ sent' \in Seq(Events)
    BY <1>1, <1>2, <1>4, <2>1 DEF TypeOK
  <2>5. Shown' = <<>>
    <3>1. CASE Streaming
      <4>1. <<e>> = Append(<<>>, e)
        OBVIOUS
      <4>2. sent' = Append(sent, e)
        BY <1>2, <1>4, <2>1, <3>1, <4>1
      <4>3. QED
        BY <1>1, <1>2, <2>1, <4>2, ShownAppend DEF TypeOK
    <3>2. CASE ~Streaming
      BY <1>2, <2>4, <3>2 DEF Shown
    <3>3. QED
      BY <3>1, <3>2
  <2>6. \A n \in 1..Len(sent') : sent'[n].text = <<>>
    BY <2>1, <2>4
  <2>7. TypeOK'
    <3>1. <<>> \in Texts
      BY EmptySeq DEF Texts
    <3>2. QED
      BY <1>1, <1>4, <2>2, <2>4, <2>5, <3>1 DEF TypeOK
  <2>8. ContextsOK' /\ TargetsOK'
    BY <1>1, <1>4, <2>3 DEF IInv, ContextsOK, TargetsOK
  <2>9. Silence'
    BY <1>1, <1>2, <1>4, <2>5, <2>6 DEF Silence, Fresh
  <2>10. Voices'
    <3>1. Len(<<>>) = 0
      BY EmptySeq
    <3>2. QED
      BY <1>1, <1>2, <2>6, <3>1 DEF Voices
  <2>11. Telling'
    <3>1. LineEnds(raw)' = {} /\ LineEnds(Shown)' = {}
      BY <1>1, <1>2, <2>5, EmptySeq DEF LineEnds
    <3>2. err' # "line"
      BY <1>1 DEF IInv, Causes, ProviderErrors
    <3>3. raw' = Shown'
      BY <1>1, <1>2, <2>5
    <3>4. QED
      BY <1>2, <1>4, <2>1, <2>3, <2>4, <2>5, <3>1, <3>2, <3>3 DEF Telling
  <2>12. Causes' /\ EndsWell'
    BY <1>1, <1>2, <1>4 DEF IInv, Causes, EndsWell
  <2>13. QED
    BY <2>7, <2>8, <2>9, <2>10, <2>11, <2>12 DEF IInv
<1>5. QED
  BY <1>1, <1>3, <1>4

\* Over without a word: the client is gone.
LEMMA SilentStep ==
  ASSUME IInv, at = "answer", gone, at' = "over", err # "none", Streaming => err # "line",
         UNCHANGED <<router, req, plan, gone, ctx, call, target, emitted, err, raw, sent, count, ended, asked>>
  PROVE  IInv'
<1>1. /\ Shown' = Shown /\ Streaming' = Streaming /\ SingleLineFocus' = SingleLineFocus
      /\ Kind' = Kind /\ MaxAttempts' = MaxAttempts
  BY DEF Shown, Streaming, SingleLineFocus, Kind, MaxAttempts
<1>2. TypeOK' /\ ContextsOK' /\ TargetsOK'
  BY <1>1 DEF IInv, TypeOK, ContextsOK, TargetsOK
<1>3. Silence' /\ Voices'
  BY <1>1 DEF IInv, Silence, Fresh, Voices
<1>4. Telling'
  BY <1>1 DEF IInv, Telling, LineEnds
<1>5. Causes'
  BY <1>1 DEF IInv, Causes
<1>6. EndsWell'
  <2>1. ctx' # "live"
    BY DEF IInv, ContextsOK
  <2>2. ASSUME Streaming
        PROVE  /\ \A n \in 2..Len(sent) : sent[n].type = "chunk"
               /\ Last(sent).type # "done"
               /\ SingleLineFocus => LineEnds(Shown) = {}
    <3>1. Len(sent) > 0 /\ sent[1].type = "open" /\ \A n \in 2..Len(sent) : sent[n].type = "chunk"
      BY <2>2 DEF IInv, Telling
    <3>2. Len(sent) = 1 \/ Len(sent) \in 2..Len(sent)
      <4>1. Len(sent) \in Nat
        BY LenProperties DEF IInv, TypeOK
      <4>2. PICK k \in Nat : k = Len(sent) /\ k > 0
        BY <3>1, <4>1
      <4>3. QED
        BY ONLY <4>2
    <3>3. sent[Len(sent)].type \in {"open", "chunk"}
      BY <3>1, <3>2
    <3>4. QED
      BY <2>2, <3>1, <3>3 DEF IInv, Telling, Last
  <2>3. LineEnds(Shown)' = LineEnds(Shown)
    BY <1>1 DEF LineEnds
  <2>4. StreamTellsWhatItShowed'
    BY <1>1, <2>2, <2>3 DEF StreamTellsWhatItShowed
  <2>5. NoTargetLeftOut'
    BY <2>1 DEF NoTargetLeftOut
  <2>6. QED
    BY <2>4, <2>5 DEF EndsWell
<1>7. QED
  BY <1>2, <1>3, <1>4, <1>5, <1>6 DEF IInv

\* A request that fails without its context having ended has failed everywhere.
LEMMA FailedEverywhere ==
  ASSUME IInv, at = "answer", err # "none", err # "line", ctx = "live", Shown = <<>>
  PROVE  \A n \in 1..MayTry : n \in asked \/ (Streaming /\ Kind[n] = "raw")
<1>1. err \in ProviderErrors
  BY DEF IInv, TypeOK, Errors, Causes
<1>2. target = MayTry
  BY <1>1 DEF IInv, Causes
<1>3. QED
  BY <1>2 DEF IInv, TargetsOK

LEMMA AnswerCompleteStep ==
  ASSUME IInv, AnswerComplete
  PROVE  IInv'
<1>1. /\ UNCHANGED <<router, req, plan, gone, ctx, call, target, emitted, err, raw, count, ended, asked>>
      /\ at = "answer" /\ ~Streaming /\ raw \in Texts /\ err # "line"
  BY DEF IInv, TypeOK, AnswerComplete, Telling
<1>2. Kind' = Kind /\ MaxAttempts' = MaxAttempts
  BY <1>1 DEF Kind, MaxAttempts
<1>3. CASE err = "none"
  <2>1. Final(Event("done", Sanitize(raw)))
    BY <1>3 DEF AnswerComplete
  <2>2. PICK e \in Events : e = Event("done", Sanitize(raw)) /\ e.type = "done" /\ e.text = Sanitize(raw)
    BY SanitizedVoice, Done DEF IInv
  <2>3. \A i \in 1..Len(e.text) : e.text[i][1] = target
    BY <2>2, SanitizedVoice DEF IInv
  <2>4. /\ TypeOK' /\ ContextsOK' /\ TargetsOK' /\ Silence' /\ Voices' /\ Telling' /\ Causes'
        /\ Streaming' = Streaming /\ Last(sent') = e
    BY <1>1, <2>1, <2>2, <2>3, FinalFacts
  <2>5. EndsWell'
    BY <1>1, <2>2, <2>4 DEF EndsWell, StreamTellsWhatItShowed, NoTargetLeftOut, MayTry
  <2>6. QED
    BY <2>4, <2>5 DEF IInv
<1>4. CASE err # "none" /\ gone
  <2>1. at' = "over" /\ sent' = sent
    BY <1>4 DEF AnswerComplete
  <2>2. QED
    BY <1>1, <1>4, <2>1, SilentStep
<1>5. CASE err # "none" /\ ~gone
  <2>1. Final(Event(StatusOf(err), <<>>))
    BY <1>5 DEF AnswerComplete
  <2>2. StatusOf(err) \in {"PROVIDER_TIMEOUT", "PROVIDER_RATE_LIMITED", "PROVIDER_UNAVAILABLE",
                           "INTERNAL_ERROR"}
    BY DEF StatusOf, ProviderErrors
  <2>3. PICK e \in Events : /\ e = Event(StatusOf(err), <<>>) /\ e.type = StatusOf(err)
                            /\ \A i \in 1..Len(e.text) : e.text[i][1] = target
    BY <2>2, Plain
  <2>4. /\ TypeOK' /\ ContextsOK' /\ TargetsOK' /\ Silence' /\ Voices' /\ Telling' /\ Causes'
        /\ Streaming' = Streaming /\ Shown' = Shown
    BY <1>1, <2>1, <2>2, <2>3, FinalFacts
  <2>5. ctx = "live" /\ Shown = <<>> =>
          \A n \in 1..MayTry : n \in asked \/ (Streaming /\ Kind[n] = "raw")
    BY <1>1, <1>5, FailedEverywhere
  <2>6. EndsWell'
    BY <1>1, <1>2, <2>4, <2>5 DEF EndsWell, StreamTellsWhatItShowed, NoTargetLeftOut, MayTry
  <2>7. QED
    BY <2>4, <2>6 DEF IInv
<1>6. QED
  BY <1>3, <1>4, <1>5

LEMMA AnswerStreamStep ==
  ASSUME IInv, AnswerStream
  PROVE  IInv'
<1>1. /\ UNCHANGED <<router, req, plan, gone, ctx, call, target, emitted, err, raw, count, ended, asked>>
      /\ at = "answer" /\ Streaming /\ raw \in Texts
  BY DEF IInv, TypeOK, AnswerStream
<1>2. /\ Kind' = Kind /\ MaxAttempts' = MaxAttempts
      /\ \A n \in 2..Len(sent) : sent[n].type = "chunk"
      /\ SingleLineFocus => LineEnds(Shown) = {}
      /\ raw = Shown \/ err = "write"
  BY <1>1 DEF IInv, Telling, Kind, MaxAttempts
<1>3. ASSUME NEW e \in Events, e.type \in {"done", "error"}, Final(e),
             \A i \in 1..Len(e.text) : e.text[i][1] = target,
             e.type = "done" => e.text = Sanitize(Shown),
             e.type = "error" => err # "none" /\ err # "line"
      PROVE  IInv'
  <2>1. /\ TypeOK' /\ ContextsOK' /\ TargetsOK' /\ Silence' /\ Voices' /\ Telling' /\ Causes'
        /\ Shown' = Shown /\ Streaming' = Streaming /\ SingleLineFocus' = SingleLineFocus
        /\ Sanitize(Shown)' = Sanitize(Shown)
        /\ Len(sent) \in Nat /\ Len(sent') = Len(sent) + 1 /\ Last(sent') = e
        /\ \A n \in 1..Len(sent) : sent'[n] = sent[n]
    BY <1>1, <1>3, FinalFacts
  <2>2. at' = "over" /\ LineEnds(Shown)' = LineEnds(Shown)
    BY <1>3, <2>1 DEF Final, LineEnds
  <2>3. \A n \in 2..Len(sent') : sent'[n].type # "chunk" => n = Len(sent')
    <3> SUFFICES ASSUME NEW n \in 2..Len(sent'), n # Len(sent')
                 PROVE  sent'[n].type = "chunk"
      OBVIOUS
    <3>1. n \in 1..Len(sent) /\ n \in 2..Len(sent)
      BY <2>1
    <3>2. QED
      BY <1>2, <2>1, <3>1
  <2>4. StreamTellsWhatItShowed'
    BY <1>2, <1>3, <2>1, <2>2, <2>3 DEF StreamTellsWhatItShowed
  <2>5. ctx = "live" /\ Shown = <<>> /\ e.type = "error" =>
          \A n \in 1..MayTry : n \in asked \/ (Streaming /\ Kind[n] = "raw")
    BY <1>1, <1>3, FailedEverywhere
  <2>6. NoTargetLeftOut'
    BY <1>1, <1>2, <1>3, <2>1, <2>5 DEF NoTargetLeftOut, MayTry
  <2>7. QED
    BY <2>1, <2>4, <2>6 DEF IInv, EndsWell
<1>4. CASE Success(err)
  <2>1. Final(Event("done", Sanitize(raw))) /\ err \in {"none", "line"}
    BY <1>4 DEF AnswerStream, Success
  <2>2. raw = Shown
    BY <1>2, <2>1
  <2>3. PICK e \in Events : e = Event("done", Sanitize(raw)) /\ e.type = "done" /\ e.text = Sanitize(raw)
    BY SanitizedVoice, Done DEF IInv
  <2>4. \A i \in 1..Len(e.text) : e.text[i][1] = target
    BY <2>3, SanitizedVoice DEF IInv
  <2>5. QED
    BY <1>3, <2>1, <2>2, <2>3, <2>4
<1>5. CASE ~Success(err) /\ gone
  <2>1. at' = "over" /\ sent' = sent /\ err \notin {"none", "line"}
    BY <1>5 DEF AnswerStream, Success
  <2>2. QED
    BY <1>1, <1>5, <2>1, SilentStep
<1>6. CASE ~Success(err) /\ ~gone
  <2>1. Final(Event("error", <<>>)) /\ err \notin {"none", "line"}
    BY <1>6 DEF AnswerStream, Success
  <2>2. PICK e \in Events : /\ e = Event("error", <<>>) /\ e.type = "error"
                            /\ \A i \in 1..Len(e.text) : e.text[i][1] = target
    BY Plain
  <2>3. QED
    BY <1>3, <2>1, <2>2
<1>7. QED
  BY <1>4, <1>5, <1>6

\* The contexts end: the client leaves, a time-out passes.
LEMMA ContextStep ==
  ASSUME IInv, ClientLeaves \/ RouterTimeout \/ ProviderTimeout
  PROVE  IInv'
<1>1. /\ UNCHANGED <<router, req, plan, at, target, emitted, err, raw, sent, count, ended, asked>>
      /\ at # "over" /\ TypeOK
  BY DEF IInv, ClientLeaves, RouterTimeout, ProviderTimeout
<1>2. gone' \in BOOLEAN /\ (gone => gone')
  BY <1>1 DEF TypeOK, ClientLeaves, RouterTimeout, ProviderTimeout
<1>3. /\ ctx' \in Contexts /\ call' \in Contexts
      /\ ctx # "live" => ctx' # "live"
      /\ gone' => gone \/ ctx' # "live"
      /\ call' = "canceled" => call = "canceled" \/ gone'
  BY <1>1 DEF TypeOK, Contexts, ClientLeaves, RouterTimeout, ProviderTimeout, First
<1>4. ctx = "deadline" \/ ctx = "live" \/ ctx = "canceled"
  BY <1>1 DEF TypeOK, Contexts
<1>5. Shown' = Shown /\ Streaming' = Streaming /\ SingleLineFocus' = SingleLineFocus
      /\ Kind' = Kind /\ MaxAttempts' = MaxAttempts
  BY <1>1 DEF Shown, Streaming, SingleLineFocus, Kind, MaxAttempts
<1>6. TypeOK'
  BY <1>1, <1>2, <1>3, <1>5 DEF TypeOK
<1>7. ContextsOK' /\ TargetsOK'
  BY <1>1, <1>2, <1>3, <1>5 DEF IInv, ContextsOK, TargetsOK
<1>8. Silence' /\ Voices'
  BY <1>1, <1>5 DEF IInv, Silence, Fresh, Voices
<1>9. Telling'
  BY <1>1, <1>5 DEF IInv, Telling, LineEnds
<1>10. Causes'
  BY <1>1, <1>2, <1>3, <1>5 DEF IInv, Causes, MayTry
<1>11. EndsWell'
  BY <1>1 DEF EndsWell
<1>12. QED
  BY <1>6, <1>7, <1>8, <1>9, <1>10, <1>11 DEF IInv

LEMMA InitIInv == Init => IInv
<1> SUFFICES ASSUME Init
             PROVE  IInv
  OBVIOUS
<1>1. raw = <<>> /\ sent = <<>> /\ ended = <<>> /\ Len(ended) = 0 /\ Len(raw) = 0 /\ Len(sent) = 0
  BY EmptySeq DEF Init
<1>2. Shown = <<>>
  <2>1. DOMAIN sent = {}
    BY <1>1, EmptySeq
  <2>2. [n \in DOMAIN sent |-> IF sent[n].type = "chunk" THEN sent[n].text ELSE <<>>] = <<>>
    BY <2>1
  <2>3. FlattenSeq(<<>>) = <<>>
    BY EmptySeq, FlattenAppend
  <2>4. QED
    BY <2>2, <2>3 DEF Shown
<1>3. LineEnds(raw) = {} /\ LineEnds(Shown) = {}
  BY <1>1, <1>2, EmptySeq DEF LineEnds
<1>4. TypeOK
  <2>1. /\ raw \in Texts /\ Shown \in Texts /\ sent \in Seq(Events) /\ ended \in Seq(Errors)
    BY <1>1, <1>2, EmptySeq DEF Texts
  <2>2. QED
    BY <2>1 DEF Init, TypeOK, Contexts, Errors
<1>5. Len(Kind) \in Nat /\ MaxAttempts \in Nat
  BY RouterAssumption, LenProperties DEF Init, Kind, MaxAttempts
<1>6. ContextsOK /\ TargetsOK
  BY <1>1, <1>5 DEF Init, ContextsOK, TargetsOK
<1>7. Silence /\ Voices /\ Telling /\ Causes /\ EndsWell
  BY <1>1, <1>2, <1>3 DEF Init, Silence, Fresh, Voices, Telling, Causes, EndsWell
<1>8. QED
  BY <1>4, <1>6, <1>7 DEF IInv

LEMMA StutterStep ==
  ASSUME IInv, UNCHANGED vars
  PROVE  IInv'
<1>1. /\ Shown' = Shown /\ Streaming' = Streaming /\ SingleLineFocus' = SingleLineFocus
      /\ Kind' = Kind /\ MaxAttempts' = MaxAttempts
  BY DEF vars, Shown, Streaming, SingleLineFocus, Kind, MaxAttempts
<1>2. TypeOK' /\ ContextsOK' /\ TargetsOK'
  BY <1>1 DEF IInv, vars, TypeOK, ContextsOK, TargetsOK
<1>3. Silence' /\ Voices'
  BY <1>1 DEF IInv, vars, Silence, Fresh, Voices
<1>4. Telling'
  BY <1>1 DEF IInv, vars, Telling, LineEnds
<1>5. Causes'
  BY <1>1 DEF IInv, vars, Causes, MayTry
<1>6. EndsWell'
  <2>1. Sanitize(Shown)' = Sanitize(Shown)
    BY <1>1 DEF vars, Sanitize, Code, FirstLine, LineEnds
  <2>2. LineEnds(Shown)' = LineEnds(Shown)
    BY <1>1 DEF LineEnds
  <2>3. StreamTellsWhatItShowed => StreamTellsWhatItShowed'
    BY <1>1, <2>1, <2>2 DEF vars, StreamTellsWhatItShowed
  <2>4. NoTargetLeftOut => NoTargetLeftOut'
    BY <1>1 DEF vars, NoTargetLeftOut, MayTry
  <2>5. at' = at
    BY DEF vars
  <2>6. QED
    BY <2>3, <2>4, <2>5 DEF IInv, EndsWell
<1>7. QED
  BY <1>2, <1>3, <1>4, <1>5, <1>6 DEF IInv

LEMMA Invariance == Spec => []IInv
<1>1. ASSUME IInv, [Next]_vars
      PROVE  IInv'
  <2>1. CASE Upstream
    BY <1>1, <2>1, UpstreamStep, StreamChunkStep, CompletesStep DEF Upstream
  <2>2. CASE Server
    BY <1>1, <2>2, AcceptStep, NextTargetStep, ReturnedStep, UpstreamStep, AnswerCompleteStep,
       AnswerStreamStep DEF Server
  <2>3. CASE ClientLeaves \/ RouterTimeout \/ ProviderTimeout
    BY <1>1, <2>3, ContextStep
  <2>4. CASE UNCHANGED vars
    BY <1>1, <2>4, StutterStep
  <2>5. QED
    BY <1>1, <2>1, <2>2, <2>3, <2>4 DEF Next
<1>2. QED
  BY InitIInv, <1>1, PTL DEF Spec

-----------------------------------------------------------------------------
(* The theorems.                                                           *)

\* Every variable of a request, and what the client has been shown, has its type.
THEOREM TypeCorrect == Spec => []TypeOK
<1>1. IInv => TypeOK
  BY DEF IInv
<1>2. QED
  BY <1>1, Invariance, PTL

\* docs/streaming-protocol.md:7: whatever the targets, the order of their answers and
\* the failures between them, a client is never sent text of two providers.
THEOREM OneVoiceHolds == Spec => []OneVoice
<1>1. IInv => OneVoice
  <2> SUFFICES ASSUME IInv, NEW n \in DOMAIN sent, NEW m \in DOMAIN sent,
                      NEW p \in ToSet(sent[n].text), NEW q \in ToSet(sent[m].text)
               PROVE  p[1] = q[1]
    BY DEF OneVoice
  <2>1. /\ n \in 1..Len(sent) /\ m \in 1..Len(sent)
        /\ sent[n] \in Events /\ sent[m] \in Events
    BY LenProperties, ElementOfSeq DEF IInv, TypeOK
  <2>2. sent[n].text \in Texts /\ sent[m].text \in Texts
    BY <2>1 DEF Events
  <2>3. /\ \E i \in 1..Len(sent[n].text) : p = sent[n].text[i]
        /\ \E i \in 1..Len(sent[m].text) : q = sent[m].text[i]
    BY <2>2, TextFacts DEF ToSet
  <2>4. QED
    BY <2>1, <2>3 DEF IInv, Voices
<1>2. QED
  BY <1>1, Invariance, PTL

\* service.go's Stream and stream.go: an opened stream is chunks and one last event;
\* "done" carries the sanitized form of exactly the text the chunks showed, wherever the
\* line was cut.
THEOREM StreamTellsWhatItShowedHolds == Spec => []StreamTellsWhatItShowed
<1>1. IInv => StreamTellsWhatItShowed
  <2> SUFFICES ASSUME IInv
               PROVE  StreamTellsWhatItShowed
    OBVIOUS
  <2>1. CASE at = "over"
    BY <2>1 DEF IInv, EndsWell
  <2>2. CASE at = "new"
    BY <2>2 DEF IInv, Silence, StreamTellsWhatItShowed
  <2>3. CASE at \notin {"new", "over"}
    <3> SUFFICES ASSUME Streaming
                 PROVE  StreamTellsWhatItShowed
      BY DEF StreamTellsWhatItShowed
    <3>1. Len(sent) > 0 /\ sent[1].type = "open" /\ \A n \in 2..Len(sent) : sent[n].type = "chunk"
      BY <2>3 DEF IInv, Telling
    <3>2. Len(sent) \in Nat
      BY LenProperties DEF IInv, TypeOK
    <3>3. PICK k \in Nat : k = Len(sent) /\ k > 0
      BY <3>1, <3>2
    <3>4. k = 1 \/ k \in 2..k
      BY ONLY <3>3
    <3>5. Last(sent).type \in {"open", "chunk"}
      BY <3>1, <3>3, <3>4 DEF Last
    <3>6. SingleLineFocus => LineEnds(Shown) = {}
      BY <2>3 DEF IInv, Telling
    <3>7. QED
      BY <3>1, <3>5, <3>6 DEF StreamTellsWhatItShowed
  <2>4. QED
    BY <2>1, <2>2, <2>3
<1>2. QED
  BY <1>1, Invariance, PTL

\* router.go's loop: a request that fails in time, with nothing sent, has been put to
\* every target it may try, except that a stream passes over those in completion mode.
THEOREM NoTargetLeftOutHolds == Spec => []NoTargetLeftOut
<1>1. IInv => NoTargetLeftOut
  BY DEF IInv, EndsWell, NoTargetLeftOut
<1>2. QED
  BY <1>1, Invariance, PTL

\* router.go: the next target is asked only after a provider's error, with nothing
\* shown, for a client that is there.
THEOREM FallbackIsJustifiedHolds == Spec => FallbackIsJustified
<1>1. ASSUME IInv, [Next]_vars, target' > target
      PROVE  /\ ~gone /\ Shown = <<>>
             /\ target > 0 => ended[target] \in ProviderErrors
  <2>1. target \in Nat /\ ~(target > target)
    BY <1>1 DEF IInv, TypeOK
  <2>2. target' # target
    BY <1>1, <2>1
  <2>3. NextTarget
    BY <1>1, <2>2 DEF Next, vars, Upstream, Server, UpstreamRefuses, UpstreamAccepts, UpstreamGarbles,
       StreamEnds, StreamChunk, Completes, AcceptComplete, AcceptStream, Returned, ContextEnds,
       AnswerComplete, AnswerStream, ClientLeaves, RouterTimeout, ProviderTimeout
  <2>4. at = "route" /\ ctx = "live"
    BY <2>2, <2>3 DEF NextTarget, MoreTargets
  <2>5. QED
    BY <1>1, <2>4 DEF IInv, ContextsOK, TargetsOK, Silence, Fresh
<1>2. IInv /\ [Next]_vars =>
        [target' > target =>
           /\ ~gone /\ Shown = <<>>
           /\ target > 0 => ended[target] \in ProviderErrors]_vars
  BY <1>1
<1>3. QED
  BY <1>2, Invariance, PTL DEF Spec, FallbackIsJustified

===============================================================================
