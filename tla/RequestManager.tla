--------------------------- MODULE RequestManager ---------------------------
(***************************************************************************)
(* The editor side of a completion: RequestManager decides, for every call *)
(* of the inline completion provider, whether a cache answers it, whether  *)
(* it joins the run in flight for its document, or whether it supersedes   *)
(* that run with one of its own.                                           *)
(*                                                                         *)
(* A content is all that a request says of the cursor.  Its base is what   *)
(* is hashed of it: the language, the style, the last 2000 characters of   *)
(* the prefix and the first 1000 of the suffix.  Contents of one base may  *)
(* differ in the rest, and so in whether they wait for repository context. *)
(* A suggestion is represented by the base that accepting it leads to, so  *)
(* it stays valid for a longer content exactly while that content is still *)
(* on the way to it.                                                       *)
(*                                                                         *)
(* JavaScript runs one callback at a time.  Timers, engine answers, editor *)
(* events and commands are tasks; a call of the provider and the end of a  *)
(* wait whose signal was aborted come in between (microtasks), before the  *)
(* next task: see Quiet.                                                   *)
(***************************************************************************)
EXTENDS Integers, FiniteSets

CONSTANTS
  Docs,           \* document URIs
  Contents,       \* what requests ask about
  Bases,          \* what is hashed of contents, and what suggestions lead to
  Base,           \* the base of each content
  Below,          \* <<b, g>>: base g is b with some text typed at the cursor
  Typed,          \* <<c, e>>: content e is c with some text typed, the rest alike
  Continues,      \* <<c, e>>: ... short, on one line, same intent and mode
  Full,           \* contents whose request waits for repository context
  Fingerprints,   \* of the repository contexts that may arrive
  NoFp,           \* the fingerprint of a request without repository context
  None,           \* null
  MaxCalls,       \* bound: calls of complete() in a behaviour
  MaxEntries,     \* cache.maxEntries
  CacheEnabled    \* cache.enabled

ASSUME ContentAssumption ==
  /\ Base \in [Contents -> Bases]
  /\ Below \subseteq Bases \X Bases
  /\ \A p, q \in Below : p[2] = q[1] => <<p[1], q[2]>> \in Below
  /\ Typed \subseteq {p \in Contents \X Contents : <<Base[p[1]], Base[p[2]]>> \in Below}
  /\ Continues \subseteq Typed
  /\ Full \subseteq Contents
  /\ \A p \in Continues : p[1] \in Full <=> p[2] \in Full
  /\ None \notin Contents \cup Bases

ASSUME BoundAssumption ==
  /\ MaxCalls \in Nat /\ MaxEntries \in Nat \ {0}
  /\ NoFp \notin Fingerprints
  /\ CacheEnabled \in BOOLEAN

VARIABLES
  active,     \* the run of each document
  run,        \* runs, named by the call that started them
  call,       \* calls of complete()
  cache,      \* answers by base and fingerprint, with the request they were given to
  quick,      \* answers by base alone, kept for two seconds
  negative,   \* keys the engine had nothing for, kept for two seconds
  activity,   \* what the activity callback was last told
  disposed,   \* the extension has been deactivated
  produced    \* history: what the engine answered, and to what

caches == <<cache, quick, negative>>
vars   == <<active, run, call, caches, activity, disposed, produced>>

-----------------------------------------------------------------------------
Calls  == 1..MaxCalls
NoCall == 0
Keys   == Bases \X (Fingerprints \cup {NoFp})

Waits   == {"debounce", "repository"}
Backend == {"engine", "stalled"}
Phases  == {"none", "done"} \cup Waits \cup Backend

\* Accepting t is a way to go on from the base b.
Reaches(b, t) == b = t \/ <<b, t>> \in Below

Unstarted ==
  [phase |-> "none", doc |-> None, content |-> None, fp |-> NoFp,
   aborted |-> FALSE, woken |-> FALSE, timer |-> FALSE, consumer |-> NoCall]

Uncalled ==
  [state |-> "new", content |-> None, run |-> NoCall,
   cancelled |-> FALSE, answer |-> None]

Init ==
  /\ active   = [d \in Docs |-> NoCall]
  /\ run      = [r \in Calls |-> Unstarted]
  /\ call     = [k \in Calls |-> Uncalled]
  /\ cache    = {}
  /\ quick    = [b \in Bases |-> None]
  /\ negative = {}
  /\ activity = "idle"
  /\ disposed = FALSE
  /\ produced = {}

IsCurrent(r)  == active[run[r].doc] = r
InFlight(r)   == run[r].phase \in Waits \cup Backend

\* No aborted wait is about to resume: the next task may run.
Quiet == \A r \in Calls : ~run[r].woken

\* abortNow: a wait that listens to the signal resumes at once.
AbortNow(ru) ==
  [ru EXCEPT !.aborted = TRUE, !.timer = FALSE,
             !.woken = @ \/ (~ru.aborted /\ ru.phase \in Waits)]

\* The abort handler of the latest consumer: before the backend is asked the
\* run stops, afterwards it has 60 ms to find another consumer.
Abandon(ru) ==
  IF ru.phase \in Backend THEN [ru EXCEPT !.timer = TRUE] ELSE AbortNow(ru)

-----------------------------------------------------------------------------
(* complete(): the caches.                                                 *)

\* get: what is stored under the key, whichever request it was given to.
EntriesFor(c, f) == {e \in cache : Base[e.content] = Base[c] /\ e.fp = f}

\* Mutation: the fingerprint of the entry is not compared.
Refines_AnyFp(e, d, c) ==
  e.doc = d /\ <<e.content, c>> \in Typed /\ Reaches(Base[c], e.target)

\* refine: what the user typed since is the beginning of the suggestion.
Refines(e, d, c) ==
  /\ e.doc = d /\ e.fp = NoFp
  /\ <<e.content, c>> \in Typed /\ Reaches(Base[c], e.target)

\* The answers the caches may give.  The code takes the most recent entry
\* that refines; the model any of them.
Cached(d, c) ==
  IF c \in Full
    THEN {quick[Base[c]]} \ {None}
    ELSE LET exact == EntriesFor(c, NoFp)
         IN {e.target : e \in IF exact # {} THEN exact
                              ELSE {e \in cache : Refines(e, d, c)}}

KnownEmpty(c) == c \notin Full /\ <<Base[c], NoFp>> \in negative

\* Calls are numbered in the order they come.
IsNext(k) ==
  /\ ~disposed
  /\ \A j \in Calls : call[j].state = "new" <=> j >= k

Answered(c, x, t) ==
  [state |-> "done", content |-> c, run |-> NoCall,
   cancelled |-> x, answer |-> t]

CachedAnswer(k, d, c, x) ==
  /\ IsNext(k)
  /\ \E t \in Cached(d, c) : call' = [call EXCEPT ![k] = Answered(c, x, t)]
  /\ activity' = "cached"
  /\ UNCHANGED <<active, run, caches, disposed, produced>>

NegativeAnswer(k, d, c, x) ==
  /\ IsNext(k)
  /\ Cached(d, c) = {} /\ KnownEmpty(c)
  /\ call' = [call EXCEPT ![k] = Answered(c, x, None)]
  /\ UNCHANGED <<active, run, caches, activity, disposed, produced>>

-----------------------------------------------------------------------------
(* complete(): the run in flight.                                          *)

Waiting(r, c, x) ==
  [state |-> "waiting", content |-> c, run |-> r,
   cancelled |-> x, answer |-> None]

\* The same key, whatever is not hashed, or a request typed on from the one under
\* way once the backend is at work.
Joinable(d, c) ==
  LET a == active[d] IN
  /\ a # NoCall
  /\ \/ Base[run[a].content] = Base[c]
     \/ run[a].phase \in Backend /\ <<run[a].content, c>> \in Continues

\* Mutation: the pending abort of the consumer before is not cleared.
Taken_TimerKept(ru, k) == [ru EXCEPT !.consumer = k]

\* The joining call becomes the consumer whose cancellation counts.
Taken(ru, k) == [ru EXCEPT !.consumer = k, !.timer = FALSE]

Join(k, d, c, x) ==
  LET a == active[d] IN
  /\ IsNext(k)
  /\ Cached(d, c) = {} /\ ~KnownEmpty(c) /\ Joinable(d, c)
  /\ call' = [call EXCEPT ![k] = Waiting(a, c, x)]
  /\ run' = [run EXCEPT ![a] = IF x THEN Abandon(Taken(@, k)) ELSE Taken(@, k)]
  /\ UNCHANGED <<active, caches, activity, disposed, produced>>

\* Mutation: the run in flight is replaced but goes on.
Superseded_GoesOn(d) == run

\* The runs, once the one in flight for the document has been aborted.
Superseded(d) ==
  [r \in Calls |-> IF r = active[d] THEN AbortNow(run[r]) ELSE run[r]]

\* A signal aborted before the wait starts does not end that wait.
Start(k, d, c, x) ==
  /\ IsNext(k)
  /\ Cached(d, c) = {} /\ ~KnownEmpty(c) /\ ~Joinable(d, c)
  /\ call' = [call EXCEPT ![k] = Waiting(k, c, x)]
  /\ run' = [Superseded(d) EXCEPT ![k] =
               [phase |-> "debounce", doc |-> d, content |-> c, fp |-> NoFp,
                aborted |-> x, woken |-> FALSE, timer |-> FALSE,
                consumer |-> k]]
  /\ active' = [active EXCEPT ![d] = k]
  /\ UNCHANGED <<caches, activity, disposed, produced>>

Complete(k, d, c, x) ==
  \/ CachedAnswer(k, d, c, x)
  \/ NegativeAnswer(k, d, c, x)
  \/ Join(k, d, c, x)
  \/ Start(k, d, c, x)

-----------------------------------------------------------------------------
(* Cancellation.                                                           *)

Decides(k) == run[call[k].run].consumer = k

\* The editor cancels a call that has not been answered.
SourceAbort(k) ==
  LET r == call[k].run IN
  /\ Quiet
  /\ call[k].state = "waiting" /\ ~call[k].cancelled
  /\ call' = [call EXCEPT ![k].cancelled = TRUE]
  /\ run' = IF Decides(k) THEN [run EXCEPT ![r] = Abandon(@)] ELSE run
  /\ UNCHANGED <<active, caches, activity, disposed, produced>>

\* Nobody joined within 60 ms.
GraceElapsed(r) ==
  /\ Quiet
  /\ run[r].timer
  /\ run' = [run EXCEPT ![r] = AbortNow(@)]
  /\ UNCHANGED <<active, call, caches, activity, disposed, produced>>

Cancel(d) ==
  /\ Quiet
  /\ active[d] # NoCall
  /\ run' = Superseded(d)
  /\ UNCHANGED <<active, call, caches, activity, disposed, produced>>

AllAborted ==
  [r \in Calls |-> IF \E d \in Docs : active[d] = r
                     THEN AbortNow(run[r]) ELSE run[r]]

CancelAll ==
  /\ Quiet
  /\ run' = AllAborted
  /\ UNCHANGED <<active, call, caches, activity, disposed, produced>>

ClearCache ==
  /\ Quiet
  /\ cache' = {} /\ negative' = {}
  /\ quick' = [b \in Bases |-> None]
  /\ UNCHANGED <<active, run, call, activity, disposed, produced>>

Dispose ==
  /\ Quiet /\ ~disposed
  /\ disposed' = TRUE
  /\ run' = AllAborted
  /\ active' = [d \in Docs |-> NoCall]
  /\ cache' = {} /\ negative' = {}
  /\ quick' = [b \in Bases |-> None]
  /\ UNCHANGED <<call, activity, produced>>

-----------------------------------------------------------------------------
(* A run.                                                                  *)

\* refineActiveCompletion
Refined(c, t) == IF t # None /\ Reaches(Base[c], t) THEN t ELSE None

\* Mutation: the answer goes to the latest consumer only.
Awaits_Latest(k, r) ==
  call[k].state = "waiting" /\ call[k].run = r /\ run[r].consumer = k

Awaits(k, r) == call[k].state = "waiting" /\ call[k].run = r

\* Mutation: an aborted run leaves the status as it was.
Announces_Unaborted(r) == IsCurrent(r) /\ ~run[r].aborted

Announces(r) == IsCurrent(r)

\* run()'s finally block, and the answer to everyone who awaits the promise.
Finish(r, t, before) ==
  /\ run' = [run EXCEPT ![r].phase = "done", ![r].woken = FALSE,
                        ![r].timer = @ /\ ~IsCurrent(r)]
  /\ active' = IF IsCurrent(r) THEN [active EXCEPT ![run[r].doc] = NoCall]
               ELSE active
  /\ activity' = IF Announces(r) THEN "ready" ELSE before
  /\ call' = [k \in Calls |->
                IF Awaits(k, r)
                  THEN [call[k] EXCEPT !.state = "done",
                                       !.answer = Refined(call[k].content, t)]
                  ELSE call[k]]

AskEngine(r, f) ==
  /\ run' = [run EXCEPT ![r].phase = "engine", ![r].fp = f,
                        ![r].woken = FALSE]
  /\ activity' = "thinking"
  /\ UNCHANGED <<active, call>>

\* The timer of the wait has fired, or its signal was aborted.
WaitOver(r) == Quiet \/ run[r].woken

DebounceOver(r) ==
  /\ run[r].phase = "debounce" /\ WaitOver(r)
  /\ \/ run[r].aborted /\ Finish(r, None, activity)
     \/ /\ ~run[r].aborted /\ run[r].content \in Full
        /\ run' = [run EXCEPT ![r].phase = "repository"]
        /\ UNCHANGED <<active, call, activity>>
     \/ ~run[r].aborted /\ run[r].content \notin Full /\ AskEngine(r, NoFp)
  /\ UNCHANGED <<caches, disposed, produced>>

\* The context arrives within 10 ms or not at all.  An abort ends the wait,
\* but only the engine looks at the signal.
RepositoryOver(r) ==
  LET c == run[r].content IN
  /\ run[r].phase = "repository" /\ WaitOver(r)
  /\ \E f \in {NoFp} \cup (IF run[r].aborted THEN {} ELSE Fingerprints) :
       \/ \E e \in EntriesFor(c, f) : Finish(r, e.target, "cached")
       \/ EntriesFor(c, f) = {} /\ AskEngine(r, f)
  /\ UNCHANGED <<caches, disposed, produced>>

Wanted(r) == ~run[r].aborted /\ IsCurrent(r)

\* Mutation: the key computed before the repository context arrived.
KeyOf_Early(r) == <<Base[run[r].content], NoFp>>

KeyOf(r) == <<Base[run[r].content], run[r].fp>>

\* What may be left of the entries to make room for one.  The code drops the
\* least recently used, the model any.
Trimmed(es) ==
  IF Cardinality(es) < MaxEntries THEN {es} ELSE {es \ {e} : e \in es}

\* set: the entry replaces the one of its key.
Store(r, t) ==
  LET new   == [content |-> run[r].content, fp |-> KeyOf(r)[2],
                doc |-> run[r].doc, target |-> t]
      older == cache \ EntriesFor(new.content, new.fp)
  IN
  /\ \E kept \in Trimmed(older) : cache' = kept \cup {new}
  /\ quick' = [quick EXCEPT ![KeyOf(r)[1]] = t]

\* The engine awaits the rest of a response whose headers have come: neither the
\* time-out nor an abort reaches it any more.
EngineStalls(r) ==
  /\ Quiet
  /\ run[r].phase = "engine"
  /\ run' = [run EXCEPT ![r].phase = "stalled"]
  /\ UNCHANGED <<active, call, caches, activity, disposed, produced>>

EngineReturns(r) ==
  /\ Quiet
  /\ run[r].phase \in Backend
  /\ \E t \in {None} \cup {b \in Bases : <<Base[run[r].content], b>> \in Below} :
       /\ produced' = IF run[r].aborted THEN produced
                      ELSE produced \cup {<<run[r].content, run[r].fp, t>>}
       /\ \/ ~Wanted(r) /\ Finish(r, None, activity) /\ UNCHANGED caches
          \/ /\ Wanted(r) /\ t # None
             /\ Finish(r, t, activity)
             /\ IF CacheEnabled THEN Store(r, t)
                ELSE UNCHANGED <<cache, quick>>
             /\ UNCHANGED negative
          \/ /\ Wanted(r) /\ t = None
             /\ Finish(r, None, activity)
             /\ negative' = negative \cup {KeyOf(r)}
             /\ UNCHANGED <<cache, quick>>
  /\ UNCHANGED disposed

\* An entry outlives its time.
Expire ==
  /\ \/ \E e \in cache : cache' = cache \ {e} /\ UNCHANGED <<quick, negative>>
     \/ \E b \in Bases : /\ quick[b] # None
                         /\ quick' = [quick EXCEPT ![b] = None]
                         /\ UNCHANGED <<cache, negative>>
     \/ \E n \in negative : /\ negative' = negative \ {n}
                            /\ UNCHANGED <<cache, quick>>
  /\ UNCHANGED <<active, run, call, activity, disposed, produced>>

RunStep(r) == DebounceOver(r) \/ RepositoryOver(r) \/ EngineReturns(r)

Next ==
  \/ \E k \in Calls, d \in Docs, c \in Contents, x \in BOOLEAN :
       Complete(k, d, c, x)
  \/ \E k \in Calls : SourceAbort(k)
  \/ \E r \in Calls : RunStep(r) \/ EngineStalls(r) \/ GraceElapsed(r)
  \/ \E d \in Docs : Cancel(d)
  \/ CancelAll \/ ClearCache \/ Dispose \/ Expire

\* Timers fire, and requests of the engine's client end within a time-out while
\* their headers are due.  Nothing is assumed of a run that has stalled.
Stalled(r) == r \in Calls /\ run[r].phase = "stalled"

Settles(r) == ~Stalled(r) /\ RunStep(r)

Fairness == \A r \in Calls : WF_vars(Settles(r)) /\ WF_vars(GraceElapsed(r))

Spec     == Init /\ [][Next]_vars
FairSpec == Spec /\ Fairness

-----------------------------------------------------------------------------
(* Properties.                                                             *)

RunType ==
  [phase : Phases, doc : Docs \cup {None}, content : Contents \cup {None},
   fp : Fingerprints \cup {NoFp}, aborted : BOOLEAN, woken : BOOLEAN,
   timer : BOOLEAN, consumer : Calls \cup {NoCall}]

CallType ==
  [state : {"new", "waiting", "done"}, content : Contents \cup {None},
   run : Calls \cup {NoCall}, cancelled : BOOLEAN,
   answer : Bases \cup {None}]

EntryType ==
  [content : Contents, fp : Fingerprints \cup {NoFp}, doc : Docs,
   target : Bases]

TypeOK ==
  /\ active \in [Docs -> Calls \cup {NoCall}]
  /\ run \in [Calls -> RunType]
  /\ call \in [Calls -> CallType]
  /\ cache \subseteq EntryType
  /\ Cardinality(cache) <= MaxEntries
  /\ quick \in [Bases -> Bases \cup {None}]
  /\ negative \subseteq Keys
  /\ activity \in {"idle", "thinking", "cached", "ready"}
  /\ disposed \in BOOLEAN
  /\ produced \subseteq Contents \X (Fingerprints \cup {NoFp})
                                 \X (Bases \cup {None})

\* A document has one request under way that may still be answered: every run
\* that is not aborted is the one `active` names, so superseding, cancelling
\* and disposing reach it (the identity checks of run() and complete()).
LiveIsCurrent ==
  \A r \in Calls : InFlight(r) /\ ~run[r].aborted => IsCurrent(r)

\* A run goes on exactly for its latest consumer: it is about to be abandoned
\* if that consumer was cancelled, and only then, whatever earlier consumers
\* did and whoever joined while the 60 ms were running (bindCancellation).
LatestConsumerDecides ==
  \A r \in Calls :
    InFlight(r) /\ ~run[r].aborted =>
      (run[r].timer <=> call[run[r].consumer].cancelled)

\* What a call is answered fits what its caller had typed by then, however
\* many continuations joined a run and wherever a cached entry comes from;
\* and a request that does not wait for repository context is answered by a
\* suggestion computed with one only when it joined a run in flight under its
\* own key: the caches never give it one (key, get, refine, reuse).
AnswersFit ==
  \A k \in Calls :
    LET c == call[k].content
        t == call[k].answer
    IN
    t # None =>
      /\ Reaches(Base[c], t)
      /\ \E p \in produced :
           /\ Reaches(Base[p[1]], Base[c]) /\ p[3] = t
           /\ \/ p[2] = NoFp \/ c \in Full
              \/ call[k].run # NoCall /\ Base[p[1]] = Base[c]

\* Every cache entry is an answer the engine gave to a request with exactly the
\* key it is stored under, although the fingerprint arrives after the key was
\* first computed; and a cancelled request leaves no trace: only an answer the
\* engine was left to finish counts as "nothing here".
CacheFaithful ==
  /\ \A e \in cache : <<e.content, e.fp, e.target>> \in produced
  /\ \A b \in Bases :
       quick[b] # None => \E p \in produced : Base[p[1]] = b /\ p[3] = quick[b]
  /\ \A n \in negative :
       \E p \in produced : Base[p[1]] = n[1] /\ p[2] = n[2] /\ p[3] = None

\* Every call is answered, whether its run ends, is aborted while it waits or
\* at the backend, or is superseded; only a run whose response stalls after
\* its headers may keep its callers, and an abort does not free them.
EveryCallAnswered ==
  \A k \in Calls :
    call[k].state = "waiting" ~> call[k].state = "done" \/ Stalled(call[k].run)

\* While a document has a run, the status will still go to "ready", however
\* often that run is superseded, cancelled or answered from a cache, unless
\* its response stalls.  (A run that was superseded while it waited for context
\* announces "thinking" once more and never "ready": nothing is claimed of the
\* status after that.)
RunsEndReady ==
  \A d \in Docs :
    active[d] # NoCall ~>
      activity = "ready" \/ disposed \/ Stalled(active[d])

=============================================================================
